---------------------------- MODULE EnvelopeProofs ----------------------------
(***************************************************************************)
(* Proofs about Envelope for any number of people, handlers and mints:     *)
(* type correctness, the inductive invariant IInv, the safety properties   *)
(* it implies, and that Envelope implements EnvelopeAbs.                   *)
(*                                                                         *)
(* The invariant is proved part by part.  WhoWrites names the only actions *)
(* that touch the rows it is about, and Entered says how a handler comes   *)
(* to each stage it speaks of, so each part looks at a few actions only.   *)
(***************************************************************************)
EXTENDS Envelope, TLAPS

\* What a handler's stage carries.
LEMMA StageFields ==
    ASSUME NEW s \in Stage
    PROVE  /\ s.at \in {"view", "consent", "claim"} =>
                 s.rc \in Recipients /\ s.tok \in 1..MaxMints
           /\ s.at = "decide" => s.seen \in [Recipients -> RcStatus]
           /\ s.at \in {"dispatch", "invite"} => s.todo \subseteq Link
           /\ s.at \in {"reissue", "resend", "remind", "rotate"} => s.rc \in Recipients
           /\ s.at = "rotate" => s.count \in Nat
           /\ s.at \in {"mail", "nudge"} => s.link \in Link
BY DEF Stage


\* The stages the actions move a handler to.
LEMMA PlainStages ==
    \A a \in {"idle", "advance", "seal", "rollback", "void", "retire", "retiring"} :
        [at |-> a] \in Stage
BY DEF Stage

\* A handler at rest is at a stage.
LEMMA IdleStage == Idle \in Stage
BY PlainStages DEF Idle

\* ... the stages that carry a link or a token,
LEMMA LinkStages ==
    /\ \A a \in {"view", "consent", "claim"}, r \in Recipients, n \in 1..MaxMints :
           [at |-> a, rc |-> r, tok |-> n] \in Stage
    /\ \A a \in {"dispatch", "invite"}, T \in SUBSET Link : [at |-> a, todo |-> T] \in Stage
    /\ \A a \in {"mail", "nudge"}, l \in Link : [at |-> a, link |-> l] \in Stage
BY DEF Stage

\* ... and those that carry what was read from the rows.
LEMMA RowStages ==
    /\ \A f \in [Recipients -> RcStatus] : [at |-> "decide", seen |-> f] \in Stage
    /\ \A a \in {"reissue", "resend", "remind"}, r \in Recipients : [at |-> a, rc |-> r] \in Stage
    /\ \A r \in Recipients, c \in Nat : [at |-> "rotate", rc |-> r, count |-> c] \in Stage
BY DEF Stage

\* Moving a handler to a stage keeps h well typed.
LEMMA BecomeTyped ==
    ASSUME NEW p \in Handlers, NEW s \in Stage, h \in [Handlers -> Stage], Become(p, s)
    PROVE  h' \in [Handlers -> Stage]
BY DEF Become

\* The initial state is well typed.
LEMMA TypeInit == Init => TypeOK
<1> SUFFICES ASSUME Init PROVE TypeOK
    OBVIOUS
<1>1. h \in [Handlers -> Stage]
    BY IdleStage DEF Init
<1>2. rcStatus \in [Recipients -> RcStatus] /\ env \in EnvStatus
    BY DEF Init, RcStatus, EnvStatus
<1>3. uses \in [Recipients -> [1..MaxMints -> Nat]]
    BY DEF Init
<1>4. pastExpiry \in BOOLEAN /\ sealJob \in BOOLEAN
    BY DEF Init
<1>5. consent \in [Recipients -> BOOLEAN] /\ ripe \in [Recipients -> BOOLEAN]
    BY DEF Init
<1>6. hash \in [Recipients -> 0..MaxMints] /\ mints \in [Recipients -> 0..MaxMints]
    BY ConstantsAssumption DEF Init
<1>7. jobs \subseteq Job
    BY DEF Init
<1>8. inbox \in [Recipients -> SUBSET (1..MaxMints)]
    BY DEF Init
<1>9. reminders \in [Recipients -> Nat] /\ window \in [Recipients -> Nat]
    BY DEF Init
<1>10. QED BY <1>1, <1>2, <1>3, <1>4, <1>5, <1>6, <1>7, <1>8, <1>9 DEF TypeOK

\* A step that only moves one handler on.
LEMMA HandlerStepTyped ==
    ASSUME TypeOK, NEW p \in Handlers, NEW s \in Stage, Become(p, s),
           UNCHANGED <<rows, pastExpiry, mail, sealJob, mints, uses, window>>
    PROVE  TypeOK'
<1>1. h' \in [Handlers -> Stage]
    BY BecomeTyped DEF TypeOK
<1>2. QED BY <1>1 DEF TypeOK, rows, mail

\* The links made for members of R exist within the bound.
LEMMA MintTyped ==
    ASSUME TypeOK, NEW R \in SUBSET Recipients, Mintable(R)
    PROVE  /\ Minted(R) \in [Recipients -> 0..MaxMints]
           /\ NewLinks(R) \subseteq Link
           /\ \A r \in R : mints[r] + 1 \in 1..MaxMints
BY ConstantsAssumption DEF TypeOK, Mintable, Minted, NewLinks, Link

\* Putting a link in the queue keeps the queue well typed.
LEMMA EnqueuedTyped ==
    ASSUME TypeOK, NEW k \in {"send", "route", "resend"}, NEW l \in Link
    PROVE  Enqueued(k, l) \subseteq Job
BY DEF TypeOK, Enqueued, Job

\* A conditional update leaves the envelope with a status.
LEMMA SettleTyped ==
    ASSUME TypeOK, NEW F, NEW t \in EnvStatus
    PROVE  Settle(F, t) \in EnvStatus
BY DEF TypeOK, Settle

\* Stripping hashes leaves hashes.
LEMMA StrippedTyped == TypeOK => Stripped \in [Recipients -> 0..MaxMints]
BY ConstantsAssumption DEF TypeOK, Stripped

\* A delivered link lands in its recipient's inbox.
LEMMA ReceiveTyped ==
    ASSUME TypeOK, NEW l \in Link, Receive(l)
    PROVE  inbox' \in [Recipients -> SUBSET (1..MaxMints)]
<1>1. l[1] \in Recipients /\ l[2] \in 1..MaxMints
    BY DEF Link
<1>2. QED BY <1>1 DEF TypeOK, Receive

\* One more use of a link is a count of uses.
LEMMA UseCounted ==
    ASSUME NEW u \in [Recipients -> [1..MaxMints -> Nat]],
           NEW r \in Recipients, NEW n \in 1..MaxMints
    PROVE  [u EXCEPT ![r][n] = @ + 1] \in [Recipients -> [1..MaxMints -> Nat]]
<1>1. u[r] \in [1..MaxMints -> Nat]
    OBVIOUS
<1>2. [u[r] EXCEPT ![n] = u[r][n] + 1] \in [1..MaxMints -> Nat]
    BY <1>1
<1>3. QED BY <1>2

\* Every step keeps the variables well typed.
LEMMA TypeStep == TypeOK /\ [Next]_vars => TypeOK'
<1> SUFFICES ASSUME TypeOK, [Next]_vars PROVE TypeOK'
    OBVIOUS
<1> USE DEF At
<1>h. \A p \in Handlers : h[p] \in Stage
    BY DEF TypeOK
<1>1. ASSUME NEW p \in Handlers, Start(p) PROVE TypeOK'
  <2>1. CASE Send(p)
    <3> DEFINE new == NewLinks(InvitedNow)
    <3>1. InvitedNow \in SUBSET Recipients
        BY DEF InvitedNow, Signers
    <3>2. /\ mints' \in [Recipients -> 0..MaxMints]
          /\ new \subseteq Link
          /\ \A r \in InvitedNow : mints[r] + 1 \in 1..MaxMints
        BY <2>1, <3>1, MintTyped DEF Send
    <3>3. [at |-> "dispatch", todo |-> new] \in Stage
        BY <3>2, LinkStages
    <3>4. h' \in [Handlers -> Stage]
        BY <2>1, <3>3, BecomeTyped DEF Send, TypeOK
    <3>5. hash' \in [Recipients -> 0..MaxMints]
        BY <2>1, <3>2, ConstantsAssumption DEF Send
    <3>6. rcStatus' \in [Recipients -> RcStatus] /\ env' \in EnvStatus
        BY <2>1 DEF Send, RcStatus, EnvStatus
    <3>7. window' \in [Recipients -> Nat]
        BY <2>1 DEF Send
    <3>8. QED BY <2>1, <3>2, <3>4, <3>5, <3>6, <3>7 DEF Send, TypeOK, mail
  <2>2. CASE VoidRead(p)
    BY <2>2, PlainStages, HandlerStepTyped DEF VoidRead
  <2>3. CASE ExpireFind(p)
    BY <2>3, PlainStages, HandlerStepTyped DEF ExpireFind
  <2>4. ASSUME NEW r \in Recipients, Resend(p, r) \/ Remind(p, r) \/ RemindFind(p, r)
        PROVE  TypeOK'
    <3>1. \A a \in {"reissue", "resend", "remind"} : [at |-> a, rc |-> r] \in Stage
        BY RowStages
    <3>2. CASE Resend(p, r)
        BY <3>1, <3>2, HandlerStepTyped DEF Resend
    <3>3. CASE Remind(p, r)
        BY <3>1, <3>3, HandlerStepTyped DEF Remind
    <3>4. CASE RemindFind(p, r)
        BY <3>1, <3>4, HandlerStepTyped DEF RemindFind
    <3>5. QED BY <2>4, <3>2, <3>3, <3>4
  <2>5. ASSUME NEW r \in Recipients, NEW n \in 1..MaxMints,
               ViewLoad(p, r, n) \/ ConsentLoad(p, r, n) \/ SubmitLoad(p, r, n)
        PROVE  TypeOK'
    <3>1. \A a \in {"view", "consent", "claim"} : [at |-> a, rc |-> r, tok |-> n] \in Stage
        BY LinkStages
    <3>2. CASE ViewLoad(p, r, n)
        BY <3>1, <3>2, HandlerStepTyped DEF ViewLoad
    <3>3. CASE ConsentLoad(p, r, n)
        BY <3>1, <3>3, HandlerStepTyped DEF ConsentLoad
    <3>4. CASE SubmitLoad(p, r, n)
        BY <3>1, <3>4, HandlerStepTyped DEF SubmitLoad
    <3>5. QED BY <2>5, <3>2, <3>3, <3>4
  <2>6. QED BY <1>1, <2>1, <2>2, <2>3, <2>4, <2>5 DEF Start
<1>2. ASSUME NEW p \in Handlers, Continue(p) PROVE TypeOK'
  <2> DEFINE s == h[p]
  <2>f. /\ s.at \in {"view", "consent", "claim"} =>
                 s.rc \in Recipients /\ s.tok \in 1..MaxMints
        /\ s.at = "decide" => s.seen \in [Recipients -> RcStatus]
        /\ s.at \in {"dispatch", "invite"} => s.todo \subseteq Link
        /\ s.at \in {"reissue", "resend", "remind", "rotate"} => s.rc \in Recipients
        /\ s.at = "rotate" => s.count \in Nat
        /\ s.at \in {"mail", "nudge"} => s.link \in Link
    BY <1>h, StageFields
  <2>i. Idle \in Stage /\ \A t : Become(p, t) /\ t \in Stage => h' \in [Handlers -> Stage]
    BY IdleStage, BecomeTyped DEF TypeOK
  <2>1. CASE DispatchInvite(p)
    <3>1. PICK l \in s.todo :
             /\ jobs' = Enqueued("send", l)
             /\ Become(p, IF s.todo \ {l} = {} THEN Idle
                                  ELSE [at |-> "dispatch", todo |-> s.todo \ {l}])
        BY <2>1 DEF DispatchInvite
    <3>2. s.todo \ {l} \in SUBSET Link /\ l \in Link
        BY <2>1, <2>f DEF DispatchInvite
    <3>3. [at |-> "dispatch", todo |-> s.todo \ {l}] \in Stage
        BY <3>2, LinkStages
    <3>4. h' \in [Handlers -> Stage]
        BY <3>1, <3>3, <2>i
    <3>5. jobs' \subseteq Job
        BY <3>1, <3>2, EnqueuedTyped
    <3>6. QED BY <2>1, <3>4, <3>5 DEF DispatchInvite, TypeOK, rows
  <2>2. CASE DispatchFail(p)
    <3>1. [at |-> "rollback"] \in Stage
        BY PlainStages
    <3>2. h' \in [Handlers -> Stage]
        BY <2>2, <3>1, <2>i DEF DispatchFail
    <3>3. PICK l \in s.todo : jobs' \in {jobs, Enqueued("send", l)}
        BY <2>2 DEF DispatchFail
    <3>4. jobs' \subseteq Job
        BY <2>2, <2>f, <3>3, EnqueuedTyped DEF DispatchFail, TypeOK
    <3>5. QED BY <2>2, <3>2, <3>4 DEF DispatchFail, TypeOK, rows
  <2>3. CASE Rollback(p)
    <3>1. h' \in [Handlers -> Stage]
        BY <2>3, <2>i DEF Rollback
    <3>2. /\ rcStatus' \in [Recipients -> RcStatus]
          /\ hash' \in [Recipients -> 0..MaxMints]
          /\ env' \in EnvStatus
        BY <2>3, ConstantsAssumption DEF Rollback, RcStatus, EnvStatus
    <3>3. QED BY <2>3, <3>1, <3>2 DEF Rollback, TypeOK, mail
  <2>4. CASE ViewWrite(p)
    <3>1. h' \in [Handlers -> Stage]
        BY <2>4, <2>i DEF ViewWrite
    <3>2. rcStatus' \in [Recipients -> RcStatus]
        BY <2>4, <2>f DEF ViewWrite, TypeOK, RcStatus
    <3>3. env' \in EnvStatus
        BY <2>4, SettleTyped DEF ViewWrite, EnvStatus
    <3>4. QED BY <2>4, <3>1, <3>2, <3>3 DEF ViewWrite, TypeOK, mail
  <2>5. CASE ConsentWrite(p)
    <3>1. h' \in [Handlers -> Stage]
        BY <2>5, <2>i DEF ConsentWrite
    <3>2. consent' \in [Recipients -> BOOLEAN]
        BY <2>5 DEF ConsentWrite, TypeOK, Active
    <3>3. QED BY <2>5, <3>1, <3>2 DEF ConsentWrite, TypeOK, mail
  <2>6. CASE Claim(p)
    <3>1. s.rc \in Recipients /\ s.tok \in 1..MaxMints
        BY <2>6, <2>f DEF Claim
    <3>2. AfterClaim \in Stage
        BY PlainStages DEF AfterClaim
    <3>3. h' \in [Handlers -> Stage]
        BY <2>6, <3>2, <2>i DEF Claim
    <3>4. rcStatus' \in [Recipients -> RcStatus]
        BY <2>6, <3>1 DEF Claim, TypeOK, RcStatus
    <3>5. uses' \in [Recipients -> [1..MaxMints -> Nat]]
      <4>0. uses \in [Recipients -> [1..MaxMints -> Nat]]
          BY DEF TypeOK
      <4>1. \/ uses' = uses
            \/ uses' = [uses EXCEPT ![s.rc][s.tok] = @ + 1]
          BY <2>6 DEF Claim
      <4>2. [uses EXCEPT ![s.rc][s.tok] = @ + 1] \in [Recipients -> [1..MaxMints -> Nat]]
          BY <4>0, <3>1, UseCounted
      <4>3. QED BY <4>0, <4>1, <4>2
    <3>6. QED BY <2>6, <3>3, <3>4, <3>5 DEF Claim, TypeOK, mail
  <2>7. CASE AdvanceRead(p)
    <3>1. [at |-> "decide", seen |-> rcStatus] \in Stage
        BY RowStages DEF TypeOK
    <3>2. QED BY <2>7, <3>1, <2>i, HandlerStepTyped DEF AdvanceRead
  <2>8. CASE AdvanceComplete(p)
    <3>1. h' \in [Handlers -> Stage]
        BY <2>8, <2>i, PlainStages DEF AdvanceComplete
    <3>2. env' \in EnvStatus
        BY <2>8, SettleTyped DEF AdvanceComplete, EnvStatus
    <3>3. QED BY <2>8, <3>1, <3>2 DEF AdvanceComplete, TypeOK, mail
  <2>9. CASE AdvanceHandOff(p)
    <3> DEFINE group   == NextGroup(s.seen)
               called  == group \cap Signers
               entered == {r \in called : rcStatus[r] = "pending"}
               copied  == {r \in group \ Signers : rcStatus[r] # "gone"}
    <3>1. called \in SUBSET Recipients /\ entered \subseteq called
        BY DEF Signers
    <3>2. /\ mints' \in [Recipients -> 0..MaxMints]
          /\ NewLinks(called) \subseteq Link
          /\ \A r \in called : mints[r] + 1 \in 1..MaxMints
        BY <2>9, <3>1, MintTyped DEF AdvanceHandOff
    <3>3. [at |-> "invite", todo |-> NewLinks(called)] \in Stage
        BY <3>2, LinkStages
    <3>4. h' \in [Handlers -> Stage]
        BY <2>9, <3>3, <2>i DEF AdvanceHandOff
    <3>5. rcStatus' \in [Recipients -> RcStatus]
      <4>1. rcStatus' = [r \in Recipients |->
                           IF r \in entered \cup copied THEN "sent" ELSE rcStatus[r]]
          BY <2>9 DEF AdvanceHandOff
      <4>2. QED BY <4>1 DEF TypeOK, RcStatus
    <3>6. hash' \in [Recipients -> 0..MaxMints]
      <4>1. hash' = [r \in Recipients |-> IF r \in entered THEN mints[r] + 1 ELSE hash[r]]
          BY <2>9 DEF AdvanceHandOff
      <4>2. QED BY <4>1, <3>1, <3>2, ConstantsAssumption DEF TypeOK
    <3>7. window' \in [Recipients -> Nat]
      <4>1. window' = [r \in Recipients |-> IF r \in entered THEN 1 ELSE window[r]]
          BY <2>9 DEF AdvanceHandOff
      <4>2. QED BY <4>1 DEF TypeOK
    <3>8. QED BY <2>9, <3>2, <3>4, <3>5, <3>6, <3>7 DEF AdvanceHandOff, TypeOK, mail
  <2>10. CASE AdvanceNothing(p)
    BY <2>10, IdleStage, HandlerStepTyped DEF AdvanceNothing
  <2>11. CASE RouteInvite(p)
    <3>1. PICK l \in s.todo :
             /\ jobs' = Enqueued("route", l) \/ jobs' = jobs
             /\ Become(p, IF s.todo \ {l} = {} THEN Idle
                                  ELSE [at |-> "invite", todo |-> s.todo \ {l}])
        BY <2>11 DEF RouteInvite
    <3>2. s.todo \ {l} \in SUBSET Link /\ l \in Link
        BY <2>11, <2>f DEF RouteInvite
    <3>3. [at |-> "invite", todo |-> s.todo \ {l}] \in Stage
        BY <3>2, LinkStages
    <3>4. h' \in [Handlers -> Stage]
        BY <3>1, <3>3, <2>i
    <3>5. jobs' \subseteq Job
        BY <3>1, <3>2, EnqueuedTyped DEF TypeOK
    <3>6. QED BY <2>11, <3>4, <3>5 DEF RouteInvite, TypeOK, rows
  <2>12. CASE EnqueueSeal(p)
    <3>1. h' \in [Handlers -> Stage]
        BY <2>12, <2>i DEF EnqueueSeal
    <3>2. sealJob' \in BOOLEAN
        BY <2>12 DEF EnqueueSeal, TypeOK
    <3>3. QED BY <2>12, <3>1, <3>2 DEF EnqueueSeal, TypeOK, rows, mail
  <2>13. CASE VoidWrite(p)
    <3>2. h' \in [Handlers -> Stage]
        BY <2>13, <2>i DEF VoidWrite
    <3>3. env' \in EnvStatus
        BY <2>13, SettleTyped DEF VoidWrite, EnvStatus
    <3>4. hash' \in [Recipients -> 0..MaxMints]
        BY <2>13, StrippedTyped DEF VoidWrite
    <3>5. QED BY <2>13, <3>2, <3>3, <3>4 DEF VoidWrite, TypeOK, mail
  <2>15. CASE ResendRead(p)
    <3>1. [at |-> "resend", rc |-> s.rc] \in Stage
        BY <2>15, <2>f, RowStages DEF ResendRead
    <3>2. QED BY <2>15, <3>1, <2>i, HandlerStepTyped DEF ResendRead
  <2>16. CASE ResendWrite(p)
    <3> DEFINE r == s.rc
    <3>1. r \in Recipients
        BY <2>16, <2>f DEF ResendWrite
    <3>2. mints' \in [Recipients -> 0..MaxMints] /\ mints[r] + 1 \in 1..MaxMints
        BY <2>16, <3>1, MintTyped DEF ResendWrite
    <3>3. [at |-> "mail", link |-> <<r, mints[r] + 1>>] \in Stage
        BY <3>1, <3>2, LinkStages DEF Link
    <3>4. h' \in [Handlers -> Stage]
        BY <2>16, <3>3, <2>i DEF ResendWrite
    <3>5. rcStatus' \in [Recipients -> RcStatus]
        BY <2>16 DEF ResendWrite, TypeOK, RcStatus
    <3>6. hash' \in [Recipients -> 0..MaxMints]
      <4>1. hash' = hash \/ hash' = [hash EXCEPT ![r] = mints[r] + 1]
          BY <2>16 DEF ResendWrite
      <4>2. mints[r] + 1 \in 0..MaxMints
          BY <3>2, ConstantsAssumption
      <4>3. hash \in [Recipients -> 0..MaxMints]
          BY DEF TypeOK
      <4>4. QED BY <4>1, <4>2, <4>3
    <3>7. window' \in [Recipients -> Nat]
      <4>1. window' = window \/ window' = [window EXCEPT ![r] = @ + 1]
          BY <2>16 DEF ResendWrite
      <4>2. window[r] + 1 \in Nat /\ window \in [Recipients -> Nat]
          BY <3>1 DEF TypeOK
      <4>3. QED BY <4>1, <4>2
    <3>8. ripe' \in [Recipients -> BOOLEAN]
        BY <2>16 DEF ResendWrite, TypeOK
    <3>9. QED BY <2>16, <3>2, <3>4, <3>5, <3>6, <3>7, <3>8
              DEF ResendWrite, TypeOK, mail
  <2>17. CASE ResendMail(p)
    <3>1. h' \in [Handlers -> Stage]
        BY <2>17, <2>i DEF ResendMail
    <3>2. jobs' \subseteq Job
        BY <2>17, <2>f, EnqueuedTyped DEF ResendMail, TypeOK
    <3>3. QED BY <2>17, <3>1, <3>2 DEF ResendMail, TypeOK, rows
  <2>18. CASE RemindRead(p)
    <3>1. [at |-> "rotate", rc |-> s.rc, count |-> reminders[s.rc]] \in Stage
        BY <2>18, <2>f, RowStages DEF RemindRead, TypeOK
    <3>2. QED BY <2>18, <3>1, <2>i, HandlerStepTyped DEF RemindRead
  <2>19. CASE RemindClaim(p)
    <3> DEFINE r == s.rc
    <3>1. r \in Recipients
        BY <2>19, <2>f DEF RemindClaim
    <3>2. mints' \in [Recipients -> 0..MaxMints] /\ mints[r] + 1 \in 1..MaxMints
        BY <2>19, <3>1, MintTyped DEF RemindClaim
    <3>3. [at |-> "nudge", link |-> <<r, mints[r] + 1>>] \in Stage
        BY <3>1, <3>2, LinkStages DEF Link
    <3>4. h' \in [Handlers -> Stage]
        BY <2>19, <3>3, <2>i DEF RemindClaim
    <3>5. hash' \in [Recipients -> 0..MaxMints]
      <4>1. hash' = hash \/ hash' = [hash EXCEPT ![r] = mints[r] + 1]
          BY <2>19 DEF RemindClaim
      <4>2. mints[r] + 1 \in 0..MaxMints
          BY <3>2, ConstantsAssumption
      <4>3. hash \in [Recipients -> 0..MaxMints]
          BY DEF TypeOK
      <4>4. QED BY <4>1, <4>2, <4>3
    <3>6. reminders' \in [Recipients -> Nat]
      <4>1. reminders' = reminders \/ reminders' = [reminders EXCEPT ![r] = @ + 1]
          BY <2>19 DEF RemindClaim
      <4>2. reminders[r] + 1 \in Nat /\ reminders \in [Recipients -> Nat]
          BY <3>1 DEF TypeOK
      <4>3. QED BY <4>1, <4>2
    <3>7. ripe' \in [Recipients -> BOOLEAN]
        BY <2>19 DEF RemindClaim, TypeOK
    <3>8. QED BY <2>19, <3>2, <3>4, <3>5, <3>6, <3>7 DEF RemindClaim, TypeOK, mail
  <2>20. CASE Nudge(p)
    <3>1. h' \in [Handlers -> Stage]
        BY <2>20, <2>i DEF Nudge
    <3>2. inbox' \in [Recipients -> SUBSET (1..MaxMints)]
        BY <2>20, <2>f, ReceiveTyped DEF Nudge, TypeOK
    <3>3. QED BY <2>20, <3>1, <3>2 DEF Nudge, TypeOK, rows
  <2>21. CASE ExpireRead(p)
    <3>1. [at |-> "retiring"] \in Stage
        BY PlainStages
    <3>2. QED BY <2>21, <3>1, <2>i, HandlerStepTyped DEF ExpireRead
  <2>22. CASE ExpireWrite(p)
    <3>1. h' \in [Handlers -> Stage]
        BY <2>22, <2>i, PlainStages DEF ExpireWrite
    <3>2. env' \in EnvStatus
        BY <2>22, SettleTyped DEF ExpireWrite, EnvStatus
    <3>3. hash' \in [Recipients -> 0..MaxMints]
        BY <2>22, StrippedTyped DEF ExpireWrite
    <3>4. QED BY <2>22, <3>1, <3>2, <3>3 DEF ExpireWrite, TypeOK, mail
  <2>24. QED BY <1>2, <2>1, <2>2, <2>3, <2>4, <2>5, <2>6, <2>7, <2>8, <2>9, <2>10, <2>11,
               <2>12, <2>13, <2>15, <2>16, <2>17, <2>18, <2>19, <2>20, <2>21,
               <2>22 DEF Continue
<1>3. ASSUME NEW p \in Handlers, Crash(p) PROVE TypeOK'
    BY <1>3, IdleStage, HandlerStepTyped DEF Crash
<1>4. ASSUME NEW j \in jobs, DeliverJob(j) PROVE TypeOK'
  <2>1. j.link \in Link /\ jobs' \subseteq Job
    BY <1>4 DEF DeliverJob, TypeOK, Job
  <2>2. inbox' \in [Recipients -> SUBSET (1..MaxMints)]
    BY <1>4, <2>1, ReceiveTyped DEF DeliverJob, TypeOK
  <2>3. QED BY <1>4, <2>1, <2>2 DEF DeliverJob, TypeOK, rows
<1>5. CASE Expiry
    BY <1>5 DEF Expiry, TypeOK, rows, mail
<1>6. ASSUME NEW r \in Recipients, CooldownEnds(r) \/ Ripens(r) PROVE TypeOK'
  <2>1. CASE CooldownEnds(r)
    <3>1. window' \in [Recipients -> Nat]
        BY <2>1 DEF CooldownEnds, TypeOK
    <3>2. QED BY <2>1, <3>1 DEF CooldownEnds, TypeOK, rows, mail
  <2>2. CASE Ripens(r)
    <3>1. ripe' \in [Recipients -> BOOLEAN]
        BY <2>2 DEF Ripens, TypeOK
    <3>2. QED BY <2>2, <3>1 DEF Ripens, TypeOK, mail
  <2>3. QED BY <1>6, <2>1, <2>2
<1>7. CASE UNCHANGED vars
    BY <1>7 DEF vars, TypeOK
<1>8. QED BY <1>1, <1>2, <1>3, <1>4, <1>5, <1>6, <1>7 DEF Next

\* Type correctness: whatever a handler or the queue holds is what its code stored.
THEOREM TypeCorrect == Spec => []TypeOK
<1>1. TypeOK /\ [Next]_vars => TypeOK'
    BY TypeStep
<1>2. QED BY <1>1, TypeInit, PTL DEF Spec

-------------------------------------------------------------------------------
\* The actions that write the rows an invariant below is about.
Writes(p) ==
    \/ Send(p) \/ Rollback(p) \/ ViewWrite(p) \/ Claim(p)
    \/ AdvanceComplete(p) \/ AdvanceHandOff(p) \/ EnqueueSeal(p)
    \/ VoidWrite(p) \/ ResendWrite(p) \/ RemindClaim(p) \/ ExpireWrite(p)

\* No other action touches them.
LEMMA WhoWrites ==
    ASSUME [Next]_vars
    PROVE  \/ \E p \in Handlers : Writes(p)
           \/ UNCHANGED <<env, rcStatus, hash, mints, uses, sealJob>>
<1>1. ASSUME NEW p \in Handlers, Start(p)
      PROVE  Writes(p) \/ UNCHANGED <<env, rcStatus, hash, mints, uses, sealJob>>
    BY <1>1 DEF Start, Writes, VoidRead, ExpireFind, Resend, Remind, RemindFind,
                ViewLoad, ConsentLoad, SubmitLoad, rows
<1>2. ASSUME NEW p \in Handlers, Continue(p)
      PROVE  Writes(p) \/ UNCHANGED <<env, rcStatus, hash, mints, uses, sealJob>>
    BY <1>2 DEF Continue, Writes, DispatchInvite, DispatchFail, ConsentWrite, AdvanceRead,
                AdvanceNothing, RouteInvite, ResendRead, ResendMail, RemindRead,
                Nudge, ExpireRead, rows
<1>3. ASSUME NEW p \in Handlers, Crash(p)
      PROVE  UNCHANGED <<env, rcStatus, hash, mints, uses, sealJob>>
    BY <1>3 DEF Crash, rows
<1>4. ASSUME NEW j \in jobs, DeliverJob(j)
      PROVE  UNCHANGED <<env, rcStatus, hash, mints, uses, sealJob>>
    BY <1>4 DEF DeliverJob, rows
<1>5. Expiry => UNCHANGED <<env, rcStatus, hash, mints, uses, sealJob>>
    BY DEF Expiry, rows
<1>6. ASSUME NEW r \in Recipients, CooldownEnds(r) \/ Ripens(r)
      PROVE  UNCHANGED <<env, rcStatus, hash, mints, uses, sealJob>>
    BY <1>6 DEF CooldownEnds, Ripens, rows
<1>7. UNCHANGED vars => UNCHANGED <<env, rcStatus, hash, mints, uses, sealJob>>
    BY DEF vars
<1>8. QED BY <1>1, <1>2, <1>3, <1>4, <1>5, <1>6, <1>7 DEF Next

-------------------------------------------------------------------------------
\* What never goes back: mints, signatures and the clock.
LEMMA Monotone ==
    ASSUME TypeOK, [Next]_vars
    PROVE  /\ \A r \in Recipients : mints[r] \in Nat /\ mints'[r] \in Nat /\ mints[r] <= mints'[r]
           /\ \A r \in Recipients : EverSigned(r) => EverSigned(r)'
           /\ pastExpiry => pastExpiry'
<1> USE DEF At
<1>n. \A r \in Recipients : mints[r] \in Nat /\ mints'[r] \in Nat
  <2>1. mints \in [Recipients -> 0..MaxMints] /\ mints' \in [Recipients -> 0..MaxMints]
    BY TypeStep DEF TypeOK
  <2>2. QED BY <2>1, ConstantsAssumption
<1>1. \A r \in Recipients : mints[r] <= mints'[r]
  <2>1. \/ mints' = mints
        \/ \E R \in SUBSET Recipients : mints' = Minted(R)
    <3>1. ASSUME NEW p \in Handlers, Writes(p)
          PROVE  mints' = mints \/ \E R \in SUBSET Recipients : mints' = Minted(R)
      <4>1. CASE Send(p)
          BY <4>1 DEF Send, InvitedNow, Signers
      <4>2. CASE AdvanceHandOff(p)
        <5>1. mints' = Minted(NextGroup(h[p].seen) \cap Signers)
            BY <4>2 DEF AdvanceHandOff
        <5>2. QED BY <5>1 DEF Signers
      <4>3. CASE ResendWrite(p) \/ RemindClaim(p)
        <5>1. mints' = Minted({h[p].rc})
            BY <4>3 DEF ResendWrite, RemindClaim
        <5>2. h[p].rc \in Recipients
            BY <4>3, StageFields DEF ResendWrite, RemindClaim, TypeOK
        <5>3. QED BY <5>1, <5>2
      <4>4. CASE \/ Rollback(p) \/ ViewWrite(p) \/ Claim(p) \/ AdvanceComplete(p)
                 \/ EnqueueSeal(p) \/ VoidWrite(p) \/ ExpireWrite(p)
          BY <4>4 DEF Rollback, ViewWrite, Claim, AdvanceComplete, EnqueueSeal, VoidWrite,
                      ExpireWrite
      <4>5. QED BY <3>1, <4>1, <4>2, <4>3, <4>4 DEF Writes
    <3>2. QED BY <3>1, WhoWrites
  <2>2. QED BY <2>1, <1>n DEF Minted
<1>2. ASSUME NEW r \in Recipients, EverSigned(r) PROVE EverSigned(r)'
  <2>1. PICK n \in 1..MaxMints : uses[r][n] > 0
    BY <1>2 DEF EverSigned
  <2>2. uses \in [Recipients -> [1..MaxMints -> Nat]] /\ uses[r][n] \in Nat
    <3>1. uses \in [Recipients -> [1..MaxMints -> Nat]]
        BY DEF TypeOK
    <3>2. uses[r] \in [1..MaxMints -> Nat]
        BY <3>1
    <3>3. QED BY <3>1, <3>2
  <2>3. CASE uses' = uses
    BY <2>1, <2>3 DEF EverSigned
  <2>4. ASSUME NEW p \in Handlers, Claim(p) PROVE uses'[r][n] > 0
    <3> DEFINE x == h[p].rc
               m == h[p].tok
    <3>1. x \in Recipients /\ m \in 1..MaxMints
        BY <2>4, StageFields DEF Claim, TypeOK
    <3>2. uses' = uses \/ uses' = [uses EXCEPT ![x][m] = @ + 1]
        BY <2>4 DEF Claim
    <3>3. CASE uses' = [uses EXCEPT ![x][m] = @ + 1]
      <4>1. uses'[r] = IF r = x THEN [uses[r] EXCEPT ![m] = @ + 1] ELSE uses[r]
          BY <3>1, <3>3, <2>2
      <4>2. uses[r] \in [1..MaxMints -> Nat]
          BY <2>2
      <4>3. uses'[r][n] = uses[r][n] \/ uses'[r][n] = uses[r][n] + 1
          BY <4>1, <4>2
      <4>4. QED BY <2>1, <2>2, <4>3
    <3>4. QED BY <2>1, <3>2, <3>3
  <2>5. ASSUME NEW p \in Handlers, Writes(p), ~Claim(p) PROVE uses' = uses
    BY <2>5 DEF Writes, Send, Rollback, ViewWrite, AdvanceComplete, AdvanceHandOff,
                EnqueueSeal, VoidWrite, ResendWrite, RemindClaim, ExpireWrite
  <2>6. QED BY <2>1, <2>3, <2>4, <2>5, WhoWrites DEF EverSigned
<1>3. pastExpiry => pastExpiry'
  <2>1. ASSUME NEW p \in Handlers, Start(p) PROVE pastExpiry' = pastExpiry
    BY <2>1 DEF Start, Send, VoidRead, ExpireFind, Resend, Remind, RemindFind, ViewLoad,
                ConsentLoad, SubmitLoad
  <2>2. ASSUME NEW p \in Handlers, Continue(p) PROVE pastExpiry' = pastExpiry
    BY <2>2 DEF Continue, DispatchInvite, DispatchFail, Rollback, ViewWrite, ConsentWrite,
                Claim, AdvanceRead, AdvanceComplete, AdvanceHandOff, AdvanceNothing,
                RouteInvite, EnqueueSeal, VoidWrite, ResendRead, ResendWrite,
                ResendMail, RemindRead, RemindClaim, Nudge, ExpireRead, ExpireWrite
  <2>3. QED BY <2>1, <2>2 DEF Next, vars, Crash, DeliverJob, Expiry, CooldownEnds, Ripens
<1>4. QED BY <1>n, <1>1, <1>2, <1>3

\* Only a handler's own step moves it.
LEMMA OwnStep ==
    ASSUME TypeOK, [Next]_vars, NEW q \in Handlers, h'[q] # h[q]
    PROVE  Start(q) \/ Continue(q) \/ Crash(q)
<1>1. h \in [Handlers -> Stage]
    BY DEF TypeOK
<1>2. ASSUME NEW p \in Handlers, NEW s, Become(p, s) PROVE p = q
    BY <1>1, <1>2 DEF Become
<1>3. ASSUME NEW p \in Handlers, Start(p) PROVE p = q
    BY <1>2, <1>3 DEF Start, Send, VoidRead, ExpireFind, Resend, Remind, RemindFind, ViewLoad,
                ConsentLoad, SubmitLoad
<1>4. ASSUME NEW p \in Handlers, Continue(p) PROVE p = q
    BY <1>2, <1>4 DEF Continue, DispatchInvite, DispatchFail, Rollback, ViewWrite, ConsentWrite,
                Claim, AdvanceRead, AdvanceComplete, AdvanceHandOff, AdvanceNothing,
                RouteInvite, EnqueueSeal, VoidWrite, ResendRead, ResendWrite,
                ResendMail, RemindRead, RemindClaim, Nudge, ExpireRead, ExpireWrite
<1>5. ASSUME NEW p \in Handlers, Crash(p) PROVE p = q
    BY <1>2, <1>5 DEF Crash
<1>6. QED BY <1>3, <1>4, <1>5 DEF Next, vars, DeliverJob, Expiry, CooldownEnds, Ripens

\* How a handler comes to each stage the invariants speak of.
LEMMA Entered ==
    ASSUME TypeOK, [Next]_vars, NEW q \in Handlers, h'[q] # h[q]
    PROVE  /\ h'[q].at = "decide" => AdvanceRead(q) /\ h'[q].seen = rcStatus
           /\ h'[q].at = "seal" => AdvanceComplete(q)
           /\ h'[q].at = "claim" =>
                \E r \in Recipients, n \in 1..MaxMints :
                    SubmitLoad(q, r, n) /\ h'[q].rc = r /\ h'[q].tok = n
           /\ h'[q].at = "resend" => h'[q].rc \in Recipients /\ ResendAllowed(h'[q].rc)
           /\ h'[q].at = "remind" => h'[q].rc \in Signers /\ Active(h'[q].rc)
           /\ h'[q].at = "rotate" => h[q].at = "remind" /\ h'[q].rc = h[q].rc
           /\ h'[q].at = "retire" => pastExpiry
           /\ h'[q].at = "retiring" => h[q].at = "retire"
<1> USE DEF At
<1>h. h \in [Handlers -> Stage] /\ h[q] \in Stage
    BY DEF TypeOK
<1>b. ASSUME NEW s, Become(q, s) PROVE h'[q] = s
    BY <1>b, <1>h DEF Become
<1>1. CASE Start(q)
  <2>1. CASE Send(q) \/ VoidRead(q)
    <3>1. h'[q].at \in {"dispatch", "void"}
        BY <2>1, <1>b DEF Send, VoidRead
    <3>2. QED BY <3>1
  <2>2. CASE ExpireFind(q)
    BY <2>2, <1>b DEF ExpireFind
  <2>3. ASSUME NEW r \in Recipients, Resend(q, r) \/ Remind(q, r) \/ RemindFind(q, r)
        PROVE  /\ h'[q].at \in {"resend", "remind", "reissue"} /\ h'[q].rc = r
               /\ h'[q].at = "resend" => ResendAllowed(r)
               /\ h'[q].at = "remind" => r \in Signers /\ Active(r)
    BY <2>3, <1>b DEF Resend, Remind, RemindFind
  <2>4. ASSUME NEW r \in Recipients, NEW n \in 1..MaxMints,
               ViewLoad(q, r, n) \/ ConsentLoad(q, r, n) \/ SubmitLoad(q, r, n)
        PROVE  /\ h'[q].at \in {"view", "consent", "claim"}
               /\ h'[q].at = "claim" =>
                    SubmitLoad(q, r, n) /\ h'[q].rc = r /\ h'[q].tok = n
    BY <2>4, <1>b DEF ViewLoad, ConsentLoad, SubmitLoad
  <2>5. QED BY <1>1, <2>1, <2>2, <2>3, <2>4 DEF Start
<1>2. CASE Continue(q)
  <2>1. CASE AdvanceRead(q)
    BY <2>1, <1>b DEF AdvanceRead, Idle
  <2>2. CASE AdvanceComplete(q)
    BY <2>2, <1>b DEF AdvanceComplete
  <2>3. CASE ResendRead(q)
    <3>1. h[q].rc \in Recipients
        BY <2>3, <1>h, StageFields DEF ResendRead
    <3>2. QED BY <2>3, <3>1, <1>b DEF ResendRead, Idle
  <2>4. CASE RemindRead(q)
    BY <2>4, <1>b DEF RemindRead, Idle
  <2>5. CASE ExpireRead(q)
    BY <2>5, <1>b DEF ExpireRead, Idle
  <2>6. CASE DispatchInvite(q)
    <3>1. h'[q].at \in {"idle", "dispatch"}
        BY <2>6, <1>b DEF DispatchInvite, Idle
    <3>2. QED BY <3>1
  <2>7. CASE RouteInvite(q)
    <3>1. h'[q].at \in {"idle", "invite"}
        BY <2>7, <1>b DEF RouteInvite, Idle
    <3>2. QED BY <3>1
  <2>8. CASE Claim(q) \/ AdvanceHandOff(q) \/ AdvanceNothing(q)
    <3>1. h'[q].at \in {"idle", "advance", "invite"}
        BY <2>8, <1>b DEF Claim, AfterClaim, AdvanceHandOff, AdvanceNothing, Idle
    <3>2. QED BY <3>1
  <2>9. CASE VoidWrite(q) \/ ExpireWrite(q)
    <3>1. h'[q].at = "idle"
        BY <2>9, <1>b DEF VoidWrite, ExpireWrite, Idle
    <3>2. QED BY <3>1
  <2>10. CASE ResendWrite(q) \/ ResendMail(q) \/ RemindClaim(q) \/ Nudge(q)
    <3>1. h'[q].at \in {"idle", "mail", "nudge"}
        BY <2>10, <1>b DEF ResendWrite, ResendMail, RemindClaim, Nudge, Idle
    <3>2. QED BY <3>1
  <2>11. CASE DispatchFail(q) \/ Rollback(q) \/ ViewWrite(q) \/ ConsentWrite(q)
              \/ EnqueueSeal(q)
    <3>1. h'[q].at \in {"idle", "rollback"}
        BY <2>11, <1>b DEF DispatchFail, Rollback, ViewWrite, ConsentWrite, EnqueueSeal, Idle
    <3>2. QED BY <3>1
  <2>12. QED BY <1>2, <2>1, <2>2, <2>3, <2>4, <2>5, <2>6, <2>7, <2>8, <2>9, <2>10, <2>11
             DEF Continue
<1>3. CASE Crash(q)
  <2>1. h'[q].at = "idle"
    BY <1>3, <1>b DEF Crash, Idle
  <2>2. QED BY <2>1
<1>4. QED BY <1>1, <1>2, <1>3, OwnStep

-------------------------------------------------------------------------------
(***************************************************************************)
(* The links: which token a row may hold and how often it is used.         *)
(***************************************************************************)
\* The links are untouched when these rows are.
LEMMA LinksKept ==
    LinksFresh /\ LinkSingleUse /\ UNCHANGED <<rcStatus, hash, mints, uses>>
        => LinksFresh' /\ LinkSingleUse'
BY DEF LinksFresh, LinkSingleUse, Active

\* Every step keeps stored links fresh and used at most once.
LEMMA LinksStep ==
    TypeOK /\ LinksFresh /\ LinkSingleUse /\ TurnsTaken /\ [Next]_vars
        => LinksFresh' /\ LinkSingleUse'
<1> SUFFICES ASSUME TypeOK, LinksFresh, LinkSingleUse, TurnsTaken, [Next]_vars
             PROVE  LinksFresh' /\ LinkSingleUse'
    OBVIOUS
<1> USE DEF At
<1>t. /\ mints \in [Recipients -> Nat] /\ hash \in [Recipients -> Nat]
      /\ uses \in [Recipients -> [1..MaxMints -> Nat]]
      /\ rcStatus \in [Recipients -> RcStatus]
      /\ \A p \in Handlers : h[p] \in Stage
    BY ConstantsAssumption DEF TypeOK
<1>u. \A r \in Recipients, n \in 1..MaxMints : uses[r][n] \in Nat
    BY <1>t
<1>n. \A r \in Recipients : mints[r] \in Nat /\ hash[r] \in Nat
    BY <1>t
<1>i. \A n \in 1..MaxMints : n \in Nat
    BY ConstantsAssumption
<1>1. ASSUME NEW p \in Handlers, Send(p) PROVE LinksFresh' /\ LinkSingleUse'
  <2>1. \A r \in Recipients :
          /\ hash'[r] = IF r \in InvitedNow THEN mints[r] + 1 ELSE 0
          /\ mints'[r] = IF r \in InvitedNow THEN mints[r] + 1 ELSE mints[r]
    BY <1>1 DEF Send, Minted
  <2>2. uses' = uses /\ InvitedNow \subseteq Signers
    BY <1>1 DEF Send, InvitedNow
  <2>3. LinksFresh'
    BY <2>1, <2>2, <1>n, <1>i, <1>u DEF LinksFresh, Active, Signers
  <2>4. QED BY <2>2, <2>3 DEF LinkSingleUse
<1>2. ASSUME NEW p \in Handlers, Rollback(p) PROVE LinksFresh' /\ LinkSingleUse'
    BY <1>2, <1>t DEF Rollback, LinksFresh, LinkSingleUse, Active
<1>3. ASSUME NEW p \in Handlers, ViewWrite(p) PROVE LinksFresh' /\ LinkSingleUse'
  <2>1. \A r \in Recipients : rcStatus'[r] = rcStatus[r] \/ rcStatus[r] = "sent"
    BY <1>3, <1>t DEF ViewWrite
  <2>2. UNCHANGED <<hash, mints, uses>>
    BY <1>3 DEF ViewWrite
  <2>3. QED BY <2>1, <2>2 DEF LinksFresh, LinkSingleUse, Active
<1>4. ASSUME NEW p \in Handlers, Claim(p) PROVE LinksFresh' /\ LinkSingleUse'
  <2> DEFINE r == h[p].rc
             n == h[p].tok
  <2>0. r \in Recipients /\ n \in 1..MaxMints
    BY <1>4, <1>t, StageFields DEF Claim
  <2>1. CASE ClaimHolds(r, n)
    <3>1. /\ rcStatus' = [rcStatus EXCEPT ![r] = "completed"]
          /\ uses' = [uses EXCEPT ![r][n] = @ + 1]
          /\ UNCHANGED <<hash, mints>>
        BY <1>4, <2>1 DEF Claim
    <3>2. hash[r] = n /\ Active(r) /\ uses[r][n] = 0 /\ n <= mints[r]
        BY <2>0, <2>1 DEF ClaimHolds, LinksFresh
    <3>3. \A x \in Recipients, m \in 1..MaxMints :
            uses'[x][m] = IF x = r /\ m = n THEN 1 ELSE uses[x][m]
      <4>1. \A x \in Recipients :
              uses'[x] = IF x = r THEN [uses[x] EXCEPT ![n] = @ + 1] ELSE uses[x]
          BY <3>1, <2>0, <1>t
      <4>2. uses[r] \in [1..MaxMints -> Nat]
          BY <2>0, <1>t
      <4>3. \A m \in 1..MaxMints : uses'[r][m] = IF m = n THEN 1 ELSE uses[r][m]
        <5>1. uses'[r] = [uses[r] EXCEPT ![n] = @ + 1]
            BY <4>1, <2>0
        <5>2. /\ uses'[r][n] = uses[r][n] + 1
              /\ \A m \in 1..MaxMints : m # n => uses'[r][m] = uses[r][m]
            BY <5>1, <4>2, <2>0
        <5>3. QED BY <5>2, <3>2
      <4>4. QED BY <4>1, <4>3
    <3>4. \A x \in Recipients : rcStatus'[x] = IF x = r THEN "completed" ELSE rcStatus[x]
        BY <3>1, <2>0, <1>t
    <3>5. LinksFresh'
        BY <3>1, <3>2, <3>3, <3>4 DEF LinksFresh, Active, Signers
    <3>6. LinkSingleUse'
        BY <3>3 DEF LinkSingleUse
    <3>7. QED BY <3>5, <3>6
  <2>2. CASE ~ClaimHolds(r, n)
    BY <1>4, <2>2, LinksKept DEF Claim
  <2>3. QED BY <2>1, <2>2
<1>5. ASSUME NEW p \in Handlers, AdvanceHandOff(p) PROVE LinksFresh' /\ LinkSingleUse'
  <2> DEFINE group   == NextGroup(h[p].seen)
             called  == group \cap Signers
             entered == {r \in called : rcStatus[r] = "pending"}
             copied  == {r \in group \ Signers : rcStatus[r] # "gone"}
  <2>1. /\ rcStatus' = [r \in Recipients |->
                          IF r \in entered \cup copied THEN "sent" ELSE rcStatus[r]]
        /\ hash' = [r \in Recipients |-> IF r \in entered THEN mints[r] + 1 ELSE hash[r]]
        /\ mints' = Minted(called)
        /\ uses' = uses
    BY <1>5 DEF AdvanceHandOff
  <2>2. entered \subseteq called /\ called \subseteq Signers /\ copied \cap Signers = {}
    OBVIOUS
  <2> HIDE DEF group, called, entered, copied
  <2>3. \A r \in Recipients :
          /\ rcStatus'[r] = IF r \in entered \cup copied THEN "sent" ELSE rcStatus[r]
          /\ hash'[r] = IF r \in entered THEN mints[r] + 1 ELSE hash[r]
          /\ mints'[r] = IF r \in called THEN mints[r] + 1 ELSE mints[r]
    BY <2>1 DEF Minted
  <2>4. \A r \in Recipients : hash'[r] <= mints'[r] /\ (r \notin Signers => hash'[r] = 0)
    BY <2>2, <2>3, <1>n DEF LinksFresh
  <2>5. ASSUME NEW r \in Recipients, NEW n \in 1..MaxMints
        PROVE  /\ uses'[r][n] > 0 => n <= mints'[r]
               /\ Active(r)' /\ hash'[r] = n => uses'[r][n] = 0
    <3>1. uses[r][n] > 0 => n <= mints[r] /\ n <= mints'[r]
        BY <2>3, <1>n, <1>i DEF LinksFresh
    <3>2. CASE r \in entered
        BY <3>1, <3>2, <2>1, <2>3, <1>n, <1>i, <1>u
    <3>3. CASE r \notin entered /\ r \in Signers
        BY <3>1, <3>3, <2>1, <2>2, <2>3, <1>n, <1>i, <1>u DEF LinksFresh, Active
    <3>4. CASE r \notin Signers
        BY <3>1, <3>4, <2>1, <2>2, <2>4, <1>n, <1>i, <1>u DEF LinksFresh
    <3>5. QED BY <3>2, <3>3, <3>4
  <2>6. LinksFresh'
    BY <2>4, <2>5 DEF LinksFresh, Signers
  <2>7. QED BY <2>1, <2>6 DEF LinkSingleUse
<1>6. ASSUME NEW p \in Handlers, VoidWrite(p) \/ ExpireWrite(p)
      PROVE  LinksFresh' /\ LinkSingleUse'
  <2>1. hash' = Stripped /\ UNCHANGED <<rcStatus, mints, uses>>
    BY <1>6 DEF VoidWrite, ExpireWrite
  <2>2. \A r \in Recipients : hash'[r] = hash[r] \/ hash'[r] = 0
    BY <2>1, <1>t DEF Stripped
  <2>3. QED BY <2>1, <2>2, <1>n DEF LinksFresh, LinkSingleUse, Active
<1>7. ASSUME NEW p \in Handlers, ResendWrite(p) \/ RemindClaim(p)
      PROVE  LinksFresh' /\ LinkSingleUse'
  <2> DEFINE r == h[p].rc
  <2>1. r \in Signers /\ r \in Recipients
    BY <1>7 DEF ResendWrite, RemindClaim, TurnsTaken, Signers
  <2>2. mints' = Minted({r}) /\ uses' = uses
    BY <1>7 DEF ResendWrite, RemindClaim
  <2>3. \A x \in Recipients : mints'[x] = IF x = r THEN mints[r] + 1 ELSE mints[x]
    BY <2>2 DEF Minted
  <2>4. /\ hash' = hash \/ hash' = [hash EXCEPT ![r] = mints[r] + 1]
        /\ rcStatus' = rcStatus \/ rcStatus' = [rcStatus EXCEPT ![r] = "sent"]
        /\ rcStatus' # rcStatus => hash' = [hash EXCEPT ![r] = mints[r] + 1]
    <3>1. CASE ResendWrite(p)
        BY <3>1 DEF ResendWrite
    <3>2. CASE RemindClaim(p)
        BY <3>2 DEF RemindClaim
    <3>3. QED BY <1>7, <3>1, <3>2
  <2>5. CASE hash' # [hash EXCEPT ![r] = mints[r] + 1]
    <3>1. rcStatus' = rcStatus /\ hash' = hash
        BY <2>4, <2>5
    <3>2. \A x \in Recipients : mints'[x] \in Nat /\ mints[x] <= mints'[x]
        BY <2>3, <1>n
    <3>3. ASSUME NEW x \in Recipients, NEW n \in 1..MaxMints, uses[x][n] > 0
          PROVE  n <= mints'[x]
        BY <3>2, <3>3, <1>n, <1>i DEF LinksFresh
    <3>4. ASSUME NEW x \in Recipients PROVE hash[x] <= mints'[x]
        BY <3>2, <1>n DEF LinksFresh
    <3>5. LinksFresh'
        BY <2>2, <3>1, <3>3, <3>4 DEF LinksFresh, Active, Signers
    <3>6. QED BY <2>2, <3>5 DEF LinkSingleUse
  <2>6. CASE hash' = [hash EXCEPT ![r] = mints[r] + 1]
    <3>1. \A x \in Recipients : hash'[x] = IF x = r THEN mints[r] + 1 ELSE hash[x]
        BY <2>6, <2>1, <1>t
    <3>2. \A x \in Recipients : x # r => rcStatus'[x] = rcStatus[x]
        BY <2>4, <2>1, <1>t
    <3>3. ASSUME NEW x \in Recipients
          PROVE  /\ hash'[x] <= mints'[x]
                 /\ x \notin Signers => hash'[x] = 0
        BY <2>1, <2>3, <3>1, <1>n DEF LinksFresh
    <3>4. ASSUME NEW x \in Recipients, NEW n \in 1..MaxMints
          PROVE  /\ uses'[x][n] > 0 => n <= mints'[x]
                 /\ Active(x)' /\ hash'[x] = n => uses'[x][n] = 0
      <4>1. uses[x][n] > 0 => n <= mints[x]
          BY DEF LinksFresh
      <4>2. uses'[x][n] > 0 => n <= mints'[x]
          BY <4>1, <2>2, <2>3, <1>n, <1>i
      <4>3. CASE x = r
          BY <4>1, <4>2, <4>3, <2>2, <3>1, <1>n, <1>i, <1>u
      <4>4. CASE x # r
          BY <4>2, <4>4, <2>2, <3>1, <3>2 DEF LinksFresh, Active
      <4>5. QED BY <4>3, <4>4
    <3>5. LinksFresh'
        BY <3>3, <3>4 DEF LinksFresh, Signers
    <3>6. QED BY <2>2, <3>5 DEF LinkSingleUse
  <2>7. QED BY <2>5, <2>6
<1>8. CASE UNCHANGED <<rcStatus, hash, mints, uses>>
    BY <1>8, LinksKept
<1>9. ASSUME NEW p \in Handlers, AdvanceComplete(p) \/ EnqueueSeal(p)
      PROVE  UNCHANGED <<rcStatus, hash, mints, uses>>
    BY <1>9 DEF AdvanceComplete, EnqueueSeal, rows
<1>10. QED BY <1>1, <1>2, <1>3, <1>4, <1>5, <1>6, <1>7, <1>8, <1>9, WhoWrites DEF Writes

-------------------------------------------------------------------------------
(***************************************************************************)
(* Signatures: "completed" stands for one, wherever a handler reads it.    *)
(***************************************************************************)
\* Every step keeps "completed", read or stored, backed by a signature.
LEMMA SignaturesStep ==
    TypeOK /\ SignaturesRecorded /\ SealedOnlyWhenAllSigned /\ [Next]_vars
        => SignaturesRecorded' /\ SealedOnlyWhenAllSigned'
<1> SUFFICES ASSUME TypeOK, SignaturesRecorded, SealedOnlyWhenAllSigned, [Next]_vars
             PROVE  SignaturesRecorded' /\ SealedOnlyWhenAllSigned'
    OBVIOUS
<1> USE DEF At
<1>t. rcStatus \in [Recipients -> RcStatus] /\ h \in [Handlers -> Stage]
    BY DEF TypeOK
<1>m. \A r \in Recipients : EverSigned(r) => EverSigned(r)'
    BY Monotone
<1>1. ASSUME NEW r \in Recipients, rcStatus'[r] = "completed"
      PROVE  EverSigned(r)'
  <2>1. CASE rcStatus[r] = "completed"
    BY <2>1, <1>m DEF SignaturesRecorded
  <2>2. ASSUME NEW p \in Handlers, Claim(p), rcStatus[r] # "completed" PROVE EverSigned(r)'
    <3> DEFINE x == h[p].rc
               n == h[p].tok
    <3>1. x \in Recipients /\ n \in 1..MaxMints
        BY <2>2, <1>t, StageFields DEF Claim
    <3>2. /\ x = r
          /\ uses' = [uses EXCEPT ![x][n] = @ + 1]
        BY <1>1, <1>t, <2>2, <3>1 DEF Claim
    <3>3. uses[r] \in [1..MaxMints -> Nat]
      <4>1. uses \in [Recipients -> [1..MaxMints -> Nat]]
          BY DEF TypeOK
      <4>2. QED BY <4>1
    <3>4. uses'[r] = [uses[r] EXCEPT ![n] = @ + 1]
      <4>1. uses \in [Recipients -> [1..MaxMints -> Nat]]
          BY DEF TypeOK
      <4>2. QED BY <3>1, <3>2, <4>1
    <3>5. uses'[r][n] = uses[r][n] + 1 /\ uses[r][n] \in Nat
        BY <3>1, <3>3, <3>4
    <3>6. uses'[r][n] > 0
        BY <3>5
    <3>7. QED BY <3>1, <3>6 DEF EverSigned
  <2>3. ASSUME NEW p \in Handlers, Writes(p), ~Claim(p) PROVE rcStatus[r] = "completed"
    <3>1. CASE Send(p) \/ Rollback(p) \/ ViewWrite(p) \/ ResendWrite(p)
        BY <1>1, <1>t, <3>1 DEF Send, Rollback, ViewWrite, ResendWrite
    <3>2. CASE AdvanceHandOff(p)
      <4>1. PICK Up \in SUBSET Recipients :
              rcStatus' = [x \in Recipients |-> IF x \in Up THEN "sent" ELSE rcStatus[x]]
        <5> DEFINE group   == NextGroup(h[p].seen)
                   called  == group \cap Signers
                   entered == {x \in called : rcStatus[x] = "pending"}
                   copied  == {x \in group \ Signers : rcStatus[x] # "gone"}
        <5>1. rcStatus' = [x \in Recipients |->
                             IF x \in entered \cup copied THEN "sent" ELSE rcStatus[x]]
            BY <3>2 DEF AdvanceHandOff
        <5>2. entered \cup copied \in SUBSET Recipients
            BY DEF NextGroup, Waiting, Signers
        <5>3. QED BY <5>1, <5>2
      <4>2. QED BY <1>1, <4>1
    <3>3. CASE \/ AdvanceComplete(p) \/ EnqueueSeal(p) \/ VoidWrite(p) \/ RemindClaim(p)
               \/ ExpireWrite(p)
        BY <1>1, <3>3 DEF AdvanceComplete, EnqueueSeal, VoidWrite, RemindClaim, ExpireWrite, rows
    <3>4. QED BY <2>3, <3>1, <3>2, <3>3 DEF Writes
  <2>4. QED BY <1>1, <2>1, <2>2, <2>3, WhoWrites
<1>2. ASSUME NEW q \in Handlers
      PROVE  /\ h'[q].at = "decide" =>
                  \A r \in Recipients : h'[q].seen[r] = "completed" => EverSigned(r)'
             /\ h'[q].at = "seal" => \A r \in Signers : EverSigned(r)'
  <2>1. CASE h'[q] = h[q]
    BY <2>1, <1>m DEF SignaturesRecorded, Signers
  <2>2. CASE h'[q] # h[q]
    <3>1. h'[q].at = "decide" => h'[q].seen = rcStatus
        BY <2>2, Entered
    <3>2. h'[q].at = "seal" => AdvanceComplete(q)
        BY <2>2, Entered
    <3>3. AdvanceComplete(q) => \A r \in Signers : EverSigned(r)
        BY DEF AdvanceComplete, AllCompleted, SignaturesRecorded, Signers
    <3>4. QED BY <3>1, <3>2, <3>3, <1>m DEF SignaturesRecorded, Signers
  <2>3. QED BY <2>1, <2>2
<1>3. SignaturesRecorded'
    BY <1>1, <1>2 DEF SignaturesRecorded, Signers
<1>4. SealedOnlyWhenAllSigned'
  <2>1. SUFFICES ASSUME env' = "completed" \/ sealJob'
                 PROVE  \A r \in Signers : EverSigned(r)'
    BY DEF SealedOnlyWhenAllSigned, Signers
  <2>2. CASE env = "completed" \/ sealJob
    BY <2>2, <1>m DEF SealedOnlyWhenAllSigned, Signers
  <2>3. ASSUME NEW p \in Handlers, Writes(p), ~(env = "completed" \/ sealJob)
        PROVE  \A r \in Signers : EverSigned(r)
    <3>1. CASE AdvanceComplete(p)
        BY <3>1 DEF AdvanceComplete, AllCompleted, SignaturesRecorded, Signers
    <3>2. CASE EnqueueSeal(p)
        BY <3>2 DEF EnqueueSeal, SignaturesRecorded
    <3>3. CASE Send(p) \/ Rollback(p) \/ ViewWrite(p) \/ Claim(p) \/ AdvanceHandOff(p)
        BY <2>1, <2>3, <3>3 DEF Send, Rollback, ViewWrite, Claim, AdvanceHandOff, Settle
    <3>4. CASE VoidWrite(p) \/ ResendWrite(p) \/ RemindClaim(p) \/ ExpireWrite(p)
        BY <2>1, <2>3, <3>4 DEF VoidWrite, ResendWrite, RemindClaim, ExpireWrite, Settle
    <3>5. QED BY <2>3, <3>1, <3>2, <3>3, <3>4 DEF Writes
  <2>4. QED BY <2>1, <2>2, <2>3, <1>m, WhoWrites DEF Signers
<1>5. QED BY <1>3, <1>4

-------------------------------------------------------------------------------
(***************************************************************************)
(* Turns: nobody's first link precedes the signatures of earlier groups.   *)
(***************************************************************************)
\* Every step keeps the turns.
LEMMA TurnsStep ==
    /\ TypeOK /\ SignaturesRecorded /\ TurnsTaken /\ RoutingOrderKept /\ NothingOutsideLife
    /\ [Next]_vars
    => TurnsTaken' /\ RoutingOrderKept'
<1> SUFFICES ASSUME TypeOK, SignaturesRecorded, TurnsTaken, RoutingOrderKept,
                    NothingOutsideLife, [Next]_vars
             PROVE  TurnsTaken' /\ RoutingOrderKept'
    OBVIOUS
<1> USE DEF At
<1>t. rcStatus \in [Recipients -> RcStatus] /\ h \in [Handlers -> Stage]
    BY DEF TypeOK
<1>m. \A r \in Recipients : EverSigned(r) => EverSigned(r)'
    BY Monotone
<1>n. \A r \in Recipients : mints[r] \in Nat /\ mints'[r] \in Nat /\ mints[r] <= mints'[r]
    BY Monotone
\* Who gets a first link, and why it is their turn.
<1>1. ASSUME NEW r \in Recipients, mints[r] = 0, mints'[r] > 0
      PROVE  Mode = "sequential" =>
                 \A s \in Signers : Order[s] < Order[r] => EverSigned(s)
  <2>1. ASSUME NEW p \in Handlers, Send(p), Mode = "sequential", NEW s \in Signers,
               Order[s] < Order[r]
        PROVE  FALSE
    <3>1. r \in FirstGroup
        BY <1>1, <1>n, <2>1 DEF Send, Minted, InvitedNow
    <3>2. Order[r] <= Order[s] /\ Order[r] \in Nat /\ Order[s] \in Nat
        BY <3>1, ConstantsAssumption DEF FirstGroup, Signers
    <3>3. QED BY <2>1, <3>2
  <2>2. ASSUME NEW p \in Handlers, AdvanceHandOff(p), NEW s \in Signers, Order[s] < Order[r]
        PROVE  EverSigned(s)
    <3>1. mints' = Minted(NextGroup(h[p].seen) \cap Signers)
        BY <2>2 DEF AdvanceHandOff
    <3>2. r \in NextGroup(h[p].seen)
        BY <1>1, <3>1 DEF Minted
    <3>3. h[p].seen[s] = "completed"
        BY <2>2, <3>2 DEF AdvanceHandOff, HandsOff, EarlierFinished
    <3>4. QED BY <2>2, <3>3 DEF AdvanceHandOff, SignaturesRecorded, Signers
  <2>3. ASSUME NEW p \in Handlers, ResendWrite(p) \/ RemindClaim(p) PROVE FALSE
    <3>1. mints' = Minted({h[p].rc})
        BY <2>3 DEF ResendWrite, RemindClaim
    <3>2. mints[h[p].rc] > 0
        BY <2>3 DEF ResendWrite, RemindClaim, TurnsTaken
    <3>3. r # h[p].rc
        BY <1>1, <3>2
    <3>4. QED BY <1>1, <3>1, <3>3 DEF Minted
  <2>4. ASSUME NEW p \in Handlers, Writes(p),
               ~(Send(p) \/ AdvanceHandOff(p) \/ ResendWrite(p) \/ RemindClaim(p))
        PROVE  mints' = mints
    BY <2>4 DEF Writes, Rollback, ViewWrite, Claim, AdvanceComplete, EnqueueSeal, VoidWrite,
                ExpireWrite
  <2>5. QED BY <1>1, <2>1, <2>2, <2>3, <2>4, WhoWrites
<1>2. RoutingOrderKept'
  <2>1. SUFFICES ASSUME Mode = "sequential", NEW r \in Signers, NEW s \in Signers,
                        Order[s] < Order[r], mints'[r] > 0
                 PROVE  EverSigned(s)'
    BY DEF RoutingOrderKept, Signers
  <2>2. r \in Recipients /\ s \in Recipients
    BY DEF Signers
  <2>3. CASE mints[r] > 0
    BY <2>1, <2>2, <2>3, <1>m DEF RoutingOrderKept
  <2>4. CASE mints[r] = 0
    BY <2>1, <2>2, <2>4, <1>1, <1>m
  <2>5. QED BY <2>2, <2>3, <2>4, <1>n
<1>3. ASSUME NEW r \in Signers, Active(r)', ~Active(r) PROVE mints'[r] > 0
  <2>0. r \in Recipients
    BY DEF Signers
  <2>1. ASSUME NEW p \in Handlers, Send(p) PROVE mints'[r] > 0
    <3>1. r \in InvitedNow
        BY <1>3, <2>0, <2>1 DEF Send, Active
    <3>2. mints'[r] = mints[r] + 1
        BY <2>0, <2>1, <3>1 DEF Send, Minted
    <3>3. QED BY <2>0, <3>2, <1>n
  <2>2. ASSUME NEW p \in Handlers, AdvanceHandOff(p) PROVE mints'[r] > 0
    <3> DEFINE group   == NextGroup(h[p].seen)
               called  == group \cap Signers
               entered == {x \in called : rcStatus[x] = "pending"}
               copied  == {x \in group \ Signers : rcStatus[x] # "gone"}
    <3>1. /\ rcStatus' = [x \in Recipients |->
                            IF x \in entered \cup copied THEN "sent" ELSE rcStatus[x]]
          /\ mints' = Minted(called)
        BY <2>2 DEF AdvanceHandOff
    <3>2. r \in entered
        BY <1>3, <2>0, <3>1 DEF Active
    <3>3. mints'[r] = mints[r] + 1
        BY <2>0, <3>1, <3>2 DEF Minted
    <3>4. QED BY <2>0, <3>3, <1>n
  <2>3. ASSUME NEW p \in Handlers, ResendWrite(p) PROVE mints'[r] > 0
    <3>1. mints[h[p].rc] > 0 /\ h[p].rc \in Recipients
        BY <2>3 DEF ResendWrite, TurnsTaken, Signers
    <3>2. r = h[p].rc
        BY <1>3, <1>t, <2>0, <2>3, <3>1 DEF ResendWrite, Active
    <3>3. QED BY <2>0, <3>1, <3>2, <1>n
  <2>4. ASSUME NEW p \in Handlers, Writes(p),
               ~(Send(p) \/ AdvanceHandOff(p) \/ ResendWrite(p))
        PROVE  FALSE
    <3>1. CASE Rollback(p) \/ ViewWrite(p) \/ Claim(p)
        BY <1>3, <1>t, <2>0, <3>1 DEF Rollback, ViewWrite, Claim, Active
    <3>2. CASE \/ AdvanceComplete(p) \/ EnqueueSeal(p) \/ VoidWrite(p) \/ RemindClaim(p)
               \/ ExpireWrite(p)
        BY <1>3, <3>2 DEF AdvanceComplete, EnqueueSeal, VoidWrite, RemindClaim, ExpireWrite,
                          rows, Active
    <3>3. QED BY <2>4, <3>1, <3>2 DEF Writes
  <2>5. rcStatus' # rcStatus
    BY <1>3 DEF Active
  <2>6. QED BY <2>1, <2>2, <2>3, <2>4, <2>5, WhoWrites
<1>4. ASSUME NEW q \in Handlers, h'[q].at \in {"resend", "remind", "rotate"}
      PROVE  h'[q].rc \in Signers /\ mints'[h'[q].rc] > 0
  <2>1. h'[q].rc \in Signers /\ mints[h'[q].rc] > 0
    <3>1. CASE h'[q] = h[q]
        BY <1>4, <3>1 DEF TurnsTaken
    <3>2. CASE h'[q] # h[q]
      <4>1. /\ h'[q].at = "resend" => h'[q].rc \in Signers /\ Active(h'[q].rc)
            /\ h'[q].at = "remind" => h'[q].rc \in Signers /\ Active(h'[q].rc)
            /\ h'[q].at = "rotate" => h[q].at = "remind" /\ h'[q].rc = h[q].rc
          BY <3>2, Entered DEF ResendAllowed
      <4>2. QED BY <1>4, <4>1 DEF TurnsTaken
    <3>3. QED BY <3>1, <3>2
  <2>2. h'[q].rc \in Recipients
    BY <2>1 DEF Signers
  <2>3. QED BY <2>1, <2>2, <1>n
<1>5. TurnsTaken'
  <2>1. ASSUME NEW r \in Signers, Active(r)' PROVE mints'[r] > 0
    <3>1. r \in Recipients
        BY DEF Signers
    <3>2. CASE Active(r)
        BY <3>1, <3>2, <1>n DEF TurnsTaken
    <3>3. QED BY <2>1, <3>2, <1>3
  <2>2. QED BY <2>1, <1>4 DEF TurnsTaken, Signers
<1>6. QED BY <1>2, <1>5

-------------------------------------------------------------------------------
(***************************************************************************)
(* The envelope's life: nothing happens before the send, only what is past *)
(* its expiry expires, and nobody claims once it is retired.               *)
(***************************************************************************)
\* Every step keeps the envelope's life.
LEMMA LifeStep ==
    TypeOK /\ NothingOutsideLife /\ ExpiredIsPast /\ [Next]_vars
        => NothingOutsideLife' /\ ExpiredIsPast'
<1> SUFFICES ASSUME TypeOK, NothingOutsideLife, ExpiredIsPast, [Next]_vars
             PROVE  NothingOutsideLife' /\ ExpiredIsPast'
    OBVIOUS
<1> USE DEF At
<1>t. rcStatus \in [Recipients -> RcStatus] /\ h \in [Handlers -> Stage]
    BY DEF TypeOK
<1>1. env = "none" /\ env' = "none" => UNCHANGED <<rcStatus, mints, h>>
  <2> SUFFICES ASSUME env = "none", env' = "none" PROVE UNCHANGED <<rcStatus, mints, h>>
    OBVIOUS
  <2>1. \A p \in Handlers : h[p].at = "idle"
    BY DEF NothingOutsideLife
  <2>2. ASSUME NEW p \in Handlers, Start(p) \/ Continue(p) \/ Crash(p) PROVE FALSE
    <3>1. ~Continue(p) /\ ~Crash(p)
        BY <2>1 DEF Continue, DispatchInvite, DispatchFail, Rollback, ViewWrite, ConsentWrite,
                Claim, AdvanceRead, AdvanceComplete, AdvanceHandOff, AdvanceNothing,
                RouteInvite, EnqueueSeal, VoidWrite, ResendRead, ResendWrite,
                ResendMail, RemindRead, RemindClaim, Nudge, ExpireRead, ExpireWrite, Crash
    <3>2. ~Start(p)
        BY DEF Start, Send, VoidRead, ExpireFind, Resend, ResendAllowed, Remind, RemindFind,
               ViewLoad, ConsentLoad, SubmitLoad, LoadForToken, Open
    <3>3. QED BY <2>2, <3>1, <3>2
  <2>3. QED BY <2>2 DEF Next, vars, rows, DeliverJob, Expiry, CooldownEnds, Ripens
<1>2. env # "none" => env' # "none"
  <2>1. ASSUME NEW p \in Handlers, Writes(p), env # "none" PROVE env' # "none"
    BY <2>1 DEF Writes, Send, Rollback, ViewWrite, Claim, AdvanceComplete, AdvanceHandOff,
                EnqueueSeal, rows, VoidWrite, ResendWrite, RemindClaim, ExpireWrite, Settle
  <2>2. QED BY <2>1, WhoWrites
<1>3. ASSUME env' = "gone", NEW r \in Recipients PROVE rcStatus'[r] = "gone"
  <2>1. ASSUME NEW p \in Handlers, Rollback(p) PROVE rcStatus'[r] = "gone"
    BY <2>1 DEF Rollback
  <2>2. ASSUME NEW p \in Handlers, Writes(p), ~Rollback(p) PROVE env = "gone"
    BY <1>3, <2>2 DEF Writes, Send, ViewWrite, Claim, AdvanceComplete, AdvanceHandOff,
                EnqueueSeal, rows, VoidWrite, ResendWrite, RemindClaim, ExpireWrite, Settle
  <2>3. env = "gone" => rcStatus[r] = "gone"
    BY DEF NothingOutsideLife
  <2>4. ASSUME NEW p \in Handlers, Writes(p), ~Rollback(p) PROVE rcStatus'[r] = "gone"
    <3>1. rcStatus[r] = "gone" /\ env = "gone"
        BY <2>2, <2>3, <2>4
    <3>2. CASE Send(p) \/ AdvanceComplete(p) \/ EnqueueSeal(p)
        BY <3>1, <3>2 DEF Send, AdvanceComplete, EnqueueSeal, rows
    <3>3. CASE VoidWrite(p) \/ RemindClaim(p) \/ ExpireWrite(p)
        BY <3>1, <3>3 DEF VoidWrite, RemindClaim, ExpireWrite
    <3>4. CASE ViewWrite(p)
        BY <1>t, <3>1, <3>4 DEF ViewWrite
    <3>5. CASE ResendWrite(p)
        BY <1>t, <3>1, <3>5 DEF ResendWrite
    <3>6. CASE Claim(p)
        BY <1>t, <3>1, <3>6 DEF Claim, ClaimHolds, Active
    <3>7. CASE AdvanceHandOff(p)
      <4> DEFINE group   == NextGroup(h[p].seen)
                 called  == group \cap Signers
                 entered == {x \in called : rcStatus[x] = "pending"}
                 copied  == {x \in group \ Signers : rcStatus[x] # "gone"}
      <4>1. rcStatus' = [x \in Recipients |->
                           IF x \in entered \cup copied THEN "sent" ELSE rcStatus[x]]
          BY <3>7 DEF AdvanceHandOff
      <4>2. r \notin entered \cup copied
          BY <3>1
      <4>3. QED BY <3>1, <4>1, <4>2
    <3>8. QED BY <2>4, <3>2, <3>3, <3>4, <3>5, <3>6, <3>7 DEF Writes
  <2>5. CASE UNCHANGED <<env, rcStatus>>
    BY <1>3, <2>3, <2>5
  <2>6. QED BY <2>1, <2>4, <2>5, WhoWrites
<1>4. NothingOutsideLife'
    BY <1>1, <1>2, <1>3 DEF NothingOutsideLife
<1>5. env' = "expired" => pastExpiry'
  <2>1. pastExpiry => pastExpiry'
    BY Monotone
  <2>2. ASSUME NEW p \in Handlers, ExpireWrite(p) PROVE pastExpiry
    BY <2>2 DEF ExpireWrite, ExpiredIsPast
  <2>3. ASSUME NEW p \in Handlers, Writes(p), ~ExpireWrite(p), env' = "expired"
        PROVE  env = "expired"
    BY <2>3 DEF Writes, Send, Rollback, ViewWrite, Claim, AdvanceComplete, AdvanceHandOff,
                EnqueueSeal, rows, VoidWrite, ResendWrite, RemindClaim, Settle
  <2>4. QED BY <2>1, <2>2, <2>3, WhoWrites DEF ExpiredIsPast
<1>6. ASSUME NEW q \in Handlers, h'[q].at \in {"retire", "retiring"} PROVE pastExpiry'
  <2>1. CASE h'[q] = h[q]
    BY <1>6, <2>1, Monotone DEF ExpiredIsPast
  <2>2. CASE h'[q] # h[q]
    <3>1. /\ h'[q].at = "retire" => pastExpiry
          /\ h'[q].at = "retiring" => h[q].at = "retire"
        BY <2>2, Entered
    <3>2. pastExpiry
        BY <1>6, <3>1 DEF ExpiredIsPast
    <3>3. QED BY <3>2, Monotone
  <2>3. QED BY <2>1, <2>2
<1>7. QED BY <1>4, <1>5, <1>6 DEF ExpiredIsPast

\* No step lets a submit claim on a retired envelope.
LEMMA NoClaimStep ==
    /\ TypeOK /\ LinksFresh /\ NothingOutsideLife /\ ExpiredIsPast
    /\ NoClaimOnceRetired /\ [Next]_vars
    => NoClaimOnceRetired'
<1> SUFFICES ASSUME TypeOK, LinksFresh, NothingOutsideLife, ExpiredIsPast,
                    NoClaimOnceRetired, [Next]_vars,
                    NEW q \in Handlers, h'[q].at = "claim",
                    NEW r, r = h'[q].rc, NEW n, n = h'[q].tok
             PROVE  /\ n <= mints'[r]
                    /\ env' \in {"voided", "expired"} =>
                         ~(hash'[r] = n /\ rcStatus'[r] \in {"sent", "viewed"})
    BY DEF NoClaimOnceRetired, ClaimHolds, Active, At
<1> USE DEF At
<1>t. rcStatus \in [Recipients -> RcStatus] /\ hash \in [Recipients -> 0..MaxMints]
    BY DEF TypeOK
<1>r. r \in Recipients /\ n \in 1..MaxMints
  <2>1. h'[q] \in Stage
    BY TypeStep DEF TypeOK
  <2>2. QED BY <2>1, StageFields
<1>n. /\ mints[r] \in Nat /\ mints'[r] \in Nat /\ mints[r] <= mints'[r]
      /\ n \in Nat /\ n # 0 /\ hash[r] \in Nat
    BY <1>r, <1>t, Monotone, ConstantsAssumption
\* The token is one that exists, and no claim holds on a retired envelope.
<1>1. n <= mints[r] /\ (env \in {"voided", "expired"} => ~ClaimHolds(r, n))
  <2>1. CASE h'[q] = h[q]
    BY <2>1 DEF NoClaimOnceRetired
  <2>2. CASE h'[q] # h[q]
    <3>1. SubmitLoad(q, r, n)
        BY <2>2, Entered
    <3>2. hash[r] = n /\ env # "voided" /\ ~pastExpiry
        BY <3>1 DEF SubmitLoad, LoadForToken
    <3>3. n <= mints[r]
        BY <1>r, <3>2 DEF LinksFresh
    <3>4. QED BY <3>2, <3>3 DEF ExpiredIsPast
  <2>3. QED BY <2>1, <2>2
<1>2. n <= mints'[r]
    BY <1>1, <1>n
<1>3. ASSUME env' \in {"voided", "expired"} PROVE ~(hash'[r] = n /\ Active(r)')
  <2>1. ASSUME NEW p \in Handlers, VoidWrite(p) \/ ExpireWrite(p)
        PROVE  ~(hash'[r] = n /\ Active(r)')
    <3>1. hash' = Stripped /\ rcStatus' = rcStatus
        BY <2>1 DEF VoidWrite, ExpireWrite
    <3>2. Active(r) => hash'[r] = 0
        BY <1>r, <3>1 DEF Stripped, Unfinished, Active
    <3>3. QED BY <1>n, <3>1, <3>2 DEF Active
  <2>2. ASSUME NEW p \in Handlers, AdvanceHandOff(p), env \in {"voided", "expired"}
        PROVE  ~(hash'[r] = n /\ Active(r)')
    <3> DEFINE group   == NextGroup(h[p].seen)
               called  == group \cap Signers
               entered == {x \in called : rcStatus[x] = "pending"}
               copied  == {x \in group \ Signers : rcStatus[x] # "gone"}
    <3>1. /\ rcStatus' = [x \in Recipients |->
                            IF x \in entered \cup copied THEN "sent" ELSE rcStatus[x]]
          /\ hash' = [x \in Recipients |-> IF x \in entered THEN mints[x] + 1 ELSE hash[x]]
        BY <2>2 DEF AdvanceHandOff
    <3>2. entered \subseteq Signers /\ copied \cap Signers = {}
        OBVIOUS
    <3>3. CASE r \in entered
        BY <1>1, <1>n, <1>r, <3>1, <3>3
    <3>4. CASE r \in Signers /\ r \notin entered
        BY <1>1, <1>r, <2>2, <3>1, <3>2, <3>4 DEF Active, ClaimHolds
    <3>5. CASE r \notin Signers
        BY <1>n, <1>r, <3>1, <3>2, <3>5 DEF LinksFresh
    <3>6. QED BY <3>3, <3>4, <3>5
  <2>3. ASSUME NEW p \in Handlers, ResendWrite(p) \/ RemindClaim(p), env \in {"voided", "expired"}
        PROVE  ~(hash'[r] = n /\ Active(r)')
    <3>1. hash'[r] = mints[r] + 1 \/ (hash'[r] = hash[r] /\ rcStatus'[r] = rcStatus[r])
      <4>1. CASE ResendWrite(p)
          BY <1>r, <1>t, <4>1 DEF ResendWrite
      <4>2. CASE RemindClaim(p)
          BY <1>r, <1>t, <4>2 DEF RemindClaim
      <4>3. QED BY <2>3, <4>1, <4>2
    <3>2. CASE hash'[r] = mints[r] + 1
        BY <1>1, <1>n, <3>2
    <3>3. CASE hash'[r] = hash[r] /\ rcStatus'[r] = rcStatus[r]
        BY <1>1, <2>3, <3>3 DEF ClaimHolds, Active
    <3>4. QED BY <3>1, <3>2, <3>3
  <2>4. ASSUME NEW p \in Handlers, Claim(p) \/ ViewWrite(p), env \in {"voided", "expired"}
        PROVE  ~(hash'[r] = n /\ Active(r)')
    <3>1. hash' = hash
        BY <2>4 DEF Claim, ViewWrite
    <3>2. Active(r)' => Active(r)
        BY <1>r, <1>t, <2>4 DEF Claim, ViewWrite, Active
    <3>3. QED BY <1>1, <2>4, <3>1, <3>2 DEF ClaimHolds
  <2>5. ASSUME NEW p \in Handlers, AdvanceComplete(p) \/ EnqueueSeal(p),
               env \in {"voided", "expired"}
        PROVE  ~(hash'[r] = n /\ Active(r)')
    BY <1>1, <2>5 DEF AdvanceComplete, EnqueueSeal, rows, ClaimHolds, Active
  <2>6. ASSUME NEW p \in Handlers, Writes(p), ~(VoidWrite(p) \/ ExpireWrite(p))
        PROVE  env \in {"voided", "expired"} /\ ~Send(p) /\ ~Rollback(p)
    BY <1>3, <2>6 DEF Writes, Send, Rollback, ViewWrite, Claim, AdvanceComplete, AdvanceHandOff,
                EnqueueSeal, rows, ResendWrite, RemindClaim, Settle
  <2>7. CASE UNCHANGED <<env, rcStatus, hash>>
    BY <1>1, <1>3, <2>7 DEF ClaimHolds, Active
  <2>8. QED BY <2>1, <2>2, <2>3, <2>4, <2>5, <2>6, <2>7, WhoWrites DEF Writes
<1>4. QED BY <1>2, <1>3 DEF Active

-------------------------------------------------------------------------------
(***************************************************************************)
(* The theorems.                                                           *)
(***************************************************************************)
\* The inductive invariant holds initially,
LEMMA IInvInit == Init => IInv
<1> SUFFICES ASSUME Init PROVE IInv
    OBVIOUS
<1>1. TypeOK
    BY TypeInit
<1>2. /\ \A r \in Recipients : rcStatus[r] = "gone" /\ hash[r] = 0 /\ mints[r] = 0
      /\ \A r \in Recipients, n \in 1..MaxMints : uses[r][n] = 0
      /\ \A p \in Handlers : h[p].at = "idle"
    BY DEF Init, Idle
<1>3. env = "none" /\ ~sealJob
    BY DEF Init
<1>4. LinksFresh /\ LinkSingleUse
    BY <1>2 DEF LinksFresh, LinkSingleUse, Active
<1>5. SignaturesRecorded /\ SealedOnlyWhenAllSigned
    BY <1>2, <1>3 DEF SignaturesRecorded, SealedOnlyWhenAllSigned, At
<1>6. TurnsTaken /\ RoutingOrderKept
    BY <1>2 DEF TurnsTaken, RoutingOrderKept, Active, Signers
<1>7. NothingOutsideLife /\ ExpiredIsPast /\ NoClaimOnceRetired
    BY <1>2, <1>3 DEF NothingOutsideLife, ExpiredIsPast, NoClaimOnceRetired, At
<1>8. QED BY <1>1, <1>4, <1>5, <1>6, <1>7 DEF IInv

\* and every step keeps it.
LEMMA IInvStep == IInv /\ [Next]_vars => IInv'
BY TypeStep, LinksStep, SignaturesStep, TurnsStep, LifeStep, NoClaimStep DEF IInv

\* Every reachable state satisfies the inductive invariant.
THEOREM InvariantHolds == Spec => []IInv
BY IInvInit, IInvStep, PTL DEF Spec

\* A link records at most one signature (the atomic claim of submit), for any
\* number of people, tabs, re-issues and reminders.
THEOREM EachLinkSignsOnce == Spec => []LinkSingleUse
<1>1. IInv => LinkSingleUse
    BY DEF IInv
<1>2. QED BY <1>1, InvariantHolds, PTL

\* An envelope is completed, and its seal ordered, only when every signer's
\* signature is recorded (advanceEnvelope's all-done branch).
THEOREM SealsAreEarned == Spec => []SealedOnlyWhenAllSigned
<1>1. IInv => SealedOnlyWhenAllSigned
    BY DEF IInv
<1>2. QED BY <1>1, InvariantHolds, PTL

\* With sequential routing nobody is sent a link before everyone in the earlier
\* groups has signed (send's first group, advanceEnvelope's hand-off).
THEOREM TurnsAreKept == Spec => []RoutingOrderKept
<1>1. IInv => RoutingOrderKept
    BY DEF IInv
<1>2. QED BY <1>1, InvariantHolds, PTL

\* A step on a retired envelope records no signature.
LEMMA RetiredStep ==
    IInv /\ [Next]_vars => (env \in {"voided", "expired"} => uses' = uses)
<1> SUFFICES ASSUME IInv, [Next]_vars, env \in {"voided", "expired"} PROVE uses' = uses
    OBVIOUS
<1>1. ASSUME NEW p \in Handlers, Claim(p) PROVE uses' = uses
    BY <1>1 DEF Claim, IInv, NoClaimOnceRetired
<1>2. ASSUME NEW p \in Handlers, Writes(p), ~Claim(p) PROVE uses' = uses
    BY <1>2 DEF Writes, Send, Rollback, ViewWrite, AdvanceComplete, AdvanceHandOff,
                EnqueueSeal, VoidWrite, ResendWrite, RemindClaim, ExpireWrite
<1>3. QED BY <1>1, <1>2, WhoWrites

\* Once the envelope is voided or expired no signature is recorded on it, not
\* even by a submit that loaded its page before (the hash is cleared with the
\* status, and every later token is new).
THEOREM RetiredStaysUnsigned == Spec => NoSignatureOnceRetired
<1>1. IInv /\ [Next]_vars => [(env \in {"voided", "expired"}) => uses' = uses]_vars
    BY RetiredStep
<1>2. QED BY <1>1, InvariantHolds, PTL DEF Spec, NoSignatureOnceRetired

-------------------------------------------------------------------------------
(***************************************************************************)
(* The envelope implements EnvelopeAbs.                                    *)
(***************************************************************************)
\* Initial states map to initial states.
LEMMA AbsInit == Init => Abs!Init
BY DEF Init, Abs!Init, Open, EverSigned, Signers

\* A step that records no signature and leaves the envelope's status is none.
LEMMA AbsStutter ==
    ASSUME UNCHANGED <<env, uses>>
    PROVE  UNCHANGED Abs!vars
BY DEF Abs!vars, Open, EverSigned, Signers

\* Every step maps to a step of the abstract envelope or to a stutter.
LEMMA AbsStep == IInv /\ IInv' /\ [Next]_vars => [Abs!Next]_(Abs!vars)
<1> SUFFICES ASSUME IInv, IInv', [Next]_vars PROVE [Abs!Next]_(Abs!vars)
    OBVIOUS
<1> DEFINE state  == IF Open THEN "open" ELSE env
           signed == {r \in Signers : EverSigned(r)}
<1>a. Abs!vars = <<state, signed>> /\ Abs!Signers = Signers
    BY DEF Abs!vars, Abs!Signers, Signers
<1>s. uses' = uses => signed' = signed
    BY DEF EverSigned, Signers
<1>o. Open <=> env \in {"sent", "viewed"}
    BY DEF Open
<1>1. ASSUME NEW p \in Handlers, Send(p) PROVE Abs!Open
    BY <1>1, <1>s DEF Send, Abs!Open, Open
<1>2. ASSUME NEW p \in Handlers, Rollback(p) PROVE Abs!Withdraw
  <2>1. env # "none" /\ env' = "gone" /\ signed' = signed
    BY <1>2, <1>s DEF Rollback, IInv, NothingOutsideLife, At
  <2>2. QED BY <2>1 DEF Abs!Withdraw, Open
<1>3. ASSUME NEW p \in Handlers, ViewWrite(p) PROVE UNCHANGED Abs!vars
  <2>1. signed' = signed
    BY <1>3, <1>s DEF ViewWrite
  <2>2. state' = state
    BY <1>3 DEF ViewWrite, Settle, Open
  <2>3. QED BY <2>1, <2>2 DEF Abs!vars
<1>4. ASSUME NEW p \in Handlers, Claim(p) PROVE [Abs!Next]_(Abs!vars)
  <2>p. PICK r \in Recipients, n \in 1..MaxMints : r = h[p].rc /\ n = h[p].tok
    BY <1>4, StageFields DEF Claim, IInv, TypeOK, At
  <2>0. env' = env
    BY <1>4 DEF Claim
  <2>1. CASE ~ClaimHolds(r, n)
    BY <1>4, <2>1, <2>p, AbsStutter DEF Claim
  <2>2. CASE ClaimHolds(r, n)
    <3>1. uses' = [uses EXCEPT ![r][n] = @ + 1]
        BY <1>4, <2>2, <2>p DEF Claim
    <3>2. r \in Signers /\ mints[r] > 0
        BY <2>0, <2>2 DEF IInv, LinksFresh, TurnsTaken, ClaimHolds
    <3>3. \A x \in Recipients : x # r => uses'[x] = uses[x]
        BY <2>0, <3>1 DEF IInv, TypeOK
    <3>4. EverSigned(r)'
      <4>1. uses \in [Recipients -> [1..MaxMints -> Nat]]
          BY DEF IInv, TypeOK
      <4>2. uses[r] \in [1..MaxMints -> Nat] /\ uses'[r] = [uses[r] EXCEPT ![n] = @ + 1]
          BY <2>0, <3>1, <4>1
      <4>3. uses'[r][n] = uses[r][n] + 1 /\ uses[r][n] \in Nat
          BY <2>0, <4>2
      <4>4. uses'[r][n] > 0
          BY <4>3
      <4>5. QED BY <2>0, <4>4 DEF EverSigned
    <3>5. signed' = signed \cup {r}
        BY <3>2, <3>3, <3>4 DEF EverSigned, Signers
    <3>6. CASE Open
      <4>1. Mode = "sequential" => \A s \in Signers : Order[s] < Order[r] => s \in signed
          BY <3>2 DEF IInv, RoutingOrderKept
      <4>2. Abs!Sign(r)
          BY <1>a, <2>0, <3>5, <3>6, <4>1 DEF Abs!Sign, Open
      <4>3. QED BY <1>a, <3>2, <4>2 DEF Abs!Next
    <3>7. CASE ~Open
      <4>1. env = "completed"
        <5>1. env \notin {"voided", "expired"}
            BY <1>4, <2>2, <2>p DEF Claim, IInv, NoClaimOnceRetired
        <5>2. env \notin {"none", "gone"}
            BY <2>0, <2>2 DEF IInv, NothingOutsideLife, ClaimHolds, Active
        <5>3. QED BY <3>7, <5>1, <5>2 DEF IInv, TypeOK, EnvStatus, Open
      <4>2. signed = Signers
          BY <4>1 DEF IInv, SealedOnlyWhenAllSigned
      <4>3. signed' = signed /\ state' = state
          BY <2>0, <3>2, <3>5, <4>2 DEF Open
      <4>4. QED BY <4>3 DEF Abs!vars
    <3>8. QED BY <3>6, <3>7
  <2>3. QED BY <2>1, <2>2
<1>5. ASSUME NEW p \in Handlers, AdvanceComplete(p) PROVE [Abs!Next]_(Abs!vars)
  <2>1. signed = Signers
    BY <1>5 DEF AdvanceComplete, AllCompleted, IInv, SignaturesRecorded, At, Signers
  <2>2. uses' = uses
    BY <1>5 DEF AdvanceComplete
  <2>3. CASE Open
    <3>1. state = "open" /\ env' = "completed" /\ signed' = signed
        BY <1>5, <1>s, <2>2, <2>3 DEF AdvanceComplete, Settle, Open
    <3>2. Abs!Complete
        BY <1>a, <2>1, <3>1 DEF Abs!Complete, Open
    <3>3. QED BY <3>2 DEF Abs!Next
  <2>4. CASE ~Open
    <3>1. env' = env
        BY <1>5, <2>4 DEF AdvanceComplete, Settle, Open
    <3>2. QED BY <2>2, <3>1, AbsStutter
  <2>5. QED BY <2>3, <2>4
<1>6. ASSUME NEW p \in Handlers, VoidWrite(p) PROVE [Abs!Next]_(Abs!vars)
  <2>1. uses' = uses /\ signed' = signed
    BY <1>6, <1>s DEF VoidWrite
  <2>2. CASE env \in {"sent", "viewed", "expired"}
    <3>1. Abs!Void
        BY <1>6, <2>1, <2>2 DEF VoidWrite, Settle, Abs!Void, Open
    <3>2. QED BY <3>1 DEF Abs!Next
  <2>3. CASE env \notin {"sent", "viewed", "expired"}
    <3>1. env' = env
        BY <1>6, <2>3 DEF VoidWrite, Settle
    <3>2. QED BY <2>1, <3>1, AbsStutter
  <2>4. QED BY <2>2, <2>3
<1>7. ASSUME NEW p \in Handlers, ExpireWrite(p) PROVE [Abs!Next]_(Abs!vars)
  <2>1. uses' = uses /\ signed' = signed
    BY <1>7, <1>s DEF ExpireWrite
  <2>2. CASE Open
    <3>1. Abs!Expire
        BY <1>7, <2>1, <2>2 DEF ExpireWrite, Settle, Abs!Expire, Open
    <3>2. QED BY <3>1 DEF Abs!Next
  <2>3. CASE ~Open
    <3>1. env' = env
        BY <1>7, <2>3 DEF ExpireWrite, Settle, Open
    <3>2. QED BY <2>1, <3>1, AbsStutter
  <2>4. QED BY <2>2, <2>3
<1>8. ASSUME NEW p \in Handlers,
             AdvanceHandOff(p) \/ EnqueueSeal(p) \/ ResendWrite(p) \/ RemindClaim(p)
      PROVE  UNCHANGED Abs!vars
    BY <1>8, AbsStutter DEF AdvanceHandOff, EnqueueSeal, ResendWrite, RemindClaim, rows
<1>9. CASE UNCHANGED <<env, uses>>
    BY <1>9, AbsStutter
<1>10. QED BY <1>1, <1>2, <1>3, <1>4, <1>5, <1>6, <1>7, <1>8, <1>9, WhoWrites
           DEF Writes, Abs!Next

\* What the handlers and sweeps do to an envelope is what EnvelopeAbs allows:
\* signatures come in routing order and only while it is open, it completes
\* when all have signed, and completed, voided and expired envelopes stay so
\* (until a rollback withdraws the send).
THEOREM ImplementsAbs == Spec => KeepsPromise
<1>1. IInv /\ IInv' /\ [Next]_vars => [Abs!Next]_(Abs!vars)
    BY AbsStep
<1>2. QED BY <1>1, AbsInit, InvariantHolds, PTL DEF Spec, KeepsPromise, Abs!Spec

-------------------------------------------------------------------------------
(***************************************************************************)
(* What is owed: unless a process dies, whoever makes an envelope complete *)
(* or a group due is followed by a handler that sees to it.                *)
(***************************************************************************)
\* Somebody waits only since the send.
LEMMA WaitsSinceSend ==
    ASSUME TypeOK, [Next]_vars, NEW r \in Recipients, rcStatus'[r] = "pending"
    PROVE  rcStatus[r] = "pending" \/ \E p \in Handlers : Send(p)
<1>t. rcStatus \in [Recipients -> RcStatus] /\ \A p \in Handlers : h[p] \in Stage
    BY DEF TypeOK
<1>1. ASSUME NEW p \in Handlers, Writes(p), ~Send(p) PROVE rcStatus[r] = "pending"
  <2>1. CASE Rollback(p)
    BY <2>1 DEF Rollback
  <2>2. CASE ViewWrite(p)
    BY <2>2, <1>t DEF ViewWrite
  <2>3. CASE Claim(p)
    BY <2>3, <1>t DEF Claim
  <2>4. CASE AdvanceHandOff(p)
    <3> DEFINE group   == NextGroup(h[p].seen)
               called  == group \cap Signers
               entered == {x \in called : rcStatus[x] = "pending"}
               copied  == {x \in group \ Signers : rcStatus[x] # "gone"}
    <3>1. rcStatus' = [x \in Recipients |->
                         IF x \in entered \cup copied THEN "sent" ELSE rcStatus[x]]
        BY <2>4 DEF AdvanceHandOff
    <3> HIDE DEF entered, copied
    <3>2. QED BY <3>1
  <2>5. CASE ResendWrite(p)
    <3>1. rcStatus' = rcStatus \/ rcStatus' = [rcStatus EXCEPT ![h[p].rc] = "sent"]
        BY <2>5 DEF ResendWrite
    <3>2. QED BY <3>1, <1>t
  <2>6. CASE \/ AdvanceComplete(p) \/ EnqueueSeal(p) \/ VoidWrite(p) \/ RemindClaim(p)
             \/ ExpireWrite(p)
    BY <2>6 DEF AdvanceComplete, EnqueueSeal, VoidWrite, RemindClaim, ExpireWrite, rows
  <2>7. QED BY <1>1, <2>1, <2>2, <2>3, <2>4, <2>5, <2>6 DEF Writes
<1>2. QED BY <1>1, WhoWrites

\* An envelope opens when it is sent.
LEMMA OpensOnSend ==
    ASSUME TypeOK, [Next]_vars, Open'
    PROVE  Open \/ \E p \in Handlers : Send(p)
<1>1. ASSUME NEW p \in Handlers, Writes(p), ~Send(p) PROVE Open
    BY <1>1 DEF Writes, Open, Rollback, ViewWrite, Claim, AdvanceComplete, AdvanceHandOff,
                EnqueueSeal, VoidWrite, ResendWrite, RemindClaim, ExpireWrite, Settle, rows
<1>2. QED BY <1>1, WhoWrites DEF Open

\* Whoever signs leaves a handler that looks at the envelope as a whole.
LEMMA SignedThenAdvanced ==
    ASSUME TypeOK, [Next]_vars, NEW r \in Recipients,
           rcStatus'[r] = "completed", rcStatus[r] # "completed"
    PROVE  \E p \in Handlers : h'[p].at = "advance"
<1>t. rcStatus \in [Recipients -> RcStatus] /\ h \in [Handlers -> Stage]
    BY DEF TypeOK
<1>1. ASSUME NEW p \in Handlers, Claim(p) PROVE h'[p].at = "advance"
  <2>1. CASE ClaimHolds(h[p].rc, h[p].tok)
    BY <1>1, <1>t, <2>1 DEF Claim, AfterClaim, Become
  <2>2. CASE ~ClaimHolds(h[p].rc, h[p].tok)
    BY <1>1, <2>2 DEF Claim
  <2>3. QED BY <2>1, <2>2
<1>2. ASSUME NEW p \in Handlers, Writes(p), ~Claim(p) PROVE FALSE
  <2>1. CASE Send(p) \/ Rollback(p)
    BY <2>1 DEF Send, Rollback
  <2>2. CASE ViewWrite(p)
    BY <2>2, <1>t DEF ViewWrite
  <2>4. CASE AdvanceHandOff(p)
    <3> DEFINE group   == NextGroup(h[p].seen)
               called  == group \cap Signers
               entered == {x \in called : rcStatus[x] = "pending"}
               copied  == {x \in group \ Signers : rcStatus[x] # "gone"}
    <3>1. rcStatus' = [x \in Recipients |->
                         IF x \in entered \cup copied THEN "sent" ELSE rcStatus[x]]
        BY <2>4 DEF AdvanceHandOff
    <3> HIDE DEF entered, copied
    <3>2. QED BY <3>1
  <2>5. CASE ResendWrite(p)
    <3>1. rcStatus' = rcStatus \/ rcStatus' = [rcStatus EXCEPT ![h[p].rc] = "sent"]
        BY <2>5 DEF ResendWrite
    <3>2. QED BY <3>1, <1>t
  <2>6. CASE \/ AdvanceComplete(p) \/ EnqueueSeal(p) \/ VoidWrite(p) \/ RemindClaim(p)
             \/ ExpireWrite(p)
    BY <2>6 DEF AdvanceComplete, EnqueueSeal, VoidWrite, RemindClaim, ExpireWrite, rows
  <2>7. QED BY <1>2, <2>1, <2>2, <2>4, <2>5, <2>6 DEF Writes
<1>3. QED BY <1>1, <1>2, WhoWrites

\* Unless its process dies, a handler that looks at the envelope decides.
LEMMA AdvanceGoesOn ==
    ASSUME TypeOK, [Next]_vars, "crash" \notin Ops, NEW q \in Handlers,
           h[q].at \in {"advance", "decide"}, h'[q] # h[q]
    PROVE  AdvanceRead(q) \/ AdvanceComplete(q) \/ AdvanceHandOff(q) \/ AdvanceNothing(q)
<1>1. Start(q) \/ Continue(q) \/ Crash(q)
    BY OwnStep
<1>2. ~Crash(q)
    BY DEF Crash
<1>3. ~Start(q)
    BY DEF Start, Send, VoidRead, ExpireFind, Resend, Remind, RemindFind, ViewLoad,
           ConsentLoad, SubmitLoad, At
<1>4. Continue(q) => \/ AdvanceRead(q) \/ AdvanceComplete(q) \/ AdvanceHandOff(q)
                     \/ AdvanceNothing(q)
    BY DEF Continue, DispatchInvite, DispatchFail, Rollback, ViewWrite, ConsentWrite,
           Claim, RouteInvite, EnqueueSeal, VoidWrite, ResendRead, ResendWrite,
           ResendMail, RemindRead, RemindClaim, Nudge, ExpireRead, ExpireWrite, At
<1>5. QED BY <1>1, <1>2, <1>3, <1>4

\* Every step keeps the completion owed.
LEMMA CompletionStep ==
    TypeOK /\ CompletionOwed /\ [Next]_vars /\ "crash" \notin Ops => CompletionOwed'
<1> SUFFICES ASSUME TypeOK, CompletionOwed, [Next]_vars, "crash" \notin Ops,
                    Open', AllSigned'
             PROVE  \E p \in Handlers :
                        \/ h'[p].at = "advance"
                        \/ h'[p].at = "decide" /\ AllCompleted(h'[p].seen)
    BY DEF CompletionOwed, At, AllCompleted
<1>t. h \in [Handlers -> Stage]
    BY DEF TypeOK
<1>s. Signers \subseteq Recipients
    BY DEF Signers
<1>1. CASE Open /\ AllSigned
  <2>1. PICK q \in Handlers : \/ h[q].at = "advance"
                              \/ h[q].at = "decide" /\ AllCompleted(h[q].seen)
    BY <1>1 DEF CompletionOwed, At
  <2>2. CASE h'[q] = h[q]
    BY <2>1, <2>2
  <2>3. CASE AdvanceRead(q)
    <3>1. h'[q] = [at |-> "decide", seen |-> rcStatus]
        BY <1>1, <1>t, <2>3 DEF AdvanceRead, Open, Become
    <3>2. AllCompleted(rcStatus)
        BY <1>1 DEF AllSigned, AllCompleted
    <3>3. QED BY <3>1, <3>2
  <2>4. CASE AdvanceComplete(q)
    BY <2>4 DEF AdvanceComplete, Settle, Open
  <2>5. CASE AdvanceHandOff(q) \/ AdvanceNothing(q)
    BY <2>1, <2>5 DEF AdvanceHandOff, AdvanceNothing, HandsOff, At
  <2>6. QED BY <2>1, <2>2, <2>3, <2>4, <2>5, AdvanceGoesOn
<1>2. CASE ~Open
  <2>1. PICK p \in Handlers : Send(p)
    BY <1>2, OpensOnSend
  <2>2. PICK r \in Signers : r \in Recipients
    BY SomeSigner DEF Signers
  <2>3. rcStatus'[r] # "completed"
    BY <2>1, <2>2 DEF Send
  <2>4. QED BY <2>2, <2>3 DEF AllSigned
<1>3. CASE ~AllSigned
  <2>1. PICK r \in Signers : rcStatus[r] # "completed" /\ rcStatus'[r] = "completed"
    BY <1>3 DEF AllSigned
  <2>2. QED BY <1>s, <2>1, SignedThenAdvanced
<1>4. QED BY <1>1, <1>2, <1>3

\* Before the send nobody waits and nothing is owed.
LEMMA OwedInit ==
    Init => /\ CompletionOwed /\ WaitingTogether /\ HandOffOwed
            /\ TurnByTurn /\ InvitedOnce /\ LinksOnTheirWay
<1> SUFFICES ASSUME Init
             PROVE  /\ CompletionOwed /\ WaitingTogether /\ HandOffOwed
                    /\ TurnByTurn /\ InvitedOnce /\ LinksOnTheirWay
    OBVIOUS
<1>1. ~Open
    BY DEF Init, Open
<1>2. \A r \in Recipients : rcStatus[r] = "gone"
    BY DEF Init
<1>3. \A p \in Handlers : h[p].at = "idle"
    BY DEF Init, Idle
<1>4. WaitingTogether
    BY <1>2, <1>3 DEF WaitingTogether, At, Signers
<1>5. TurnByTurn
    BY <1>2, <1>3 DEF TurnByTurn, At, Signers, Active
<1>6. InvitedOnce
    BY <1>3 DEF InvitedOnce, At, Init
<1>7. QED BY <1>1, <1>4, <1>5, <1>6 DEF CompletionOwed, HandOffOwed, LinksOnTheirWay

\* Every step keeps those who wait together.
LEMMA WaitingStep ==
    TypeOK /\ NothingOutsideLife /\ WaitingTogether /\ [Next]_vars => WaitingTogether'
<1> SUFFICES ASSUME TypeOK, NothingOutsideLife, WaitingTogether, [Next]_vars
             PROVE  WaitingTogether'
    OBVIOUS
<1>t. rcStatus \in [Recipients -> RcStatus] /\ h \in [Handlers -> Stage]
      /\ \A p \in Handlers : h[p] \in Stage
    BY DEF TypeOK
<1>s. Signers \subseteq Recipients
    BY DEF Signers
\* At the send nobody else is at work.
<1>0. ASSUME NEW p \in Handlers, Send(p), NEW q \in Handlers
      PROVE  h'[q].at \in {"idle", "dispatch"}
    BY <1>0, <1>t DEF Send, NothingOutsideLife, Become, At
<1>1. ASSUME NEW q \in Handlers, h'[q].at = "decide", NEW r \in Recipients, rcStatus'[r] = "pending"
      PROVE  h'[q].seen[r] = "pending"
  <2>1. rcStatus[r] = "pending"
    BY <1>0, <1>1, WaitsSinceSend
  <2>2. CASE h'[q] = h[q]
    BY <1>1, <2>1, <2>2 DEF WaitingTogether, At
  <2>3. CASE h'[q] # h[q]
    <3>1. h'[q].seen = rcStatus
        BY <1>1, <2>3, Entered
    <3>2. QED BY <2>1, <3>1
  <2>4. QED BY <2>2, <2>3
<1>2. ASSUME Mode = "parallel", NEW r \in Signers
      PROVE  rcStatus'[r] # "pending"
  <2>1. ASSUME NEW p \in Handlers, Send(p) PROVE rcStatus'[r] # "pending"
    <3>1. r \in InvitedNow /\ r \in Recipients
        BY <1>2 DEF InvitedNow, Signers
    <3>2. QED BY <2>1, <3>1 DEF Send
  <2>2. rcStatus[r] # "pending"
    BY <1>2 DEF WaitingTogether
  <2>3. QED BY <1>s, <2>1, <2>2, WaitsSinceSend
<1>3. ASSUME NEW q \in Handlers, h'[q].at = "resend"
      PROVE  rcStatus'[h'[q].rc] # "pending"
  <2>1. h'[q].rc \in Recipients /\ rcStatus[h'[q].rc] # "pending"
    <3>1. CASE h'[q] = h[q]
        BY <1>3, <1>t, <3>1, StageFields DEF WaitingTogether, At
    <3>2. CASE h'[q] # h[q]
        BY <1>3, <3>2, Entered DEF ResendAllowed, Active
    <3>3. QED BY <3>1, <3>2
  <2>2. QED BY <1>0, <1>3, <2>1, WaitsSinceSend
<1>4. ASSUME NEW c \in Recipients \ Signers, NEW s \in Signers, NEW t \in Signers,
             Mode = "sequential", Order[s] = Order[c], Order[t] < Order[c],
             rcStatus'[c] = "pending"
      PROVE  rcStatus'[s] = "pending"
  <2>0. c \in Recipients /\ s \in Recipients /\ t \in Recipients
    BY <1>s
  <2>n. Order[s] \in Nat /\ Order[t] \in Nat /\ Order[c] \in Nat
    BY <2>0, ConstantsAssumption
  <2>1. ASSUME NEW p \in Handlers, Send(p) PROVE rcStatus'[s] = "pending"
    <3>1. s \notin FirstGroup
        BY <1>4, <2>0, <2>n DEF FirstGroup
    <3>2. s \notin InvitedNow
        BY <1>4, <3>1 DEF InvitedNow
    <3>3. QED BY <2>0, <2>1, <3>2 DEF Send
  <2>2. ASSUME rcStatus[c] = "pending" PROVE rcStatus'[s] = "pending"
    <3>1. rcStatus[s] = "pending"
        BY <1>4, <2>2 DEF WaitingTogether
    <3>2. ASSUME NEW p \in Handlers, Writes(p), ~Send(p) PROVE rcStatus'[s] = "pending"
      <4>1. CASE Rollback(p)
          BY <1>4, <2>0, <4>1 DEF Rollback
      <4>2. CASE ViewWrite(p)
          BY <1>t, <2>0, <3>1, <4>2 DEF ViewWrite
      <4>3. CASE Claim(p)
        <5>1. CASE ClaimHolds(h[p].rc, h[p].tok)
          <6>1. rcStatus' = [rcStatus EXCEPT ![h[p].rc] = "completed"] /\ h[p].rc # s
              BY <3>1, <4>3, <5>1 DEF Claim, ClaimHolds, Active
          <6>2. QED BY <1>t, <2>0, <3>1, <6>1
        <5>2. CASE ~ClaimHolds(h[p].rc, h[p].tok)
            BY <3>1, <4>3, <5>2 DEF Claim
        <5>3. QED BY <5>1, <5>2
      <4>4. CASE AdvanceHandOff(p)
        <5> DEFINE group   == NextGroup(h[p].seen)
                   called  == group \cap Signers
                   entered == {x \in called : rcStatus[x] = "pending"}
                   copied  == {x \in group \ Signers : rcStatus[x] # "gone"}
        <5>1. rcStatus' = [x \in Recipients |->
                             IF x \in entered \cup copied THEN "sent" ELSE rcStatus[x]]
            BY <4>4 DEF AdvanceHandOff
        <5>2. CASE s \in group
          <6>1. h[p].seen[c] = "pending"
              BY <2>0, <2>2, <4>4 DEF WaitingTogether, AdvanceHandOff
          <6>2. c \in group
              BY <1>4, <2>0, <5>2, <6>1 DEF NextGroup, Waiting
          <6>3. c \in copied
              BY <2>0, <2>2, <6>2
          <6> HIDE DEF copied, entered, group
          <6>4. rcStatus'[c] = "sent"
              BY <2>0, <5>1, <6>3
          <6>5. QED BY <1>4, <6>4
        <5>3. CASE s \notin group
          <6>1. s \notin entered \cup copied
              BY <5>3
          <6> HIDE DEF copied, entered
          <6>2. QED BY <2>0, <3>1, <5>1, <6>1
        <5>4. QED BY <5>2, <5>3
      <4>5. CASE ResendWrite(p)
        <5>1. h[p].rc # s
            BY <3>1, <4>5 DEF ResendWrite, WaitingTogether, At
        <5>2. rcStatus' = rcStatus \/ rcStatus' = [rcStatus EXCEPT ![h[p].rc] = "sent"]
            BY <4>5 DEF ResendWrite
        <5>3. QED BY <1>t, <2>0, <3>1, <5>1, <5>2
      <4>6. CASE \/ AdvanceComplete(p) \/ EnqueueSeal(p) \/ VoidWrite(p) \/ RemindClaim(p)
                 \/ ExpireWrite(p)
          BY <3>1, <4>6 DEF AdvanceComplete, EnqueueSeal, VoidWrite, RemindClaim, ExpireWrite,
                            rows
      <4>7. QED BY <3>2, <4>1, <4>2, <4>3, <4>4, <4>5, <4>6 DEF Writes
    <3>3. QED BY <2>1, <3>1, <3>2, WhoWrites
  <2>3. QED BY <1>4, <2>0, <2>1, <2>2, WaitsSinceSend
<1>5. QED BY <1>1, <1>2, <1>3, <1>4 DEF WaitingTogether, At, Signers

\* Every step keeps the hand-off owed.
LEMMA HandOffStep ==
    /\ TypeOK /\ WaitingTogether /\ HandOffOwed /\ [Next]_vars
    /\ CopiesFollow /\ "crash" \notin Ops
    => HandOffOwed'
<1> SUFFICES ASSUME TypeOK, WaitingTogether, HandOffOwed, [Next]_vars,
                    CopiesFollow, "crash" \notin Ops,
                    NEW r \in Signers, Open', rcStatus'[r] = "pending",
                    \A s \in Signers : Earlier(s, r) => rcStatus'[s] = "completed"
             PROVE  \E p \in Handlers :
                        \/ h'[p].at = "advance"
                        \/ /\ h'[p].at = "decide"
                           /\ HandsOff(h'[p].seen)
                           /\ r \in NextGroup(h'[p].seen)
    BY DEF HandOffOwed, At, Signers, Earlier, HandsOff, NextGroup, Waiting, AllCompleted,
           EarlierFinished
<1>t. h \in [Handlers -> Stage] /\ rcStatus \in [Recipients -> RcStatus]
    BY DEF TypeOK
<1>s. Signers \subseteq Recipients /\ r \in Recipients
    BY DEF Signers
<1>n. \A x \in Recipients : Order[x] \in Nat
    BY ConstantsAssumption
<1> DEFINE Due == \A s \in Signers : Earlier(s, r) => rcStatus[s] = "completed"
\* At the send somebody before r has still to sign.
<1>1. ASSUME NEW p \in Handlers, Send(p) PROVE FALSE
  <2>1. Mode = "sequential" /\ r \notin FirstGroup
    <3>1. r \notin InvitedNow
        BY <1>1, <1>s DEF Send
    <3>2. QED BY <3>1, ConstantsAssumption DEF InvitedNow
  <2>2. PICK o \in Recipients : Order[o] < Order[r]
    BY <1>s, <1>n, <2>1 DEF FirstGroup
  <2>3. PICK s \in Signers : Order[s] < Order[r]
    <3>1. CASE o \in Signers
        BY <2>2, <3>1
    <3>2. CASE o \notin Signers
      <4>1. PICK s \in Signers : Order[s] < Order[o]
          BY <2>1, <2>2, <3>2 DEF CopiesFollow
      <4>2. QED BY <1>s, <1>n, <2>2, <4>1
    <3>3. QED BY <3>1, <3>2
  <2>4. rcStatus'[s] # "completed" /\ s \in Recipients
    BY <1>1, <1>s DEF Send
  <2>5. QED BY <2>3, <2>4 DEF Earlier
<1>2. Open /\ rcStatus[r] = "pending"
    BY <1>1, <1>s, OpensOnSend, WaitsSinceSend
<1>3. CASE ~Due
  <2>1. PICK s \in Signers : rcStatus[s] # "completed" /\ rcStatus'[s] = "completed"
    BY <1>3
  <2>2. QED BY <1>s, <2>1, SignedThenAdvanced
<1>4. CASE Due
  <2>1. PICK q \in Handlers : \/ h[q].at = "advance"
                              \/ /\ h[q].at = "decide"
                                 /\ HandsOff(h[q].seen)
                                 /\ r \in NextGroup(h[q].seen)
    BY <1>2, <1>4 DEF HandOffOwed, At
  <2>2. CASE h'[q] = h[q]
    BY <2>1, <2>2
  <2>3. CASE AdvanceRead(q)
    <3>1. h'[q] = [at |-> "decide", seen |-> rcStatus]
        BY <1>2, <1>t, <2>3 DEF AdvanceRead, Open, Become
    <3>2. Mode = "sequential"
        BY <1>2, ConstantsAssumption DEF WaitingTogether
    <3>3. r \in Waiting(rcStatus)
        BY <1>2, <1>s DEF Waiting
    <3>4. ASSUME NEW w \in Waiting(rcStatus) PROVE Order[r] <= Order[w]
      <4>1. w \in Recipients /\ rcStatus[w] = "pending"
          BY DEF Waiting
      <4>2. SUFFICES ASSUME Order[w] < Order[r] PROVE FALSE
          BY <1>n, <1>s, <4>1
      <4>3. w \notin Signers
          BY <1>4, <4>1, <4>2 DEF Earlier
      <4>4. PICK s \in Signers : Order[s] = Order[w] /\ \E x \in Signers : Order[x] < Order[w]
          BY <3>2, <4>1, <4>2, <4>3 DEF CopiesFollow
      <4>5. rcStatus[s] = "pending"
          BY <3>2, <4>1, <4>3, <4>4 DEF WaitingTogether
      <4>6. rcStatus[s] = "completed"
          BY <1>4, <4>2, <4>4 DEF Earlier
      <4>7. QED BY <4>5, <4>6
    <3>5. r \in NextGroup(rcStatus)
        BY <3>3, <3>4 DEF NextGroup
    <3>6. EarlierFinished(rcStatus)
      <4>1. ASSUME NEW x \in NextGroup(rcStatus), NEW s \in Signers, Order[s] < Order[x]
            PROVE  rcStatus[s] = "completed"
        <5>1. x \in Recipients /\ Order[x] <= Order[r]
            BY <3>3 DEF NextGroup, Waiting
        <5>2. Order[s] < Order[r]
            BY <1>n, <1>s, <4>1, <5>1
        <5>3. QED BY <1>4, <5>2 DEF Earlier
      <4>2. QED BY <4>1 DEF EarlierFinished
    <3>7. HandsOff(rcStatus)
        BY <1>2, <3>2, <3>3, <3>6 DEF HandsOff, AllCompleted
    <3>8. QED BY <3>1, <3>5, <3>7
  <2>4. CASE AdvanceComplete(q) \/ AdvanceNothing(q)
    BY <2>1, <2>4 DEF AdvanceComplete, AdvanceNothing, HandsOff, At
  <2>5. CASE AdvanceHandOff(q)
    <3> DEFINE group   == NextGroup(h[q].seen)
               called  == group \cap Signers
               entered == {x \in called : rcStatus[x] = "pending"}
               copied  == {x \in group \ Signers : rcStatus[x] # "gone"}
    <3>1. rcStatus' = [x \in Recipients |->
                         IF x \in entered \cup copied THEN "sent" ELSE rcStatus[x]]
        BY <2>5 DEF AdvanceHandOff
    <3>2. r \in entered
        BY <1>2, <2>1, <2>5 DEF AdvanceHandOff, At
    <3> HIDE DEF entered, copied
    <3>3. QED BY <1>s, <3>1, <3>2
  <2>6. QED BY <2>1, <2>2, <2>3, <2>4, <2>5, AdvanceGoesOn
<1>5. QED BY <1>3, <1>4

\* Who is asked to sign from now on has been called: by the send, a hand-off or a
\* re-issue.
LEMMA BecomesActive ==
    ASSUME TypeOK, [Next]_vars, NEW r \in Signers, Active(r)', ~Active(r)
    PROVE  \E p \in Handlers :
              \/ Send(p) /\ r \in InvitedNow
              \/ AdvanceHandOff(p) /\ r \in NextGroup(h[p].seen)
              \/ ResendWrite(p) /\ h[p].rc = r
<1>t. rcStatus \in [Recipients -> RcStatus] /\ \A p \in Handlers : h[p] \in Stage
    BY DEF TypeOK
<1>s. r \in Recipients
    BY DEF Signers
<1>1. PICK p \in Handlers : Writes(p) /\ rcStatus' # rcStatus
    BY WhoWrites DEF Active
<1>2. CASE Send(p)
    BY <1>s, <1>2 DEF Send, Active
<1>3. CASE AdvanceHandOff(p)
  <2> DEFINE group   == NextGroup(h[p].seen)
             called  == group \cap Signers
             entered == {x \in called : rcStatus[x] = "pending"}
             copied  == {x \in group \ Signers : rcStatus[x] # "gone"}
  <2>1. rcStatus' = [x \in Recipients |->
                       IF x \in entered \cup copied THEN "sent" ELSE rcStatus[x]]
    BY <1>3 DEF AdvanceHandOff
  <2>2. r \notin entered \cup copied => rcStatus'[r] = rcStatus[r]
    <3> HIDE DEF entered, copied
    <3>1. QED BY <1>s, <2>1
  <2>3. r \in group
    BY <2>2 DEF Active
  <2>4. QED BY <1>3, <2>3
<1>4. CASE ResendWrite(p)
  <2>1. rcStatus' = [rcStatus EXCEPT ![h[p].rc] = "sent"] /\ h[p].rc \in Recipients
    BY <1>1, <1>4, <1>t, StageFields DEF ResendWrite
  <2>2. h[p].rc = r
    BY <1>s, <1>t, <2>1 DEF Active
  <2>3. QED BY <1>4, <2>2
<1>5. CASE Rollback(p)
    BY <1>s, <1>5 DEF Rollback, Active
<1>6. CASE ViewWrite(p) \/ Claim(p)
    BY <1>s, <1>t, <1>6 DEF ViewWrite, Claim, Active
<1>7. QED BY <1>1, <1>2, <1>3, <1>4, <1>5, <1>6
       DEF Writes, AdvanceComplete, EnqueueSeal, VoidWrite, RemindClaim, ExpireWrite, rows

\* A handler looks at the envelope because it was doing so before, or because a
\* signer has just signed.
LEMMA LooksSince ==
    ASSUME TypeOK, LinksFresh, [Next]_vars, NEW q \in Handlers,
           h'[q].at \in {"advance", "decide"}
    PROVE  \/ h[q].at \in {"advance", "decide"}
           \/ /\ Claim(q) /\ h[q].rc \in Signers /\ Active(h[q].rc)
              /\ rcStatus' = [rcStatus EXCEPT ![h[q].rc] = "completed"]
<1> USE DEF At
<1>t. h \in [Handlers -> Stage] /\ h[q] \in Stage
    BY DEF TypeOK
<1>1. SUFFICES ASSUME h'[q] # h[q], h[q].at \notin {"advance", "decide"}
               PROVE  /\ Claim(q) /\ h[q].rc \in Signers /\ Active(h[q].rc)
                      /\ rcStatus' = [rcStatus EXCEPT ![h[q].rc] = "completed"]
    OBVIOUS
<1>b. ASSUME NEW s, Become(q, s) PROVE h'[q] = s
    BY <1>b, <1>t DEF Become
<1>2. ~Start(q) /\ ~Crash(q)
  <2>1. ~Crash(q) /\ ~Send(q) /\ ~VoidRead(q) /\ ~ExpireFind(q)
    BY <1>b DEF Send, VoidRead, ExpireFind, Crash, Idle
  <2>2. ASSUME NEW r \in Recipients PROVE ~(Resend(q, r) \/ Remind(q, r) \/ RemindFind(q, r))
    BY <1>b DEF Resend, Remind, RemindFind
  <2>3. ASSUME NEW r \in Recipients, NEW n \in 1..MaxMints
        PROVE  ~(ViewLoad(q, r, n) \/ ConsentLoad(q, r, n) \/ SubmitLoad(q, r, n))
    BY <1>b DEF ViewLoad, ConsentLoad, SubmitLoad
  <2>4. QED BY <2>1, <2>2, <2>3 DEF Start
<1>3. Continue(q)
    BY <1>1, <1>2, OwnStep
<1>4. Claim(q)
  <2>1. ~(DispatchInvite(q) \/ RouteInvite(q))
    <3>1. CASE DispatchInvite(q)
      <4>1. h'[q].at \in {"idle", "dispatch"}
          BY <1>b, <3>1 DEF DispatchInvite, Idle
      <4>2. QED BY <4>1
    <3>2. CASE RouteInvite(q)
      <4>1. h'[q].at \in {"idle", "invite"}
          BY <1>b, <3>2 DEF RouteInvite, Idle
      <4>2. QED BY <4>1
    <3>3. QED BY <3>1, <3>2
  <2>2. ~(ResendRead(q) \/ RemindRead(q) \/ RemindClaim(q) \/ ExpireRead(q) \/ ResendWrite(q))
    BY <1>b DEF ResendRead, RemindRead, RemindClaim, ExpireRead, ResendWrite, Idle
  <2>3. QED BY <1>1, <1>3, <1>b, <2>1, <2>2
         DEF Continue, DispatchFail, Rollback, ViewWrite, ConsentWrite, AdvanceRead,
             AdvanceComplete, AdvanceHandOff, AdvanceNothing, EnqueueSeal, VoidWrite,
             ResendMail, Nudge, ExpireWrite, Idle
<1>5. ClaimHolds(h[q].rc, h[q].tok)
    BY <1>4, <1>b DEF Claim, Idle
<1>6. h[q].rc \in Recipients /\ h[q].tok \in 1..MaxMints
    BY <1>4, <1>t, StageFields DEF Claim
<1>7. h[q].rc \in Signers
    BY <1>5, <1>6 DEF ClaimHolds, LinksFresh
<1>8. QED BY <1>4, <1>5, <1>7 DEF Claim, ClaimHolds

\* Every step keeps the turns one after the other.
LEMMA TurnStep ==
    /\ TypeOK /\ LinksFresh /\ NothingOutsideLife /\ TurnByTurn /\ [Next]_vars
    /\ SoloTurns /\ Ops \cap {"crash", "mailfail", "queuefail"} = {}
    => TurnByTurn'
<1> SUFFICES ASSUME TypeOK, LinksFresh, NothingOutsideLife, TurnByTurn, [Next]_vars,
                    SoloTurns, Ops \cap {"crash", "mailfail", "queuefail"} = {}
             PROVE  TurnByTurn'
    OBVIOUS
<1> USE DEF At
<1>t. /\ h \in [Handlers -> Stage] /\ \A p \in Handlers : h[p] \in Stage
      /\ rcStatus \in [Recipients -> RcStatus]
    BY DEF TypeOK
<1>s. Signers \subseteq Recipients
    BY DEF Signers
<1>n. \A x \in Recipients : Order[x] \in Nat
    BY ConstantsAssumption
\* At the send nobody else is at work, and nobody is active.
<1>0. ASSUME NEW p \in Handlers, Send(p)
      PROVE  /\ \A q \in Handlers : h'[q].at \in {"idle", "dispatch"}
             /\ \A r \in Signers : ~Active(r)
    BY <1>0, <1>s, <1>t DEF Send, NothingOutsideLife, Become, Active
\* Who becomes active is alone: one is invited at the send, one by a hand-off.
<1>1. ASSUME NEW r \in Signers, Active(r)', ~Active(r)
      PROVE  /\ \A q \in Handlers : h'[q].at \notin {"advance", "decide"}
             /\ \A x \in Signers : Active(x)' => x = r
  <2>1. ASSUME NEW p \in Handlers, Send(p), r \in InvitedNow,
               NEW x \in Signers, Active(x)'
        PROVE  x = r
    <3>1. x \in InvitedNow
        BY <1>0, <1>s, <2>1 DEF Send, Active
    <3>2. r \in FirstGroup /\ x \in FirstGroup
        BY <2>1, <3>1 DEF InvitedNow, SoloTurns
    <3>3. Order[x] = Order[r]
        BY <1>s, <1>n, <3>2 DEF FirstGroup
    <3>4. QED BY <1>s, <3>3 DEF SoloTurns
  <2>2. ASSUME NEW p \in Handlers, AdvanceHandOff(p), r \in NextGroup(h[p].seen)
        PROVE  /\ \A q \in Handlers : h'[q].at \notin {"advance", "decide"}
               /\ \A x \in Signers : Active(x)' => x = r
    <3>1. h[p].at = "decide" /\ \A x \in Signers : ~Active(x)
        BY <2>2 DEF AdvanceHandOff, TurnByTurn
    <3>2. ASSUME NEW q \in Handlers, h'[q].at \in {"advance", "decide"} PROVE FALSE
      <4>1. h[q].at \in {"advance", "decide"}
          BY <3>1, <3>2, LooksSince
      <4>2. q = p
          BY <3>1, <4>1 DEF TurnByTurn
      <4>3. h'[p].at \in {"idle", "invite"}
          BY <1>t, <2>2 DEF AdvanceHandOff, Become, Idle
      <4>4. QED BY <3>2, <4>2, <4>3
    <3>3. ASSUME NEW x \in Signers, Active(x)' PROVE x = r
      <4>1. PICK y \in Handlers :
              \/ Send(y) /\ x \in InvitedNow
              \/ AdvanceHandOff(y) /\ x \in NextGroup(h[y].seen)
              \/ ResendWrite(y) /\ h[y].rc = x
          BY <3>1, <3>3, BecomesActive
      <4>2. ~Send(y) /\ ~ResendWrite(y)
          BY <1>0, <2>2, <3>1 DEF NothingOutsideLife, Send, ResendWrite, TurnByTurn
      <4>3. y = p
          BY <3>1, <4>1, <4>2 DEF AdvanceHandOff, TurnByTurn
      <4>4. x \in NextGroup(h[p].seen)
          BY <4>1, <4>2, <4>3
      <4>5. Order[x] = Order[r]
          BY <1>s, <1>n, <2>2, <4>4 DEF NextGroup
      <4>6. QED BY <1>s, <4>5 DEF SoloTurns
    <3>4. QED BY <3>2, <3>3
  <2>3. PICK p \in Handlers :
          \/ Send(p) /\ r \in InvitedNow
          \/ AdvanceHandOff(p) /\ r \in NextGroup(h[p].seen)
          \/ ResendWrite(p) /\ h[p].rc = r
    BY <1>1, BecomesActive
  <2>4. ~ResendWrite(p)
    BY DEF ResendWrite, TurnByTurn
  <2>5. CASE Send(p) /\ r \in InvitedNow
    <3>1. \A q \in Handlers : h'[q].at \notin {"advance", "decide"}
        BY <1>0, <2>5
    <3>2. QED BY <2>1, <2>5, <3>1
  <2>6. CASE AdvanceHandOff(p) /\ r \in NextGroup(h[p].seen)
    BY <2>2, <2>6
  <2>7. QED BY <2>3, <2>4, <2>5, <2>6
<1>2. ASSUME NEW r \in Signers, Active(r)', NEW x \in Signers, Active(x)'
      PROVE  r = x
    BY <1>1, <1>2 DEF TurnByTurn
<1>3. ASSUME NEW p \in Handlers, h'[p].at \in {"advance", "decide"}
      PROVE  /\ \A r \in Signers : ~Active(r)'
             /\ \A q \in Handlers : h'[q].at \in {"advance", "decide"} => q = p
  <2>1. \A r \in Signers : Active(r)' => Active(r)
    BY <1>1, <1>3
  <2>2. CASE h[p].at \in {"advance", "decide"}
    <3>1. \A r \in Signers : ~Active(r)
        BY <2>2 DEF TurnByTurn
    <3>2. ASSUME NEW q \in Handlers, h'[q].at \in {"advance", "decide"} PROVE q = p
      <4>1. h[q].at \in {"advance", "decide"}
          BY <3>1, <3>2, LooksSince
      <4>2. QED BY <2>2, <4>1 DEF TurnByTurn
    <3>3. QED BY <2>1, <3>1, <3>2
  <2>3. CASE h[p].at \notin {"advance", "decide"}
    <3>1. /\ Claim(p) /\ h[p].rc \in Signers /\ Active(h[p].rc)
          /\ rcStatus' = [rcStatus EXCEPT ![h[p].rc] = "completed"]
        BY <1>3, <2>3, LooksSince
    <3>2. ASSUME NEW r \in Signers, Active(r)' PROVE FALSE
      <4>1. r = h[p].rc
          BY <2>1, <3>1, <3>2 DEF TurnByTurn
      <4>2. rcStatus'[r] = "completed"
          BY <1>s, <1>t, <3>1, <4>1
      <4>3. QED BY <3>2, <4>2 DEF Active
    <3>3. ASSUME NEW q \in Handlers, h'[q].at \in {"advance", "decide"} PROVE q = p
      <4>1. h[q].at \notin {"advance", "decide"}
          BY <3>1 DEF TurnByTurn
      <4>2. h'[q] # h[q] /\ h'[p] # h[p]
          BY <1>3, <2>3, <3>3, <4>1
      <4>3. QED BY <1>t, <3>1, <4>2 DEF Claim, Become
    <3>4. QED BY <3>2, <3>3
  <2>4. QED BY <2>2, <2>3
<1>4. ASSUME NEW p \in Handlers, h'[p].at = "decide", NEW r \in Recipients,
             h'[p].seen[r] = "pending"
      PROVE  rcStatus'[r] = "pending"
  <2>1. rcStatus[r] = "pending" /\ h[p].at \in {"advance", "decide"}
    <3>1. CASE h'[p] = h[p]
        BY <1>4, <3>1 DEF TurnByTurn
    <3>2. CASE h'[p] # h[p]
        BY <1>4, <3>2, Entered DEF AdvanceRead
    <3>3. QED BY <3>1, <3>2
  <2>2. \A x \in Signers : ~Active(x)
    BY <2>1 DEF TurnByTurn
  <2>3. ASSUME NEW q \in Handlers, Writes(q) PROVE rcStatus'[r] = "pending"
    <3>1. CASE Send(q)
        BY <1>0, <1>4, <3>1
    <3>2. CASE Rollback(q) \/ ResendWrite(q)
        BY <3>2 DEF Rollback, ResendWrite, TurnByTurn
    <3>3. CASE ViewWrite(q)
        BY <1>t, <2>1, <3>3 DEF ViewWrite
    <3>4. CASE Claim(q)
      <4>1. CASE ClaimHolds(h[q].rc, h[q].tok)
        <5>1. rcStatus' = [rcStatus EXCEPT ![h[q].rc] = "completed"] /\ h[q].rc # r
            BY <2>1, <3>4, <4>1 DEF Claim, ClaimHolds, Active
        <5>2. QED BY <1>t, <2>1, <5>1
      <4>2. CASE ~ClaimHolds(h[q].rc, h[q].tok)
          BY <2>1, <3>4, <4>2 DEF Claim
      <4>3. QED BY <4>1, <4>2
    <3>5. CASE AdvanceHandOff(q)
      <4>1. q = p
          BY <2>1, <3>5 DEF AdvanceHandOff, TurnByTurn
      <4>2. h'[p].at \in {"idle", "invite"}
          BY <1>t, <3>5, <4>1 DEF AdvanceHandOff, Become, Idle
      <4>3. QED BY <1>4, <4>2
    <3>6. CASE \/ AdvanceComplete(q) \/ EnqueueSeal(q) \/ VoidWrite(q) \/ RemindClaim(q)
               \/ ExpireWrite(q)
        BY <2>1, <3>6 DEF AdvanceComplete, EnqueueSeal, VoidWrite, RemindClaim, ExpireWrite, rows
    <3>7. QED BY <2>3, <3>1, <3>2, <3>3, <3>4, <3>5, <3>6 DEF Writes
  <2>4. QED BY <2>1, <2>3, WhoWrites
<1>5. ASSUME NEW p \in Handlers PROVE h'[p].at \notin {"rollback", "reissue", "resend"}
  <2>1. CASE h'[p] = h[p]
    BY <2>1 DEF TurnByTurn
  <2>2. CASE h'[p] # h[p]
    <3>b. ASSUME NEW s, Become(p, s) PROVE h'[p] = s
        BY <1>t, <3>b DEF Become
    <3>1. CASE Start(p)
      <4>1. Send(p) \/ VoidRead(p) \/ ExpireFind(p)
              => h'[p].at \notin {"rollback", "reissue", "resend"}
          BY <3>b DEF Send, VoidRead, ExpireFind
      <4>2. ASSUME NEW r \in Recipients, Resend(p, r) \/ Remind(p, r) \/ RemindFind(p, r)
            PROVE  h'[p].at \notin {"rollback", "reissue", "resend"}
          BY <4>2, <3>b DEF Resend, Remind, RemindFind, SoloTurns
      <4>3. ASSUME NEW r \in Recipients, NEW n \in 1..MaxMints,
                   ViewLoad(p, r, n) \/ ConsentLoad(p, r, n) \/ SubmitLoad(p, r, n)
            PROVE  h'[p].at \notin {"rollback", "reissue", "resend"}
          BY <4>3, <3>b DEF ViewLoad, ConsentLoad, SubmitLoad
      <4>4. QED BY <3>1, <4>1, <4>2, <4>3 DEF Start
    <3>2. CASE Continue(p)
      <4>0. CASE DispatchInvite(p)
        <5>1. h'[p].at \in {"idle", "dispatch"}
            BY <3>b, <4>0 DEF DispatchInvite, Idle
        <5>2. QED BY <5>1
      <4>1. CASE RouteInvite(p)
        <5>1. h'[p].at \in {"idle", "invite"}
            BY <3>b, <4>1 DEF RouteInvite, Idle
        <5>2. QED BY <5>1
      <4>2. CASE \/ DispatchFail(p) \/ Rollback(p) \/ ResendRead(p) \/ ResendWrite(p)
          BY <4>2 DEF DispatchFail, Rollback, ResendRead, ResendWrite, TurnByTurn
      <4>3. CASE \/ RemindRead(p) \/ RemindClaim(p) \/ ExpireRead(p) \/ Claim(p)
                 \/ AdvanceRead(p) \/ AdvanceHandOff(p)
        <5>1. h'[p].at \in {"idle", "rotate", "nudge", "retiring", "advance", "decide", "invite"}
            BY <3>b, <4>3 DEF RemindRead, RemindClaim, ExpireRead, Claim, AfterClaim,
                              AdvanceRead, AdvanceHandOff, Idle
        <5>2. QED BY <5>1
      <4>4. CASE \/ ViewWrite(p) \/ ConsentWrite(p) \/ AdvanceComplete(p) \/ AdvanceNothing(p)
                 \/ EnqueueSeal(p) \/ VoidWrite(p) \/ ResendMail(p) \/ Nudge(p)
                 \/ ExpireWrite(p)
        <5>1. h'[p].at \in {"idle", "seal"}
            BY <3>b, <4>4 DEF ViewWrite, ConsentWrite, AdvanceComplete, AdvanceNothing,
                              EnqueueSeal, VoidWrite, ResendMail, Nudge, ExpireWrite, Idle
        <5>2. QED BY <5>1
      <4>5. QED BY <3>2, <4>0, <4>1, <4>2, <4>3, <4>4 DEF Continue
    <3>3. CASE Crash(p)
        BY <3>3 DEF Crash
    <3>4. QED BY <2>2, <3>1, <3>2, <3>3, OwnStep
  <2>3. QED BY <2>1, <2>2
<1>6. QED BY <1>2, <1>3, <1>4, <1>5 DEF TurnByTurn, Active

\* Whoever is about to be invited was so before, or has just been called.
LEMMA CalledOnce ==
    ASSUME TypeOK, [Next]_vars, NEW q \in Handlers, h'[q].at = "invite",
           NEW l \in h'[q].todo
    PROVE  \/ h[q].at = "invite" /\ l \in h[q].todo
           \/ /\ AdvanceHandOff(q)
              /\ \E r \in NextGroup(h[q].seen) \cap Signers : l = <<r, mints[r] + 1>>
<1> USE DEF At
<1>t. h \in [Handlers -> Stage] /\ h[q] \in Stage
    BY DEF TypeOK
<1>b. ASSUME NEW s, Become(q, s) PROVE h'[q] = s
    BY <1>b, <1>t DEF Become
<1>1. CASE h'[q] = h[q]
    BY <1>1
<1>2. CASE h'[q] # h[q]
  <2>1. ~Crash(q) /\ ~Send(q) /\ ~VoidRead(q) /\ ~ExpireFind(q)
    BY <1>b DEF Send, VoidRead, ExpireFind, Crash, Idle
  <2>2. ASSUME NEW r \in Recipients PROVE ~(Resend(q, r) \/ Remind(q, r) \/ RemindFind(q, r))
    BY <1>b DEF Resend, Remind, RemindFind
  <2>3. ASSUME NEW r \in Recipients, NEW n \in 1..MaxMints
        PROVE  ~(ViewLoad(q, r, n) \/ ConsentLoad(q, r, n) \/ SubmitLoad(q, r, n))
    BY <1>b DEF ViewLoad, ConsentLoad, SubmitLoad
  <2>4. Continue(q)
    BY <1>2, <2>1, <2>2, <2>3, OwnStep DEF Start
  <2>5. ASSUME DispatchInvite(q) PROVE FALSE
    <3>1. h'[q].at \in {"idle", "dispatch"}
        BY <1>b, <2>5 DEF DispatchInvite, Idle
    <3>2. QED BY <3>1
  <2>6. ~(\/ ResendRead(q) \/ RemindRead(q) \/ RemindClaim(q) \/ ExpireRead(q)
          \/ ResendWrite(q) \/ Claim(q) \/ AdvanceRead(q))
    BY <1>b DEF ResendRead, RemindRead, RemindClaim, ExpireRead, ResendWrite, Claim,
                AfterClaim, AdvanceRead, Idle
  <2>7. RouteInvite(q) \/ AdvanceHandOff(q)
    BY <1>b, <2>4, <2>5, <2>6
       DEF Continue, DispatchFail, Rollback, ViewWrite, ConsentWrite, AdvanceComplete,
           AdvanceNothing, EnqueueSeal, VoidWrite, ResendMail, Nudge, ExpireWrite, Idle
  <2>8. CASE RouteInvite(q)
    <3>1. PICK x \in h[q].todo :
            h'[q] = IF h[q].todo \ {x} = {} THEN Idle
                    ELSE [at |-> "invite", todo |-> h[q].todo \ {x}]
        BY <1>b, <2>8 DEF RouteInvite
    <3>2. l \in h[q].todo
        BY <3>1 DEF Idle
    <3>3. QED BY <2>8, <3>2 DEF RouteInvite
  <2>9. CASE AdvanceHandOff(q)
    <3> DEFINE called == NextGroup(h[q].seen) \cap Signers
    <3>1. h'[q] = IF called = {} THEN Idle ELSE [at |-> "invite", todo |-> NewLinks(called)]
        BY <1>b, <2>9 DEF AdvanceHandOff
    <3>2. l \in NewLinks(called)
        BY <3>1 DEF Idle
    <3>3. QED BY <2>9, <3>2 DEF NewLinks
  <2>10. QED BY <2>7, <2>8, <2>9
<1>3. QED BY <1>1, <1>2

\* A job comes into the queue from the handler that had its link, whose task is
\* then done.
LEMMA QueuedBy ==
    ASSUME TypeOK, [Next]_vars, NEW j \in jobs', j \notin jobs, j.kind = "route"
    PROVE  \E p \in Handlers :
              /\ RouteInvite(p) /\ j.link \in h[p].todo
              /\ h'[p].at = "invite" => j.link \notin h'[p].todo
<1>t. h \in [Handlers -> Stage]
    BY DEF TypeOK
<1>1. ASSUME NEW p \in Handlers, RouteInvite(p)
      PROVE  /\ j.link \in h[p].todo
             /\ h'[p].at = "invite" => j.link \notin h'[p].todo
  <2>1. PICK l \in h[p].todo :
          /\ jobs' = Enqueued("route", l) \/ jobs' = jobs
          /\ Become(p, IF h[p].todo \ {l} = {} THEN Idle
                       ELSE [at |-> "invite", todo |-> h[p].todo \ {l}])
    BY <1>1 DEF RouteInvite
  <2>2. j = [kind |-> "route", link |-> l]
    BY <2>1 DEF Enqueued
  <2>3. j.link = l
    BY <2>2
  <2>4. QED BY <1>t, <2>1, <2>3 DEF Become, Idle
<1>2. ASSUME NEW p \in Handlers, DispatchInvite(p) \/ DispatchFail(p) \/ ResendMail(p)
      PROVE  FALSE
  <2>1. \E k \in {"send", "resend"} : \E l :
            jobs' \in {jobs, jobs \cup {[kind |-> k, link |-> l]}}
    <3>1. CASE DispatchInvite(p)
        BY <3>1 DEF DispatchInvite, Enqueued
    <3>2. CASE DispatchFail(p)
        BY <3>2 DEF DispatchFail, Enqueued
    <3>3. CASE ResendMail(p)
        BY <3>3 DEF ResendMail, Enqueued
    <3>4. QED BY <1>2, <3>1, <3>2, <3>3
  <2>2. QED BY <2>1
<1>3. ASSUME NEW p \in Handlers, Start(p) PROVE FALSE
    BY <1>3 DEF Start, Send, VoidRead, ExpireFind, Resend, Remind, RemindFind, ViewLoad,
                ConsentLoad, SubmitLoad, mail
<1>4. ASSUME NEW p \in Handlers, Continue(p) PROVE RouteInvite(p)
    BY <1>2, <1>4
       DEF Continue, Rollback, ViewWrite, ConsentWrite, Claim, AdvanceRead, AdvanceComplete,
           AdvanceHandOff, AdvanceNothing, EnqueueSeal, VoidWrite, ResendRead, ResendWrite,
           RemindRead, RemindClaim, Nudge, ExpireRead, ExpireWrite, mail
<1>5. \E p \in Handlers : RouteInvite(p)
    BY <1>3, <1>4 DEF Next, vars, mail, Crash, DeliverJob, Expiry, CooldownEnds, Ripens
<1>6. QED BY <1>1, <1>5

\* Every step keeps the invitations single.
LEMMA InvitedOnceStep ==
    /\ TypeOK /\ NothingOutsideLife /\ InvitedOnce /\ [Next]_vars
    /\ Mode = "parallel" \/ TurnByTurn
    => InvitedOnce'
<1> SUFFICES ASSUME TypeOK, NothingOutsideLife, InvitedOnce, [Next]_vars,
                    Mode = "parallel" \/ TurnByTurn
             PROVE  InvitedOnce'
    OBVIOUS
<1> USE DEF At
<1>t. /\ h \in [Handlers -> Stage] /\ \A p \in Handlers : h[p] \in Stage
      /\ jobs \subseteq Job /\ rcStatus \in [Recipients -> RcStatus]
    BY DEF TypeOK
<1>j. \A j \in jobs : j.link[1] \in Recipients
    BY <1>t DEF Job, Link
<1>k. ASSUME NEW p \in Handlers, h[p].at = "invite", NEW l \in h[p].todo
      PROVE  l[1] \in Recipients
    BY <1>k, <1>t, StageFields DEF Link
\* Before the send the queue is empty and nobody is at work.
<1>0. ASSUME NEW p \in Handlers, Send(p)
      PROVE  /\ jobs = {} /\ jobs' = {}
             /\ \A q \in Handlers : h[q].at = "idle" /\ h'[q].at \in {"idle", "dispatch"}
    BY <1>0, <1>t DEF Send, NothingOutsideLife, InvitedOnce, Become, mail
\* Whom a hand-off calls was waiting, and waits no more.
<1>1. ASSUME NEW p \in Handlers, AdvanceHandOff(p), NEW r \in NextGroup(h[p].seen) \cap Signers
      PROVE  r \in Recipients /\ rcStatus[r] = "pending" /\ rcStatus'[r] = "sent"
  <2>1. TurnByTurn /\ h[p].at = "decide"
    BY <1>1 DEF AdvanceHandOff, HandsOff
  <2>2. r \in Recipients /\ rcStatus[r] = "pending"
    BY <1>1, <2>1 DEF TurnByTurn, NextGroup, Waiting
  <2> DEFINE group   == NextGroup(h[p].seen)
             called  == group \cap Signers
             entered == {x \in called : rcStatus[x] = "pending"}
             copied  == {x \in group \ Signers : rcStatus[x] # "gone"}
  <2>3. rcStatus' = [x \in Recipients |->
                       IF x \in entered \cup copied THEN "sent" ELSE rcStatus[x]]
    BY <1>1 DEF AdvanceHandOff
  <2>4. r \in entered
    BY <2>2
  <2> HIDE DEF entered, copied
  <2>5. QED BY <2>2, <2>3, <2>4
<1>2. ASSUME env' = "none" PROVE jobs' = {}
  <2>1. env = "none" /\ \A p \in Handlers : h[p].at = "idle"
    <3>1. ASSUME NEW p \in Handlers, Writes(p) PROVE env = "none"
        BY <1>2, <3>1 DEF Writes, Send, Rollback, ViewWrite, Claim, AdvanceComplete,
                          AdvanceHandOff, EnqueueSeal, VoidWrite, ResendWrite, RemindClaim,
                          ExpireWrite, Settle, rows
    <3>2. env = "none"
        BY <1>2, <3>1, WhoWrites
    <3>3. QED BY <3>2 DEF NothingOutsideLife
  <2>2. jobs = {}
    BY <2>1 DEF InvitedOnce
  <2>3. ASSUME NEW p \in Handlers, Start(p) \/ Continue(p) \/ Crash(p) PROVE jobs' = jobs
    <3>1. CASE Start(p)
        BY <3>1 DEF Start, Send, VoidRead, ExpireFind, Resend, Remind, RemindFind, ViewLoad,
                    ConsentLoad, SubmitLoad, mail
    <3>2. ~Crash(p)
        BY <2>1 DEF Crash
    <3>3. ~Continue(p)
        BY <2>1 DEF Continue, DispatchInvite, DispatchFail, Rollback, ViewWrite, ConsentWrite,
                    Claim, AdvanceRead, AdvanceComplete, AdvanceHandOff, AdvanceNothing,
                    RouteInvite, EnqueueSeal, VoidWrite, ResendRead, ResendWrite, ResendMail,
                    RemindRead, RemindClaim, Nudge, ExpireRead, ExpireWrite
    <3>4. QED BY <2>3, <3>1, <3>2, <3>3
  <2>4. QED BY <2>2, <2>3 DEF Next, vars, mail, DeliverJob, Expiry, CooldownEnds, Ripens
<1>3. ASSUME NEW j \in jobs', j.kind = "route" PROVE rcStatus'[j.link[1]] # "pending"
  <2>1. j.link[1] \in Recipients /\ rcStatus[j.link[1]] # "pending"
    <3>1. CASE j \in jobs
        BY <1>3, <1>j, <3>1 DEF InvitedOnce
    <3>2. CASE j \notin jobs
      <4>1. PICK p \in Handlers : RouteInvite(p) /\ j.link \in h[p].todo
          BY <1>3, <3>2, QueuedBy
      <4>2. QED BY <1>k, <4>1 DEF RouteInvite, InvitedOnce
    <3>3. QED BY <3>1, <3>2
  <2>2. ~\E p \in Handlers : Send(p)
    BY <1>0, <1>3
  <2>3. QED BY <2>1, <2>2, WaitsSinceSend
<1>4. ASSUME NEW p \in Handlers, h'[p].at = "invite", NEW l \in h'[p].todo
      PROVE  /\ rcStatus'[l[1]] # "pending"
             /\ \A j \in jobs' : j.kind = "route" => j.link[1] # l[1]
             /\ \A q \in Handlers : h'[q].at = "invite" =>
                  \A k \in h'[q].todo : k[1] = l[1] => q = p /\ k = l
  <2>s. ~\E q \in Handlers : Send(q)
    BY <1>0, <1>4
  <2>1. CASE h[p].at = "invite" /\ l \in h[p].todo
    <3>1. l[1] \in Recipients /\ rcStatus[l[1]] # "pending"
        BY <1>k, <2>1 DEF InvitedOnce
    <3>2. rcStatus'[l[1]] # "pending"
        BY <2>s, <3>1, WaitsSinceSend
    <3>3. ASSUME NEW j \in jobs', j.kind = "route", j.link[1] = l[1] PROVE FALSE
      <4>1. j \notin jobs
          BY <2>1, <3>3 DEF InvitedOnce
      <4>2. PICK q \in Handlers : /\ RouteInvite(q) /\ j.link \in h[q].todo
                                  /\ h'[q].at = "invite" => j.link \notin h'[q].todo
          BY <3>3, <4>1, QueuedBy
      <4>3. q = p /\ j.link = l
          BY <2>1, <3>3, <4>2 DEF RouteInvite, InvitedOnce
      <4>4. QED BY <1>4, <4>2, <4>3
    <3>4. ASSUME NEW q \in Handlers, h'[q].at = "invite", NEW k \in h'[q].todo, k[1] = l[1]
          PROVE  q = p /\ k = l
      <4>1. CASE h[q].at = "invite" /\ k \in h[q].todo
          BY <2>1, <3>4, <4>1 DEF InvitedOnce
      <4>2. ASSUME AdvanceHandOff(q), NEW r \in NextGroup(h[q].seen) \cap Signers,
                   k = <<r, mints[r] + 1>>
            PROVE  FALSE
        <5>1. k[1] = r
            BY <4>2
        <5>2. QED BY <1>1, <3>1, <3>4, <4>2, <5>1
      <4>3. QED BY <3>4, <4>1, <4>2, CalledOnce
    <3>5. QED BY <3>2, <3>3, <3>4
  <2>2. ASSUME AdvanceHandOff(p), NEW r \in NextGroup(h[p].seen) \cap Signers,
               l = <<r, mints[r] + 1>>
        PROVE  /\ rcStatus'[l[1]] # "pending"
               /\ \A j \in jobs' : j.kind = "route" => j.link[1] # l[1]
               /\ \A q \in Handlers : h'[q].at = "invite" =>
                    \A k \in h'[q].todo : k[1] = l[1] => q = p /\ k = l
    <3>1. l[1] = r /\ rcStatus[r] = "pending" /\ rcStatus'[r] = "sent"
        BY <1>1, <2>2
    <3>2. \A j \in jobs' : j.kind = "route" => j.link[1] # r
        BY <2>2, <3>1 DEF AdvanceHandOff, mail, InvitedOnce
    <3>3. ASSUME NEW q \in Handlers, h'[q].at = "invite", NEW k \in h'[q].todo, k[1] = r
          PROVE  q = p /\ k = l
      <4>1. CASE h[q].at = "invite" /\ k \in h[q].todo
          BY <3>1, <3>3, <4>1 DEF InvitedOnce
      <4>2. ASSUME AdvanceHandOff(q), NEW x \in NextGroup(h[q].seen) \cap Signers,
                   k = <<x, mints[x] + 1>>
            PROVE  q = p /\ k = l
        <5>1. x = r /\ k = l
            BY <2>2, <3>3, <4>2
        <5>2. h[p].at = "decide" /\ h[q].at = "decide" /\ TurnByTurn
            BY <2>2, <4>2 DEF AdvanceHandOff, HandsOff
        <5>3. QED BY <5>1, <5>2 DEF TurnByTurn
      <4>3. QED BY <3>3, <4>1, <4>2, CalledOnce
    <3>4. QED BY <3>1, <3>2, <3>3
  <2>3. QED BY <1>4, <2>1, <2>2, CalledOnce
<1>5. QED BY <1>2, <1>3, <1>4 DEF InvitedOnce

\* A link on its way is one that was minted within the bound.
LEMMA OnItsWayTyped ==
    ASSUME TypeOK, NEW r, NEW n, OnItsWay(r, n), r \in Recipients
    PROVE  n \in 1..MaxMints
<1>1. CASE n \in inbox[r]
    BY <1>1 DEF TypeOK
<1>2. ASSUME <<r, n>> \in Link PROVE n \in 1..MaxMints
    BY <1>2 DEF Link
<1>3. CASE \E j \in jobs : j.link = <<r, n>>
  <2>1. PICK j \in jobs : j.link = <<r, n>>
    BY <1>3
  <2>2. j.link \in Link
    BY DEF TypeOK, Job
  <2>3. QED BY <1>2, <2>1, <2>2
<1>4. ASSUME NEW p \in Handlers,
             \/ h[p].at \in {"dispatch", "invite"} /\ <<r, n>> \in h[p].todo
             \/ h[p].at \in {"mail", "nudge"} /\ h[p].link = <<r, n>>
      PROVE  <<r, n>> \in Link
    BY <1>4, StageFields DEF TypeOK, At
<1>5. QED BY <1>1, <1>2, <1>3, <1>4 DEF OnItsWay

\* How a link leaves a handler: into the queue or to its recipient.
LEMMA LinksGoOn ==
    ASSUME TypeOK, InvitedOnce, [Next]_vars,
           Ops \cap {"crash", "mailfail", "queuefail"} = {},
           NEW r \in Recipients, NEW n \in 1..MaxMints, OnItsWay(r, n)
    PROVE  OnItsWay(r, n)'
<1> DEFINE l == <<r, n>>
<1> USE DEF At
<1>t. /\ h \in [Handlers -> Stage] /\ \A p \in Handlers : h[p] \in Stage
      /\ jobs \subseteq Job /\ inbox \in [Recipients -> SUBSET (1..MaxMints)]
    BY DEF TypeOK
<1>o. "crash" \notin Ops /\ "mailfail" \notin Ops /\ "queuefail" \notin Ops
    OBVIOUS
<1>i. l[1] = r /\ l[2] = n
    OBVIOUS
\* What has arrived stays.
<1>1. ASSUME NEW x \in Link, Receive(x)
      PROVE  /\ n \in inbox[r] => n \in inbox'[r]
             /\ x = l => n \in inbox'[r]
  <2>1. x[1] \in Recipients
    BY DEF Link
  <2>2. inbox' = [inbox EXCEPT ![x[1]] = @ \cup {x[2]}]
    BY <1>1 DEF Receive
  <2>3. QED BY <1>t, <1>i, <2>1, <2>2
<1>2. ASSUME NEW p \in Handlers, Nudge(p)
      PROVE  /\ n \in inbox[r] => n \in inbox'[r]
             /\ h[p].link = l => n \in inbox'[r]
             /\ jobs' = jobs
  <2>1. Receive(h[p].link) /\ jobs' = jobs
    BY <1>2, <1>o DEF Nudge
  <2>2. h[p].link \in Link
    BY <1>2, <1>t, StageFields DEF Nudge
  <2>3. QED BY <1>1, <2>1, <2>2
<1>3. ASSUME NEW j \in jobs, DeliverJob(j)
      PROVE  /\ n \in inbox[r] => n \in inbox'[r]
             /\ j.link = l => n \in inbox'[r]
             /\ jobs' = jobs \ {j} /\ h' = h
  <2>1. Receive(j.link) /\ jobs' = jobs \ {j} /\ h' = h
    BY <1>3, <1>o DEF DeliverJob
  <2>2. j.link \in Link
    BY <1>t DEF Job
  <2>3. QED BY <1>1, <2>1, <2>2
\* Nothing is taken from the queue but by its worker.
<1>4. \/ \E p \in Handlers : Nudge(p)
      \/ \E j \in jobs : DeliverJob(j)
      \/ inbox' = inbox /\ jobs \subseteq jobs'
  <2>1. ASSUME NEW p \in Handlers, Start(p) PROVE inbox' = inbox /\ jobs \subseteq jobs'
    BY <2>1 DEF Start, Send, VoidRead, ExpireFind, Resend, Remind, RemindFind, ViewLoad,
                ConsentLoad, SubmitLoad, mail
  <2>2. ASSUME NEW p \in Handlers, Continue(p), ~Nudge(p)
        PROVE  inbox' = inbox /\ jobs \subseteq jobs'
    <3>1. CASE DispatchInvite(p) \/ DispatchFail(p) \/ RouteInvite(p) \/ ResendMail(p)
        BY <3>1 DEF DispatchInvite, DispatchFail, RouteInvite, ResendMail, Enqueued
    <3>2. CASE ~(DispatchInvite(p) \/ DispatchFail(p) \/ RouteInvite(p) \/ ResendMail(p))
        BY <2>2, <3>2
           DEF Continue, Rollback, ViewWrite, ConsentWrite, Claim, AdvanceRead,
               AdvanceComplete, AdvanceHandOff, AdvanceNothing, EnqueueSeal, VoidWrite,
               ResendRead, ResendWrite, RemindRead, RemindClaim, ExpireRead, ExpireWrite, mail
    <3>3. QED BY <3>1, <3>2
  <2>3. QED BY <2>1, <2>2 DEF Next, vars, mail, Crash, Expiry, CooldownEnds, Ripens
\* A handler that holds the link keeps it or passes it on.
<1>5. ASSUME NEW p \in Handlers,
             \/ h[p].at \in {"dispatch", "invite"} /\ l \in h[p].todo
             \/ h[p].at \in {"mail", "nudge"} /\ h[p].link = l
      PROVE  OnItsWay(r, n)'
  <2>1. CASE h'[p] = h[p]
    BY <1>5, <2>1 DEF OnItsWay
  <2>2. CASE h'[p] # h[p]
    <3>1. Start(p) \/ Continue(p) \/ Crash(p)
        BY <2>2, OwnStep
    <3>2. ~Start(p) /\ ~Crash(p)
        BY <1>5, <1>o DEF Start, Send, VoidRead, ExpireFind, Resend, Remind, RemindFind,
                          ViewLoad, ConsentLoad, SubmitLoad, Crash
    <3>3. \/ DispatchInvite(p) \/ DispatchFail(p) \/ RouteInvite(p) \/ ResendMail(p)
          \/ Nudge(p)
        BY <1>5, <3>1, <3>2
           DEF Continue, Rollback, ViewWrite, ConsentWrite, Claim, AdvanceRead,
               AdvanceComplete, AdvanceHandOff, AdvanceNothing, EnqueueSeal,
               VoidWrite, ResendRead, ResendWrite, RemindRead, RemindClaim, ExpireRead,
               ExpireWrite
    <3>4. CASE DispatchInvite(p)
      <4>1. PICK x \in h[p].todo :
              /\ jobs' = jobs \cup {[kind |-> "send", link |-> x]}
              /\ Become(p, IF h[p].todo \ {x} = {} THEN Idle
                           ELSE [at |-> "dispatch", todo |-> h[p].todo \ {x}])
          BY <3>4 DEF DispatchInvite, Enqueued
      <4>2. CASE x = l
        <5>1. [kind |-> "send", link |-> x] \in jobs' /\ [kind |-> "send", link |-> x].link = l
            BY <4>1, <4>2
        <5>2. QED BY <5>1 DEF OnItsWay
      <4>3. CASE x # l
        <5>1. l \in h[p].todo \ {x}
            BY <1>5, <3>4, <4>3 DEF DispatchInvite
        <5>2. h'[p] = [at |-> "dispatch", todo |-> h[p].todo \ {x}]
            BY <1>t, <4>1, <5>1 DEF Become
        <5>3. h'[p].at = "dispatch" /\ l \in h'[p].todo
            BY <5>1, <5>2
        <5>4. QED BY <5>3 DEF OnItsWay
      <4>4. QED BY <4>2, <4>3
    <3>5. CASE DispatchFail(p)
        BY <1>o, <3>5 DEF DispatchFail
    <3>6. CASE ResendMail(p)
      <4>1. jobs' = jobs \cup {[kind |-> "resend", link |-> h[p].link]} /\ h[p].link = l
          BY <1>5, <1>o, <3>6 DEF ResendMail, Enqueued
      <4>2. [kind |-> "resend", link |-> l] \in jobs' /\ [kind |-> "resend", link |-> l].link = l
          BY <4>1
      <4>3. QED BY <4>2 DEF OnItsWay
    <3>7. CASE Nudge(p)
        BY <1>2, <1>5, <3>7 DEF Nudge, OnItsWay
    <3>8. CASE RouteInvite(p)
      <4>1. PICK x \in h[p].todo :
              /\ jobs' = Enqueued("route", x)
              /\ Become(p, IF h[p].todo \ {x} = {} THEN Idle
                           ELSE [at |-> "invite", todo |-> h[p].todo \ {x}])
          BY <1>o, <3>8 DEF RouteInvite
      <4>2. CASE x = l
        <5>1. ~\E j \in jobs : j.kind = "route" /\ j.link[1] = x[1]
            BY <3>8, <4>1 DEF InvitedOnce, RouteInvite
        <5>2. jobs' = jobs \cup {[kind |-> "route", link |-> x]}
            BY <4>1, <5>1 DEF Enqueued
        <5>3. [kind |-> "route", link |-> x] \in jobs' /\ [kind |-> "route", link |-> x].link = l
            BY <4>2, <5>2
        <5>4. QED BY <5>3 DEF OnItsWay
      <4>3. CASE x # l
        <5>1. l \in h[p].todo \ {x}
            BY <1>5, <3>8, <4>3 DEF RouteInvite
        <5>2. h'[p] = [at |-> "invite", todo |-> h[p].todo \ {x}]
            BY <1>t, <4>1, <5>1 DEF Become
        <5>3. h'[p].at = "invite" /\ l \in h'[p].todo
            BY <5>1, <5>2
        <5>4. QED BY <5>3 DEF OnItsWay
      <4>4. QED BY <4>2, <4>3
    <3>9. QED BY <3>3, <3>4, <3>5, <3>6, <3>7, <3>8
  <2>3. QED BY <2>1, <2>2
<1>6. CASE n \in inbox[r]
    BY <1>2, <1>3, <1>4, <1>6 DEF OnItsWay
<1>7. ASSUME NEW k \in jobs, k.link = l PROVE OnItsWay(r, n)'
  <2>1. CASE \E j \in jobs : DeliverJob(j)
    <3>1. PICK j \in jobs : DeliverJob(j)
        BY <2>1
    <3>2. QED BY <1>3, <1>7, <3>1 DEF OnItsWay
  <2>2. CASE jobs \subseteq jobs'
    BY <1>7, <2>2 DEF OnItsWay
  <2>3. QED BY <1>2, <1>4, <2>1, <2>2
<1>8. QED BY <1>5, <1>6, <1>7 DEF OnItsWay

\* Every step keeps the stored links on their way.
LEMMA LiveLinkStep ==
    /\ TypeOK /\ TurnsTaken /\ LinksOnTheirWay /\ InvitedOnce /\ [Next]_vars
    /\ Mode = "parallel" \/ TurnByTurn
    /\ Ops \cap {"crash", "mailfail", "queuefail"} = {}
    => LinksOnTheirWay'
<1> SUFFICES ASSUME TypeOK, TurnsTaken, LinksOnTheirWay, InvitedOnce, [Next]_vars,
                    Mode = "parallel" \/ TurnByTurn,
                    Ops \cap {"crash", "mailfail", "queuefail"} = {},
                    Open', NEW r \in Signers, Active(r)'
             PROVE  OnItsWay(r, hash[r])'
    BY DEF LinksOnTheirWay, Signers
<1> USE DEF At
<1>t. /\ h \in [Handlers -> Stage] /\ \A p \in Handlers : h[p] \in Stage
      /\ rcStatus \in [Recipients -> RcStatus] /\ hash \in [Recipients -> 0..MaxMints]
      /\ mints \in [Recipients -> 0..MaxMints]
    BY DEF TypeOK
<1>s. Signers \subseteq Recipients /\ r \in Recipients
    BY DEF Signers
\* A row that is not written keeps its link where it is.
<1>1. ASSUME Open, Active(r), hash'[r] = hash[r]
      PROVE  OnItsWay(r, hash[r])'
  <2>1. OnItsWay(r, hash[r])
    BY <1>1 DEF LinksOnTheirWay
  <2>2. PICK n \in 1..MaxMints : n = hash[r]
    <3>1. hash[r] \in 1..MaxMints
        BY <1>s, <2>1, OnItsWayTyped, Zenon
    <3>2. QED BY <3>1, Zenon
  <2>3. OnItsWay(r, n)'
    BY <1>s, <2>1, <2>2, LinksGoOn
  <2>4. QED BY <1>1, <2>2, <2>3 DEF OnItsWay
<1>2. ASSUME NEW p \in Handlers, Send(p) PROVE OnItsWay(r, hash[r])'
  <2>1. r \in InvitedNow
    BY <1>2, <1>s DEF Send, Active
  <2>2. hash'[r] = mints[r] + 1 /\ <<r, mints[r] + 1>> \in NewLinks(InvitedNow)
    BY <1>2, <1>s, <2>1 DEF Send, NewLinks
  <2>3. h'[p] = [at |-> "dispatch", todo |-> NewLinks(InvitedNow)]
    BY <1>2, <1>t DEF Send, Become
  <2>4. h'[p].at = "dispatch" /\ <<r, hash'[r]>> \in h'[p].todo
    BY <2>2, <2>3
  <2>5. QED BY <2>4 DEF OnItsWay
<1>3. ASSUME NEW p \in Handlers, ResendWrite(p) \/ RemindClaim(p), hash'[r] # hash[r]
      PROVE  OnItsWay(r, hash[r])'
  <2>1. h[p].rc \in Recipients
    BY <1>3, <1>t, StageFields DEF ResendWrite, RemindClaim
  <2>2. hash' = [hash EXCEPT ![h[p].rc] = mints[h[p].rc] + 1]
    BY <1>3 DEF ResendWrite, RemindClaim
  <2>3. h[p].rc = r /\ hash'[r] = mints[r] + 1
    BY <1>3, <1>s, <1>t, <2>1, <2>2
  <2>4. h'[p].at \in {"mail", "nudge"} /\ h'[p].link = <<r, mints[r] + 1>>
    BY <1>3, <1>t, <2>3 DEF ResendWrite, RemindClaim, Become
  <2>5. QED BY <2>3, <2>4 DEF OnItsWay
<1>4. ASSUME ~\E p \in Handlers : Send(p)
      PROVE  Open
    BY <1>4, OpensOnSend
\* A re-issue that makes somebody active sends the new link.
<1>5. ASSUME NEW p \in Handlers, ResendWrite(p), h[p].rc = r
      PROVE  OnItsWay(r, hash[r])'
  <2>1. rcStatus[r] # "gone"
    BY <1>5 DEF ResendWrite, Active
  <2>2. hash'[r] = mints[r] + 1
    BY <1>5, <1>s, <1>t, <2>1 DEF ResendWrite
  <2>3. h'[p].at = "mail" /\ h'[p].link = <<r, mints[r] + 1>>
    BY <1>5, <1>t DEF ResendWrite, Become
  <2>4. QED BY <2>2, <2>3 DEF OnItsWay
\* A retired envelope is not open, so the hash of an open one changes by new links only.
<1>6. ASSUME ~\E p \in Handlers : Send(p), hash'[r] # hash[r]
      PROVE  \E p \in Handlers : ResendWrite(p) \/ RemindClaim(p) \/ AdvanceHandOff(p)
  <2>1. ASSUME NEW p \in Handlers, Writes(p), ~ResendWrite(p), ~RemindClaim(p),
               ~AdvanceHandOff(p)
        PROVE  FALSE
    <3>1. CASE Rollback(p)
        BY <3>1 DEF Rollback, Open
    <3>2. CASE VoidWrite(p) \/ ExpireWrite(p)
        BY <1>4, <1>6, <3>2 DEF VoidWrite, ExpireWrite, Settle, Open
    <3>3. CASE ViewWrite(p) \/ Claim(p) \/ AdvanceComplete(p) \/ EnqueueSeal(p)
        BY <1>6, <3>3 DEF ViewWrite, Claim, AdvanceComplete, EnqueueSeal, rows
    <3>4. QED BY <1>6, <2>1, <3>1, <3>2, <3>3 DEF Writes
  <2>2. QED BY <1>6, <2>1, WhoWrites
\* A hand-off gives a link to those it makes active, and to no one else.
<1>7. ASSUME NEW p \in Handlers, AdvanceHandOff(p), ~Active(r) \/ hash'[r] # hash[r]
      PROVE  OnItsWay(r, hash[r])'
  <2> DEFINE group   == NextGroup(h[p].seen)
             called  == group \cap Signers
             entered == {x \in called : rcStatus[x] = "pending"}
             copied  == {x \in group \ Signers : rcStatus[x] # "gone"}
  <2>1. /\ rcStatus' = [x \in Recipients |->
                          IF x \in entered \cup copied THEN "sent" ELSE rcStatus[x]]
        /\ hash' = [x \in Recipients |-> IF x \in entered THEN mints[x] + 1 ELSE hash[x]]
        /\ Become(p, IF called = {} THEN Idle
                                    ELSE [at |-> "invite", todo |-> NewLinks(called)])
    BY <1>7 DEF AdvanceHandOff
  <2>2. r \notin copied /\ entered \subseteq called
    OBVIOUS
  <2> HIDE DEF entered, copied, called
  <2>3. r \in entered
    BY <1>7, <1>s, <2>1, <2>2 DEF Active
  <2>4. hash'[r] = mints[r] + 1 /\ <<r, mints[r] + 1>> \in NewLinks(called)
    BY <1>s, <2>1, <2>2, <2>3 DEF NewLinks
  <2>5. h'[p] = [at |-> "invite", todo |-> NewLinks(called)]
    BY <1>t, <2>1, <2>2, <2>3 DEF Become
  <2>6. h'[p].at = "invite" /\ <<r, hash'[r]>> \in h'[p].todo
    BY <2>4, <2>5
  <2>7. QED BY <2>6 DEF OnItsWay
<1>8. QED
  <2>1. CASE \E p \in Handlers : Send(p)
    BY <1>2, <2>1
  <2>2. CASE ~(\E p \in Handlers : Send(p)) /\ ~Active(r)
    BY <1>5, <1>7, <2>2, BecomesActive
  <2>3. CASE ~(\E p \in Handlers : Send(p)) /\ Active(r) /\ hash'[r] # hash[r]
    BY <1>3, <1>6, <1>7, <2>3
  <2>4. CASE ~(\E p \in Handlers : Send(p)) /\ Active(r) /\ hash'[r] = hash[r]
    BY <1>1, <1>4, <2>4
  <2>5. QED BY <2>1, <2>2, <2>3, <2>4

-------------------------------------------------------------------------------
\* The one of several signers who finishes last sees all the others, unless the
\* process dies between the claim and the look at the envelope
\* (signing.service.ts:457-463).
THEOREM CompletionIsOwed == "crash" \notin Ops => (Spec => []CompletionOwed)
<1>1. Init => CompletionOwed
    BY OwedInit
<1>2. "crash" \notin Ops /\ IInv /\ CompletionOwed /\ [Next]_vars => CompletionOwed'
    BY CompletionStep DEF IInv
<1>3. SUFFICES ASSUME "crash" \notin Ops PROVE Spec => []CompletionOwed
    OBVIOUS
<1>4. QED BY <1>1, <1>2, <1>3, InvariantHolds, PTL DEF Spec

\* Whose turn has come is about to be invited, unless the process dies, with any
\* re-issues, cancellations and failing queues, where no copy alone stands before
\* a signer (advanceEnvelope's hand-off, signing.service.ts:165-195).
THEOREM HandOffIsOwed == "crash" \notin Ops /\ CopiesFollow => (Spec => []HandOffOwed)
<1>1. Init => WaitingTogether /\ HandOffOwed
    BY OwedInit
<1>2. IInv /\ WaitingTogether /\ [Next]_vars => WaitingTogether'
    BY WaitingStep DEF IInv
<1>3. "crash" \notin Ops /\ CopiesFollow /\ IInv /\ WaitingTogether /\ HandOffOwed /\ [Next]_vars
        => HandOffOwed'
    BY HandOffStep DEF IInv
<1>4. SUFFICES ASSUME "crash" \notin Ops, CopiesFollow PROVE Spec => []HandOffOwed
    OBVIOUS
<1>5. QED BY <1>1, <1>2, <1>3, <1>4, InvariantHolds, PTL DEF Spec

\* Where all are invited at once, or each signs in a turn of their own and links
\* are renewed by the sweep alone, whoever is asked to sign has received the link
\* their row stores, once no e-mail, job or process is lost (send, resend, the
\* reminder sweep and advanceEnvelope's invitations).
THEOREM InvitedHaveTheirLink ==
    (Mode = "parallel" \/ SoloTurns) /\ Ops \cap {"crash", "mailfail", "queuefail"} = {}
        => (Spec => []InvitedHoldLiveLink)
<1> SUFFICES ASSUME Mode = "parallel" \/ SoloTurns,
                    Ops \cap {"crash", "mailfail", "queuefail"} = {}
             PROVE  Spec => []InvitedHoldLiveLink
    OBVIOUS
<1> DEFINE Turns == Mode = "parallel" \/ TurnByTurn
<1>1. Init => Turns /\ InvitedOnce /\ LinksOnTheirWay
    BY OwedInit
<1>2. IInv /\ Turns /\ [Next]_vars => Turns'
    BY TurnStep DEF IInv, SoloTurns
<1>3. IInv /\ Turns /\ InvitedOnce /\ LinksOnTheirWay /\ [Next]_vars
        => InvitedOnce' /\ LinksOnTheirWay'
    BY InvitedOnceStep, LiveLinkStep DEF IInv
<1>4. LinksOnTheirWay => InvitedHoldLiveLink
    BY DEF LinksOnTheirWay, OnItsWay, InvitedHoldLiveLink, Quiet, At
<1> HIDE DEF Turns
<1>5. QED BY <1>1, <1>2, <1>3, <1>4, InvariantHolds, PTL DEF Spec

===============================================================================
