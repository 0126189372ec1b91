------------------------------ MODULE RateLimit ------------------------------
(***************************************************************************)
(* The limits on the two surfaces anybody can reach: the signing relay and *)
(* public verification.  Every call passes a sequence of windows; each has *)
(* a floor in the memory of the process that serves the call and, in the   *)
(* API, a view shared by all replicas in Redis (common/rate-limit.ts,      *)
(* common/policy.ts).  The relay's own window (edge-rate-limit.ts) is a    *)
(* floor alone.                                                            *)
(*                                                                         *)
(* A call keeps the instant it took on arrival and uses it for every       *)
(* window, however long it waited for Redis in between.  Redis may answer, *)
(* answer too late, or never be asked.  A window's clean-up of idle keys   *)
(* and the expiry of a Redis key drop only what the next prune would.      *)
(***************************************************************************)
EXTENDS Integers, Sequences, FiniteSets

CONSTANTS
    Replicas,       \* processes, each with its own floors
    Offered,        \* the calls that may arrive: [surface, browser, vouched]
    Budget,         \* window -> calls admitted (40, 6000, 60, 6000, 20)
    Window,         \* the length of every window (60 s)
    SEQ_LIMIT,      \* the per-process sequence number wraps here (10^6)
    MaxTime, MaxCalls, MaxLate   \* bounds

Windows == {"edge", "sign-src", "sign", "verify-src", "verify"}
Surfaces == {"relay", "sign", "verify"}

Browsers == {o.browser : o \in Offered}

ASSUME LimitsAssumption ==
    /\ \A o \in Offered : o.surface \in Surfaces /\ o.vouched \in BOOLEAN
    /\ Budget \in [Windows -> Nat \ {0}]
    /\ Window \in Nat \ {0} /\ SEQ_LIMIT \in Nat \ {0}
    /\ MaxTime \in Nat /\ MaxCalls \in Nat /\ MaxLate \in Nat

VARIABLES
    time,
    calls,      \* every call so far, in order of arrival
    hits,       \* <<replica, window, key>> -> the calls whose instants the list holds
    zset,       \* the members of the Redis sets: [window, key, at, seq]
    seq,        \* <<replica, window>> -> the last sequence number
    late        \* members whose script Redis may still run

vars == <<time, calls, hits, zset, seq, late>>

Sources == {"front", "direct"}
Keys == Browsers \cup Sources

Init ==
    /\ time = 0 /\ calls = <<>>
    /\ hits = [slot \in Replicas \X Windows \X Keys |-> {}]
    /\ seq = [counter \in Replicas \X Windows |-> 0]
    /\ zset = {} /\ late = {}

-----------------------------------------------------------------------------

\* The windows a call passes, in order.  The budget of one browser applies
\* only to an address one of our own front ends vouched for.
WindowsOf(c) ==
    CASE c.surface = "relay" -> <<"edge">>
      [] c.surface = "sign" -> <<"sign-src", "sign">>
      [] OTHER -> IF c.vouched THEN <<"verify-src", "verify">> ELSE <<"verify-src">>

At(c) == WindowsOf(c)[c.depth]
Shared(w) == w # "edge"

\* Source windows are keyed by who opened the connection, the others by the
\* asserted address.
Key(c, w) ==
    IF w \in {"sign-src", "verify-src"}
    THEN IF c.vouched THEN "front" ELSE "direct"
    ELSE c.browser

InFlight(c) == c.phase = "asking"

\* What a call writes to the Redis set of window w.
MemberAt(c, w) == [window |-> w, key |-> Key(c, w), at |-> c.stamp, seq |-> c.seq[w]]
Member(c) == MemberAt(c, At(c))

-----------------------------------------------------------------------------
(* The floor: SlidingWindowRateLimiter.allow.  A list of instants is the   *)
(* set of the calls that pushed them: no call passes a window twice.       *)

Slot(c) == <<c.replica, At(c), Key(c, At(c))>>
Recent(c) == {j \in hits[Slot(c)] : calls[j].stamp > c.stamp - Window}

OverBudgetByOne(w, used) == used > Budget[w]
OverBudget(w, used) == used >= Budget[w]

\* (A call that finds no Redis client takes a number here too.  It only has to
\* differ from the next one's.)
NeverWraps(r, w) == seq[<<r, w>>] + 1
NextSeq(r, w) == (seq[<<r, w>>] + 1) % SEQ_LIMIT

\* What the list keeps when call i is refused: nothing of it.
KeepsRefused(recent, i) == recent \cup {i}
KeptOnRefusal(recent, i) == recent

Record(i, c) == calls' = IF i > Len(calls) THEN Append(calls, c) ELSE [calls EXCEPT ![i] = c]
Refusal(c) == [c EXCEPT !.phase = "refused"]

TurnedAway(i, c) ==
    /\ OverBudget(At(c), Cardinality(Recent(c)))
    /\ hits' = [hits EXCEPT ![Slot(c)] = KeptOnRefusal(Recent(c), i)]
    /\ Record(i, Refusal(c))
    /\ UNCHANGED seq

\* Let through, and on to the shared view if the window has one.
LetThrough(i, c) ==
    /\ ~OverBudget(At(c), Cardinality(Recent(c)))
    /\ hits' = [hits EXCEPT ![Slot(c)] = Recent(c) \cup {i}]
    /\ \/ /\ Shared(At(c))
          /\ seq' = [seq EXCEPT ![<<c.replica, At(c)>>] = NextSeq(c.replica, At(c))]
          /\ Record(i, [c EXCEPT !.passed = c.passed \cup {At(c)}, !.phase = "asking",
                                 !.seq[At(c)] = NextSeq(c.replica, At(c))])
       \/ /\ ~Shared(At(c))
          /\ Record(i, [c EXCEPT !.passed = c.passed \cup {At(c)}, !.phase = "served"])
          /\ UNCHANGED seq

\* Call i, as c, meets the floor of the window it has come to.
MeetFloor(i, c) == TurnedAway(i, c) \/ LetThrough(i, c)

\* The next window, or the handler.
Proceed(i, c) ==
    IF c.depth = Len(WindowsOf(c))
    THEN Record(i, [c EXCEPT !.phase = "served"]) /\ UNCHANGED <<hits, seq>>
    ELSE MeetFloor(i, [c EXCEPT !.depth = c.depth + 1])

-----------------------------------------------------------------------------

Tick == time < MaxTime /\ time' = time + 1 /\ UNCHANGED <<calls, hits, zset, seq, late>>

\* A call of the signing surface without the relay's secret ends here; any
\* other takes its instant and meets the first floor.
Arrive(o, r) ==
    LET c == [surface |-> o.surface, browser |-> o.browser, vouched |-> o.vouched,
              replica |-> r, stamp |-> time, depth |-> 1, phase |-> "unknown",
              passed |-> {}, granted |-> {}, seq |-> [w \in Windows |-> 0]]
        i == Len(calls) + 1
    IN  /\ Len(calls) < MaxCalls
        /\ IF o.surface = "sign" /\ ~o.vouched
           THEN Record(i, c) /\ UNCHANGED <<hits, seq>>
           ELSE MeetFloor(i, c)
        /\ UNCHANGED <<time, zset, late>>

-----------------------------------------------------------------------------
(* The shared view: WINDOW_SCRIPT, one atomic decision in Redis.           *)

Same(m, n) == m.window = n.window /\ m.key = n.key
Old(m) == {n \in zset : Same(m, n) /\ n.at <= m.at - Window}
Used(m) == Cardinality({n \in zset \ Old(m) : Same(m, n)})
Admits(m) == ~OverBudget(m.window, Used(m))

Script(m) == (zset \ Old(m)) \cup (IF Admits(m) THEN {m} ELSE {})

\* Redis answers in time.
Verdict(i) ==
    LET c == calls[i] IN
    /\ InFlight(c)
    /\ zset' = Script(Member(c))
    /\ IF Admits(Member(c))
       THEN Proceed(i, [c EXCEPT !.granted = c.granted \cup {At(c)}])
       ELSE Record(i, Refusal(c)) /\ UNCHANGED <<hits, seq>>
    /\ UNCHANGED <<time, late>>

\* No client, an error, or no answer within SHARED_TIMEOUT_MS: the floor's yes
\* stands.  The script may have been lost, or may still run.
TimesOut(i) ==
    LET c == calls[i] IN
    /\ InFlight(c)
    /\ Proceed(i, c)
    /\ late' \in {late} \cup (IF Cardinality(late) < MaxLate THEN {late \cup {Member(c)}} ELSE {})
    /\ UNCHANGED <<time, zset>>

LateRun(m) ==
    /\ m \in late
    /\ zset' = Script(m)
    /\ late' = late \ {m}
    /\ UNCHANGED <<time, calls, hits, seq>>

-----------------------------------------------------------------------------

Next ==
    \/ Tick
    \/ \E o \in Offered, r \in Replicas : Arrive(o, r)
    \/ \E i \in DOMAIN calls : Verdict(i) \/ TimesOut(i)
    \/ \E m \in late : LateRun(m)

Spec == Init /\ [][Next]_vars

-----------------------------------------------------------------------------
(* Properties.                                                             *)

Calls ==
    [surface : Surfaces, browser : Browsers, vouched : BOOLEAN, replica : Replicas,
     stamp : 0 .. time, depth : {1, 2}, phase : {"unknown", "asking", "served", "refused"},
     passed : SUBSET Windows, granted : SUBSET Windows, seq : [Windows -> 0 .. SEQ_LIMIT - 1]]

Members == [window : Windows, key : Keys, at : 0 .. time, seq : 0 .. SEQ_LIMIT - 1]

TypeOK ==
    /\ time \in 0 .. MaxTime
    /\ calls \in Seq(Calls)
    /\ \A i \in DOMAIN calls : calls[i].depth \in DOMAIN WindowsOf(calls[i])
    /\ hits \in [Replicas \X Windows \X Keys -> SUBSET DOMAIN calls]
    /\ seq \in [Replicas \X Windows -> 0 .. SEQ_LIMIT - 1]
    /\ zset \cup late \subseteq Members

\* Calls of the window now ending that a floor, or the shared view, let through.
ThroughFloor(r, w, k) ==
    {i \in DOMAIN calls :
        LET c == calls[i] IN c.replica = r /\ w \in c.passed /\ Key(c, w) = k /\ c.stamp > time - Window}

ThroughShared(w, k) ==
    {i \in DOMAIN calls :
        LET c == calls[i] IN w \in c.granted /\ Key(c, w) = k /\ c.stamp > time - Window}

MembersThrough(w, k) == {MemberAt(calls[i], w) : i \in ThroughShared(w, k)}

\* Never more than the budget in a window: per process whatever Redis does,
\* and over all replicas among the calls Redis decided, as far as their
\* members are distinct (rate-limit.ts:7-13).
CapHolds ==
    \A w \in Windows, k \in Keys :
        /\ \A r \in Replicas : Cardinality(ThroughFloor(r, w, k)) <= Budget[w]
        /\ Cardinality(MembersThrough(w, k)) <= Budget[w]

\* Nobody is refused on account of others, nor of earlier refusals: a call is
\* refused only when that many calls of the same caller, on the same surface,
\* were let through within its window (policy.ts:110-111, rate-limit.ts:33-37).
RefusedOnlyOverBudget ==
    \A i \in DOMAIN calls :
        LET c == calls[i]
            w == At(c)
        IN  c.phase = "refused" =>
                Cardinality({j \in DOMAIN calls \ {i} :
                                /\ w \in calls[j].passed
                                /\ Key(calls[j], w) = Key(c, w)
                                /\ calls[j].stamp > c.stamp - Window}) >= Budget[w]

\* rate-limit.ts:11-12 and 88: the cap is global and two requests in the same
\* millisecond get distinct members.  The sequence number is per process, so
\* two replicas can write one member for two calls.
CapIsGlobal ==
    \A w \in Windows, k \in Keys : Cardinality(ThroughShared(w, k)) <= Budget[w]
=============================================================================
