--------------------------- MODULE RateLimitProofs ---------------------------
(***************************************************************************)
(* The windows hold whatever the number of replicas, callers and calls,    *)
(* however long a call waits for Redis, and whether Redis answers, answers *)
(* late or never.                                                          *)
(*                                                                         *)
(* A list and a set are in step with the calls.  A floor's list holds      *)
(* every call it let through that is still inside the window, and nothing  *)
(* but calls it let through (FloorsInStep).  The Redis set holds every     *)
(* member it granted that is still inside the window, and nothing but      *)
(* members written by a call that has passed the floor and waits no longer *)
(* (SharedInStep).  The first half of each bounds what gets through, the   *)
(* second what a refusal may rest on.                                      *)
(***************************************************************************)
EXTENDS RateLimit, FiniteSetTheorems, TLAPS

Slots == Replicas \X Windows \X Keys

\* The call went through this floor.
Pushed(c, slot) == c.replica = slot[1] /\ slot[2] \in c.passed /\ Key(c, slot[2]) = slot[3]

\* The call sent this member and does not wait for its answer any more.
Wrote(c, m) ==
    /\ m.window \in c.passed /\ m = MemberAt(c, m.window)
    /\ ~(InFlight(c) /\ At(c) = m.window)

SetOf(w, k) == {m \in zset : m.window = w /\ m.key = k}

\* A call passes its windows one after the other, and waits only at a shared one.
InOrder(c) ==
    /\ c.passed \subseteq {WindowsOf(c)[d] : d \in 1 .. c.depth}
    /\ c.granted \subseteq c.passed
    /\ InFlight(c) => At(c) \in c.passed

CallsInOrder == \A i \in DOMAIN calls : InOrder(calls[i])

FloorsInStep ==
    \A slot \in Slots :
        /\ IsFiniteSet(hits[slot]) /\ Cardinality(hits[slot]) <= Budget[slot[2]]
        /\ \A j \in hits[slot] : Pushed(calls[j], slot)
        /\ \A j \in DOMAIN calls :
            Pushed(calls[j], slot) /\ calls[j].stamp > time - Window => j \in hits[slot]

SharedInStep ==
    /\ IsFiniteSet(zset)
    /\ \A w \in Windows, k \in Keys : Cardinality(SetOf(w, k)) <= Budget[w]
    /\ \A m \in zset \cup late : \E j \in DOMAIN calls : Wrote(calls[j], m)
    /\ \A i \in DOMAIN calls : \A w \in calls[i].granted :
        calls[i].stamp > time - Window => MemberAt(calls[i], w) \in zset

IInv == TypeOK /\ CallsInOrder /\ FloorsInStep /\ SharedInStep /\ RefusedOnlyOverBudget

-----------------------------------------------------------------------------
(* The windows and the key of a call, and what a record of one call does.  *)

\* Type correctness as facts of its own, in this state and the next.
LEMMA TypeParts ==
    ASSUME TypeOK
    PROVE  /\ time \in Nat /\ time <= MaxTime
           /\ calls \in Seq(Calls) /\ Len(calls) \in Nat /\ DOMAIN calls = 1 .. Len(calls)
           /\ \A i \in DOMAIN calls : calls[i] \in Calls
           /\ \A i \in DOMAIN calls : calls[i].depth \in DOMAIN WindowsOf(calls[i])
           /\ hits \in [Slots -> SUBSET DOMAIN calls]
           /\ seq \in [Replicas \X Windows -> 0 .. SEQ_LIMIT - 1]
           /\ zset \subseteq Members /\ late \subseteq Members
<1>1. time \in 0 .. MaxTime
    BY Zenon DEF TypeOK
<1>2. calls \in Seq(Calls)
    BY Zenon DEF TypeOK
<1>3. \A i \in DOMAIN calls : calls[i].depth \in DOMAIN WindowsOf(calls[i])
    BY Zenon DEF TypeOK
<1>4. /\ hits \in [Slots -> SUBSET DOMAIN calls]
      /\ seq \in [Replicas \X Windows -> 0 .. SEQ_LIMIT - 1]
      /\ zset \cup late \subseteq Members
    BY Zenon DEF TypeOK, Slots
<1>5. time \in Nat /\ time <= MaxTime
    BY <1>1
<1>6. /\ Len(calls) \in Nat /\ DOMAIN calls = 1 .. Len(calls)
      /\ \A i \in DOMAIN calls : calls[i] \in Calls
    BY <1>2
<1>7. zset \subseteq Members /\ late \subseteq Members
    BY <1>4, Zenon
<1> QED
    BY <1>2, <1>3, <1>4, <1>5, <1>6, <1>7, Zenon

\* One window or two, and never the same one twice.
LEMMA WindowsFacts ==
    ASSUME NEW c, c.surface \in Surfaces
    PROVE  /\ WindowsOf(c) \in Seq(Windows) /\ Len(WindowsOf(c)) \in {1, 2}
           /\ DOMAIN WindowsOf(c) = 1 .. Len(WindowsOf(c))
           /\ 2 \in DOMAIN WindowsOf(c) => WindowsOf(c)[1] # WindowsOf(c)[2]
<1>1. CASE c.surface = "relay"
    <2>1. WindowsOf(c) = <<"edge">>
        BY <1>1, Zenon DEF WindowsOf
    <2> QED
        BY <2>1 DEF Windows
<1>2. CASE c.surface = "sign"
    <2>1. "sign" # "relay"
        OBVIOUS
    <2>2. WindowsOf(c) = <<"sign-src", "sign">>
        BY <1>2, <2>1, Zenon DEF WindowsOf
    <2> QED
        BY <2>2 DEF Windows
<1>3. CASE c.surface = "verify"
    <2>1. "verify" # "relay" /\ "verify" # "sign"
        OBVIOUS
    <2>2. WindowsOf(c) = IF c.vouched THEN <<"verify-src", "verify">> ELSE <<"verify-src">>
        BY <1>3, <2>1, Zenon DEF WindowsOf
    <2>3. CASE WindowsOf(c) = <<"verify-src", "verify">>
        BY <2>3 DEF Windows
    <2>4. CASE WindowsOf(c) = <<"verify-src">>
        BY <2>4 DEF Windows
    <2> QED
        BY <2>2, <2>3, <2>4, Zenon
<1> QED
    BY <1>1, <1>2, <1>3 DEF Surfaces

\* The fields a call is given on arrival and keeps.
SameCaller(c, d) ==
    /\ d.surface = c.surface /\ d.browser = c.browser /\ d.vouched = c.vouched
    /\ d.replica = c.replica /\ d.stamp = c.stamp

LEMMA SameWindows ==
    ASSUME NEW c, NEW d, SameCaller(c, d)
    PROVE  WindowsOf(d) = WindowsOf(c) /\ \A w : Key(d, w) = Key(c, w)
BY Zenon DEF SameCaller, WindowsOf, Key

LEMMA CallFields ==
    ASSUME NEW c \in Calls
    PROVE  /\ c.surface \in Surfaces /\ c.browser \in Browsers /\ c.vouched \in BOOLEAN
           /\ c.replica \in Replicas /\ c.stamp \in 0 .. time /\ c.depth \in {1, 2}
           /\ c.phase \in {"unknown", "asking", "served", "refused"}
           /\ c.passed \in SUBSET Windows /\ c.granted \in SUBSET Windows
           /\ c.seq \in [Windows -> 0 .. SEQ_LIMIT - 1]
BY DEF Calls

LEMMA KeyType ==
    ASSUME NEW c \in Calls, NEW w
    PROVE  Key(c, w) \in Keys
BY CallFields DEF Key, Keys, Sources

\* The window a call has come to, and the slot of its floor.
LEMMA AtType ==
    ASSUME NEW c \in Calls, c.depth \in DOMAIN WindowsOf(c)
    PROVE  At(c) \in Windows /\ Slot(c) \in Slots
<1>1. At(c) \in Windows
    <2>1. WindowsOf(c) \in Seq(Windows)
        BY CallFields, WindowsFacts
    <2> QED
        BY <2>1 DEF At
<1>2. c.replica \in Replicas /\ Key(c, At(c)) \in Keys
    BY CallFields, KeyType
<1> QED
    BY <1>1, <1>2 DEF Slot, Slots

LEMMA OneMore ==
    ASSUME NEW S, NEW x, IsFiniteSet(S)
    PROVE  IsFiniteSet(S \cup {x}) /\ Cardinality(S \cup {x}) <= Cardinality(S) + 1
<1>1. /\ IsFiniteSet(S \cup {x})
      /\ Cardinality(S \cup {x}) = IF x \in S THEN Cardinality(S) ELSE Cardinality(S) + 1
    BY FS_AddElement, Zenon
<1>2. Cardinality(S) \in Nat
    BY FS_CardinalityType
<1> QED
    BY <1>1, <1>2

LEMMA RecordFacts ==
    ASSUME TypeOK, NEW i \in 1 .. Len(calls) + 1, NEW d \in Calls, Record(i, d)
    PROVE  /\ calls' \in Seq(Calls)
           /\ DOMAIN calls' = DOMAIN calls \cup {i}
           /\ calls'[i] = d
           /\ \A j \in DOMAIN calls \ {i} : calls'[j] = calls[j]
<1>1. calls \in Seq(Calls) /\ Len(calls) \in Nat
    BY TypeParts
<1>2. CASE i > Len(calls)
    <2>1. i = Len(calls) + 1 /\ calls' = Append(calls, d)
        BY <1>1, <1>2 DEF Record
    <2>2. /\ calls' \in Seq(Calls) /\ Len(calls') = Len(calls) + 1
          /\ \A j \in 1 .. Len(calls) : calls'[j] = calls[j]
          /\ calls'[Len(calls) + 1] = d
        BY <1>1, <2>1
    <2>3. DOMAIN calls' = 1 .. Len(calls) + 1 /\ DOMAIN calls = 1 .. Len(calls)
        BY <1>1, <2>2
    <2>4. DOMAIN calls' = DOMAIN calls \cup {i} /\ DOMAIN calls \ {i} \subseteq 1 .. Len(calls)
        BY <1>1, <2>1, <2>3
    <2> QED
        BY <2>1, <2>2, <2>4
<1>3. CASE ~(i > Len(calls))
    <2>1. i \in 1 .. Len(calls) /\ calls' = [calls EXCEPT ![i] = d]
        BY <1>1, <1>3 DEF Record
    <2>2. calls \in [1 .. Len(calls) -> Calls]
        BY <1>1
    <2>3. calls' \in [1 .. Len(calls) -> Calls]
        BY <2>1, <2>2, Zenon
    <2>4. calls' \in Seq(Calls)
        BY <1>1, <2>3
    <2>5. DOMAIN calls' = DOMAIN calls \cup {i}
        BY <2>1, <2>2, <2>3
    <2>6. calls'[i] = d /\ \A j \in DOMAIN calls \ {i} : calls'[j] = calls[j]
        BY <2>1, <2>2
    <2> QED
        BY <2>4, <2>5, <2>6, Zenon
<1> QED
    BY <1>2, <1>3

-----------------------------------------------------------------------------
(* The shape of a step.  Whatever is decided about call i, as c, it keeps  *)
(* what it had passed and written; only c's own floor is touched.          *)

Ready(i, c) ==
    /\ i \in 1 .. Len(calls) + 1
    /\ c \in Calls /\ c.depth \in DOMAIN WindowsOf(c)
    /\ c.passed \subseteq {WindowsOf(c)[n] : n \in 1 .. c.depth} /\ c.granted \subseteq c.passed
    /\ i \in DOMAIN calls => /\ SameCaller(calls[i], c) /\ InFlight(calls[i])
                             /\ c.passed = calls[i].passed /\ c.seq = calls[i].seq
    /\ i \notin DOMAIN calls => c.passed = {}

AtNewFloor(i, c) == Ready(i, c) /\ At(c) \notin c.passed

Stops(i, c) == Record(i, c) /\ ~InFlight(c) /\ UNCHANGED <<hits, seq>>

Moves(i, c) ==
    \/ AtNewFloor(i, c) /\ MeetFloor(i, c)
    \/ Ready(i, c) /\ Stops(i, c) /\ c.phase # "refused"

\* What became of the call.
Follows(c, d) ==
    /\ SameCaller(c, d) /\ d.granted = c.granted /\ c.passed \subseteq d.passed
    /\ \A w \in c.passed : d.seq[w] = c.seq[w] /\ ~(InFlight(d) /\ At(d) = w)

Recorded(i, c) ==
    /\ calls' \in Seq(Calls) /\ DOMAIN calls' = DOMAIN calls \cup {i}
    /\ \A j \in DOMAIN calls \ {i} : calls'[j] = calls[j]
    /\ calls'[i].depth \in DOMAIN WindowsOf(calls'[i])
    /\ InOrder(calls'[i]) /\ Follows(c, calls'[i])

LEMMA StopsRecorded ==
    ASSUME LimitsAssumption, TypeOK, NEW i, NEW c, Ready(i, c), Stops(i, c)
    PROVE  /\ Recorded(i, c) /\ calls'[i] = c
           /\ hits' = hits /\ seq' = seq
<1>1. i \in 1 .. Len(calls) + 1 /\ c \in Calls /\ Record(i, c)
    BY DEF Ready, Stops
<1>2. /\ calls' \in Seq(Calls) /\ DOMAIN calls' = DOMAIN calls \cup {i} /\ calls'[i] = c
      /\ \A j \in DOMAIN calls \ {i} : calls'[j] = calls[j]
    BY <1>1, RecordFacts, Zenon
<1>3. InOrder(c) /\ Follows(c, c)
    BY DEF Ready, Stops, InOrder, Follows, SameCaller
<1> QED
    BY <1>2, <1>3, Zenon DEF Recorded, Ready, Stops

LEMMA RefusalRecorded ==
    ASSUME LimitsAssumption, TypeOK, NEW i, NEW c, Ready(i, c), Record(i, Refusal(c))
    PROVE  Recorded(i, c) /\ calls'[i] = Refusal(c) /\ ~InFlight(Refusal(c))
<1>1. i \in 1 .. Len(calls) + 1 /\ c \in Calls
    BY DEF Ready
<1>2. /\ Refusal(c) \in Calls /\ SameCaller(c, Refusal(c)) /\ ~InFlight(Refusal(c))
      /\ Refusal(c).passed = c.passed /\ Refusal(c).granted = c.granted
      /\ Refusal(c).seq = c.seq /\ Refusal(c).depth = c.depth
    BY <1>1 DEF Refusal, Calls, SameCaller, InFlight
<1>3. /\ calls' \in Seq(Calls) /\ DOMAIN calls' = DOMAIN calls \cup {i} /\ calls'[i] = Refusal(c)
      /\ \A j \in DOMAIN calls \ {i} : calls'[j] = calls[j]
    BY <1>1, <1>2, RecordFacts, Zenon
<1>4. WindowsOf(Refusal(c)) = WindowsOf(c)
    BY <1>2, SameWindows
<1>5. InOrder(Refusal(c))
    BY <1>2, <1>4, Zenon DEF InOrder, Ready
<1>6. Follows(c, Refusal(c))
    BY <1>2, Zenon DEF Follows
<1> QED
    BY <1>2, <1>3, <1>4, <1>5, <1>6, Zenon DEF Recorded, Ready

\* c let through its floor, before it is recorded.
LEMMA ThroughRecorded ==
    ASSUME LimitsAssumption, TypeOK, NEW i, NEW c, AtNewFloor(i, c), LetThrough(i, c)
    PROVE  /\ Recorded(i, c) /\ calls'[i].phase # "refused"
           /\ calls'[i].passed = c.passed \cup {At(c)}
           /\ seq' \in [Replicas \X Windows -> 0 .. SEQ_LIMIT - 1]
<1> DEFINE d == calls'[i]
           next == NextSeq(c.replica, At(c))
<1>1. i \in 1 .. Len(calls) + 1 /\ c \in Calls /\ c.depth \in DOMAIN WindowsOf(c)
    BY DEF Ready, AtNewFloor
<1>2. At(c) \in Windows
    BY <1>1, AtType
<1>3. next \in 0 .. SEQ_LIMIT - 1
    <2>1. <<c.replica, At(c)>> \in Replicas \X Windows
        BY <1>1, <1>2, CallFields
    <2>2. seq[<<c.replica, At(c)>>] \in 0 .. SEQ_LIMIT - 1
        BY <2>1, TypeParts
    <2> QED
        BY <2>2 DEF NextSeq, LimitsAssumption
<1>4. \E e \in Calls :
        /\ Record(i, e)
        /\ SameCaller(c, e) /\ e.depth = c.depth /\ e.granted = c.granted
        /\ e.passed = c.passed \cup {At(c)} /\ e.phase # "refused"
        /\ \A w \in c.passed : e.seq[w] = c.seq[w]
    <2>1. CASE Shared(At(c))
        <3> DEFINE e == [c EXCEPT !.passed = c.passed \cup {At(c)}, !.phase = "asking",
                                  !.seq[At(c)] = next]
        <3>1. Record(i, e)
            BY <2>1, Zenon DEF LetThrough
        <3>2. /\ c.seq \in [Windows -> 0 .. SEQ_LIMIT - 1]
              /\ At(c) \notin c.passed /\ c.passed \subseteq Windows
            BY <1>1, CallFields DEF AtNewFloor
        <3>3. /\ e.seq \in [Windows -> 0 .. SEQ_LIMIT - 1]
              /\ \A w \in c.passed : e.seq[w] = c.seq[w]
            <4>1. e.seq = [c.seq EXCEPT ![At(c)] = next]
                BY <1>1 DEF Calls
            <4> HIDE DEF e, next
            <4> QED
                BY <1>2, <1>3, <3>2, <4>1
        <3>4. /\ SameCaller(c, e) /\ e.depth = c.depth /\ e.granted = c.granted
              /\ e.passed = c.passed \cup {At(c)} /\ e.phase = "asking"
            BY <1>1 DEF Calls, SameCaller
        <3>5. e \in Calls
            BY <1>1, <1>2, <3>3 DEF Calls
        <3> QED
            BY <3>1, <3>3, <3>4, <3>5
    <2>2. CASE ~Shared(At(c))
        <3> DEFINE e == [c EXCEPT !.passed = c.passed \cup {At(c)}, !.phase = "served"]
        <3>1. Record(i, e)
            BY <2>2, Zenon DEF LetThrough
        <3>2. /\ e \in Calls /\ SameCaller(c, e) /\ e.depth = c.depth /\ e.granted = c.granted
              /\ e.passed = c.passed \cup {At(c)} /\ e.phase = "served" /\ e.seq = c.seq
            BY <1>1, <1>2 DEF Calls, SameCaller
        <3> QED
            BY <3>1, <3>2
    <2> QED
        BY <2>1, <2>2
<1>5. PICK e \in Calls :
        /\ Record(i, e)
        /\ SameCaller(c, e) /\ e.depth = c.depth /\ e.granted = c.granted
        /\ e.passed = c.passed \cup {At(c)} /\ e.phase # "refused"
        /\ \A w \in c.passed : e.seq[w] = c.seq[w]
    BY <1>4
<1>6. /\ calls' \in Seq(Calls) /\ DOMAIN calls' = DOMAIN calls \cup {i} /\ d = e
      /\ \A j \in DOMAIN calls \ {i} : calls'[j] = calls[j]
    BY <1>1, <1>5, RecordFacts, Zenon
<1>7. WindowsOf(e) = WindowsOf(c) /\ At(e) = At(c)
    BY <1>5, SameWindows DEF At
<1>8. InOrder(e)
    <2>1. At(c) \in {WindowsOf(c)[n] : n \in 1 .. c.depth}
        BY <1>1, CallFields DEF At
    <2>2. c.passed \subseteq {WindowsOf(c)[n] : n \in 1 .. c.depth} /\ c.granted \subseteq c.passed
        BY Zenon DEF AtNewFloor, Ready
    <2> QED
        BY <1>5, <1>7, <2>1, <2>2, Zenon DEF InOrder
<1>9. Follows(c, e)
    BY <1>5, <1>7, Zenon DEF Follows, AtNewFloor
<1>10. seq' \in [Replicas \X Windows -> 0 .. SEQ_LIMIT - 1]
    <2>1. seq' = seq \/ seq' = [seq EXCEPT ![<<c.replica, At(c)>>] = next]
        BY Zenon DEF LetThrough
    <2> QED
        BY <1>3, <2>1, TypeParts, Zenon
<1> QED
    BY <1>1, <1>5, <1>6, <1>7, <1>8, <1>9, <1>10, Zenon DEF Recorded

-----------------------------------------------------------------------------
(* Every action that touches a call moves it, or refuses it for good.      *)

LEMMA ArriveMoves ==
    ASSUME LimitsAssumption, TypeOK, NEW o \in Offered, NEW r \in Replicas, Arrive(o, r)
    PROVE  \E i, c : i = Len(calls) + 1 /\ c.granted = {} /\ Moves(i, c)
<1> DEFINE i == Len(calls) + 1
           c == [surface |-> o.surface, browser |-> o.browser, vouched |-> o.vouched,
                 replica |-> r, stamp |-> time, depth |-> 1, phase |-> "unknown",
                 passed |-> {}, granted |-> {}, seq |-> [w \in Windows |-> 0]]
<1>1. Len(calls) \in Nat /\ DOMAIN calls = 1 .. Len(calls) /\ time \in Nat
    BY TypeParts
<1>2. c \in Calls
    <2>1. [w \in Windows |-> 0] \in [Windows -> 0 .. SEQ_LIMIT - 1]
        BY DEF LimitsAssumption
    <2>2. o.surface \in Surfaces /\ o.vouched \in BOOLEAN /\ o.browser \in Browsers
        BY DEF LimitsAssumption, Browsers
    <2> QED
        BY <1>1, <2>1, <2>2 DEF Calls
<1>3. c.depth \in DOMAIN WindowsOf(c)
    <2>1. c.surface \in Surfaces /\ c.depth = 1
        BY <1>2, CallFields
    <2> HIDE DEF c
    <2> QED
        BY <2>1, WindowsFacts
<1>4. i \in 1 .. Len(calls) + 1 /\ i \notin DOMAIN calls
    BY <1>1
<1>5. c.passed = {} /\ c.granted = {} /\ c.phase = "unknown"
    OBVIOUS
<1>6. Stops(i, c) \/ MeetFloor(i, c)
    <2>1. (Record(i, c) /\ UNCHANGED <<hits, seq>>) \/ MeetFloor(i, c)
        BY Zenon DEF Arrive
    <2>2. ~InFlight(c)
        BY DEF InFlight
    <2> QED
        BY <2>1, <2>2, Zenon DEF Stops
<1> HIDE DEF i, c
<1>7. AtNewFloor(i, c) /\ c.phase # "refused"
    BY <1>2, <1>3, <1>4, <1>5 DEF Ready, AtNewFloor
<1>8. Moves(i, c)
    BY <1>6, <1>7, Zenon DEF Moves, AtNewFloor
<1> QED
    BY <1>5, <1>8 DEF i

\* Past the window it has asked about: the next floor, or the handler.
LEMMA ProceedMoves ==
    ASSUME LimitsAssumption, TypeOK, NEW i \in DOMAIN calls, NEW c, Ready(i, c), Proceed(i, c)
    PROVE  \E d : d.granted = c.granted /\ SameCaller(c, d) /\ Moves(i, d)
<1>1. c \in Calls /\ c.depth \in DOMAIN WindowsOf(c) /\ c.surface \in Surfaces
    BY CallFields DEF Ready
<1>2. CASE c.depth = Len(WindowsOf(c))
    <2> DEFINE d == [c EXCEPT !.phase = "served"]
    <2>1. /\ d \in Calls /\ SameCaller(c, d) /\ d.granted = c.granted /\ d.passed = c.passed
          /\ d.seq = c.seq /\ d.depth = c.depth /\ d.phase = "served"
        BY <1>1 DEF Calls, SameCaller
    <2>2. Record(i, d) /\ UNCHANGED <<hits, seq>>
        BY <1>2, Zenon DEF Proceed
    <2> HIDE DEF d
    <2>3. WindowsOf(d) = WindowsOf(c)
        BY <2>1, SameWindows
    <2>4. SameCaller(calls[i], d)
        BY <2>1 DEF Ready, SameCaller
    <2>5. Ready(i, d)
        BY <2>1, <2>3, <2>4, Zenon DEF Ready
    <2>6. Stops(i, d)
        BY <2>1, <2>2 DEF Stops, InFlight
    <2>7. d.phase # "refused"
        BY <2>1
    <2> QED
        BY <2>1, <2>5, <2>6, <2>7, Zenon DEF Moves
<1>3. CASE c.depth # Len(WindowsOf(c))
    <2> DEFINE d == [c EXCEPT !.depth = c.depth + 1]
    <2>1. c.depth = 1 /\ 2 \in DOMAIN WindowsOf(c)
        <3>1. /\ Len(WindowsOf(c)) \in {1, 2} /\ c.depth \in 1 .. Len(WindowsOf(c))
              /\ DOMAIN WindowsOf(c) = 1 .. Len(WindowsOf(c))
            BY <1>1, WindowsFacts
        <3>2. c.depth = 1 /\ Len(WindowsOf(c)) = 2
            BY <1>3, <3>1
        <3> QED
            BY <3>1, <3>2
    <2>2. /\ d \in Calls /\ SameCaller(c, d) /\ d.granted = c.granted /\ d.passed = c.passed
          /\ d.seq = c.seq /\ d.depth = 2
        BY <1>1, <2>1 DEF Calls, SameCaller
    <2>3. MeetFloor(i, d)
        BY <1>3, Zenon DEF Proceed
    <2> HIDE DEF d
    <2>4. WindowsOf(d) = WindowsOf(c)
        BY <2>2, SameWindows
    <2>5. SameCaller(calls[i], d)
        BY <2>2 DEF Ready, SameCaller
    <2>6. c.passed \subseteq {WindowsOf(c)[1]} /\ c.granted \subseteq c.passed
        BY <2>1 DEF Ready
    <2>7. WindowsOf(d)[2] \notin d.passed
        BY <1>1, <2>1, <2>2, <2>4, <2>6, WindowsFacts
    <2>8. d.passed \subseteq {WindowsOf(d)[n] : n \in 1 .. d.depth}
        <3>1. 1 \in 1 .. d.depth
            BY <2>2
        <3>2. WindowsOf(c)[1] \in {WindowsOf(d)[n] : n \in 1 .. d.depth}
            BY <2>4, <3>1, Zenon
        <3> QED
            BY <2>2, <2>6, <3>2, Zenon
    <2>9. Ready(i, d)
        BY <2>1, <2>2, <2>4, <2>5, <2>6, <2>8, Zenon DEF Ready
    <2>10. At(d) \notin d.passed
        BY <2>2, <2>7 DEF At
    <2>11. Moves(i, d)
        BY <2>3, <2>9, <2>10, Zenon DEF Moves, AtNewFloor
    <2> QED
        BY <2>2, <2>11, Zenon
<1> QED
    BY <1>2, <1>3

\* A call that waits is ready to go on, with its verdict or without one.
LEMMA WaitingIsReady ==
    ASSUME LimitsAssumption, TypeOK, CallsInOrder, NEW i \in DOMAIN calls, InFlight(calls[i])
    PROVE  /\ Ready(i, calls[i]) /\ At(calls[i]) \in calls[i].passed
           /\ LET c == [calls[i] EXCEPT !.granted = calls[i].granted \cup {At(calls[i])}]
              IN  /\ Ready(i, c) /\ SameCaller(calls[i], c)
                  /\ c.granted = calls[i].granted \cup {At(calls[i])}
<1> DEFINE b == calls[i]
           c == [b EXCEPT !.granted = b.granted \cup {At(b)}]
<1>1. /\ b \in Calls /\ b.depth \in DOMAIN WindowsOf(b) /\ i \in 1 .. Len(calls) + 1
    BY TypeParts
<1>2. InOrder(b) /\ InFlight(b)
    BY DEF CallsInOrder
<1> HIDE DEF b
<1>3. At(b) \in Windows /\ SameCaller(b, b)
    BY <1>1, AtType DEF SameCaller
<1>4. /\ c \in Calls /\ SameCaller(b, c) /\ c.granted = b.granted \cup {At(b)}
      /\ c.passed = b.passed /\ c.seq = b.seq /\ c.depth = b.depth /\ c.phase = b.phase
    BY <1>1, <1>3 DEF Calls, SameCaller
<1> HIDE DEF c
<1>5. WindowsOf(c) = WindowsOf(b)
    BY <1>4, SameWindows
<1>6. Ready(i, b) /\ At(b) \in b.passed
    BY <1>1, <1>2, <1>3, Zenon DEF Ready, InOrder, b
<1>7. Ready(i, c)
    BY <1>1, <1>2, <1>4, <1>5, <1>6, Zenon DEF Ready, InOrder, b
<1> QED
    BY <1>4, <1>6, <1>7, Zenon DEF b, c

LEMMA MovesRecorded ==
    ASSUME LimitsAssumption, TypeOK, NEW i, NEW c, Moves(i, c)
    PROVE  Recorded(i, c) /\ Ready(i, c)
BY StopsRecorded, RefusalRecorded, ThroughRecorded, Zenon DEF Moves, MeetFloor, AtNewFloor, TurnedAway

\* The calls after a step on call i, one at a time.
LEMMA RecordedParts ==
    ASSUME TypeOK, NEW i, NEW c, Ready(i, c), Recorded(i, c)
    PROVE  /\ calls' \in Seq(Calls) /\ DOMAIN calls' = DOMAIN calls \cup {i}
           /\ calls'[i] \in Calls /\ SameCaller(c, calls'[i])
           /\ \A j \in DOMAIN calls : SameCaller(calls[j], calls'[j])
           /\ \A j \in DOMAIN calls : calls[j].passed \subseteq calls'[j].passed
           /\ \A j \in DOMAIN calls \ {i} : calls'[j] = calls[j]
<1>1. /\ calls' \in Seq(Calls) /\ DOMAIN calls' = DOMAIN calls \cup {i}
      /\ \A j \in DOMAIN calls \ {i} : calls'[j] = calls[j]
      /\ SameCaller(c, calls'[i]) /\ c.passed \subseteq calls'[i].passed
    BY Zenon DEF Recorded, Follows
<1>2. calls'[i] \in Calls
    BY <1>1
<1>3. ASSUME NEW j \in DOMAIN calls
      PROVE  SameCaller(calls[j], calls'[j]) /\ calls[j].passed \subseteq calls'[j].passed
    <2>1. CASE j = i
        <3>1. SameCaller(calls[i], c) /\ c.passed = calls[i].passed
            BY <2>1, Zenon DEF Ready
        <3> QED
            BY <1>1, <2>1, <3>1, Zenon DEF SameCaller
    <2>2. CASE j # i
        BY <1>1, <2>2, Zenon DEF SameCaller
    <2> QED
        BY <2>1, <2>2
<1> QED
    BY <1>1, <1>2, <1>3, Zenon

-----------------------------------------------------------------------------
(* The floors.                                                             *)

LEMMA PushedFacts ==
    ASSUME TypeOK, NEW i, NEW c, Ready(i, c), Recorded(i, c), NEW slot
    PROVE  /\ \A j \in DOMAIN calls : Pushed(calls[j], slot) => Pushed(calls'[j], slot)
           /\ \A j \in DOMAIN calls' :
                Pushed(calls'[j], slot) =>
                    \/ j \in DOMAIN calls /\ Pushed(calls[j], slot)
                    \/ j = i /\ slot[2] \in calls'[i].passed \ c.passed
           /\ \A j \in DOMAIN calls : calls'[j].stamp = calls[j].stamp
<1>1. ASSUME NEW j \in DOMAIN calls
      PROVE  /\ Pushed(calls[j], slot) => Pushed(calls'[j], slot)
             /\ calls'[j].stamp = calls[j].stamp
    <2>1. SameCaller(calls[j], calls'[j]) /\ calls[j].passed \subseteq calls'[j].passed
        BY RecordedParts, Zenon
    <2>2. Key(calls'[j], slot[2]) = Key(calls[j], slot[2])
        BY <2>1, SameWindows
    <2> QED
        BY <2>1, <2>2, Zenon DEF Pushed, SameCaller
<1>2. ASSUME NEW j \in DOMAIN calls', Pushed(calls'[j], slot)
      PROVE  \/ j \in DOMAIN calls /\ Pushed(calls[j], slot)
             \/ j = i /\ slot[2] \in calls'[i].passed \ c.passed
    <2>1. CASE j # i
        <3>1. j \in DOMAIN calls /\ calls'[j] = calls[j]
            BY <2>1, RecordedParts, Zenon
        <3> QED
            BY <1>2, <3>1, Zenon
    <2>2. CASE j = i /\ slot[2] \in c.passed
        <3>1. i \in DOMAIN calls
            BY <2>2, Zenon DEF Ready
        <3>2. SameCaller(calls[i], calls'[i]) /\ c.passed = calls[i].passed
            BY <3>1, RecordedParts, Zenon DEF Ready
        <3>3. Key(calls'[i], slot[2]) = Key(calls[i], slot[2])
            BY <3>2, SameWindows
        <3>4. Pushed(calls[i], slot)
            BY <1>2, <2>2, <3>2, <3>3, Zenon DEF Pushed, SameCaller
        <3> QED
            BY <2>2, <3>1, <3>4
    <2>3. CASE j = i /\ slot[2] \notin c.passed
        BY <1>2, <2>3, Zenon DEF Pushed
    <2> QED
        BY <2>1, <2>2, <2>3
<1> QED
    BY <1>1, <1>2, Zenon

\* One list, given what it became: no shorter than it must be, no longer than it may.
LEMMA FloorKept ==
    ASSUME LimitsAssumption, TypeOK, FloorsInStep,
           NEW i, NEW c, Ready(i, c), Recorded(i, c), UNCHANGED time, NEW slot \in Slots,
           hits'[slot] = hits[slot] \/ (slot = Slot(c) /\ Recent(c) \subseteq hits'[slot]),
           hits'[slot] \subseteq hits[slot] \/
               /\ slot = Slot(c) /\ hits'[slot] \subseteq Recent(c) \cup {i}
               /\ ~OverBudget(At(c), Cardinality(Recent(c))) /\ At(c) \in calls'[i].passed,
           \A w \in calls'[i].passed \ c.passed : w = At(c) /\ i \in hits'[Slot(c)]
    PROVE  /\ IsFiniteSet(hits'[slot]) /\ Cardinality(hits'[slot]) <= Budget[slot[2]]
           /\ \A j \in hits'[slot] : Pushed(calls'[j], slot)
           /\ \A j \in DOMAIN calls' :
                Pushed(calls'[j], slot) /\ calls'[j].stamp > time' - Window => j \in hits'[slot]
<1>1. /\ IsFiniteSet(hits[slot]) /\ Cardinality(hits[slot]) <= Budget[slot[2]]
      /\ \A j \in hits[slot] : Pushed(calls[j], slot)
      /\ \A j \in DOMAIN calls :
          Pushed(calls[j], slot) /\ calls[j].stamp > time - Window => j \in hits[slot]
    BY Zenon DEF FloorsInStep
<1>2. hits[slot] \subseteq DOMAIN calls
    BY TypeParts
<1>3. ASSUME slot = Slot(c)
      PROVE  /\ Recent(c) \subseteq hits[slot]
             /\ \A j \in hits[slot] : calls[j].stamp > time - Window => j \in Recent(c)
             /\ slot[1] = c.replica /\ slot[2] = At(c) /\ slot[3] = Key(c, At(c))
    <2>1. c.stamp \in 0 .. time /\ time \in Nat
        BY CallFields, TypeParts DEF Ready
    <2>2. \A j \in hits[slot] : calls[j].stamp \in 0 .. time
        BY <1>2, CallFields, TypeParts
    <2> QED
        BY <1>3, <2>1, <2>2 DEF Recent, Slot, LimitsAssumption
<1>4. Budget[slot[2]] \in Nat
    BY DEF Slots, LimitsAssumption
<1>5. /\ IsFiniteSet(hits'[slot]) /\ Cardinality(hits'[slot]) <= Budget[slot[2]]
      /\ \A j \in hits'[slot] : Pushed(calls'[j], slot)
    <2>1. CASE hits'[slot] \subseteq hits[slot]
        <3>1. IsFiniteSet(hits'[slot]) /\ Cardinality(hits'[slot]) <= Cardinality(hits[slot])
            BY <1>1, <2>1, FS_Subset
        <3>2. Cardinality(hits'[slot]) \in Nat /\ Cardinality(hits[slot]) \in Nat
            BY <1>1, <3>1, FS_CardinalityType
        <3>3. \A j \in hits'[slot] : Pushed(calls'[j], slot)
            BY <1>1, <1>2, <2>1, PushedFacts, Zenon
        <3> QED
            BY <1>1, <1>4, <3>1, <3>2, <3>3
    <2>2. CASE /\ slot = Slot(c) /\ hits'[slot] \subseteq Recent(c) \cup {i}
               /\ ~OverBudget(At(c), Cardinality(Recent(c))) /\ At(c) \in calls'[i].passed
        <3>1. IsFiniteSet(Recent(c))
            BY <1>1, <1>3, <2>2, FS_Subset
        <3>2. /\ IsFiniteSet(Recent(c) \cup {i})
              /\ Cardinality(Recent(c) \cup {i}) <= Cardinality(Recent(c)) + 1
            BY <3>1, OneMore, Zenon
        <3>3. /\ IsFiniteSet(hits'[slot])
              /\ Cardinality(hits'[slot]) <= Cardinality(Recent(c) \cup {i})
            BY <2>2, <3>2, FS_Subset
        <3>4. /\ Cardinality(hits'[slot]) \in Nat /\ Cardinality(Recent(c)) \in Nat
              /\ Cardinality(Recent(c) \cup {i}) \in Nat
            BY <3>1, <3>2, <3>3, FS_CardinalityType
        <3>5. Cardinality(Recent(c)) < Budget[slot[2]]
            BY <1>3, <1>4, <2>2, <3>4 DEF OverBudget
        <3>6. Cardinality(hits'[slot]) <= Budget[slot[2]]
            BY <1>4, <3>2, <3>3, <3>4, <3>5
        <3>7. ASSUME NEW j \in hits'[slot]
              PROVE  Pushed(calls'[j], slot)
            <4>1. CASE j \in Recent(c)
                BY <1>1, <1>2, <1>3, <2>2, <4>1, PushedFacts, Zenon
            <4>2. CASE j = i
                <5>1. SameCaller(c, calls'[i])
                    BY RecordedParts
                <5>2. Key(calls'[i], At(c)) = Key(c, At(c))
                    BY <5>1, SameWindows
                <5> QED
                    BY <1>3, <2>2, <4>2, <5>1, <5>2, Zenon DEF Pushed, SameCaller
            <4> QED
                BY <2>2, <4>1, <4>2
        <3> QED
            BY <3>3, <3>6, <3>7
    <2> QED
        BY <2>1, <2>2
<1>6. ASSUME NEW j \in DOMAIN calls', Pushed(calls'[j], slot), calls'[j].stamp > time' - Window
      PROVE  j \in hits'[slot]
    <2>1. CASE j \in DOMAIN calls /\ Pushed(calls[j], slot)
        <3>1. calls'[j].stamp = calls[j].stamp /\ time' = time
            BY <2>1, PushedFacts, Zenon
        <3>2. j \in hits[slot] /\ calls[j].stamp > time - Window
            BY <1>1, <1>6, <2>1, <3>1
        <3> QED
            BY <1>3, <3>2, Zenon
    <2>2. CASE j = i /\ slot[2] \in calls'[i].passed \ c.passed
        <3>1. slot[2] = At(c) /\ i \in hits'[Slot(c)]
            BY <2>2, Zenon
        <3>2. slot = Slot(c)
            <4>1. SameCaller(c, calls'[i])
                BY RecordedParts
            <4>2. Key(calls'[i], At(c)) = Key(c, At(c))
                BY <4>1, SameWindows
            <4>3. slot[1] = c.replica /\ slot[3] = Key(c, At(c))
                BY <1>6, <2>2, <3>1, <4>1, <4>2, Zenon DEF Pushed, SameCaller
            <4> QED
                BY <3>1, <4>3 DEF Slot, Slots
        <3> QED
            BY <2>2, <3>1, <3>2
    <2> QED
        BY <1>6, <2>1, <2>2, PushedFacts, Zenon
<1> QED
    BY <1>5, <1>6

LEMMA FloorsKept ==
    ASSUME LimitsAssumption, TypeOK, FloorsInStep,
           NEW i, NEW c, Ready(i, c), Recorded(i, c), UNCHANGED time,
           \/ AtNewFloor(i, c) /\ MeetFloor(i, c)
           \/ hits' = hits /\ calls'[i].passed = c.passed
    PROVE  FloorsInStep' /\ hits' \in [Slots -> SUBSET DOMAIN calls']
<1>1. hits \in [Slots -> SUBSET DOMAIN calls] /\ Slot(c) \in Slots
    BY TypeParts, AtType DEF Ready
<1>2. DOMAIN calls \subseteq DOMAIN calls' /\ i \in DOMAIN calls'
    BY RecordedParts, Zenon
<1>3. CASE hits' = hits /\ calls'[i].passed = c.passed
    <2>1. hits' \in [Slots -> SUBSET DOMAIN calls']
        BY <1>1, <1>2, <1>3
    <2>2. ASSUME NEW slot \in Slots
          PROVE  /\ IsFiniteSet(hits'[slot]) /\ Cardinality(hits'[slot]) <= Budget[slot[2]]
                 /\ \A j \in hits'[slot] : Pushed(calls'[j], slot)
                 /\ \A j \in DOMAIN calls' :
                      Pushed(calls'[j], slot) /\ calls'[j].stamp > time' - Window
                          => j \in hits'[slot]
        BY <1>3, FloorKept
    <2> QED
        BY <2>1, <2>2, Zenon DEF FloorsInStep
<1>4. CASE AtNewFloor(i, c) /\ TurnedAway(i, c)
    <2>1. hits' = [hits EXCEPT ![Slot(c)] = Recent(c)]
        BY <1>4, Zenon DEF TurnedAway, KeptOnRefusal
    <2>2. Recent(c) \subseteq hits[Slot(c)]
        BY Zenon DEF Recent
    <2>3. hits' \in [Slots -> SUBSET DOMAIN calls'] /\ hits'[Slot(c)] = Recent(c)
        BY <1>1, <1>2, <2>1, <2>2
    <2>4. \A slot \in Slots : slot # Slot(c) => hits'[slot] = hits[slot]
        BY <1>1, <2>1
    <2>5. calls'[i].passed = c.passed
        <3>1. calls'[i] = Refusal(c)
            BY <1>4, RefusalRecorded, Zenon DEF TurnedAway
        <3>2. Refusal(c).passed = c.passed
            BY DEF Refusal, Ready, Calls
        <3> QED
            BY <3>1, <3>2
    <2>6. ASSUME NEW slot \in Slots
          PROVE  /\ IsFiniteSet(hits'[slot]) /\ Cardinality(hits'[slot]) <= Budget[slot[2]]
                 /\ \A j \in hits'[slot] : Pushed(calls'[j], slot)
                 /\ \A j \in DOMAIN calls' :
                      Pushed(calls'[j], slot) /\ calls'[j].stamp > time' - Window
                          => j \in hits'[slot]
        <3>1. hits'[slot] = hits[slot] \/ (slot = Slot(c) /\ Recent(c) \subseteq hits'[slot])
            BY <2>3, <2>4, Zenon
        <3>2. hits'[slot] \subseteq hits[slot]
            BY <2>2, <2>3, <2>4, Zenon
        <3>3. \A w \in calls'[i].passed \ c.passed : w = At(c) /\ i \in hits'[Slot(c)]
            BY <2>5, Zenon
        <3> QED
            BY <3>1, <3>2, <3>3, FloorKept
    <2> QED
        BY <2>3, <2>6, Zenon DEF FloorsInStep
<1>5. CASE AtNewFloor(i, c) /\ LetThrough(i, c)
    <2>1. /\ hits' = [hits EXCEPT ![Slot(c)] = Recent(c) \cup {i}]
          /\ ~OverBudget(At(c), Cardinality(Recent(c)))
        BY <1>5, Zenon DEF LetThrough
    <2>2. Recent(c) \subseteq hits[Slot(c)]
        BY Zenon DEF Recent
    <2>3. hits' \in [Slots -> SUBSET DOMAIN calls'] /\ hits'[Slot(c)] = Recent(c) \cup {i}
        BY <1>1, <1>2, <2>1, <2>2
    <2>4. \A slot \in Slots : slot # Slot(c) => hits'[slot] = hits[slot]
        BY <1>1, <2>1
    <2>5. calls'[i].passed = c.passed \cup {At(c)}
        BY <1>5, ThroughRecorded, Zenon
    <2>6. ASSUME NEW slot \in Slots
          PROVE  /\ IsFiniteSet(hits'[slot]) /\ Cardinality(hits'[slot]) <= Budget[slot[2]]
                 /\ \A j \in hits'[slot] : Pushed(calls'[j], slot)
                 /\ \A j \in DOMAIN calls' :
                      Pushed(calls'[j], slot) /\ calls'[j].stamp > time' - Window
                          => j \in hits'[slot]
        <3>1. hits'[slot] = hits[slot] \/ (slot = Slot(c) /\ Recent(c) \subseteq hits'[slot])
            BY <2>3, <2>4, Zenon
        <3>2. hits'[slot] \subseteq hits[slot] \/
                /\ slot = Slot(c) /\ hits'[slot] \subseteq Recent(c) \cup {i}
                /\ ~OverBudget(At(c), Cardinality(Recent(c))) /\ At(c) \in calls'[i].passed
            BY <2>1, <2>3, <2>4, <2>5, Zenon
        <3>3. \A w \in calls'[i].passed \ c.passed : w = At(c) /\ i \in hits'[Slot(c)]
            BY <2>3, <2>5, Zenon
        <3> QED
            BY <3>1, <3>2, <3>3, FloorKept
    <2> QED
        BY <2>3, <2>6, Zenon DEF FloorsInStep
<1> QED
    BY <1>3, <1>4, <1>5, Zenon DEF MeetFloor

-----------------------------------------------------------------------------
(* The shared view.                                                        *)

MembersBounded == IsFiniteSet(zset) /\ \A w \in Windows, k \in Keys : Cardinality(SetOf(w, k)) <= Budget[w]

\* The script drops only what has left the window, and admits within the budget.
LEMMA ScriptKept ==
    ASSUME LimitsAssumption, TypeOK, MembersBounded, NEW m \in Members, zset' = Script(m)
    PROVE  /\ MembersBounded'
           /\ zset' \subseteq zset \cup {m}
           /\ Admits(m) => m \in zset'
           /\ \A n \in zset : n.at > m.at - Window => n \in zset'
<1> DEFINE U == {n \in zset \ Old(m) : Same(m, n)}
<1>1. zset \subseteq Members /\ time \in Nat
    BY TypeParts
<1>2. m.window \in Windows /\ m.key \in Keys /\ m.at \in Nat
    BY <1>1 DEF Members
<1>3. zset' \subseteq zset \cup {m} /\ (Admits(m) => m \in zset')
    BY Zenon DEF Script, Old
<1>4. \A n \in zset : n.at > m.at - Window => n \in zset'
    <2>1. \A n \in zset : n.at \in Nat
        BY <1>1 DEF Members
    <2> QED
        BY <1>2, <2>1 DEF Script, Old, LimitsAssumption
<1>5. IsFiniteSet(zset')
    <2>1. IsFiniteSet(zset \cup {m})
        BY FS_AddElement, Zenon DEF MembersBounded
    <2> QED
        BY <1>3, <2>1, FS_Subset
<1>6. ASSUME NEW w \in Windows, NEW k \in Keys
      PROVE  Cardinality(SetOf(w, k)') <= Budget[w]
    <2>1. /\ IsFiniteSet(SetOf(w, k)) /\ Cardinality(SetOf(w, k)) <= Budget[w]
          /\ Cardinality(SetOf(w, k)) \in Nat /\ Budget[w] \in Nat
        <3>1. SetOf(w, k) \subseteq zset /\ IsFiniteSet(zset)
            BY DEF SetOf, MembersBounded
        <3>2. IsFiniteSet(SetOf(w, k))
            BY <3>1, FS_Subset
        <3> QED
            BY <3>2, FS_CardinalityType DEF MembersBounded, LimitsAssumption
    <2>2. CASE Admits(m) /\ w = m.window /\ k = m.key
        <3>1. U \subseteq SetOf(w, k)
            BY <2>2 DEF SetOf, Same
        <3>2. IsFiniteSet(U) /\ Cardinality(U) \in Nat
            BY <2>1, <3>1, FS_Subset, FS_CardinalityType
        <3>3. Cardinality(U) < Budget[w]
            <4>1. ~(Cardinality(U) >= Budget[w])
                BY <2>2, Zenon DEF Admits, OverBudget, Used
            <4> HIDE DEF U
            <4> QED
                BY <2>1, <3>2, <4>1
        <3>4. SetOf(w, k)' \subseteq U \cup {m}
            BY <2>2 DEF SetOf, Same, Script
        <3> HIDE DEF U
        <3>5. /\ IsFiniteSet(U \cup {m}) /\ Cardinality(U \cup {m}) <= Cardinality(U) + 1
            BY <3>2, OneMore, Zenon
        <3>6. IsFiniteSet(SetOf(w, k)') /\ Cardinality(SetOf(w, k)') <= Cardinality(U \cup {m})
            BY <3>4, <3>5, FS_Subset
        <3>7. Cardinality(SetOf(w, k)') \in Nat /\ Cardinality(U \cup {m}) \in Nat
            BY <3>5, <3>6, FS_CardinalityType
        <3> QED
            BY <2>1, <3>2, <3>3, <3>5, <3>6, <3>7
    <2>3. CASE ~(Admits(m) /\ w = m.window /\ k = m.key)
        <3>1. SetOf(w, k)' \subseteq SetOf(w, k)
            BY <2>3, Zenon DEF SetOf, Script, Old
        <3>2. IsFiniteSet(SetOf(w, k)') /\ Cardinality(SetOf(w, k)') <= Cardinality(SetOf(w, k))
            BY <2>1, <3>1, FS_Subset
        <3>3. Cardinality(SetOf(w, k)') \in Nat
            BY <3>2, FS_CardinalityType
        <3> QED
            BY <2>1, <3>2, <3>3
    <2> QED
        BY <2>2, <2>3
<1> QED
    BY <1>3, <1>4, <1>5, <1>6, Zenon DEF MembersBounded

\* What a call has written of the windows it has passed stays as it is.
LEMMA MemberKept ==
    ASSUME TypeOK, NEW i, NEW c, Ready(i, c), Recorded(i, c)
    PROVE  /\ \A w \in c.passed : MemberAt(calls'[i], w) = MemberAt(c, w)
           /\ i \in DOMAIN calls => \A w \in c.passed : MemberAt(c, w) = MemberAt(calls[i], w)
<1>1. Follows(c, calls'[i]) /\ SameCaller(c, calls'[i])
    BY Zenon DEF Recorded, Follows
<1>2. \A w \in c.passed : MemberAt(calls'[i], w) = MemberAt(c, w)
    <2>1. \A w : Key(calls'[i], w) = Key(c, w)
        BY <1>1, SameWindows
    <2> QED
        BY <1>1, <2>1, Zenon DEF MemberAt, Follows, SameCaller
<1>3. ASSUME i \in DOMAIN calls
      PROVE  \A w \in c.passed : MemberAt(c, w) = MemberAt(calls[i], w)
    <2>1. SameCaller(calls[i], c) /\ c.seq = calls[i].seq
        BY <1>3, Zenon DEF Ready
    <2>2. \A w : Key(c, w) = Key(calls[i], w)
        BY <2>1, SameWindows
    <2> QED
        BY <2>1, <2>2, Zenon DEF MemberAt, SameCaller
<1> QED
    BY <1>2, <1>3, Zenon

LEMMA WrittenKept ==
    ASSUME TypeOK, NEW i, NEW c, Ready(i, c), Recorded(i, c), NEW m
    PROVE  /\ \A j \in DOMAIN calls : Wrote(calls[j], m) => Wrote(calls'[j], m)
           /\ i \in DOMAIN calls /\ m = Member(calls[i]) /\ At(calls[i]) \in calls[i].passed
                => Wrote(calls'[i], m)
<1>1. ASSUME i \in DOMAIN calls, m.window \in calls[i].passed, m = MemberAt(calls[i], m.window)
      PROVE  Wrote(calls'[i], m)
    <2>1. m.window \in c.passed
        BY <1>1, Zenon DEF Ready
    <2>2. m = MemberAt(calls'[i], m.window)
        BY <1>1, <2>1, MemberKept, Zenon
    <2>3. m.window \in calls'[i].passed /\ ~(InFlight(calls'[i]) /\ At(calls'[i]) = m.window)
        BY <2>1, Zenon DEF Recorded, Follows
    <2> QED
        BY <2>2, <2>3, Zenon DEF Wrote
<1>2. \A j \in DOMAIN calls : Wrote(calls[j], m) => Wrote(calls'[j], m)
    BY <1>1, RecordedParts, Zenon DEF Wrote
<1>3. m = Member(calls[i]) => m.window = At(calls[i]) /\ m = MemberAt(calls[i], m.window)
    BY DEF Member, MemberAt
<1> QED
    BY <1>1, <1>2, <1>3, Zenon

LEMMA SharedKept ==
    ASSUME LimitsAssumption, TypeOK, CallsInOrder, SharedInStep,
           NEW i, NEW c, Ready(i, c), Recorded(i, c), UNCHANGED time, MembersBounded',
           \A m \in zset' \cup late' :
                m \in zset \cup late \/ (i \in DOMAIN calls /\ m = Member(calls[i])),
           \A n \in zset : n.at > time - Window => n \in zset',
           \A w \in c.granted :
                (i \in DOMAIN calls /\ w \in calls[i].granted) \/ MemberAt(c, w) \in zset'
    PROVE  SharedInStep'
<1>1. DOMAIN calls \subseteq DOMAIN calls' /\ i \in DOMAIN calls'
    BY RecordedParts, Zenon
<1>2. ASSUME NEW m \in zset' \cup late'
      PROVE  \E j \in DOMAIN calls' : Wrote(calls'[j], m)
    <2>1. CASE m \in zset \cup late
        <3>1. PICK j \in DOMAIN calls : Wrote(calls[j], m)
            BY <2>1, Zenon DEF SharedInStep
        <3> QED
            BY <1>1, <3>1, WrittenKept, Zenon
    <2>2. CASE i \in DOMAIN calls /\ m = Member(calls[i])
        <3>1. At(calls[i]) \in calls[i].passed
            BY <2>2, Zenon DEF CallsInOrder, InOrder, Ready
        <3> QED
            BY <1>1, <2>2, <3>1, WrittenKept, Zenon
    <2> QED
        BY <2>1, <2>2, Zenon
<1>3. ASSUME NEW j \in DOMAIN calls', NEW w \in calls'[j].granted,
             calls'[j].stamp > time' - Window
      PROVE  MemberAt(calls'[j], w) \in zset'
    <2>1. ASSUME j \in DOMAIN calls, w \in calls[j].granted,
                 MemberAt(calls'[j], w) = MemberAt(calls[j], w), calls'[j].stamp = calls[j].stamp
          PROVE  MemberAt(calls'[j], w) \in zset'
        <3>1. MemberAt(calls[j], w) \in zset
            BY <1>3, <2>1, Zenon DEF SharedInStep
        <3>2. MemberAt(calls[j], w).at = calls[j].stamp
            BY DEF MemberAt
        <3>3. MemberAt(calls[j], w).at > time - Window
            <4>1. MemberAt(calls[j], w).at = calls'[j].stamp /\ time' = time
                BY <2>1, <3>2, Zenon
            <4> QED
                BY <1>3, <4>1, Zenon
        <3> QED
            BY <2>1, <3>1, <3>3, Zenon
    <2>2. CASE j # i
        <3>1. j \in DOMAIN calls \ {i} /\ calls'[j] = calls[j]
            BY <2>2, Zenon DEF Recorded
        <3> QED
            BY <1>3, <2>1, <3>1, Zenon
    <2>3. CASE j = i
        <3>1. w \in c.granted /\ w \in c.passed
            BY <1>3, <2>3, Zenon DEF Recorded, Follows, Ready
        <3>2. MemberAt(calls'[i], w) = MemberAt(c, w)
            BY <3>1, MemberKept, Zenon
        <3>3. CASE i \in DOMAIN calls /\ w \in calls[i].granted
            <4>1. MemberAt(calls'[i], w) = MemberAt(calls[i], w)
                BY <3>1, <3>2, <3>3, MemberKept, Zenon
            <4>2. calls'[i].stamp = calls[i].stamp
                BY <3>3, RecordedParts, Zenon DEF SameCaller
            <4> QED
                BY <2>1, <2>3, <3>3, <4>1, <4>2, Zenon
        <3>4. CASE MemberAt(c, w) \in zset'
            BY <2>3, <3>2, <3>4, Zenon
        <3> QED
            BY <3>1, <3>3, <3>4, Zenon
    <2> QED
        BY <2>2, <2>3
<1> QED
    BY <1>2, <1>3, Zenon DEF SharedInStep, MembersBounded

-----------------------------------------------------------------------------
(* Refusals.                                                               *)

\* The others the window of call i had let through when it was refused.
Others(i) ==
    {j \in DOMAIN calls \ {i} :
        /\ At(calls[i]) \in calls[j].passed
        /\ Key(calls[j], At(calls[i])) = Key(calls[i], At(calls[i]))
        /\ calls[j].stamp > calls[i].stamp - Window}

Grounded(i) == calls[i].phase = "refused" => Cardinality(Others(i)) >= Budget[At(calls[i])]

LEMMA RefusedGrounded == RefusedOnlyOverBudget <=> \A i \in DOMAIN calls : Grounded(i)
BY Zenon DEF RefusedOnlyOverBudget, Grounded, Others

LEMMA OthersFinite ==
    ASSUME NEW i
    PROVE  /\ TypeOK => IsFiniteSet(Others(i)) /\ Cardinality(Others(i)) \in Nat
           /\ TypeOK' => IsFiniteSet(Others(i)') /\ Cardinality(Others(i)') \in Nat
<1>1. ASSUME NEW S, NEW n \in Nat, S \subseteq 1 .. n
      PROVE  IsFiniteSet(S) /\ Cardinality(S) \in Nat
    <2>1. IsFiniteSet(1 .. n)
        BY FS_Interval
    <2>2. IsFiniteSet(S)
        BY <1>1, <2>1, FS_Subset
    <2> QED
        BY <2>2, FS_CardinalityType
<1>2. Others(i) \subseteq DOMAIN calls /\ Others(i)' \subseteq DOMAIN calls'
    BY Zenon DEF Others
<1>3. TypeOK => DOMAIN calls = 1 .. Len(calls) /\ Len(calls) \in Nat
    BY TypeParts
<1>4. TypeOK' => DOMAIN calls' = 1 .. Len(calls') /\ Len(calls') \in Nat
    <2> SUFFICES ASSUME TypeOK'
                 PROVE  DOMAIN calls' = 1 .. Len(calls') /\ Len(calls') \in Nat
        OBVIOUS
    <2>1. calls' \in Seq(Calls')
        BY Zenon DEF TypeOK
    <2> HIDE DEF Calls
    <2> QED
        BY <2>1
<1> QED
    BY <1>1, <1>2, <1>3, <1>4

\* A refusal that had its reason keeps it: what was let through stays so.
LEMMA RefusalsStand ==
    ASSUME LimitsAssumption, TypeOK, TypeOK', RefusedOnlyOverBudget,
           NEW i, NEW c, Ready(i, c), Recorded(i, c), Grounded(i)'
    PROVE  RefusedOnlyOverBudget'
<1>1. ASSUME NEW x \in DOMAIN calls'
      PROVE  Grounded(x)'
    <2>1. CASE x = i
        BY <2>1, Zenon
    <2>2. CASE x # i
        <3>1. x \in DOMAIN calls \ {i} /\ calls'[x] = calls[x]
            BY <2>2, Zenon DEF Recorded
        <3>2. Grounded(x)
            BY <3>1, RefusedGrounded, Zenon
        <3>3. Others(x) \subseteq Others(x)'
            <4> SUFFICES ASSUME NEW j \in Others(x)
                         PROVE  j \in Others(x)'
                OBVIOUS
            <4>1. j \in DOMAIN calls /\ j # x
                BY Zenon DEF Others
            <4>2. SameCaller(calls[j], calls'[j]) /\ calls[j].passed \subseteq calls'[j].passed
                BY <4>1, RecordedParts, Zenon
            <4>3. \A w : Key(calls'[j], w) = Key(calls[j], w)
                BY <4>2, SameWindows
            <4>4. At(calls'[x]) = At(calls[x]) /\ j \in DOMAIN calls'
                BY <3>1, <4>1, Zenon DEF Recorded
            <4> QED
                BY <3>1, <4>1, <4>2, <4>3, <4>4, Zenon DEF Others, SameCaller
        <3>4. IsFiniteSet(Others(x)') /\ Cardinality(Others(x)') \in Nat
            BY OthersFinite
        <3>5. Cardinality(Others(x)) <= Cardinality(Others(x)') /\ Cardinality(Others(x)) \in Nat
            BY <3>3, <3>4, OthersFinite, FS_Subset
        <3>6. CASE calls'[x].phase = "refused"
            <4>1. Cardinality(Others(x)) >= Budget[At(calls[x])]
                BY <3>1, <3>2, <3>6, Zenon DEF Grounded
            <4>2. Budget[At(calls'[x])] \in Nat /\ At(calls'[x]) = At(calls[x])
                <5>1. calls[x] \in Calls /\ calls[x].depth \in DOMAIN WindowsOf(calls[x])
                    BY <3>1, TypeParts
                <5>2. At(calls[x]) \in Windows
                    BY <5>1, AtType
                <5> QED
                    BY <3>1, <5>2 DEF LimitsAssumption
            <4>3. Cardinality(Others(x)') >= Budget[At(calls'[x])]
                BY <3>4, <3>5, <4>1, <4>2
            <4> QED
                BY <4>3, Zenon DEF Grounded
        <3> QED
            BY <3>6, Zenon DEF Grounded
    <2> QED
        BY <2>1, <2>2
<1>2. \A x \in DOMAIN calls' : Grounded(x)'
    BY <1>1, Zenon
<1> QED
    BY <1>2, Zenon DEF RefusedOnlyOverBudget, Grounded, Others

\* Refused by its floor: the list is full of calls the floor let through.
LEMMA FloorRefusalGrounded ==
    ASSUME LimitsAssumption, TypeOK, TypeOK', FloorsInStep,
           NEW i, NEW c, AtNewFloor(i, c), TurnedAway(i, c)
    PROVE  Grounded(i)'
<1>1. Ready(i, c) /\ Recorded(i, c) /\ calls'[i] = Refusal(c)
    BY RefusalRecorded, Zenon DEF AtNewFloor, TurnedAway
<1>2. SameCaller(c, calls'[i]) /\ At(calls'[i]) = At(c)
    <2>1. SameCaller(c, calls'[i]) /\ c.depth = calls'[i].depth
        BY <1>1 DEF Recorded, Follows, Refusal, Ready, Calls
    <2> QED
        BY <2>1, SameWindows DEF At
<1>3. Slot(c) \in Slots /\ At(c) \in Windows
    BY AtType DEF AtNewFloor, Ready
<1>4. Recent(c) \subseteq Others(i)'
    <2> SUFFICES ASSUME NEW j \in Recent(c)
                 PROVE  j \in Others(i)'
        OBVIOUS
    <2>1. j \in hits[Slot(c)] /\ calls[j].stamp > c.stamp - Window
        BY DEF Recent
    <2>2. j \in DOMAIN calls /\ Pushed(calls[j], Slot(c))
        BY <1>3, <2>1, TypeParts DEF FloorsInStep
    <2>3. At(c) \in calls[j].passed /\ Key(calls[j], At(c)) = Key(c, At(c))
        BY <2>2 DEF Pushed, Slot
    <2>4. j # i
        <3>1. At(c) \notin c.passed /\ (i \in DOMAIN calls => c.passed = calls[i].passed)
            BY Zenon DEF AtNewFloor, Ready
        <3> QED
            BY <2>2, <2>3, <3>1, Zenon
    <2>5. j \in DOMAIN calls' /\ calls'[j] = calls[j]
        BY <1>1, <2>2, <2>4, Zenon DEF Recorded
    <2>6. Key(calls'[i], At(c)) = Key(c, At(c)) /\ calls'[i].stamp = c.stamp
        BY <1>2, SameWindows DEF SameCaller
    <2>7. At(calls'[i]) \in calls'[j].passed /\ Key(calls'[j], At(calls'[i])) = Key(calls'[i], At(calls'[i]))
        BY <1>2, <2>3, <2>5, <2>6, Zenon
    <2>8. calls'[j].stamp > calls'[i].stamp - Window
        BY <2>1, <2>5, <2>6, Zenon
    <2> QED
        BY <2>4, <2>5, <2>7, <2>8, Zenon DEF Others
<1>5. IsFiniteSet(Others(i)') /\ Cardinality(Others(i)') \in Nat
    BY OthersFinite
<1>6. /\ Cardinality(Recent(c)) <= Cardinality(Others(i)')
      /\ Cardinality(Recent(c)) \in Nat
    <2>1. IsFiniteSet(Recent(c)) /\ Cardinality(Recent(c)) <= Cardinality(Others(i)')
        BY <1>4, <1>5, FS_Subset
    <2> QED
        BY <2>1, FS_CardinalityType
<1>7. Cardinality(Recent(c)) >= Budget[At(c)] /\ Budget[At(c)] \in Nat
    BY <1>3 DEF TurnedAway, OverBudget, LimitsAssumption
<1>8. Cardinality(Others(i)') >= Budget[At(calls'[i])]
    BY <1>2, <1>5, <1>6, <1>7
<1> QED
    BY <1>8, Zenon DEF Grounded

\* Refused by Redis: every member counted was written by another call, and no
\* call wrote two of them.
LEMMA SharedRefusalGrounded ==
    ASSUME LimitsAssumption, TypeOK, TypeOK', CallsInOrder, SharedInStep,
           NEW i \in DOMAIN calls, InFlight(calls[i]), ~Admits(Member(calls[i])),
           Record(i, Refusal(calls[i]))
    PROVE  Grounded(i)'
<1> DEFINE b == calls[i]
           m == Member(b)
           w == At(b)
           U == {n \in zset \ Old(m) : Same(m, n)}
           T == {j \in Others(i)' : MemberAt(calls'[j], w) \in U}
           f == [j \in T |-> MemberAt(calls'[j], w)]
<1>1. Ready(i, b) /\ Recorded(i, b) /\ calls'[i] = Refusal(b) /\ b \in Calls
    BY WaitingIsReady, RefusalRecorded, TypeParts, Zenon
<1>2. SameCaller(b, calls'[i]) /\ At(calls'[i]) = w /\ w \in Windows
    <2>1. SameCaller(b, calls'[i]) /\ b.depth = calls'[i].depth
        BY <1>1 DEF Recorded, Follows, Refusal, Calls
    <2> QED
        BY <1>1, <2>1, SameWindows, AtType DEF At, Ready
<1>3. m.window = w /\ m.key = Key(b, w) /\ m.at = b.stamp
    BY DEF Member, MemberAt
<1>4. ASSUME NEW n \in U
      PROVE  \E j \in T : n = f[j]
    <2>1. n \in zset /\ n.window = w /\ n.key = Key(b, w)
        BY <1>3, Zenon DEF Same
    <2>2. n.at > b.stamp - Window
        <3>1. ~(n.at <= m.at - Window)
            BY Zenon DEF Old
        <3>2. n.at \in Nat /\ b.stamp \in Nat
            BY <1>1, <2>1, TypeParts DEF Members, Calls
        <3> QED
            BY <1>3, <3>1, <3>2 DEF LimitsAssumption
    <2>3. PICK j \in DOMAIN calls : Wrote(calls[j], n)
        BY <2>1, Zenon DEF SharedInStep
    <2>4. /\ w \in calls[j].passed /\ n = MemberAt(calls[j], w)
          /\ ~(InFlight(calls[j]) /\ At(calls[j]) = w)
        BY <2>1, <2>3, Zenon DEF Wrote
    <2>5. j # i
        BY <2>4, Zenon
    <2>6. j \in DOMAIN calls' /\ calls'[j] = calls[j]
        BY <1>1, <2>5, Zenon DEF Recorded
    <2>7. n.key = Key(calls[j], w) /\ n.at = calls[j].stamp
        BY <2>4 DEF MemberAt
    <2>8. Key(calls'[i], w) = Key(b, w) /\ calls'[i].stamp = b.stamp
        BY <1>2, SameWindows DEF SameCaller
    <2>9. calls'[j].stamp > calls'[i].stamp - Window
        BY <2>2, <2>6, <2>7, <2>8, Zenon
    <2>10. j \in Others(i)'
        BY <1>2, <2>1, <2>4, <2>5, <2>6, <2>7, <2>8, <2>9, Zenon DEF Others
    <2>11. n = MemberAt(calls'[j], w)
        BY <2>4, <2>6, Zenon
    <2> QED
        BY <2>10, <2>11, Zenon
<1> HIDE DEF b, m, w, U
<1>5. IsFiniteSet(Others(i)') /\ Cardinality(Others(i)') \in Nat
    BY OthersFinite
<1>6. IsFiniteSet(T) /\ Cardinality(T) <= Cardinality(Others(i)')
    <2>1. T \subseteq Others(i)'
        BY Zenon
    <2> QED
        BY <1>5, <2>1, FS_Subset
<1>7. f \in Surjection(T, U)
    <2>1. f \in [T -> U]
        BY Zenon
    <2> QED
        BY <1>4, <2>1, Zenon DEF Surjection
<1>8. IsFiniteSet(U) /\ Cardinality(U) <= Cardinality(T)
    BY <1>6, <1>7, FS_Surjection, Zenon
<1>9. Cardinality(T) \in Nat /\ Cardinality(U) \in Nat
    BY <1>6, <1>8, FS_CardinalityType
<1>10. Cardinality(U) >= Budget[w] /\ Budget[w] \in Nat
    BY <1>2, <1>3, Zenon DEF Admits, OverBudget, Used, LimitsAssumption, U, m, w, b
<1>11. Cardinality(Others(i)') >= Budget[At(calls'[i])]
    BY <1>2, <1>5, <1>6, <1>8, <1>9, <1>10
<1> QED
    BY <1>11, Zenon DEF Grounded

-----------------------------------------------------------------------------
(* The invariant, action by action.                                        *)

LEMMA MemberType ==
    ASSUME TypeOK, NEW i \in DOMAIN calls
    PROVE  Member(calls[i]) \in Members
<1>1. calls[i] \in Calls /\ At(calls[i]) \in Windows
    BY AtType, TypeParts
<1>2. Key(calls[i], At(calls[i])) \in Keys
    BY <1>1, KeyType
<1> QED
    BY <1>1, <1>2, CallFields DEF Member, MemberAt, Members

\* A step on call i keeps everything, if what it does to the Redis set does.
LEMMA CallStepKeeps ==
    ASSUME LimitsAssumption, IInv, NEW i, NEW c, Ready(i, c), Recorded(i, c), UNCHANGED time,
           \/ Moves(i, c)
           \/ /\ UNCHANGED <<hits, seq>> /\ calls'[i].passed = c.passed
              /\ TypeOK' => Grounded(i)',
           MembersBounded',
           \A m \in zset' \cup late' :
                m \in zset \cup late \/ (i \in DOMAIN calls /\ m = Member(calls[i])),
           \A n \in zset : n.at > time - Window => n \in zset',
           \A w \in c.granted :
                (i \in DOMAIN calls /\ w \in calls[i].granted) \/ MemberAt(c, w) \in zset'
    PROVE  IInv'
<1>1. TypeOK /\ CallsInOrder /\ FloorsInStep /\ SharedInStep /\ RefusedOnlyOverBudget
    BY Zenon DEF IInv
<1>2. \/ AtNewFloor(i, c) /\ MeetFloor(i, c)
      \/ hits' = hits /\ calls'[i].passed = c.passed
    BY <1>1, StopsRecorded, Zenon DEF Moves
<1>3. FloorsInStep' /\ hits' \in [Slots -> SUBSET DOMAIN calls']
    BY <1>1, <1>2, FloorsKept, Zenon
<1>4. seq' \in [Replicas \X Windows -> 0 .. SEQ_LIMIT - 1]
    <2>1. seq' = seq \/ (AtNewFloor(i, c) /\ LetThrough(i, c))
        BY Zenon DEF Moves, MeetFloor, TurnedAway, Stops
    <2>2. seq \in [Replicas \X Windows -> 0 .. SEQ_LIMIT - 1]
        BY <1>1, TypeParts, Zenon
    <2> QED
        BY <1>1, <2>1, <2>2, ThroughRecorded, Zenon
<1>5. CallsInOrder' /\ \A j \in DOMAIN calls' : calls'[j].depth \in DOMAIN WindowsOf(calls'[j])
    <2> SUFFICES ASSUME NEW j \in DOMAIN calls'
                 PROVE  InOrder(calls'[j]) /\ calls'[j].depth \in DOMAIN WindowsOf(calls'[j])
        BY Zenon DEF CallsInOrder
    <2>1. CASE j = i
        BY <2>1, Zenon DEF Recorded
    <2>2. CASE j # i
        <3>1. j \in DOMAIN calls /\ calls'[j] = calls[j]
            BY <2>2, Zenon DEF Recorded
        <3>2. calls[j].depth \in DOMAIN WindowsOf(calls[j])
            BY <1>1, <3>1, TypeParts, Zenon
        <3> QED
            BY <1>1, <3>1, <3>2, Zenon DEF CallsInOrder
    <2> QED
        BY <2>1, <2>2
<1>6. SharedInStep'
    BY <1>1, SharedKept, Zenon
<1>7. TypeOK'
    <2>1. zset' \cup late' \subseteq Members
        BY <1>1, MemberType, TypeParts, Zenon
    <2>2. Calls' = Calls /\ Members' = Members
        BY DEF Calls, Members
    <2>3. calls' \in Seq(Calls) /\ time \in 0 .. MaxTime
        BY <1>1, Zenon DEF Recorded, TypeOK
    <2> QED
        BY <1>3, <1>4, <1>5, <2>1, <2>2, <2>3, Zenon DEF TypeOK, Slots
<1>8. Grounded(i)'
    <2>1. CASE AtNewFloor(i, c) /\ TurnedAway(i, c)
        BY <1>1, <1>7, <2>1, FloorRefusalGrounded, Zenon
    <2>2. CASE AtNewFloor(i, c) /\ LetThrough(i, c)
        BY <1>1, <2>2, ThroughRecorded, Zenon DEF Grounded
    <2>3. CASE Ready(i, c) /\ Stops(i, c) /\ c.phase # "refused"
        BY <1>1, <2>3, StopsRecorded, Zenon DEF Grounded
    <2> QED
        BY <1>7, <2>1, <2>2, <2>3, Zenon DEF Moves, MeetFloor
<1>9. RefusedOnlyOverBudget'
    BY <1>1, <1>7, <1>8, RefusalsStand, Zenon
<1> QED
    BY <1>3, <1>5, <1>6, <1>7, <1>9, Zenon DEF IInv

LEMMA ArriveKeeps ==
    ASSUME LimitsAssumption, IInv, NEW o \in Offered, NEW r \in Replicas, Arrive(o, r)
    PROVE  IInv'
<1>1. PICK i, c : i = Len(calls) + 1 /\ c.granted = {} /\ Moves(i, c)
    BY ArriveMoves, Zenon DEF IInv
<1>2. Ready(i, c) /\ Recorded(i, c)
    BY <1>1, MovesRecorded, Zenon DEF IInv
<1>3. time' = time /\ zset' = zset /\ late' = late
    BY Zenon DEF Arrive
<1>4. MembersBounded'
    BY <1>3, Zenon DEF IInv, SharedInStep, MembersBounded, SetOf
<1> QED
    BY <1>1, <1>2, <1>3, <1>4, CallStepKeeps, Zenon

LEMMA TimesOutKeeps ==
    ASSUME LimitsAssumption, IInv, NEW i \in DOMAIN calls, TimesOut(i)
    PROVE  IInv'
<1>1. InFlight(calls[i]) /\ Proceed(i, calls[i]) /\ time' = time /\ zset' = zset
    BY Zenon DEF TimesOut
<1>2. \A m \in late' : m \in late \/ m = Member(calls[i])
    BY Zenon DEF TimesOut
<1>3. Ready(i, calls[i])
    BY <1>1, WaitingIsReady, Zenon DEF IInv
<1>4. PICK c : c.granted = calls[i].granted /\ SameCaller(calls[i], c) /\ Moves(i, c)
    BY <1>1, <1>3, ProceedMoves, Zenon DEF IInv
<1>5. Ready(i, c) /\ Recorded(i, c)
    BY <1>4, MovesRecorded, Zenon DEF IInv
<1>6. MembersBounded'
    BY <1>1, Zenon DEF IInv, SharedInStep, MembersBounded, SetOf
<1> QED
    BY <1>1, <1>2, <1>4, <1>5, <1>6, CallStepKeeps, Zenon

LEMMA VerdictKeeps ==
    ASSUME LimitsAssumption, IInv, NEW i \in DOMAIN calls, Verdict(i)
    PROVE  IInv'
<1> DEFINE b == calls[i]
           m == Member(b)
           g == [b EXCEPT !.granted = b.granted \cup {At(b)}]
<1>1. InFlight(b) /\ zset' = Script(m) /\ time' = time /\ late' = late
    BY Zenon DEF Verdict
<1>2. /\ Ready(i, b) /\ At(b) \in b.passed
      /\ Ready(i, g) /\ SameCaller(b, g) /\ g.granted = b.granted \cup {At(b)}
    BY <1>1, WaitingIsReady, Zenon DEF IInv
<1>3. m \in Members /\ m.at = b.stamp /\ b.stamp <= time /\ b.stamp \in Nat /\ time \in Nat
    <2>1. m \in Members
        BY MemberType, Zenon DEF IInv
    <2>2. b \in Calls /\ time \in Nat
        BY TypeParts DEF IInv
    <2>3. m.at = b.stamp
        BY DEF Member, MemberAt
    <2> QED
        BY <2>1, <2>2, <2>3, CallFields
<1>4. /\ MembersBounded' /\ zset' \subseteq zset \cup {m}
      /\ Admits(m) => m \in zset'
      /\ \A n \in zset : n.at > m.at - Window => n \in zset'
    BY <1>1, <1>3, ScriptKept, Zenon DEF IInv, SharedInStep, MembersBounded
<1>5. \A n \in zset : n.at > time - Window => n \in zset'
    <2>1. \A n \in zset : n.at \in Nat
        BY TypeParts DEF IInv, Members
    <2> QED
        BY <1>3, <1>4, <2>1 DEF LimitsAssumption
<1>6. \A x \in zset' \cup late' : x \in zset \cup late \/ x = Member(calls[i])
    BY <1>1, <1>4, Zenon
<1>7. CASE Admits(m)
    <2>1. Proceed(i, g)
        BY <1>7, Zenon DEF Verdict
    <2> HIDE DEF b, g
    <2>2. PICK c : c.granted = g.granted /\ SameCaller(g, c) /\ Moves(i, c)
        BY <1>2, <2>1, ProceedMoves, Zenon DEF IInv
    <2>3. Ready(i, c) /\ Recorded(i, c)
        BY <2>2, MovesRecorded, Zenon DEF IInv
    <2>4. ASSUME NEW w \in c.granted
          PROVE  w \in calls[i].granted \/ MemberAt(c, w) \in zset'
        <3>1. w \in b.granted \/ w = At(b)
            BY <1>2, <2>2, Zenon
        <3>2. At(b) \in c.passed
            BY <1>2, <2>3, Zenon DEF Ready, b
        <3>3. MemberAt(c, At(b)) = m
            BY <2>3, <3>2, MemberKept, Zenon DEF IInv, Member, b
        <3> QED
            BY <1>4, <1>7, <3>1, <3>3, Zenon DEF b
    <2> QED
        BY <1>1, <1>4, <1>5, <1>6, <2>2, <2>3, <2>4, CallStepKeeps, Zenon
<1>8. CASE ~Admits(m)
    <2>1. Record(i, Refusal(b)) /\ UNCHANGED <<hits, seq>>
        BY <1>8, Zenon DEF Verdict
    <2>2. Recorded(i, b) /\ calls'[i] = Refusal(b)
        BY <1>2, <2>1, RefusalRecorded, Zenon DEF IInv
    <2>3. Refusal(b).passed = b.passed
        BY <1>2 DEF Refusal, Ready, Calls
    <2>4. TypeOK' => Grounded(i)'
        BY <1>1, <1>8, <2>1, SharedRefusalGrounded, Zenon DEF IInv
    <2> QED
        BY <1>1, <1>2, <1>4, <1>5, <1>6, <2>1, <2>2, <2>3, <2>4, CallStepKeeps, Zenon
<1> QED
    BY <1>7, <1>8

LEMMA LateRunKeeps ==
    ASSUME LimitsAssumption, IInv, NEW m \in late, LateRun(m)
    PROVE  IInv'
<1>1. /\ zset' = Script(m) /\ late' \subseteq late
      /\ time' = time /\ calls' = calls /\ hits' = hits /\ seq' = seq
    BY Zenon DEF LateRun
<1>2. /\ TypeOK /\ CallsInOrder /\ FloorsInStep /\ SharedInStep /\ RefusedOnlyOverBudget
      /\ MembersBounded
    BY Zenon DEF IInv, SharedInStep, MembersBounded
<1>3. m \in Members
    BY <1>2, TypeParts, Zenon
<1>4. /\ MembersBounded' /\ zset' \subseteq zset \cup {m}
      /\ \A n \in zset : n.at > m.at - Window => n \in zset'
    BY <1>1, <1>2, <1>3, ScriptKept, Zenon
<1>5. \A n \in zset : n.at > time - Window => n \in zset'
    <2>1. m.at \in Nat /\ m.at <= time /\ time \in Nat /\ \A n \in zset : n.at \in Nat
        BY <1>2, <1>3, TypeParts DEF Members
    <2> QED
        BY <1>4, <2>1 DEF LimitsAssumption
<1>6. zset' \cup late' \subseteq zset \cup late
    BY <1>1, <1>4, Zenon
<1>7. TypeOK'
    <2>1. Calls' = Calls /\ Members' = Members
        BY <1>1 DEF Calls, Members
    <2>2. zset' \cup late' \subseteq Members
        BY <1>2, <1>6, Zenon DEF TypeOK
    <2> QED
        BY <1>1, <1>2, <2>1, <2>2, Zenon DEF TypeOK
<1>8. CallsInOrder' /\ FloorsInStep' /\ RefusedOnlyOverBudget'
    BY <1>1, <1>2, Zenon DEF CallsInOrder, FloorsInStep, RefusedOnlyOverBudget
<1>9. SharedInStep'
    <2>1. \A n \in zset' \cup late' : \E j \in DOMAIN calls' : Wrote(calls'[j], n)
        BY <1>1, <1>2, <1>6, Zenon DEF SharedInStep
    <2>2. ASSUME NEW i \in DOMAIN calls', NEW w \in calls'[i].granted,
                 calls'[i].stamp > time' - Window
          PROVE  MemberAt(calls'[i], w) \in zset'
        <3>1. MemberAt(calls[i], w) \in zset /\ calls[i].stamp > time - Window
            BY <1>1, <1>2, <2>2, Zenon DEF SharedInStep
        <3>2. MemberAt(calls[i], w).at = calls[i].stamp
            BY DEF MemberAt
        <3> QED
            BY <1>1, <1>5, <3>1, <3>2, Zenon
    <2> QED
        BY <1>4, <2>1, <2>2, Zenon DEF SharedInStep, MembersBounded
<1> QED
    BY <1>7, <1>8, <1>9, Zenon DEF IInv

\* A window that has moved on asks for less.
LEMMA TickKeeps ==
    ASSUME LimitsAssumption, IInv, Tick
    PROVE  IInv'
<1>1. /\ time < MaxTime /\ time' = time + 1 /\ calls' = calls /\ hits' = hits
      /\ zset' = zset /\ seq' = seq /\ late' = late
    BY Zenon DEF Tick
<1>2. TypeOK /\ CallsInOrder /\ FloorsInStep /\ SharedInStep /\ RefusedOnlyOverBudget
    BY Zenon DEF IInv
<1>3. time \in Nat /\ time' \in Nat /\ time <= time' /\ time' \in 0 .. MaxTime
    BY <1>1, <1>2, TypeParts DEF LimitsAssumption
<1>4. Calls \subseteq Calls' /\ Members \subseteq Members'
    <2>1. 0 .. time \subseteq 0 .. time'
        BY <1>3
    <2>2. Calls \subseteq Calls'
        <3> SUFFICES ASSUME NEW c \in Calls
                     PROVE  c \in Calls'
            OBVIOUS
        <3> QED
            BY <2>1 DEF Calls
    <2>3. Members \subseteq Members'
        <3> SUFFICES ASSUME NEW m \in Members
                     PROVE  m \in Members'
            OBVIOUS
        <3> QED
            BY <2>1 DEF Members
    <2> QED
        BY <2>2, <2>3
<1>5. TypeOK'
    <2>1. calls \in Seq(Calls')
        <3>1. calls \in Seq(Calls)
            BY <1>2, Zenon DEF TypeOK
        <3> HIDE DEF Calls
        <3>2. \A C, D : C \subseteq D /\ calls \in Seq(C) => calls \in Seq(D)
            OBVIOUS
        <3> QED
            BY <1>4, <3>1, <3>2, Zenon
    <2>2. zset \cup late \subseteq Members'
        BY <1>2, <1>4, Zenon DEF TypeOK
    <2> QED
        BY <1>1, <1>2, <1>3, <2>1, <2>2, Zenon DEF TypeOK
<1>6. CallsInOrder' /\ RefusedOnlyOverBudget'
    BY <1>1, <1>2, Zenon DEF CallsInOrder, RefusedOnlyOverBudget
<1>7. \A j \in DOMAIN calls : calls[j].stamp > time' - Window => calls[j].stamp > time - Window
    <2>1. \A j \in DOMAIN calls : calls[j].stamp \in Nat
        BY <1>2, TypeParts, CallFields
    <2> QED
        BY <1>3, <2>1 DEF LimitsAssumption
<1>8. FloorsInStep'
    BY <1>1, <1>2, <1>7, Zenon DEF FloorsInStep
<1>9. SharedInStep'
    <2>1. \A w, k : SetOf(w, k)' = SetOf(w, k)
        BY <1>1, Zenon DEF SetOf
    <2> QED
        BY <1>1, <1>2, <1>7, <2>1, Zenon DEF SharedInStep
<1> QED
    BY <1>5, <1>6, <1>8, <1>9, Zenon DEF IInv

LEMMA InitInv ==
    ASSUME LimitsAssumption, Init
    PROVE  IInv
<1>1. /\ time = 0 /\ calls = <<>> /\ hits = [slot \in Slots |-> {}]
      /\ seq = [counter \in Replicas \X Windows |-> 0] /\ zset = {} /\ late = {}
    BY Zenon DEF Init, Slots
<1>2. DOMAIN calls = {}
    BY <1>1
<1>3. TypeOK
    <2>1. calls \in Seq(Calls)
        BY <1>1
    <2>2. seq \in [Replicas \X Windows -> 0 .. SEQ_LIMIT - 1] /\ time \in 0 .. MaxTime
        BY <1>1 DEF LimitsAssumption
    <2>3. hits \in [Slots -> SUBSET DOMAIN calls]
        BY <1>1
    <2> QED
        BY <1>1, <1>2, <2>1, <2>2, <2>3, Zenon DEF TypeOK, Slots
<1>4. CallsInOrder /\ RefusedOnlyOverBudget
    BY <1>2, Zenon DEF CallsInOrder, RefusedOnlyOverBudget
<1>5. IsFiniteSet({}) /\ Cardinality({}) = 0
    BY FS_EmptySet
<1>6. \A w \in Windows : 0 <= Budget[w]
    BY DEF LimitsAssumption
<1>7. FloorsInStep
    <2>1. ASSUME NEW slot \in Slots
          PROVE  hits[slot] = {} /\ slot[2] \in Windows
        BY <1>1 DEF Slots
    <2> QED
        BY <1>2, <1>5, <1>6, <2>1, Zenon DEF FloorsInStep
<1>8. SharedInStep
    <2>1. \A w, k : SetOf(w, k) = {}
        BY <1>1, Zenon DEF SetOf
    <2> QED
        BY <1>1, <1>2, <1>5, <1>6, <2>1, Zenon DEF SharedInStep
<1> QED
    BY <1>3, <1>4, <1>7, <1>8, Zenon DEF IInv

LEMMA StepInv ==
    ASSUME LimitsAssumption, IInv, [Next]_vars
    PROVE  IInv'
<1>1. CASE UNCHANGED vars
    <2>1. /\ time' = time /\ calls' = calls /\ hits' = hits
          /\ zset' = zset /\ seq' = seq /\ late' = late
        BY <1>1, Zenon DEF vars
    <2>2. Calls' = Calls /\ Members' = Members
        BY <2>1 DEF Calls, Members
    <2>3. TypeOK'
        BY <2>1, <2>2, Zenon DEF IInv, TypeOK
    <2>4. \A w, k : SetOf(w, k)' = SetOf(w, k)
        BY <2>1, Zenon DEF SetOf
    <2>5. CallsInOrder' /\ FloorsInStep' /\ SharedInStep' /\ RefusedOnlyOverBudget'
        BY <2>1, <2>4, Zenon
           DEF IInv, CallsInOrder, FloorsInStep, SharedInStep, RefusedOnlyOverBudget
    <2> QED
        BY <2>3, <2>5, Zenon DEF IInv
<1>2. CASE Tick
    BY <1>2, TickKeeps
<1>3. CASE \E o \in Offered, r \in Replicas : Arrive(o, r)
    BY <1>3, ArriveKeeps, Zenon
<1>4. CASE \E i \in DOMAIN calls : Verdict(i) \/ TimesOut(i)
    BY <1>4, VerdictKeeps, TimesOutKeeps, Zenon
<1>5. CASE \E m \in late : LateRun(m)
    BY <1>5, LateRunKeeps, Zenon
<1> QED
    BY <1>1, <1>2, <1>3, <1>4, <1>5, Zenon DEF Next

-----------------------------------------------------------------------------
(* What the invariant is for.                                              *)

LEMMA CapFollows ==
    ASSUME LimitsAssumption, IInv
    PROVE  CapHolds
<1>1. TypeOK /\ FloorsInStep /\ SharedInStep
    BY Zenon DEF IInv
<1> SUFFICES ASSUME NEW w \in Windows, NEW k \in Keys
             PROVE  /\ \A r \in Replicas : Cardinality(ThroughFloor(r, w, k)) <= Budget[w]
                    /\ Cardinality(MembersThrough(w, k)) <= Budget[w]
    BY Zenon DEF CapHolds
<1>2. Budget[w] \in Nat
    BY DEF LimitsAssumption
<1>3. ASSUME NEW S, NEW T, S \subseteq T, IsFiniteSet(T), Cardinality(T) <= Budget[w]
      PROVE  Cardinality(S) <= Budget[w]
    <2>1. IsFiniteSet(S) /\ Cardinality(S) <= Cardinality(T)
        BY <1>3, FS_Subset
    <2>2. Cardinality(S) \in Nat /\ Cardinality(T) \in Nat
        BY <1>3, <2>1, FS_CardinalityType
    <2> QED
        BY <1>2, <1>3, <2>1, <2>2
<1>4. ASSUME NEW r \in Replicas
      PROVE  Cardinality(ThroughFloor(r, w, k)) <= Budget[w]
    <2> DEFINE slot == <<r, w, k>>
    <2>1. slot \in Slots /\ slot[1] = r /\ slot[2] = w /\ slot[3] = k
        BY DEF Slots
    <2>2. ThroughFloor(r, w, k) \subseteq hits[slot]
        BY <1>1, <2>1 DEF ThroughFloor, FloorsInStep, Pushed
    <2> HIDE DEF slot
    <2>3. IsFiniteSet(hits[slot]) /\ Cardinality(hits[slot]) <= Budget[w]
        BY <1>1, <2>1, Zenon DEF FloorsInStep
    <2> QED
        BY <1>3, <2>2, <2>3
<1>5. Cardinality(MembersThrough(w, k)) <= Budget[w]
    <2>1. MembersThrough(w, k) \subseteq SetOf(w, k)
        <3> SUFFICES ASSUME NEW i \in ThroughShared(w, k)
                     PROVE  MemberAt(calls[i], w) \in SetOf(w, k)
            BY Zenon DEF MembersThrough
        <3>1. /\ i \in DOMAIN calls /\ w \in calls[i].granted /\ Key(calls[i], w) = k
              /\ calls[i].stamp > time - Window
            BY Zenon DEF ThroughShared
        <3>2. MemberAt(calls[i], w) \in zset
            BY <1>1, <3>1, Zenon DEF SharedInStep
        <3>3. MemberAt(calls[i], w).window = w /\ MemberAt(calls[i], w).key = k
            BY <3>1 DEF MemberAt
        <3> QED
            BY <3>2, <3>3, Zenon DEF SetOf
    <2>2. IsFiniteSet(SetOf(w, k))
        BY <1>1, FS_Subset DEF SetOf, SharedInStep
    <2> QED
        BY <1>1, <1>3, <2>1, <2>2 DEF SharedInStep
<1> QED
    BY <1>4, <1>5

THEOREM Invariance == Spec => []IInv
<1>1. Init => IInv
    BY InitInv, LimitsAssumption
<1>2. IInv /\ [Next]_vars => IInv'
    BY StepInv, LimitsAssumption
<1> QED
    BY <1>1, <1>2, PTL DEF Spec

\* Every reachable state is well typed: a list holds calls that came, a
\* sequence number stays under its limit, and members are of the past.
THEOREM TypeCorrect == Spec => []TypeOK
<1>1. IInv => TypeOK
    BY Zenon DEF IInv
<1> QED
    BY <1>1, Invariance, PTL

\* Never more than the budget in a window, in each process whatever Redis does,
\* and over all replicas among the members Redis granted (rate-limit.ts:7-17).
THEOREM CapIsKept == Spec => []CapHolds
<1>1. IInv => CapHolds
    BY CapFollows, LimitsAssumption
<1> QED
    BY <1>1, Invariance, PTL

\* Nobody is refused unless their own window was full of calls that were let
\* through, however late Redis ran a script it had been given up on.
THEOREM RefusalsAreEarned == Spec => []RefusedOnlyOverBudget
<1>1. IInv => RefusedOnlyOverBudget
    BY Zenon DEF IInv
<1> QED
    BY <1>1, Invariance, PTL
=============================================================================
