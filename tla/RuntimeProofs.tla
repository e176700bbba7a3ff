---------------------------- MODULE RuntimeProofs ----------------------------
(***************************************************************************)
(* The sweep, the limiter and the search, for every watchlist, capacity,   *)
(* number of callers and of workers.  Sums over members and over ticks are *)
(* recursive functions: each is shown to exist by induction first.         *)
(***************************************************************************)
EXTENDS Runtime, FiniteSetTheorems, WellFoundedInduction, TLAPS

\* Induction over the numbers, for a set of them.
LEMMA SetOfNumbers ==
    ASSUME NEW S, 0 \in S, \A n \in Nat : n \in S => n + 1 \in S
    PROVE  \A n \in Nat : n \in S
  <1> DEFINE T == Nat \ S
  <1> SUFFICES ASSUME T # {} PROVE FALSE
    OBVIOUS
  <1>1. \E x \in T : \A y \in T : ~ (<<y, x>> \in OpToRel(<, Nat))
    BY NatLessThanWellFounded, WFMin, Zenon
  <1>2. PICK x \in T : \A y \in T : ~(y < x)
    BY <1>1, Zenon DEF OpToRel
  <1>3. x # 0 /\ x \in Nat
    OBVIOUS
  <1>4. x - 1 \in Nat /\ x - 1 < x
    BY <1>3
  <1>5. x - 1 \in S
    BY <1>2, <1>4
  <1> QED BY <1>3, <1>4, <1>5

-----------------------------------------------------------------------------
(* The overrun of a bounded run.                                           *)

\* While iterations are left, those begun are the ones counted off and the
\* ones that run; once none is left nothing begins, and the bound stays.
Counts ==
    /\ limit \in Nat /\ remaining \in 0..limit /\ worked \in Nat
    /\ DOMAIN at = Entries
    /\ pc # "sweep" => Running = {}
    /\ remaining > 0 => worked + remaining <= limit + Cardinality(Running)
    /\ worked < limit + Width

\* Whoever is sent on to a point at which it runs, or leaves them.
LEMMA RunningFinite == IsFiniteSet(Running) /\ Cardinality(Running) \in Nat
  BY EntriesAssumption, FS_Subset, FS_CardinalityType DEF Running

LEMMA Entering ==
    ASSUME DOMAIN at = Entries, NEW e \in Entries, at[e] = "todo",
           at' = [at EXCEPT ![e] = "work"]
    PROVE  Cardinality(Running') = Cardinality(Running) + 1
  <1>1. Running' = Running \cup {e} /\ e \notin Running
    BY DEF Running
  <1> QED BY <1>1, RunningFinite, FS_AddElement

LEMMA Staying ==
    ASSUME DOMAIN at = Entries, NEW e \in Entries,
           NEW to \in {"work", "save", "count"},
           at[e] \in {"work", "save", "count"}, at' = [at EXCEPT ![e] = to]
    PROVE  Running' = Running
  BY DEF Running

LEMMA Leaving ==
    ASSUME DOMAIN at = Entries, NEW e \in Entries, at[e] = "count",
           at' = [at EXCEPT ![e] = "done"]
    PROVE  Cardinality(Running') = Cardinality(Running) - 1
  <1>1. Running' = Running \ {e} /\ e \in Running
    BY DEF Running
  <1> QED BY <1>1, RunningFinite, FS_RemoveElement

LEMMA Passing ==
    ASSUME DOMAIN at = Entries, NEW e \in Entries, at[e] = "todo",
           at' = [at EXCEPT ![e] = "done"]
    PROVE  Running' = Running
  BY DEF Running

LEMMA Resting ==
    ASSUME at' = Todo
    PROVE  DOMAIN at' = Entries /\ Running' = {} /\ Cardinality(Running') = 0
  <1>1. Running' = {} /\ DOMAIN at' = Entries
    BY DEF Running, Todo
  <1> QED BY <1>1, FS_EmptySet

LEMMA Aborting ==
    ASSUME Counts, Abort, UNCHANGED limit
    PROVE  Counts'
  BY Resting, WidthAssumption DEF Counts, Abort

LEMMA Starting == Init => Counts
  <1> SUFFICES ASSUME Init PROVE Counts
    OBVIOUS
  <1>1. Running = {} /\ DOMAIN at = Entries
    BY DEF Init, Running, Todo
  <1> QED BY <1>1, FS_EmptySet, WidthAssumption, BoundsAssumption DEF Init, Counts

-----------------------------------------------------------------------------
LEMMA BeginKeeps ==
    ASSUME Counts, NEW e \in Entries, Begin(e)
    PROVE  Counts'
  <1>1. /\ UNCHANGED <<limit, remaining>> /\ DOMAIN at' = Entries
        /\ at[e] = "todo" /\ pc' = "sweep"
    BY DEF Begin, Turn, BeginWork, options, Counts
  <1>2. CASE at' = [at EXCEPT ![e] = "done"] /\ UNCHANGED worked
    <2>1. Cardinality(Running') = Cardinality(Running)
      BY <1>1, <1>2, Passing DEF Counts
    <2> QED BY <1>1, <1>2, <2>1 DEF Counts
  <1>3. CASE ~(Bounded /\ remaining = 0) /\ BeginWork(e)
    <2>1. Cardinality(Running') = Cardinality(Running) + 1
      BY <1>1, <1>3, Entering DEF Counts, BeginWork
    <2>2. Cardinality(Running) \in Nat /\ Cardinality(Running) < Width
      BY RunningFinite DEF Begin, Turn
    <2>3. CASE limit = 0
      <3>1. UNCHANGED worked
        BY <1>3, <2>3 DEF BeginWork, Bounded
      <3> QED BY <1>1, <2>1, <2>2, <2>3, <3>1 DEF Counts
    <2>4. CASE limit # 0
      <3>1. remaining > 0 /\ worked + remaining <= limit + Cardinality(Running)
        BY <1>3, <2>4 DEF Bounded, Counts
      <3>2. worked' \in Nat /\ worked' <= worked + 1
        BY <1>3 DEF BeginWork, Counts
      <3> QED BY <1>1, <2>1, <2>2, <3>1, <3>2, WidthAssumption DEF Counts
    <2> QED BY <2>3, <2>4
  <1> QED BY <1>2, <1>3 DEF Begin

LEMMA WorkKeeps ==
    ASSUME Counts, NEW e \in Entries,
           GridIteration(e) \/ LadderIteration(e) \/ SaveMember(e)
    PROVE  Counts'
  <1>1. CASE Abort
    BY <1>1, Aborting DEF GridIteration, LadderIteration, SaveMember, options
  <1>2. CASE ~Abort
    <2>1. /\ UNCHANGED <<limit, remaining, worked>>
          /\ \E to \in {"save", "count"} : at' = [at EXCEPT ![e] = to]
          /\ at[e] \in {"work", "save", "count"} /\ pc' = "sweep"
      BY <1>2 DEF GridIteration, LadderIteration, SaveMember, options
    <2>2. Running' = Running /\ DOMAIN at' = Entries
      BY <2>1, Staying DEF Counts
    <2> QED BY <2>1, <2>2 DEF Counts
  <1> QED BY <1>1, <1>2

LEMMA CountKeeps ==
    ASSUME Counts, NEW e \in Entries, Count(e)
    PROVE  Counts'
  <1>1. /\ UNCHANGED <<limit, worked>> /\ DOMAIN at' = Entries
        /\ at[e] = "count" /\ at' = [at EXCEPT ![e] = "done"] /\ pc' = "sweep"
    BY DEF Count, options, Counts
  <1>2. Cardinality(Running') = Cardinality(Running) - 1
    BY <1>1, Leaving DEF Counts
  <1>3. Cardinality(Running) \in Nat
    BY RunningFinite
  <1>4. CASE limit = 0
    BY <1>1, <1>2, <1>3, <1>4 DEF Count, Counts, Bounded
  <1>5. CASE limit # 0
    <2>1. remaining' = IF remaining > 0 THEN remaining - 1 ELSE remaining
      BY <1>5 DEF Count, Bounded
    <2> QED BY <1>1, <1>2, <1>3, <2>1 DEF Counts
  <1> QED BY <1>4, <1>5

LEMMA LoopKeeps ==
    ASSUME Counts, Start \/ Refresh \/ Summarize \/ Sleep \/ Crash \/ UNCHANGED vars
    PROVE  Counts'
  <1>1. CASE Abort /\ UNCHANGED limit
    BY <1>1, Aborting
  <1>2. CASE Refresh
    <2>1. UNCHANGED <<limit, remaining, worked>>
      BY <1>2 DEF Refresh, options
    <2>2. DOMAIN at' = Entries /\ Running' = {}
      BY <1>2, Resting DEF Refresh
    <2>3. Running = {}
      BY <1>2 DEF Counts, Refresh
    <2> QED BY <2>1, <2>2, <2>3 DEF Counts
  <1>3. CASE /\ UNCHANGED <<limit, at, remaining, worked>>
             /\ pc' # "sweep" => pc # "sweep" \/ Running = {}
    <2>1. Running' = Running
      BY <1>3 DEF Running
    <2> QED BY <1>3, <2>1 DEF Counts
  <1>4. CASE Summarize
    <2>1. Running = {}
      BY <1>4 DEF Summarize, Running
    <2> QED BY <1>1, <1>3, <1>4, <2>1 DEF Summarize, options
  <1> QED
    BY <1>1, <1>2, <1>3, <1>4 DEF Start, Sleep, Crash, options, vars

\* A bounded run begins at most as many iterations as it was given and the
\* ones its siblings had begun when the last was counted off (OverrunBounded).
THEOREM Overrun == Spec => []OverrunBounded
  <1>1. Counts /\ [Next]_vars => Counts'
    BY BeginKeeps, WorkKeeps, CountKeeps, LoopKeeps DEF Next, Loop, Entry
  <1>2. Counts => OverrunBounded
    BY DEF Counts, OverrunBounded
  <1> QED BY Starting, <1>1, <1>2, PTL DEF Spec

-----------------------------------------------------------------------------
(* Sums over the members.                                                  *)

\* What Total adds up, one member after the other.
Value(f, m) == IF f[m] = Unknown THEN 0 ELSE f[m]
Pick(s) == CHOOSE x \in s : TRUE
Sum(f, S, g) == [s \in S |-> IF s = {} THEN 0 ELSE Value(f, Pick(s)) + g[s \ {Pick(s)}]]
Sums(f) == CHOOSE g : g = Sum(f, SUBSET Members, g)
Small(n) == {s \in SUBSET Members : Cardinality(s) <= n}

LEMMA TotalIsASum ==
    ASSUME NEW f
    PROVE  Total(f) = Sums(f)[Members]
  BY DEF Total, MapThenSumSet, MapThenFoldSet, Sums, Sum, Value, Pick

LEMMA MembersFinite ==
    /\ IsFiniteSet(Members) /\ Cardinality(Members) \in Nat
    /\ \A s \in SUBSET Members : IsFiniteSet(s) /\ Cardinality(s) \in Nat
  <1>1. IsFiniteSet(Members)
    BY EntriesAssumption, FS_Subset DEF Members
  <1>2. \A s \in SUBSET Members : IsFiniteSet(s)
    BY <1>1, FS_Subset
  <1> QED BY <1>1, <1>2, FS_CardinalityType

LEMMA Picking ==
    ASSUME NEW s \in SUBSET Members, s # {}
    PROVE  /\ Pick(s) \in s /\ s \ {Pick(s)} \in SUBSET Members
           /\ Cardinality(s \ {Pick(s)}) = Cardinality(s) - 1
  <1>1. Pick(s) \in s
    BY DEF Pick
  <1> QED BY <1>1, MembersFinite, FS_RemoveElement

\* The function that Total takes the sum from exists.
LEMMA SumsExist ==
    ASSUME NEW f
    PROVE  Sums(f) = Sum(f, SUBSET Members, Sums(f))
  <1> DEFINE Defined == {n \in Nat : \E g : g = Sum(f, Small(n), g)}
  <1>1. 0 \in Defined
    <2> DEFINE g == [s \in Small(0) |-> 0]
    <2>1. \A s \in Small(0) : s = {}
      BY MembersFinite, FS_EmptySet DEF Small
    <2>2. g = Sum(f, Small(0), g)
      BY <2>1 DEF Sum
    <2> QED BY <2>2
  <1>2. ASSUME NEW n \in Nat, n \in Defined PROVE n + 1 \in Defined
    <2>1. PICK g : g = Sum(f, Small(n), g)
      BY <1>2
    <2> DEFINE h == Sum(f, Small(n + 1), g)
    <2>2. ASSUME NEW s \in Small(n + 1), s # {}
          PROVE  h[s] = Value(f, Pick(s)) + h[s \ {Pick(s)}]
      <3> DEFINE t == s \ {Pick(s)}
      <3>1. t \in Small(n) /\ t \in Small(n + 1)
        BY <2>2, Picking, MembersFinite DEF Small
      <3>2. h[t] = IF t = {} THEN 0 ELSE Value(f, Pick(t)) + g[t \ {Pick(t)}]
        BY <3>1 DEF Sum
      <3>3. g[t] = IF t = {} THEN 0 ELSE Value(f, Pick(t)) + g[t \ {Pick(t)}]
        BY <2>1, <3>1 DEF Sum
      <3>4. h[s] = Value(f, Pick(s)) + g[t]
        BY <2>2 DEF Sum
      <3> QED BY <3>2, <3>3, <3>4
    <2>3. h = Sum(f, Small(n + 1), h)
      <3> HIDE DEF h
      <3>1. h = [s \in Small(n + 1) |-> h[s]] /\ ({} \in Small(n + 1) => h[{}] = 0)
        BY DEF h, Sum
      <3> QED BY <2>2, <3>1 DEF Sum
    <2> QED BY <2>3
  <1>3. Cardinality(Members) \in Defined
    <2> HIDE DEF Defined
    <2> QED BY <1>1, <1>2, SetOfNumbers, MembersFinite
  <1>4. Small(Cardinality(Members)) = SUBSET Members
    BY MembersFinite, FS_Subset DEF Small
  <1>5. \E g : g = Sum(f, SUBSET Members, g)
    BY <1>3, <1>4
  <1> QED BY <1>5 DEF Sums

LEMMA SumsStep ==
    ASSUME NEW f, NEW s \in SUBSET Members
    PROVE  /\ s = {} => Sums(f)[s] = 0
           /\ s # {} => Sums(f)[s] = Value(f, Pick(s)) + Sums(f)[s \ {Pick(s)}]
  BY SumsExist DEF Sum

\* Capitals add up to a capital, and shares that all count to one that does.
LEMMA TotalBounds ==
    ASSUME NEW f
    PROVE  /\ f \in [Members -> Nat \cup {Unknown}] => Total(f) \in Nat
           /\ f \in [Members -> Nat \ {0}] /\ Members # {} => Total(f) \in Nat \ {0}
  <1>1. ASSUME f \in [Members -> Nat \cup {Unknown}]
        PROVE  \A s \in SUBSET Members : Sums(f)[s] \in Nat
    <2> DEFINE Natural == {n \in Nat : \A s \in Small(n) : Sums(f)[s] \in Nat}
    <2>0. Sums(f)[{}] = 0
      <3>1. {} \in SUBSET Members
        OBVIOUS
      <3> QED BY <3>1, SumsStep
    <2>1. 0 \in Natural
      <3>1. \A s \in Small(0) : s = {}
        BY MembersFinite, FS_EmptySet DEF Small
      <3>2. \A s \in Small(0) : Sums(f)[s] \in Nat
        <4>1. ASSUME NEW s \in Small(0) PROVE Sums(f)[s] \in Nat
          <5>1. s = {}
            BY <3>1
          <5> QED BY <2>0, <5>1
        <4> QED BY <4>1
      <3> QED BY <3>2
    <2>2. ASSUME NEW n \in Nat, n \in Natural PROVE n + 1 \in Natural
      <3>1. ASSUME NEW s \in Small(n + 1), s # {} PROVE Sums(f)[s] \in Nat
        <4>1. s \in SUBSET Members
          BY DEF Small
        <4>2. Pick(s) \in Members /\ s \ {Pick(s)} \in Small(n)
          BY <3>1, <4>1, Picking, MembersFinite DEF Small
        <4>3. Value(f, Pick(s)) \in Nat
          BY <1>1, <4>2 DEF Value
        <4>4. Sums(f)[s \ {Pick(s)}] \in Nat
          BY <2>2, <4>2
        <4> QED BY <3>1, <4>1, <4>3, <4>4, SumsStep
      <3>2. ASSUME NEW s \in Small(n + 1) PROVE Sums(f)[s] \in Nat
        <4>1. CASE s = {}
          BY <2>0, <4>1
        <4> QED BY <3>1, <4>1
      <3> QED BY <3>2
    <2> HIDE DEF Natural
    <2>3. \A n \in Nat : n \in Natural
      BY <2>1, <2>2, SetOfNumbers
    <2>4. ASSUME NEW s \in SUBSET Members PROVE Sums(f)[s] \in Nat
      <3>1. s \in Small(Cardinality(s)) /\ Cardinality(s) \in Nat
        BY MembersFinite DEF Small
      <3> QED BY <2>3, <3>1 DEF Natural
    <2> QED BY <2>4
  <1>2. f \in [Members -> Nat \cup {Unknown}] => Total(f) \in Nat
    BY <1>1, TotalIsASum
  <1>3. ASSUME f \in [Members -> Nat \ {0}], Members # {}
        PROVE  Total(f) \in Nat \ {0}
    <2>1. f \in [Members -> Nat \cup {Unknown}]
      BY <1>3
    <2>2. Pick(Members) \in Members /\ Members \ {Pick(Members)} \in SUBSET Members
      BY <1>3, Picking
    <2>3. Value(f, Pick(Members)) \in Nat \ {0}
      BY <1>3, <2>2 DEF Value, Unknown
    <2>4. Sums(f)[Members \ {Pick(Members)}] \in Nat
      BY <1>1, <2>1, <2>2
    <2>5. Sums(f)[Members] = Value(f, Pick(Members)) + Sums(f)[Members \ {Pick(Members)}]
      BY <1>3, SumsStep
    <2> QED BY <2>3, <2>4, <2>5, TotalIsASum
  <1> QED BY <1>2, <1>3

-----------------------------------------------------------------------------
(* The types of the sweep.                                                 *)

LEMMA Percents == \A percent \in Nat : Min({100, percent}) \in 0..100
  BY DEF Min

\* A member's share is a percentage, whatever the members report.
LEMMA PercentOfCapital ==
    ASSUME TypeOK, NEW m \in Members
    PROVE  PositionPct(m) \in 0..100
  <1>1. live \in [Members -> Nat \cup {Unknown}]
    BY BoundsAssumption DEF TypeOK, Capitals
  <1>2. Total(live) \in Nat /\ Total(Weight) \in Nat \ {0} /\ Weight[m] \in Nat
    BY <1>1, WeightAssumption, TotalBounds
  <1> DEFINE whole == (100 * Total(live) * Weight[m]) \div Total(Weight)
  <1>3. ASSUME NEW a \in Nat, NEW b \in Nat \ {0} PROVE a \div b \in Nat
    OBVIOUS
  <1>4. whole \in Nat
    <2>1. 100 * Total(live) * Weight[m] \in Nat
      BY <1>2
    <2> QED BY <1>2, <1>3, <2>1
  <1>5. PositionPct(m) = IF live[m] > 0 THEN Min({100, whole \div live[m]}) ELSE 100
    BY DEF PositionPct
  <1> HIDE DEF whole
  <1>6. CASE live[m] > 0
    <2>1. live[m] \in Nat \ {0}
      BY <1>1, <1>6 DEF Unknown
    <2> DEFINE percent == whole \div live[m]
    <2>2. percent \in Nat
      BY <1>3, <1>4, <2>1
    <2> HIDE DEF percent
    <2>3. Min({100, percent}) \in 0..100
      BY <2>2, Percents
    <2> QED BY <1>5, <1>6, <2>3 DEF percent
  <1> QED BY <1>5, <1>6

LEMMA SweepStartsTyped == Init => TypeOK
  BY BoundsAssumption DEF Init, TypeOK, None, Todo, Capitals, Unknown

LEMMA FaultCounted ==
    ASSUME TypeOK, Fault \/ NoFault
    PROVE  faults' \in 0..MaxFaults
  BY BoundsAssumption DEF TypeOK, Fault, NoFault

LEMMA AbortTyped ==
    ASSUME TypeOK, Abort, UNCHANGED <<options, cash, member, summary>>, Fault
    PROVE  TypeOK'
  <1>1. faults' \in 0..MaxFaults
    BY FaultCounted
  <1> QED BY <1>1 DEF TypeOK, Abort, options, None, Todo, Unknown

LEMMA EntryTyped ==
    ASSUME TypeOK, NEW e \in Entries, Entry(e)
    PROVE  TypeOK'
  <1>1. CASE Begin(e)
    <2>1. at' \in [Entries -> {"todo", "work", "save", "count", "done"}]
      BY <1>1 DEF TypeOK, Begin, BeginWork
    <2>2. worked' \in Nat
      <3>1. worked \in Nat
        BY DEF TypeOK
      <3> QED BY <1>1, <3>1 DEF Begin, BeginWork
    <2>3. clean' \in BOOLEAN
      BY <1>1, Zenon DEF TypeOK, Begin, BeginWork
    <2> QED BY <1>1, <2>1, <2>2, <2>3 DEF TypeOK, Begin, options, memory, stored
  <1>2. CASE GridIteration(e)
    <2>1. CASE Abort /\ Fault
      BY <1>2, <2>1, AbortTyped DEF GridIteration, stored, options
    <2> QED BY <1>2, <2>1 DEF GridIteration, TypeOK, NoFault, options, memory, stored
  <1>3. CASE LadderIteration(e)
    <2>1. e \in Members /\ cash[e] \in Capitals \cup {Unknown} /\ 0 \in Capitals
      BY <1>3, BoundsAssumption DEF LadderIteration, TypeOK, Capitals
    <2>2. PICK new \in Capitals : result' = [result EXCEPT ![e] = new]
      BY <1>3, <2>1 DEF LadderIteration
    <2>3. cash' \in [Members -> Capitals \cup {Unknown}]
      <3>1. CASE UNCHANGED cash
        BY <3>1 DEF TypeOK
      <3>2. CASE ~UNCHANGED cash
        <4>1. PICK c \in Capitals : cash' = [cash EXCEPT ![e] = c]
          BY <1>3, <3>2 DEF LadderIteration
        <4> QED BY <4>1 DEF TypeOK
      <3> QED BY <3>1, <3>2
    <2>4. clean' \in BOOLEAN /\ faults' \in 0..MaxFaults
      BY <1>3, FaultCounted DEF LadderIteration, TypeOK
    <2>5. /\ at' \in [Entries -> {"todo", "work", "save", "count", "done"}]
          /\ result' \in [Members -> Capitals \cup {Unknown}]
      BY <1>3, <2>2 DEF LadderIteration, TypeOK
    <2>6. UNCHANGED <<options, pc, remaining, live, plan, member, summary, worked>>
      BY <1>3 DEF LadderIteration
    <2> QED BY <2>3, <2>4, <2>5, <2>6 DEF TypeOK, options
  <1>4. CASE SaveMember(e)
    <2>1. CASE Abort /\ Fault /\ UNCHANGED member
      BY <1>4, <2>1, AbortTyped DEF SaveMember, options
    <2>2. CASE ~(Abort /\ Fault /\ UNCHANGED member)
      <3>1. /\ live' = [live EXCEPT ![e] = result[e]]
            /\ member' = [member EXCEPT ![e] = result[e]]
            /\ result' = [result EXCEPT ![e] = Unknown]
        BY <1>4, <2>2 DEF SaveMember
      <3>2. /\ live' \in [Members -> Capitals \cup {Unknown}]
            /\ member' \in [Members -> Capitals \cup {Unknown}]
            /\ result' \in [Members -> Capitals \cup {Unknown}]
        BY <3>1 DEF TypeOK
      <3> QED BY <1>4, <2>2, <3>2 DEF SaveMember, TypeOK, NoFault, options
    <2> QED BY <2>1, <2>2
  <1>5. CASE Count(e)
    <2>1. /\ at' \in [Entries -> {"todo", "work", "save", "count", "done"}]
          /\ remaining' \in 0..Iterations
      BY <1>5, BoundsAssumption DEF Count, TypeOK
    <2> QED BY <1>5, <2>1 DEF Count, TypeOK, options, memory, stored
  <1> QED BY <1>1, <1>2, <1>3, <1>4, <1>5 DEF Entry

LEMMA SweepTyped == TypeOK /\ [Next]_vars => TypeOK'
  <1> SUFFICES ASSUME TypeOK, [Next]_vars PROVE TypeOK'
    OBVIOUS
  <1>1. CASE Start
    BY <1>1 DEF Start, TypeOK, options, memory, stored
  <1>2. CASE Refresh
    <2>1. plan' \in [Members -> 0..100 \cup {Unknown}]
      BY <1>2, PercentOfCapital DEF Refresh, TypeOK
    <2>2. at' \in [Entries -> {"todo", "work", "save", "count", "done"}]
      BY <1>2 DEF Refresh, Todo
    <2>3. /\ UNCHANGED <<options, remaining, live, result, stored, worked, faults>>
          /\ pc' = "sweep" /\ clean' = TRUE
      BY <1>2 DEF Refresh
    <2> QED BY <2>1, <2>2, <2>3 DEF TypeOK, options, stored
  <1>3. CASE Summarize
    <2>1. CASE Abort /\ Fault /\ UNCHANGED summary
      BY <1>3, <2>1, AbortTyped DEF Summarize, options
    <2>2. Total(member) \in Nat
      <3>1. member \in [Members -> Nat \cup {Unknown}]
        BY BoundsAssumption DEF TypeOK, Capitals
      <3> QED BY <3>1, TotalBounds
    <2> QED BY <1>3, <2>1, <2>2 DEF Summarize, TypeOK, NoFault, options, memory
  <1>4. CASE Sleep
    BY <1>4 DEF Sleep, TypeOK, options, memory, stored
  <1>5. CASE Crash
    BY <1>5, AbortTyped DEF Crash, stored
  <1>6. CASE UNCHANGED vars
    BY <1>6 DEF vars, TypeOK
  <1> QED BY <1>1, <1>2, <1>3, <1>4, <1>5, <1>6, EntryTyped DEF Next, Loop

-----------------------------------------------------------------------------
(* The sum of a clean sweep.                                               *)

\* A symbol of the cohort that the watchlist does not own never works.  In a
\* sweep without a failure the report carries the capital of the row, and the
\* member row is that capital once it has been reported.
Reported(m) ==
    /\ Skipped(m) => cash[m] = member[m] /\ at[m] \in {"todo", "done"}
    /\ clean /\ at[m] = "save" => result[m] = cash[m]
    /\ clean /\ at[m] \in {"count", "done"} => member[m] = cash[m]

Tallied ==
    /\ TypeOK /\ \A m \in Members : Reported(m)
    /\ pc = "sleep" /\ clean => summary = Total(cash)

LEMMA TallyStarts == Init => Tallied
  <1> SUFFICES ASSUME Init PROVE Tallied
    OBVIOUS
  <1>1. \A m \in Members : at[m] = "todo" /\ cash[m] = member[m]
    BY DEF Init, Todo, None, Members
  <1> QED BY <1>1, SweepStartsTyped DEF Tallied, Reported, Init

LEMMA TallyAborts ==
    ASSUME Tallied, Abort, UNCHANGED <<options, cash, member>>
    PROVE  (\A m \in Members : Reported(m)') /\ pc' = "down"
  <1>1. \A m \in Members : at'[m] = "todo"
    BY DEF Abort, Todo, Members
  <1> QED BY <1>1 DEF Tallied, Reported, Skipped, Abort, options

\* One entry's step leaves the others' reports.
LEMMA TallyOthers ==
    ASSUME TypeOK, NEW e \in Entries, NEW to, at' = [at EXCEPT ![e] = to],
           UNCHANGED <<explicit>>,
           NEW m \in Members, m # e, Reported(m), clean' => clean,
           cash'[m] = cash[m], member'[m] = member[m], result'[m] = result[m]
    PROVE  Reported(m)'
  <1>1. at'[m] = at[m]
    BY DEF TypeOK, Members
  <1> QED BY <1>1 DEF Reported, Skipped

LEMMA TallyEntry ==
    ASSUME Tallied, NEW e \in Entries, Entry(e), NEW m \in Members
    PROVE  Reported(m)'
  <1>1. Reported(m) /\ DOMAIN at = Entries /\ m \in Entries
    BY DEF Tallied, TypeOK, Members
  <1>2. CASE Begin(e)
    <2>1. /\ UNCHANGED <<explicit, cash, member, result>> /\ (clean' => clean)
          /\ at[e] = "todo"
      BY <1>2 DEF Begin, Turn, BeginWork, options, memory, stored, Tallied, TypeOK
    <2>2. PICK to \in {"work", "done"} :
             /\ at' = [at EXCEPT ![e] = to]
             /\ to = "done" => Skipped(e) \/ ~clean'
             /\ to = "work" => ~Skipped(e)
      BY <1>2 DEF Begin, BeginWork
    <2>3. CASE m = e
      <3>1. at'[m] = to
        BY <1>1, <2>2, <2>3
      <3> QED BY <1>1, <2>1, <2>2, <2>3, <3>1 DEF Reported, Skipped
    <2>4. CASE m # e
      BY <1>1, <2>1, <2>2, <2>4, TallyOthers DEF Tallied
    <2> QED BY <2>3, <2>4
  <1>3. CASE GridIteration(e)
    <2>1. CASE Abort
      BY <1>3, <2>1, TallyAborts DEF GridIteration, stored
    <2>2. CASE ~Abort
      <3>1. /\ at' = [at EXCEPT ![e] = "count"] /\ m # e
            /\ UNCHANGED <<explicit, cash, member, result, clean>>
        BY <1>3, <2>2 DEF GridIteration, Members, options, memory, stored
      <3> QED BY <1>1, <3>1, TallyOthers DEF Tallied
    <2> QED BY <2>1, <2>2
  <1>4. CASE LadderIteration(e)
    <2>1. /\ at' = [at EXCEPT ![e] = "save"] /\ at[e] = "work" /\ e \in Members
          /\ UNCHANGED <<explicit, member>>
      BY <1>4 DEF LadderIteration, options
    <2>2. PICK c, r :
             /\ cash' = [cash EXCEPT ![e] = c] /\ result' = [result EXCEPT ![e] = r]
             /\ clean' => clean /\ c = r
      <3>1. CASE UNCHANGED cash /\ clean' = FALSE
        <4>1. cash' = [cash EXCEPT ![e] = cash[e]]
          BY <3>1 DEF Tallied, TypeOK
        <4>2. PICK r : result' = [result EXCEPT ![e] = r]
          BY <1>4, <3>1 DEF LadderIteration
        <4>3. clean' => clean /\ cash[e] = r
          BY <3>1
        <4> QED BY <4>1, <4>2, <4>3, Zenon
      <3>2. CASE ~(UNCHANGED cash /\ clean' = FALSE)
        <4>1. PICK new : /\ cash' = [cash EXCEPT ![e] = new]
                         /\ result' = [result EXCEPT ![e] = new]
                         /\ clean' = clean \/ clean' = FALSE
          BY <1>4, <3>2, Zenon DEF LadderIteration
        <4>2. clean' => clean /\ new = new
          BY <4>1
        <4> QED BY <4>1, <4>2, Zenon
      <3> QED BY <3>1, <3>2
    <2>3. CASE m = e
      <3>1. at'[m] = "save" /\ ~Skipped(m) /\ (clean' => result'[m] = cash'[m])
        BY <1>1, <2>1, <2>2, <2>3 DEF Reported, Tallied, TypeOK
      <3> QED BY <2>1, <3>1 DEF Reported, Skipped
    <2>4. CASE m # e
      <3>1. cash'[m] = cash[m] /\ result'[m] = result[m]
        BY <2>2, <2>4 DEF Tallied, TypeOK
      <3> QED BY <1>1, <2>1, <2>2, <2>4, <3>1, TallyOthers DEF Tallied
    <2> QED BY <2>3, <2>4
  <1>5. CASE SaveMember(e)
    <2>1. CASE Abort /\ UNCHANGED member
      BY <1>5, <2>1, TallyAborts DEF SaveMember
    <2>2. CASE ~(Abort /\ UNCHANGED member)
      <3>1. /\ at' = [at EXCEPT ![e] = "count"] /\ at[e] = "save"
            /\ UNCHANGED <<explicit, cash, clean>>
            /\ member' = [member EXCEPT ![e] = result[e]]
            /\ result' = [result EXCEPT ![e] = Unknown]
        BY <1>5, <2>2 DEF SaveMember, options
      <3>2. CASE m = e
        <4>1. at'[m] = "count" /\ ~Skipped(m) /\ (clean => member'[m] = cash[m])
          BY <1>1, <3>1, <3>2 DEF Reported, Tallied, TypeOK
        <4> QED BY <3>1, <4>1 DEF Reported, Skipped
      <3>3. CASE m # e
        <4>1. member'[m] = member[m] /\ result'[m] = result[m]
          BY <3>1, <3>3 DEF Tallied, TypeOK
        <4> QED BY <1>1, <3>1, <3>3, <4>1, TallyOthers DEF Tallied
      <3> QED BY <3>2, <3>3
    <2> QED BY <2>1, <2>2
  <1>6. CASE Count(e)
    <2>1. /\ at' = [at EXCEPT ![e] = "done"] /\ at[e] = "count"
          /\ UNCHANGED <<explicit, cash, member, result, clean>>
      BY <1>6 DEF Count, options, memory, stored
    <2>2. CASE m = e
      <3>1. at'[m] = "done"
        BY <1>1, <2>1, <2>2
      <3> QED BY <1>1, <2>1, <2>2, <3>1 DEF Reported, Skipped
    <2>3. CASE m # e
      BY <1>1, <2>1, <2>3, TallyOthers DEF Tallied
    <2> QED BY <2>2, <2>3
  <1> QED BY <1>2, <1>3, <1>4, <1>5, <1>6 DEF Entry

\* Once every entry is done the member rows are the capitals.
LEMMA TallySums ==
    ASSUME Tallied, clean, \A e \in Entries : at[e] = "done"
    PROVE  Total(member) = Total(cash)
  <1>1. \A m \in Members : member[m] = cash[m]
    BY DEF Tallied, Reported, Members
  <1>2. member = cash
    BY <1>1 DEF Tallied, TypeOK
  <1> QED BY <1>2

LEMMA TallyKept == Tallied /\ [Next]_vars => Tallied'
  <1> SUFFICES ASSUME Tallied, [Next]_vars PROVE Tallied'
    OBVIOUS
  <1>1. TypeOK'
    BY SweepTyped DEF Tallied
  <1>2. ASSUME NEW e \in Entries, Entry(e) PROVE Tallied'
    <2>1. pc' # "sleep"
      BY <1>2 DEF Entry, Begin, Turn, GridIteration, LadderIteration, SaveMember, Count, Abort
    <2> QED BY <1>1, <1>2, <2>1, TallyEntry DEF Tallied
  <1>3. CASE Abort /\ UNCHANGED <<options, cash, member>>
    BY <1>1, <1>3, TallyAborts DEF Tallied
  <1>4. CASE Refresh
    <2>1. \A m \in Members : at'[m] = "todo"
      BY <1>4 DEF Refresh, Todo, Members
    <2>2. UNCHANGED <<explicit, cash, member>> /\ pc' = "sweep"
      BY <1>4 DEF Refresh, options, stored
    <2> QED BY <1>1, <2>1, <2>2 DEF Tallied, Reported, Skipped
  <1>5. CASE UNCHANGED <<explicit, at, cash, member, result, clean>>
             /\ (pc' = "sleep" /\ clean => summary' = Total(cash))
    <2>1. Total(cash)' = Total(cash)
      BY <1>5
    <2> QED BY <1>1, <1>5, <2>1 DEF Tallied, Reported, Skipped
  <1>6. CASE Summarize /\ ~(Abort /\ UNCHANGED <<options, cash, member>>)
    <2>1. summary' = Total(member) /\ UNCHANGED <<explicit, at, cash, member, result, clean>>
      BY <1>6 DEF Summarize, options, memory
    <2>2. clean => Total(member) = Total(cash)
      BY <1>6, TallySums DEF Summarize
    <2> QED BY <1>5, <2>1, <2>2
  <1>7. CASE Start \/ Sleep \/ UNCHANGED vars
    BY <1>5, <1>7 DEF Start, Sleep, vars, options, memory, stored, Tallied
  <1> QED
    BY <1>2, <1>3, <1>4, <1>6, <1>7 DEF Next, Loop, Crash, Summarize, stored

\* A sweep that evaluated every entry leaves a portfolio that adds up to the
\* members' own capital (CleanSweepAddsUp).
THEOREM AddingUp == Spec => []CleanSweepAddsUp
  <1>1. Tallied => CleanSweepAddsUp
    BY DEF Tallied, CleanSweepAddsUp
  <1> QED BY TallyStarts, TallyKept, <1>1, PTL DEF Spec

-----------------------------------------------------------------------------
(* The limiter.                                                            *)

Prefix(h, n, g) == [k \in 0..n |-> IF k = 0 THEN 0 ELSE g[k - 1] + h[k]]
Prefixes(h) == CHOOSE g : g = Prefix(h, PerMinute, g)

\* The sums over the first numbers of a sequence of numbers exist.
LEMMA PrefixesExist ==
    ASSUME NEW h
    PROVE  Prefixes(h) = Prefix(h, PerMinute, Prefixes(h))
  <1> DEFINE Defined == {n \in Nat : \E g : g = Prefix(h, n, g)}
  <1>1. 0 \in Defined
    <2> DEFINE g == [k \in 0..0 |-> 0]
    <2>1. g = Prefix(h, 0, g)
      BY DEF Prefix
    <2> QED BY <2>1
  <1>2. ASSUME NEW n \in Nat, n \in Defined PROVE n + 1 \in Defined
    <2>1. PICK g : g = Prefix(h, n, g)
      BY <1>2
    <2> DEFINE f == Prefix(h, n + 1, g)
    <2>2. \A k \in 0..n : f[k] = g[k]
      BY <2>1 DEF Prefix
    <2>3. \A k \in 1..(n + 1) : f[k] = g[k - 1] + h[k] /\ k - 1 \in 0..n
      BY DEF Prefix
    <2>4. f = [k \in 0..(n + 1) |-> f[k]] /\ f[0] = 0
      BY DEF Prefix
    <2> HIDE DEF f
    <2>5. \A k \in 1..(n + 1) : f[k] = f[k - 1] + h[k]
      BY <2>2, <2>3
    <2>6. \A k \in 0..(n + 1) : f[k] = IF k = 0 THEN 0 ELSE f[k - 1] + h[k]
      <3>1. \A k \in 0..(n + 1) : k = 0 \/ k \in 1..(n + 1)
        OBVIOUS
      <3> QED BY <2>4, <2>5, <3>1
    <2>7. f = Prefix(h, n + 1, f)
      BY <2>4, <2>6 DEF Prefix
    <2> QED BY <2>7
  <1>3. PerMinute \in Defined
    <2> HIDE DEF Defined
    <2> QED BY <1>1, <1>2, SetOfNumbers, LimiterAssumption
  <1>4. \E g : g = Prefix(h, PerMinute, g)
    BY <1>3
  <1> QED BY <1>4 DEF Prefixes

LEMMA PrefixesStep ==
    ASSUME NEW h
    PROVE  /\ Prefixes(h)[0] = 0
           /\ \A k \in 1..PerMinute : Prefixes(h)[k] = Prefixes(h)[k - 1] + h[k]
  BY PrefixesExist, LimiterAssumption DEF Prefix

LEMMA SentIsPrefixes == Limiter!Sent = Prefixes(passed)
  BY DEF Limiter!Sent, Prefixes, Prefix

\* Induction over the ticks that are remembered.
LEMMA OverTicks ==
    ASSUME NEW T, 0 \in T, \A k \in 1..PerMinute : k - 1 \in T => k \in T
    PROVE  \A k \in 0..PerMinute : k \in T
  <1> DEFINE S == {n \in Nat : n <= PerMinute => n \in T}
  <1>1. 0 \in S
    OBVIOUS
  <1>2. \A n \in Nat : n \in S => n + 1 \in S
    BY LimiterAssumption
  <1> HIDE DEF S
  <1>3. \A n \in Nat : n \in S
    BY <1>1, <1>2, SetOfNumbers
  <1> QED BY <1>3, LimiterAssumption DEF S

LEMMA PrefixesAreNumbers ==
    ASSUME NEW h \in [1..PerMinute -> Nat]
    PROVE  \A k \in 0..PerMinute : Prefixes(h)[k] \in Nat
  <1> DEFINE T == {k \in 0..PerMinute : Prefixes(h)[k] \in Nat}
  <1>1. 0 \in T
    BY PrefixesStep, LimiterAssumption
  <1>2. ASSUME NEW k \in 1..PerMinute, k - 1 \in T PROVE k \in T
    <2>1. Prefixes(h)[k] = Prefixes(h)[k - 1] + h[k]
      BY PrefixesStep
    <2>2. Prefixes(h)[k - 1] \in Nat /\ h[k] \in Nat
      BY <1>2
    <2> QED BY <2>1, <2>2
  <1> HIDE DEF T
  <1>3. \A k \in 0..PerMinute : k \in T
    BY <1>1, <1>2, OverTicks
  <1> QED BY <1>3 DEF T

\* Tokens that go out now count in every window; a tick moves the windows on.
LEMMA PrefixesGrow ==
    ASSUME NEW h \in [1..PerMinute -> Nat], NEW n \in Nat
    PROVE  \A k \in 1..PerMinute :
              Prefixes([h EXCEPT ![1] = @ + n])[k] = Prefixes(h)[k] + n
  <1> DEFINE g == [h EXCEPT ![1] = @ + n]
             T == {k \in 0..PerMinute : k > 0 => Prefixes(g)[k] = Prefixes(h)[k] + n}
  <1>1. 0 \in T
    BY LimiterAssumption
  <1>2. ASSUME NEW k \in 1..PerMinute, k - 1 \in T PROVE k \in T
    <2>1. /\ Prefixes(g)[k] = Prefixes(g)[k - 1] + g[k]
          /\ Prefixes(h)[k] = Prefixes(h)[k - 1] + h[k]
      BY PrefixesStep
    <2>2. /\ Prefixes(h)[k - 1] \in Nat /\ h[k] \in Nat
          /\ g[k] = IF k = 1 THEN h[k] + n ELSE h[k]
      BY PrefixesAreNumbers, LimiterAssumption
    <2>3. Prefixes(g)[0] = 0 /\ Prefixes(h)[0] = 0
      BY PrefixesStep
    <2>4. CASE k = 1
      BY <2>1, <2>2, <2>3, <2>4
    <2>5. CASE k > 1
      <3>1. Prefixes(g)[k - 1] = Prefixes(h)[k - 1] + n
        BY <1>2, <2>5
      <3> QED BY <2>1, <2>2, <2>5, <3>1
    <2> QED BY <2>4, <2>5
  <1> HIDE DEF T
  <1>3. \A k \in 0..PerMinute : k \in T
    BY <1>1, <1>2, OverTicks
  <1> HIDE DEF g
  <1>4. \A k \in 1..PerMinute : Prefixes(g)[k] = Prefixes(h)[k] + n
    BY <1>3, LimiterAssumption DEF T
  <1> QED BY <1>4 DEF g

LEMMA PrefixesMove ==
    ASSUME NEW h \in [1..PerMinute -> Nat]
    PROVE  \A k \in 1..PerMinute :
              Prefixes([i \in 1..PerMinute |-> IF i = 1 THEN 0 ELSE h[i - 1]])[k]
                 = Prefixes(h)[k - 1]
  <1> DEFINE g == [i \in 1..PerMinute |-> IF i = 1 THEN 0 ELSE h[i - 1]]
             T == {k \in 0..PerMinute : k > 0 => Prefixes(g)[k] = Prefixes(h)[k - 1]}
  <1>1. 0 \in T
    BY LimiterAssumption
  <1>2. ASSUME NEW k \in 1..PerMinute, k - 1 \in T PROVE k \in T
    <2>1. Prefixes(g)[k] = Prefixes(g)[k - 1] + g[k]
      BY PrefixesStep
    <2>2. Prefixes(g)[0] = 0 /\ Prefixes(h)[0] = 0
      BY PrefixesStep
    <2>3. CASE k = 1
      BY <2>1, <2>2, <2>3
    <2>4. CASE k > 1
      <3>1. Prefixes(g)[k - 1] = Prefixes(h)[k - 2] /\ g[k] = h[k - 1]
        BY <1>2, <2>4
      <3>2. k - 1 \in 1..PerMinute /\ (k - 1) - 1 = k - 2
        BY <2>4, LimiterAssumption
      <3>3. Prefixes(h)[k - 1] = Prefixes(h)[k - 2] + h[k - 1]
        BY <3>2, PrefixesStep
      <3> QED BY <2>1, <3>1, <3>3
    <2> QED BY <2>3, <2>4
  <1> HIDE DEF T
  <1>3. \A k \in 0..PerMinute : k \in T
    BY <1>1, <1>2, OverTicks
  <1> QED BY <1>3 DEF T

-----------------------------------------------------------------------------
\* A clock that was set back leaves the buckets in debt by what it was set.
Solvent(tokens) == tokens >= ahead - sets /\ tokens + elapsed >= ahead - sets

\* What went out in the last ticks and what a bucket filled now would hold.
Windows ==
    \A k \in 1..PerMinute :
        /\ Limiter!Sent[k] <= PerSecond + k - 1 + ahead
        /\ Limiter!Sent[k] + Limiter!Refill(second, PerSecond) <= PerSecond + k - 1 + ahead

LimiterInvariant ==
    /\ Limiter!TypeOK
    /\ ahead <= sets /\ elapsed >= ahead - sets /\ Solvent(second) /\ Solvent(minute)
    /\ \A c \in Callers : need[c] <= PerMinute
    /\ Windows

LEMMA Smallest == \A a, b \in Int : Limiter!Min({a, b}) = IF a <= b THEN a ELSE b
  BY DEF Limiter!Min

LEMMA Cost ==
    \A n \in 1..(PerSecond + 1) :
        /\ Limiter!Min({n, PerSecond, PerMinute}) \in 0..PerSecond
        /\ Limiter!Min({n, PerSecond, PerMinute}) <= PerMinute
  BY LimiterAssumption DEF Limiter!Min

LEMMA Largest ==
    /\ \A a, b \in Int : Limiter!Max({a, b}) = IF a >= b THEN a ELSE b
    /\ \A a, b, c \in Int : Limiter!Max({a, b, c}) \in {a, b, c}
                            /\ Limiter!Max({a, b, c}) >= c
  BY DEF Limiter!Max

\* What the types say in numbers.
LEMMA LimiterNumbers ==
    ASSUME Limiter!TypeOK
    PROVE  /\ second \in Int /\ minute \in Int /\ elapsed \in Int /\ ahead \in Nat
           /\ sets \in Nat /\ passed \in [1..PerMinute -> Nat]
           /\ second + elapsed \in Int /\ minute + elapsed \in Int
           /\ \A c \in Callers : need[c] \in Nat /\ nap[c] \in Nat
  BY LimiterAssumption DEF Limiter!TypeOK, Limiter!Longest

LEMMA Filling ==
    ASSUME Limiter!TypeOK
    PROVE  /\ Limiter!Refill(second, PerSecond)
                 = IF PerSecond <= second + elapsed THEN PerSecond ELSE second + elapsed
           /\ Limiter!Refill(minute, PerMinute)
                 = IF PerMinute <= minute + elapsed THEN PerMinute ELSE minute + elapsed
  BY LimiterNumbers, LimiterAssumption, Smallest DEF Limiter!Refill

LEMMA SentIsNumbers ==
    ASSUME Limiter!TypeOK
    PROVE  \A k \in 0..PerMinute : Limiter!Sent[k] \in Nat
  BY LimiterNumbers, PrefixesAreNumbers, SentIsPrefixes

LEMMA LimiterStarts == Limiter!Init => LimiterInvariant
  <1> SUFFICES ASSUME Limiter!Init PROVE LimiterInvariant
    OBVIOUS
  <1>1. Limiter!TypeOK
    BY LimiterAssumption DEF Limiter!Init, Limiter!TypeOK, Limiter!Longest
  <1> DEFINE T == {k \in 0..PerMinute : Limiter!Sent[k] = 0}
  <1>2. \A k \in 0..PerMinute : k \in T
    <2>1. 0 \in T
      BY SentIsPrefixes, PrefixesStep, LimiterAssumption
    <2>2. ASSUME NEW k \in 1..PerMinute, k - 1 \in T PROVE k \in T
      <3>1. Limiter!Sent[k] = Limiter!Sent[k - 1] + passed[k] /\ passed[k] = 0
        BY SentIsPrefixes, PrefixesStep DEF Limiter!Init
      <3> QED BY <2>2, <3>1
    <2> HIDE DEF T
    <2> QED BY <2>1, <2>2, OverTicks
  <1>3. Windows
    <2>1. Limiter!Refill(second, PerSecond) = PerSecond
      BY <1>1, Filling, LimiterAssumption DEF Limiter!Init
    <2>2. ASSUME NEW k \in 1..PerMinute PROVE Limiter!Sent[k] = 0
      BY <1>2
    <2> QED BY <2>1, <2>2, LimiterAssumption DEF Windows, Limiter!Init
  <1> QED
    BY <1>1, <1>3, LimiterAssumption DEF LimiterInvariant, Limiter!Init, Solvent

\* The same in the next state.
LEMMA NextSent ==
    /\ Limiter!Sent' = Prefixes(passed')
    /\ UNCHANGED passed => UNCHANGED Limiter!Sent
  BY DEF Limiter!Sent, Prefixes, Prefix

LEMMA NextFilling ==
    ASSUME NEW t \in Int, NEW e \in Int, second' = t, elapsed' = e
    PROVE  Limiter!Refill(second, PerSecond)' = IF PerSecond <= t + e THEN PerSecond ELSE t + e
  <1>1. t + e \in Int /\ PerSecond \in Int
    BY LimiterAssumption
  <1>2. Limiter!Refill(second, PerSecond)' = Limiter!Min({PerSecond, t + e})
    BY DEF Limiter!Refill
  <1> QED BY <1>1, <1>2, Smallest

LEMMA AskKeeps ==
    ASSUME LimiterInvariant, NEW c \in Callers, Limiter!Ask(c)
    PROVE  LimiterInvariant'
  <1>1. PICK n \in 1..(PerSecond + 1) :
           need' = [need EXCEPT ![c] = Limiter!Min({n, PerSecond, PerMinute})]
    BY DEF Limiter!Ask
  <1>2. /\ Limiter!Min({n, PerSecond, PerMinute}) \in 0..PerSecond
        /\ Limiter!Min({n, PerSecond, PerMinute}) <= PerMinute
    BY Cost
  <1>3. /\ need' \in [Callers -> 0..PerSecond]
        /\ \A d \in Callers : need'[d] <= PerMinute
    BY <1>1, <1>2 DEF LimiterInvariant, Limiter!TypeOK
  <1>4. asks' \in [Callers -> 0..MaxAsks]
    BY LimiterAssumption DEF Limiter!Ask, LimiterInvariant, Limiter!TypeOK
  <1>5. UNCHANGED <<second, minute, elapsed, nap, passed, ahead, sets>>
    BY DEF Limiter!Ask
  <1>6. Windows' /\ Solvent(second)' /\ Solvent(minute)'
    BY <1>5, NextSent DEF LimiterInvariant, Windows, Solvent, Limiter!Refill
  <1> QED BY <1>3, <1>4, <1>5, <1>6 DEF LimiterInvariant, Limiter!TypeOK

LEMMA TryKeeps ==
    ASSUME LimiterInvariant, NEW c \in Callers, Limiter!Try(c)
    PROVE  LimiterInvariant'
  <1> DEFINE s == Limiter!Refill(second, PerSecond)
             m == Limiter!Refill(minute, PerMinute)
             n == need[c]
  <1>1. Limiter!TypeOK /\ elapsed' = 0 /\ UNCHANGED <<asks, ahead, sets>>
    BY DEF LimiterInvariant, Limiter!Try
  <1>2. /\ s \in Int /\ m \in Int /\ n \in Nat /\ s <= PerSecond /\ m <= PerMinute
        /\ s >= ahead - sets /\ m >= ahead - sets /\ n <= PerMinute /\ n <= PerSecond
        /\ n > 0
    <2>1. /\ n \in Nat /\ n <= PerMinute /\ n <= PerSecond /\ n > 0
      BY <1>1, LimiterNumbers, LimiterAssumption
      DEF LimiterInvariant, Limiter!TypeOK, Limiter!Try
    <2> HIDE DEF n
    <2>2. /\ second + elapsed \in Int /\ minute + elapsed \in Int
          /\ second + elapsed >= ahead - sets /\ minute + elapsed >= ahead - sets
          /\ ahead \in Int /\ sets \in Int /\ ahead - sets <= 0
      BY <1>1, LimiterNumbers DEF LimiterInvariant, Solvent
    <2>3. /\ s = IF PerSecond <= second + elapsed THEN PerSecond ELSE second + elapsed
          /\ m = IF PerMinute <= minute + elapsed THEN PerMinute ELSE minute + elapsed
      BY <1>1, Filling
    <2> HIDE DEF s, m
    <2> QED BY <2>1, <2>2, <2>3, LimiterAssumption
  <1>3. /\ elapsed' \in (-MaxSets)..Limiter!Longest /\ ahead - sets <= 0
        /\ ahead \in 0..MaxSets /\ sets \in 0..MaxSets
    BY <1>1, LimiterAssumption DEF LimiterInvariant, Limiter!TypeOK, Limiter!Longest
  <1>4. CASE s >= n /\ m >= n /\ second' = s - n /\ minute' = m - n
             /\ passed' = [passed EXCEPT ![1] = @ + n] /\ need' = [need EXCEPT ![c] = 0]
             /\ UNCHANGED nap
    <2> HIDE DEF s, m, n
    <2>1. /\ second' \in (-MaxSets)..PerSecond /\ minute' \in (-MaxSets)..PerMinute
          /\ second' \in Nat /\ minute' \in Nat
      BY <1>2, <1>4, LimiterAssumption
    <2>2. /\ passed' \in [1..PerMinute -> Nat] /\ need' \in [Callers -> 0..PerSecond]
          /\ \A d \in Callers : need'[d] <= PerMinute
      <3>1. passed \in [1..PerMinute -> Nat] /\ need \in [Callers -> 0..PerSecond]
        BY <1>1 DEF Limiter!TypeOK
      <3>2. passed' \in [1..PerMinute -> Nat]
        <4>1. passed[1] + n \in Nat
          BY <1>2, <3>1, LimiterAssumption
        <4> QED BY <1>4, <3>1, <4>1
      <3>3. need' \in [Callers -> 0..PerSecond]
        BY <1>4, <3>1, LimiterAssumption
      <3>4. \A d \in Callers : need'[d] <= PerMinute
        BY <1>4, <3>1, LimiterAssumption DEF LimiterInvariant
      <3> QED BY <3>2, <3>3, <3>4
    <2>3. Limiter!Refill(second, PerSecond)' = s - n
      <3>1. /\ s - n \in Int /\ s - n + 0 = s - n
            /\ (PerSecond <= s - n + 0 => s - n = PerSecond)
        BY <1>2, LimiterAssumption
      <3> QED BY <1>1, <1>4, <3>1, NextFilling
    <2>4. ASSUME NEW k \in 1..PerMinute
          PROVE  Limiter!Sent'[k] = Limiter!Sent[k] + n
      BY <1>1, <1>2, <1>4, LimiterNumbers, PrefixesGrow, NextSent, SentIsPrefixes
    <2>5. Windows'
      <3>1. ASSUME NEW k \in 1..PerMinute
            PROVE  /\ Limiter!Sent'[k] <= PerSecond + k - 1 + ahead
                   /\ Limiter!Sent'[k] + (s - n) <= PerSecond + k - 1 + ahead
        <4>1. Limiter!Sent[k] \in Nat
          BY <1>1, SentIsNumbers
        <4>2. Limiter!Sent[k] + s <= PerSecond + k - 1 + ahead
          BY DEF LimiterInvariant, Windows, s
        <4> QED BY <1>2, <1>3, <1>4, <2>4, <4>1, <4>2, LimiterAssumption
      <3> QED BY <1>1, <2>3, <3>1 DEF Windows
    <2>6. Solvent(second)' /\ Solvent(minute)'
      <3>1. /\ ahead - sets \in Int /\ ahead - sets <= 0
            /\ s - n \in Int /\ s - n >= 0 /\ m - n \in Int /\ m - n >= 0
        BY <1>2, <1>3, <1>4, LimiterAssumption
      <3> QED BY <1>1, <1>4, <3>1 DEF Solvent
    <2> QED
      BY <1>1, <1>3, <1>4, <2>1, <2>2, <2>5, <2>6 DEF LimiterInvariant, Limiter!TypeOK
  <1>5. CASE second' = s /\ minute' = m
             /\ nap' = [nap EXCEPT ![c] = Limiter!Max({n - s, n - m, 1})]
             /\ UNCHANGED <<passed, need>>
    <2> HIDE DEF s, m, n
    <2>1. second' \in (-MaxSets)..PerSecond /\ minute' \in (-MaxSets)..PerMinute
      BY <1>2, <1>3, <1>5, LimiterAssumption
    <2>2. nap' \in [Callers -> 0..(PerMinute + MaxSets)]
      <3>1. Limiter!Max({n - s, n - m, 1}) \in 0..(PerMinute + MaxSets)
        <4>1. n - s <= PerMinute + MaxSets /\ n - m <= PerMinute + MaxSets
          BY <1>2, <1>3, LimiterAssumption
        <4>2. /\ Limiter!Max({n - s, n - m, 1}) \in {n - s, n - m, 1}
              /\ Limiter!Max({n - s, n - m, 1}) >= 1
          BY <1>2, Largest
        <4> QED BY <1>2, <4>1, <4>2, LimiterAssumption
      <3> QED BY <1>1, <1>5, <3>1 DEF Limiter!TypeOK
    <2>3. Limiter!Refill(second, PerSecond)' = s
      <3>1. s + 0 = s /\ (PerSecond <= s + 0 => s = PerSecond)
        BY <1>2, LimiterAssumption
      <3> QED BY <1>1, <1>2, <1>5, <3>1, NextFilling
    <2>4. Windows'
      BY <1>1, <1>5, <2>3, NextSent DEF LimiterInvariant, Windows, s
    <2>5. Solvent(second)' /\ Solvent(minute)'
      BY <1>1, <1>2, <1>5 DEF Solvent
    <2> QED
      BY <1>1, <1>3, <1>5, <2>1, <2>2, <2>4, <2>5 DEF LimiterInvariant, Limiter!TypeOK
  <1> QED BY <1>4, <1>5 DEF Limiter!Try

\* Time that passes, on the wall clock or without it.
LEMMA TimeKeeps ==
    ASSUME LimiterInvariant, NEW e \in Int, elapsed' = e,
           UNCHANGED <<second, minute, need, asks>>,
           e \in (-MaxSets)..Limiter!Longest,
           nap' \in [Callers -> 0..(PerMinute + MaxSets)],
           passed' \in [1..PerMinute -> Nat],
           NEW a \in 0..MaxSets, ahead' = a, NEW z \in 0..MaxSets, sets' = z,
           a - z <= ahead - sets, a <= z, e >= a - z,
           e + (ahead - sets) >= elapsed + (a - z),
           Windows'
    PROVE  LimiterInvariant'
  <1>1. /\ second \in Int /\ minute \in Int /\ elapsed \in Int /\ ahead \in Int
        /\ sets \in Int /\ a \in Int /\ z \in Int
    BY LimiterNumbers, LimiterAssumption DEF LimiterInvariant
  <1>2. Solvent(second)
    BY DEF LimiterInvariant
  <1>3. Solvent(minute)
    BY DEF LimiterInvariant
  <1>4. /\ second >= a - z /\ second + e >= a - z
        /\ minute >= a - z /\ minute + e >= a - z
    BY <1>1, <1>2, <1>3 DEF Solvent
  <1>5. Solvent(second)' /\ Solvent(minute)'
    BY <1>4 DEF Solvent
  <1>6. Limiter!TypeOK'
    BY DEF LimiterInvariant, Limiter!TypeOK
  <1> QED BY <1>5, <1>6 DEF LimiterInvariant

LEMMA TickKeeps ==
    ASSUME LimiterInvariant, Limiter!Tick
    PROVE  LimiterInvariant'
  <1>1. Limiter!TypeOK /\ UNCHANGED <<second, minute, need, asks, ahead, sets>>
    BY DEF LimiterInvariant, Limiter!Tick
  <1> DEFINE e == IF elapsed + 1 <= Limiter!Longest THEN elapsed + 1 ELSE Limiter!Longest
  <1>2. /\ e \in Int /\ elapsed' = e /\ e >= elapsed /\ e <= elapsed + 1
        /\ e \in (-MaxSets)..Limiter!Longest /\ elapsed \in Int
    <2>1. elapsed + 1 \in Int /\ Limiter!Longest \in Int
      BY <1>1, LimiterNumbers, LimiterAssumption DEF Limiter!Longest
    <2>2. elapsed' = e
      BY <2>1, Smallest DEF Limiter!Tick
    <2> QED
      BY <1>1, <2>1, <2>2, LimiterAssumption DEF Limiter!TypeOK
  <1>3. nap' \in [Callers -> 0..(PerMinute + MaxSets)]
    <2>1. ASSUME NEW c \in Callers
          PROVE  Limiter!Max({nap[c] - 1, 0}) \in 0..(PerMinute + MaxSets)
      <3>1. nap[c] \in 0..(PerMinute + MaxSets)
        BY <1>1 DEF Limiter!TypeOK
      <3>2. Limiter!Max({nap[c] - 1, 0}) = IF nap[c] - 1 >= 0 THEN nap[c] - 1 ELSE 0
        BY <3>1, Largest, LimiterAssumption
      <3> QED BY <3>1, <3>2, LimiterAssumption
    <2> QED BY <2>1 DEF Limiter!Tick
  <1>4. passed \in [1..PerMinute -> Nat]
    BY <1>1, LimiterNumbers
  <1>5. /\ passed' = [i \in 1..PerMinute |-> IF i = 1 THEN 0 ELSE passed[i - 1]]
        /\ passed' \in [1..PerMinute -> Nat]
    BY <1>4, LimiterAssumption DEF Limiter!Tick
  <1> HIDE DEF e
  <1>6. Windows'
    <2>1. ASSUME NEW k \in 1..PerMinute PROVE Limiter!Sent'[k] = Limiter!Sent[k - 1]
      BY <1>4, <1>5, PrefixesMove, NextSent, SentIsPrefixes
    <2> DEFINE s == IF PerSecond <= second + elapsed THEN PerSecond ELSE second + elapsed
               t == IF PerSecond <= second + e THEN PerSecond ELSE second + e
    <2>2. Limiter!Refill(second, PerSecond) = s /\ Limiter!Refill(second, PerSecond)' = t
      BY <1>1, <1>2, Filling, LimiterNumbers, NextFilling
    <2>3. s \in Int /\ t \in Int /\ t <= s + 1 /\ t <= PerSecond /\ ahead \in Nat
      BY <1>1, <1>2, LimiterNumbers, LimiterAssumption
    <2> HIDE DEF s, t
    <2>4. ASSUME NEW k \in 1..PerMinute
          PROVE  /\ Limiter!Sent'[k] <= PerSecond + k - 1 + ahead
                 /\ Limiter!Sent'[k] + t <= PerSecond + k - 1 + ahead
      <3>1. CASE k = 1
        <4>1. Limiter!Sent[0] = 0
          BY SentIsPrefixes, PrefixesStep
        <4> QED BY <2>1, <2>3, <3>1, <4>1, LimiterAssumption
      <3>2. CASE k > 1
        <4>1. k - 1 \in 1..PerMinute /\ k - 1 \in 0..PerMinute
          BY <3>2, LimiterAssumption
        <4>2. /\ Limiter!Sent[k - 1] <= PerSecond + (k - 1) - 1 + ahead
              /\ Limiter!Sent[k - 1] + s <= PerSecond + (k - 1) - 1 + ahead
          BY <2>2, <4>1 DEF LimiterInvariant, Windows
        <4>3. Limiter!Sent[k - 1] \in Nat
          BY <1>1, <4>1, SentIsNumbers
        <4> QED BY <2>1, <2>3, <3>2, <4>2, <4>3, LimiterAssumption
      <3> QED BY <3>1, <3>2
    <2> QED BY <1>1, <2>2, <2>4 DEF Windows
  <1>7. /\ ahead \in 0..MaxSets /\ sets \in 0..MaxSets /\ ahead <= sets
        /\ e >= ahead - sets /\ e + (ahead - sets) >= elapsed + (ahead - sets)
    BY <1>1, <1>2, LimiterNumbers DEF LimiterInvariant, Limiter!TypeOK
  <1> QED BY <1>1, <1>2, <1>3, <1>5, <1>6, <1>7, LimiterNumbers, TimeKeeps

\* A clock that is set changes the windows by what it adds.
LEMMA ClockWindows ==
    ASSUME LimiterInvariant, UNCHANGED <<second, passed>>, NEW e \in Int, elapsed' = e,
           NEW a \in Nat, ahead' = a, a >= ahead, e - elapsed <= a - ahead
    PROVE  Windows'
  <1>1. Limiter!TypeOK /\ second \in Int /\ elapsed \in Int /\ ahead \in Nat
    BY LimiterNumbers DEF LimiterInvariant
  <1> DEFINE s == IF PerSecond <= second + elapsed THEN PerSecond ELSE second + elapsed
             t == IF PerSecond <= second + e THEN PerSecond ELSE second + e
  <1>2. Limiter!Refill(second, PerSecond) = s /\ Limiter!Refill(second, PerSecond)' = t
    BY <1>1, Filling, NextFilling
  <1>3. s \in Int /\ t \in Int /\ t <= s + (a - ahead)
    BY <1>1, LimiterAssumption
  <1> HIDE DEF s, t
  <1>4. ASSUME NEW k \in 1..PerMinute
        PROVE  /\ Limiter!Sent[k] <= PerSecond + k - 1 + a
               /\ Limiter!Sent[k] + t <= PerSecond + k - 1 + a
    <2>1. Limiter!Sent[k] \in Nat
      BY <1>1, SentIsNumbers, LimiterAssumption
    <2>2. /\ Limiter!Sent[k] <= PerSecond + k - 1 + ahead
          /\ Limiter!Sent[k] + s <= PerSecond + k - 1 + ahead
      BY <1>2 DEF LimiterInvariant, Windows
    <2> QED BY <1>1, <1>3, <2>1, <2>2, LimiterAssumption
  <1> QED BY <1>2, <1>4, NextSent DEF Windows

LEMMA ClockKeeps ==
    ASSUME LimiterInvariant, Limiter!SetClock
    PROVE  LimiterInvariant'
  <1>1. /\ Limiter!TypeOK /\ UNCHANGED <<second, minute, need, nap, asks, passed>>
        /\ sets < MaxSets /\ sets' = sets + 1
    BY DEF LimiterInvariant, Limiter!SetClock
  <1>2. /\ elapsed \in (-MaxSets)..Limiter!Longest /\ ahead \in 0..MaxSets /\ ahead <= sets
        /\ sets \in 0..MaxSets /\ sets + 1 \in 0..MaxSets /\ elapsed >= ahead - sets
        /\ Limiter!Longest \in Int /\ elapsed \in Int /\ ahead \in Nat /\ MaxSets \in Nat
    BY <1>1, LimiterAssumption DEF LimiterInvariant, Limiter!TypeOK, Limiter!Longest
  <1>3. /\ nap' \in [Callers -> 0..(PerMinute + MaxSets)]
        /\ passed' \in [1..PerMinute -> Nat]
    BY <1>1 DEF Limiter!TypeOK
  <1>4. CASE elapsed' = elapsed - 1 /\ UNCHANGED ahead
    <2> DEFINE e == elapsed - 1
    <2>1. /\ e \in Int /\ e - elapsed <= ahead - ahead /\ e \in (-MaxSets)..Limiter!Longest
          /\ ahead - (sets + 1) <= ahead - sets /\ ahead <= sets + 1
          /\ e >= ahead - (sets + 1) /\ ahead >= ahead
          /\ e + (ahead - sets) >= elapsed + (ahead - (sets + 1))
      BY <1>2
    <2> HIDE DEF e
    <2>2. elapsed' = e /\ ahead' = ahead
      BY <1>4 DEF e
    <2>3. Windows'
      BY <1>1, <1>2, <2>1, <2>2, ClockWindows
    <2> QED BY <1>1, <1>2, <1>3, <2>1, <2>2, <2>3, TimeKeeps
  <1>5. CASE elapsed' = Limiter!Min({elapsed + 1, Limiter!Longest}) /\ ahead' = ahead + 1
    <2> DEFINE e == IF elapsed + 1 <= Limiter!Longest THEN elapsed + 1 ELSE Limiter!Longest
               a == ahead + 1
    <2>1. elapsed + 1 \in Int
      BY <1>2
    <2>2. elapsed' = e /\ ahead' = a
      BY <1>2, <1>5, <2>1, Smallest
    <2>3. /\ e \in Int /\ e - elapsed <= a - ahead /\ e \in (-MaxSets)..Limiter!Longest
          /\ a - (sets + 1) <= ahead - sets /\ a <= sets + 1 /\ a \in 0..MaxSets
          /\ e >= a - (sets + 1) /\ a >= ahead /\ a \in Nat
          /\ e + (ahead - sets) >= elapsed + (a - (sets + 1))
      BY <1>2
    <2> HIDE DEF e, a
    <2>4. Windows'
      BY <1>1, <2>2, <2>3, ClockWindows
    <2> QED BY <1>1, <1>2, <1>3, <2>2, <2>3, <2>4, TimeKeeps
  <1> QED BY <1>4, <1>5 DEF Limiter!SetClock

LEMMA LimiterKeeps == LimiterInvariant /\ [Limiter!Next]_(Limiter!vars) => LimiterInvariant'
  <1> SUFFICES ASSUME LimiterInvariant, [Limiter!Next]_(Limiter!vars)
               PROVE  LimiterInvariant'
    OBVIOUS
  <1>1. CASE UNCHANGED Limiter!vars
    <2>1. UNCHANGED <<second, minute, elapsed, need, nap, asks, passed, ahead, sets>>
      BY <1>1 DEF Limiter!vars
    <2>2. UNCHANGED Limiter!Sent
      BY <2>1, NextSent
    <2> QED
      BY <2>1, <2>2
      DEF LimiterInvariant, Limiter!TypeOK, Windows, Solvent, Limiter!Refill
  <1> QED BY <1>1, AskKeeps, TryKeeps, TickKeeps, ClockKeeps DEF Limiter!Next

-----------------------------------------------------------------------------
(* The workers of the knob search.                                         *)

\* A champion that has passed the guards has a score.
Sound == {c \in Search!Champions : c.ok => c.score > 0}

Posts == [at : Search!Points, job : {"seed", "trial", "claim", "exit"}, draft : Sound]

SearchTyped ==
    /\ lock \in [owner : Workers \cup {Search!Nobody, Search!Departed}, old : BOOLEAN]
    /\ champion \in Sound /\ best \in Sound
    /\ claim \in Workers \cup {Search!Nobody}
    /\ worker \in [Workers -> Posts]
    /\ spoiled \in BOOLEAN /\ mishaps \in 0..MaxMishaps

\* The points of a worker that has created the lock file and not removed it.
Holding == {"read", "evaluate", "truncate", "write", "claim", "release", "drop"}

\* Mutual exclusion; between the two steps of a write, and only then, the file
\* is not the champion last written.
Exclusive ==
    /\ \A w \in Workers : worker[w].at \in Holding => lock.owner = w
    /\ champion = best \/ \E w \in Workers : worker[w].at = "write"

\* What a worker has seen under the lock still holds when it writes.
Current(post) ==
    /\ post.at = "evaluate" => post.draft = best /\ ~(best.score > 0 /\ best.screened)
    /\ post.at \in {"truncate", "write"} => Search!Better(post.draft, best)
    /\ post.at = "claim" => claim = Search!Nobody

SearchInvariant ==
    /\ SearchTyped
    /\ ~spoiled => Exclusive /\ \A w \in Workers : Current(worker[w])

LEMMA FreshIsSound == Search!Fresh \in Sound
  BY SearchAssumption DEF Sound, Search!Fresh, Search!Champions

LEMMA OffIsAPost == Search!Off \in Posts
  BY FreshIsSound DEF Search!Off, Posts, Search!Points

LEMMA VerdictsAreSound == Search!Verdicts \subseteq Sound
  BY DEF Search!Verdicts, Sound

LEMMA SearchTypeFollows == SearchTyped => Search!TypeOK
  <1>1. Sound \subseteq Search!Champions
    BY DEF Sound
  <1> QED
    BY <1>1 DEF SearchTyped, Search!TypeOK, Posts

LEMMA SearchStarts == Search!Init => SearchInvariant
  <1> SUFFICES ASSUME Search!Init PROVE SearchInvariant
    OBVIOUS
  <1>1. champion \in Sound /\ best = champion
    <2>1. [score |-> 1, ok |-> TRUE, screened |-> FALSE] \in Sound
      BY SearchAssumption DEF Sound, Search!Champions
    <2> QED BY <2>1, FreshIsSound DEF Search!Init
  <1>2. SearchTyped
    <2>1. worker \in [Workers -> Posts]
      BY OffIsAPost DEF Search!Init
    <2>2. mishaps \in 0..MaxMishaps
      BY SearchAssumption DEF Search!Init
    <2>3. lock \in [owner : Workers \cup {Search!Nobody, Search!Departed}, old : BOOLEAN]
      BY DEF Search!Init, Search!Free
    <2> QED BY <1>1, <2>1, <2>2, <2>3 DEF Search!Init, SearchTyped
  <1>3. \A w \in Workers : worker[w].at = "off"
    BY DEF Search!Init, Search!Off
  <1> QED
    BY <1>1, <1>2, <1>3
    DEF SearchInvariant, Exclusive, Current, Holding, Search!Init

-----------------------------------------------------------------------------
\* Where a step sends a worker.
LEMMA Resuming ==
    /\ [Search!Off EXCEPT !.at = "try"] \in Posts
    /\ [Search!Off EXCEPT !.at = "idle"] \in Posts
    /\ [Search!Off EXCEPT !.at = "try", !.job = "claim"] \in Posts
    /\ [Search!Off EXCEPT !.at = "try"].at = "try"
    /\ [Search!Off EXCEPT !.at = "idle"].at = "idle"
    /\ [Search!Off EXCEPT !.at = "try", !.job = "claim"].at = "try"
    /\ Search!Off.at = "off"
  BY FreshIsSound DEF Search!Off, Posts, Search!Points

LEMMA Going ==
    ASSUME NEW p \in Posts, NEW point \in Search!Points
    PROVE  /\ [p EXCEPT !.at = point] \in Posts
           /\ [p EXCEPT !.at = point].at = point
           /\ [p EXCEPT !.at = point].draft = p.draft
  BY DEF Posts

LEMMA Posted ==
    ASSUME NEW point \in Search!Points, NEW draft \in Sound,
           NEW job \in {"seed", "trial", "claim", "exit"}
    PROVE  [at |-> point, job |-> job, draft |-> draft] \in Posts
  BY DEF Posts

\* A step that sends a worker on, and what it leaves alone.
LEMMA SearchMoves ==
    ASSUME SearchInvariant, NEW w \in Workers, NEW p \in Posts,
           Search!Become(w, p), UNCHANGED <<lock, champion, claim, best>>,
           spoiled' \in BOOLEAN, spoiled => spoiled', mishaps' \in 0..MaxMishaps,
           ~spoiled' => Current(p),
           ~spoiled' => worker[w].at # "write",
           p.at \in Holding => worker[w].at \in Holding
    PROVE  SearchInvariant'
  <1>1. /\ worker' \in [Workers -> Posts] /\ worker'[w] = p
        /\ \A v \in Workers \ {w} : worker'[v] = worker[v]
    BY DEF SearchInvariant, SearchTyped, Search!Become
  <1>2. SearchTyped'
    BY <1>1 DEF SearchInvariant, SearchTyped
  <1>3. ASSUME ~spoiled' PROVE Exclusive' /\ \A v \in Workers : Current(worker[v])'
    <2>1. Exclusive /\ \A v \in Workers : Current(worker[v])
      BY <1>3 DEF SearchInvariant, SearchTyped
    <2>2. Exclusive'
      BY <1>1, <1>3, <2>1 DEF Exclusive
    <2>3. ASSUME NEW v \in Workers PROVE Current(worker[v])'
      BY <1>1, <1>3, <2>1 DEF Current
    <2> QED BY <2>2, <2>3
  <1> QED BY <1>2, <1>3 DEF SearchInvariant

LEMMA TrialMoves ==
    ASSUME SearchInvariant, NEW w \in Workers,
           Search!Start(w) \/ Search!Trial(w) \/ Search!End(w)
    PROVE  SearchInvariant'
  <1>1. /\ worker[w].at # "write" /\ spoiled' = spoiled
        /\ UNCHANGED <<lock, champion, claim, best>> /\ mishaps' = mishaps
    BY DEF Search!Start, Search!Trial, Search!End, Search!At
  <1>2. \E p \in Posts : Search!Become(w, p) /\ p.at \in {"off", "try"}
    <2>1. CASE Search!Start(w) \/ Search!End(w)
      BY <2>1, Resuming, OffIsAPost DEF Search!Start, Search!End
    <2>2. CASE Search!Trial(w)
      <3>1. PICK found \in Search!Verdicts :
               Search!Become(w, [at |-> "try", job |-> "trial", draft |-> found])
        BY <2>2 DEF Search!Trial
      <3>2. [at |-> "try", job |-> "trial", draft |-> found] \in Posts
        BY VerdictsAreSound DEF Posts, Search!Points
      <3> QED BY <3>1, <3>2
    <2> QED BY <2>1, <2>2
  <1> QED BY <1>1, <1>2, SearchMoves
    DEF Current, Holding, SearchInvariant, SearchTyped

-----------------------------------------------------------------------------
\* The lock changes hands: nobody who has it is sent on, unless it is lost.
LEMMA LockMoves ==
    ASSUME SearchInvariant, NEW w \in Workers, NEW p \in Posts,
           Search!Become(w, p), UNCHANGED <<champion, claim, best>>,
           lock' \in [owner : Workers \cup {Search!Nobody, Search!Departed}, old : BOOLEAN],
           spoiled' \in BOOLEAN, spoiled => spoiled', mishaps' \in 0..MaxMishaps,
           ~spoiled' => Current(p),
           ~spoiled' => worker[w].at # "write",
           ~spoiled' => \A v \in Workers \ {w} : lock.owner = v => lock'.owner = v,
           p.at \in Holding => lock'.owner = w
    PROVE  SearchInvariant'
  <1>1. /\ worker' \in [Workers -> Posts] /\ worker'[w] = p
        /\ \A v \in Workers \ {w} : worker'[v] = worker[v]
    BY DEF SearchInvariant, SearchTyped, Search!Become
  <1>2. SearchTyped'
    BY <1>1 DEF SearchInvariant, SearchTyped
  <1>3. ASSUME ~spoiled' PROVE Exclusive' /\ \A v \in Workers : Current(worker[v])'
    <2>1. Exclusive /\ \A v \in Workers : Current(worker[v])
      BY <1>3 DEF SearchInvariant, SearchTyped
    <2>2. Exclusive'
      BY <1>1, <1>3, <2>1 DEF Exclusive
    <2>3. ASSUME NEW v \in Workers PROVE Current(worker[v])'
      BY <1>1, <1>3, <2>1 DEF Current
    <2> QED BY <2>2, <2>3
  <1> QED BY <1>2, <1>3 DEF SearchInvariant

\* Nobody who asks for the lock has it; a lock is made for one owner.
LEMMA LockRecord ==
    ASSUME NEW w \in Workers
    PROVE  /\ [owner |-> w, old |-> FALSE].owner = w
           /\ [owner |-> w, old |-> FALSE]
                 \in [owner : Workers \cup {Search!Nobody, Search!Departed}, old : BOOLEAN]
           /\ Search!Free.owner = Search!Nobody /\ Search!Nobody \notin Workers
           /\ Search!Departed \notin Workers
           /\ Search!Free
                 \in [owner : Workers \cup {Search!Nobody, Search!Departed}, old : BOOLEAN]
  BY SearchAssumption DEF Search!Free, Search!Nobody, Search!Departed

LEMMA AskingMoves ==
    ASSUME SearchInvariant, NEW w \in Workers,
           Search!Acquire(w) \/ Search!Check(w) \/ Search!Unlink(w)
    PROVE  SearchInvariant'
  <1>1. /\ worker[w] \in Posts /\ worker[w].at \in {"try", "check", "unlink"}
        /\ UNCHANGED <<champion, claim, best, mishaps>> /\ mishaps \in 0..MaxMishaps
        /\ spoiled \in BOOLEAN
    BY DEF SearchInvariant, SearchTyped, Search!Acquire, Search!Check, Search!Unlink, Search!At
  <1>2. ASSUME NEW point \in {"try", "check", "unlink", "read"}, Search!Goto(w, point)
        PROVE  \E p \in Posts : Search!Become(w, p) /\ p.at = point
    <2>1. point \in Search!Points
      BY DEF Search!Points
    <2> QED BY <1>1, <1>2, <2>1, Going DEF Search!Goto
  <1>3. CASE lock' = [owner |-> w, old |-> FALSE] /\ lock.owner = Search!Nobody
             /\ Search!Goto(w, "read") /\ UNCHANGED spoiled
    <2>1. PICK p \in Posts : Search!Become(w, p) /\ p.at = "read"
      BY <1>2, <1>3
    <2>2. Current(p) /\ p.at \in Holding
      BY <2>1 DEF Current, Holding
    <2>3. \A v \in Workers \ {w} : lock.owner # v
      BY <1>3, LockRecord
    <2> QED BY <1>1, <1>3, <2>1, <2>2, <2>3, LockRecord, LockMoves
  <1>4. CASE UNCHANGED lock /\ UNCHANGED spoiled
             /\ (Search!Goto(w, "check") \/ Search!Goto(w, "try") \/ Search!Goto(w, "unlink")
                 \/ Search!Become(w, Search!Off))
    <2>1. PICK p \in Posts : Search!Become(w, p) /\ p.at \in {"check", "try", "unlink", "off"}
      BY <1>2, <1>4, OffIsAPost, Resuming
    <2>2. Current(p) /\ p.at \notin Holding
      BY <2>1 DEF Current, Holding
    <2> QED BY <1>1, <1>4, <2>1, <2>2, SearchMoves
  <1>5. CASE Search!Unlink(w)
    <2>1. PICK p \in Posts : Search!Become(w, p) /\ p.at \in {"try", "off"}
      BY <1>2, <1>5, OffIsAPost, Resuming DEF Search!Unlink
    <2>2. Current(p) /\ p.at \notin Holding
      BY <2>1 DEF Current, Holding
    <2>3. lock' = Search!Free /\ spoiled' = (spoiled \/ lock.owner \in Workers \ {w})
      BY <1>5 DEF Search!Unlink, Search!Remove
    <2> QED BY <1>1, <2>1, <2>2, <2>3, LockRecord, LockMoves
  <1> QED BY <1>3, <1>4, <1>5 DEF Search!Acquire, Search!Check

-----------------------------------------------------------------------------
\* Nobody else is in a section, and what is read there is the champion last written.
LEMMA Alone ==
    ASSUME SearchInvariant, ~spoiled, NEW w \in Workers, worker[w].at \in Holding
    PROVE  /\ \A v \in Workers \ {w} : worker[v].at \notin Holding
           /\ worker[w].at # "write" => champion = best
           /\ Current(worker[w]) /\ lock.owner = w
  BY DEF SearchInvariant, Exclusive, Holding

\* A worker leaves its section for the release.
LEMMA LeavingPost ==
    ASSUME NEW job \in {"seed", "trial", "claim", "exit"}
    PROVE  LET p == [at |-> "release", job |-> job, draft |-> Search!Fresh]
           IN  p \in Posts /\ p.at = "release"
  BY Posted, FreshIsSound DEF Search!Points

LEMMA ReadingMoves ==
    ASSUME SearchInvariant, NEW w \in Workers,
           Search!ReadSeed(w) \/ Search!ReadTrial(w) \/ Search!ReadClaim(w) \/ Search!Evaluate(w)
    PROVE  SearchInvariant'
  <1>1. /\ worker[w] \in Posts /\ worker[w].at \in {"read", "evaluate"}
        /\ UNCHANGED <<lock, champion, claim, best, spoiled, mishaps>>
        /\ mishaps \in 0..MaxMishaps /\ spoiled \in BOOLEAN
        /\ champion \in Sound /\ best \in Sound /\ worker[w].draft \in Sound
    BY DEF SearchInvariant, SearchTyped, Search!At, Posts, Search!ReadSeed, Search!ReadTrial,
           Search!ReadClaim, Search!Evaluate
  <1>2. ~spoiled => champion = best /\ Current(worker[w])
    BY <1>1, Alone DEF Holding
  <1>3. ASSUME NEW p \in Posts, Search!Become(w, p), ~spoiled => Current(p)
        PROVE  SearchInvariant'
    BY <1>1, <1>3, SearchMoves DEF Holding
  <1>4. ASSUME NEW job \in {"trial", "exit"}, Search!Leave(w, job)
        PROVE  SearchInvariant'
    <2> DEFINE p == [at |-> "release", job |-> job, draft |-> Search!Fresh]
    <2>1. p \in Posts /\ Search!Become(w, p) /\ p.at = "release"
      BY <1>4, LeavingPost DEF Search!Leave
    <2>2. Current(p)
      BY <2>1 DEF Current
    <2> QED BY <1>3, <2>1, <2>2
  <1>5. CASE Search!ReadSeed(w)
    <2> DEFINE p == [worker[w] EXCEPT !.at = "evaluate", !.draft = champion]
    <2>1. CASE Search!Become(w, p) /\ (champion.score = 0 \/ ~champion.screened)
      <3>1. p \in Posts /\ p.at = "evaluate" /\ p.draft = champion
        BY <1>1 DEF Posts, Search!Points
      <3>2. ~spoiled => Current(p)
        BY <1>2, <2>1, <3>1 DEF Current
      <3> QED BY <1>3, <2>1, <3>1, <3>2
    <2> QED BY <1>4, <1>5, <2>1 DEF Search!ReadSeed
  <1>6. CASE Search!ReadTrial(w)
    <2> DEFINE p == [worker[w] EXCEPT !.at = "truncate", !.job = "seed"]
    <2>1. CASE Search!Become(w, p) /\ Search!MayKeep(worker[w].draft, champion)
      <3>1. p \in Posts /\ p.at = "truncate" /\ p.draft = worker[w].draft
        BY <1>1 DEF Posts, Search!Points
      <3>2. ~spoiled => Current(p)
        BY <1>2, <2>1, <3>1 DEF Current, Search!MayKeep
      <3> QED BY <1>3, <2>1, <3>1, <3>2
    <2> QED BY <1>4, <1>6, <2>1 DEF Search!ReadTrial
  <1>7. CASE Search!ReadClaim(w)
    <2> DEFINE p == [worker[w] EXCEPT !.at = "claim"]
    <2>1. CASE Search!Become(w, p) /\ claim = Search!Nobody
      <3>1. p \in Posts /\ p.at = "claim"
        BY <1>1, Going DEF Search!Points
      <3>2. Current(p)
        BY <2>1, <3>1 DEF Current
      <3> QED BY <1>3, <2>1, <3>1, <3>2
    <2> QED BY <1>4, <1>7, <2>1 DEF Search!ReadClaim, Search!Goto
  <1>8. CASE Search!Evaluate(w)
    <2>1. worker[w].at = "evaluate"
      BY <1>8 DEF Search!Evaluate, Search!At
    <2>2. ~spoiled => best = worker[w].draft
      BY <1>2, <2>1 DEF Current
    <2>3. ASSUME NEW found \in Search!Verdicts, worker[w].draft.score = 0,
                 Search!Become(w, [at |-> "truncate", job |-> "seed", draft |-> found])
          PROVE  SearchInvariant'
      <3> DEFINE p == [at |-> "truncate", job |-> "seed", draft |-> found]
      <3>1. p \in Posts /\ p.at = "truncate" /\ p.draft = found
        BY VerdictsAreSound, Posted DEF Search!Points
      <3>2. Search!Better(found, worker[w].draft)
        BY <1>1, <2>3, VerdictsAreSound, SearchAssumption
        DEF Sound, Search!Champions, Search!Better
      <3>3. ~spoiled => Current(p)
        BY <2>2, <3>1, <3>2 DEF Current
      <3> QED BY <1>3, <2>3, <3>1, <3>3
    <2>4. ASSUME Search!Become(w, [at |-> "truncate", job |-> "trial",
                                   draft |-> [worker[w].draft EXCEPT !.screened = TRUE]])
          PROVE  SearchInvariant'
      <3> DEFINE draft == [worker[w].draft EXCEPT !.screened = TRUE]
                 p == [at |-> "truncate", job |-> "trial", draft |-> draft]
      <3>1. draft \in Sound /\ Search!Better(draft, worker[w].draft)
        <4>1. worker[w].draft \in Search!Champions
          BY <1>1 DEF Sound
        <4>2. /\ draft \in Search!Champions
              /\ draft.ok = worker[w].draft.ok /\ draft.score = worker[w].draft.score
          BY <4>1 DEF Search!Champions
        <4>3. worker[w].draft.score \in Int
          BY <4>1, SearchAssumption DEF Search!Champions
        <4>4. worker[w].draft.ok => worker[w].draft.score > 0
          BY <1>1 DEF Sound
        <4> HIDE DEF draft
        <4>5. Search!Better(draft, worker[w].draft)
          BY <4>2, <4>3 DEF Search!Better
        <4> QED BY <4>2, <4>4, <4>5 DEF Sound
      <3>2. p \in Posts /\ p.at = "truncate" /\ p.draft = draft
        BY <3>1, Posted DEF Search!Points
      <3>3. ~spoiled => Current(p)
        BY <2>2, <3>1, <3>2 DEF Current
      <3> QED BY <1>3, <2>4, <3>2, <3>3
    <2> QED BY <1>8, <2>3, <2>4 DEF Search!Evaluate
  <1> QED BY <1>5, <1>6, <1>7, <1>8

\* A step that ends one worker's section: nobody else's view depends on it.
LEMMA WritingMoves ==
    ASSUME SearchInvariant, NEW w \in Workers, NEW p \in Posts, Search!Become(w, p),
           worker[w].at \in Holding, UNCHANGED <<lock, spoiled>>,
           mishaps' \in 0..MaxMishaps, champion' \in Sound, best' \in Sound,
           claim' \in Workers \cup {Search!Nobody},
           ~spoiled => Current(p)',
           ~spoiled => champion' = best' \/ p.at = "write"
    PROVE  SearchInvariant'
  <1>1. /\ worker' \in [Workers -> Posts] /\ worker'[w] = p
        /\ \A v \in Workers \ {w} : worker'[v] = worker[v]
    BY DEF SearchInvariant, SearchTyped, Search!Become
  <1>2. SearchTyped'
    BY <1>1 DEF SearchInvariant, SearchTyped
  <1>3. ASSUME ~spoiled' PROVE Exclusive' /\ \A v \in Workers : Current(worker[v])'
    <2>1. \A v \in Workers \ {w} : worker'[v].at \notin Holding
      BY <1>1, <1>3, Alone
    <2>2. lock'.owner = w
      BY <1>3, Alone
    <2>3. Exclusive'
      BY <1>1, <1>3, <2>1, <2>2 DEF Exclusive
    <2>4. ASSUME NEW v \in Workers PROVE Current(worker[v])'
      BY <1>1, <1>3, <2>1 DEF Current, Holding
    <2> QED BY <2>3, <2>4
  <1> QED BY <1>2, <1>3 DEF SearchInvariant

LEMMA SectionMoves ==
    ASSUME SearchInvariant, NEW w \in Workers,
           Search!Truncate(w) \/ Search!Write(w) \/ Search!Claim(w)
    PROVE  SearchInvariant'
  <1>1. /\ worker[w] \in Posts /\ worker[w].at \in Holding
        /\ UNCHANGED <<lock, spoiled, mishaps>>
        /\ mishaps \in 0..MaxMishaps /\ spoiled \in BOOLEAN
        /\ champion \in Sound /\ best \in Sound /\ worker[w].draft \in Sound
        /\ claim \in Workers \cup {Search!Nobody}
    BY DEF SearchInvariant, SearchTyped, Search!At, Posts, Holding, Search!Truncate,
           Search!Write, Search!Claim
  <1>2. ~spoiled => Current(worker[w]) /\ (worker[w].at # "write" => champion = best)
    BY <1>1, Alone
  <1>3. CASE Search!Truncate(w)
    <2>1. PICK p \in Posts : /\ p.at = "write" /\ p.draft = worker[w].draft
                             /\ Search!Become(w, p)
      BY <1>1, <1>3, Going DEF Search!Points, Search!Truncate, Search!Goto
    <2>2. /\ champion' = Search!Fresh /\ UNCHANGED <<best, claim>>
          /\ worker[w].at = "truncate"
      BY <1>3 DEF Search!Truncate, Search!At
    <2>3. ~spoiled => Current(p)'
      BY <1>2, <2>1, <2>2 DEF Current
    <2> QED BY <1>1, <2>1, <2>2, <2>3, FreshIsSound, WritingMoves
  <1>4. ASSUME NEW job \in {"claim", "trial", "exit"}, Search!Leave(w, job),
               ~spoiled => champion' = best', champion' \in Sound, best' \in Sound,
               claim' \in Workers \cup {Search!Nobody}
        PROVE  SearchInvariant'
    <2>1. PICK p \in Posts : Search!Become(w, p) /\ p.at = "release"
      BY <1>4, LeavingPost DEF Search!Leave
    <2>2. Current(p)'
      BY <2>1 DEF Current
    <2> QED BY <1>1, <1>4, <2>1, <2>2, WritingMoves
  <1>5. CASE Search!Write(w)
    BY <1>1, <1>4, <1>5 DEF Search!Write
  <1>6. CASE Search!Claim(w)
    <2>1. worker[w].at = "claim"
      BY <1>6 DEF Search!Claim, Search!At
    <2> QED BY <1>1, <1>2, <1>4, <1>6, <2>1 DEF Search!Claim
  <1> QED BY <1>3, <1>5, <1>6

LEMMA EndingMoves ==
    ASSUME SearchInvariant, NEW w \in Workers, Search!Release(w) \/ Search!Drop(w)
    PROVE  SearchInvariant'
  <1>1. /\ worker[w] \in Posts /\ worker[w].at \in {"release", "drop"}
        /\ UNCHANGED <<champion, claim, best, mishaps>> /\ mishaps \in 0..MaxMishaps
        /\ spoiled \in BOOLEAN
    BY DEF SearchInvariant, SearchTyped, Search!At, Search!Release, Search!Drop
  <1>2. ASSUME Search!AfterSection(w)
        PROVE  \E p \in Posts : Search!Become(w, p) /\ p.at \in {"try", "off", "idle"}
    BY <1>2, Resuming, OffIsAPost DEF Search!AfterSection
  <1>3. CASE Search!Release(w)
    <2>1. PICK p \in Posts : Search!Become(w, p) /\ p.at \in {"try", "off", "idle", "drop"}
      <3>1. CASE Search!AfterSection(w)
        BY <1>2, <3>1
      <3>2. CASE Search!Goto(w, "drop")
        BY <1>1, <3>2, Going DEF Search!Goto, Search!Points
      <3> QED BY <1>3, <3>1, <3>2 DEF Search!Release
    <2>2. Current(p)
      BY <2>1 DEF Current
    <2>3. UNCHANGED lock /\ UNCHANGED spoiled
      BY <1>3 DEF Search!Release
    <2> QED BY <1>1, <2>1, <2>2, <2>3, SearchMoves DEF Holding
  <1>4. CASE Search!Drop(w)
    <2>1. PICK p \in Posts : Search!Become(w, p) /\ p.at \in {"try", "off", "idle"}
      BY <1>2, <1>4 DEF Search!Drop
    <2>2. Current(p) /\ p.at \notin Holding
      BY <2>1 DEF Current, Holding
    <2>3. lock' = Search!Free /\ spoiled' = (spoiled \/ lock.owner \in Workers \ {w})
      BY <1>4 DEF Search!Drop, Search!Remove
    <2> QED BY <1>1, <2>1, <2>2, <2>3, LockRecord, LockMoves
  <1> QED BY <1>3, <1>4

LEMMA FailingMoves ==
    ASSUME SearchInvariant, NEW w \in Workers, Search!Throw(w) \/ Search!Crash(w)
    PROVE  SearchInvariant'
  <1>1. /\ worker[w] \in Posts /\ UNCHANGED <<champion, claim, best>>
        /\ spoiled' = (spoiled \/ worker[w].at = "write") /\ spoiled' \in BOOLEAN
    BY DEF SearchInvariant, SearchTyped, Search!At, Search!Throw, Search!Crash
  <1>2. mishaps' \in 0..MaxMishaps
    BY SearchAssumption
    DEF SearchInvariant, SearchTyped, Search!Throw, Search!Crash, Search!Mishap
  <1>3. CASE Search!Throw(w)
    <2>1. PICK p \in Posts : Search!Become(w, p) /\ p.at = "release"
      BY <1>3, LeavingPost DEF Search!Throw, Search!Leave
    <2>2. Current(p)
      BY <2>1 DEF Current
    <2>3. UNCHANGED lock /\ worker[w].at \in Holding
      BY <1>3 DEF Search!Throw, Holding
    <2> QED BY <1>1, <1>2, <2>1, <2>2, <2>3, SearchMoves
  <1>4. CASE Search!Crash(w)
    <2>1. PICK p \in Posts : Search!Become(w, p) /\ p.at = "off"
      BY <1>4, OffIsAPost, Resuming DEF Search!Crash
    <2>2. Current(p) /\ p.at \notin Holding
      BY <2>1 DEF Current, Holding
    <2>3. lock' = IF lock.owner = w THEN [lock EXCEPT !.owner = Search!Departed] ELSE lock
      BY <1>4 DEF Search!Crash
    <2>4. /\ lock' \in [owner : Workers \cup {Search!Nobody, Search!Departed}, old : BOOLEAN]
          /\ \A v \in Workers \ {w} : lock.owner = v => lock'.owner = v
      BY <2>3 DEF SearchInvariant, SearchTyped
    <2> QED BY <1>1, <1>2, <2>1, <2>2, <2>4, LockMoves
  <1> QED BY <1>3, <1>4

\* A lock that is old is no other lock.
LEMMA AgingMoves ==
    ASSUME SearchInvariant, Search!Age \/ Search!HoldUp \/ UNCHANGED Search!vars
    PROVE  SearchInvariant'
  <1>1. UNCHANGED <<champion, claim, worker, best, spoiled>>
    BY DEF Search!Age, Search!HoldUp, Search!vars
  <1>2. mishaps' \in 0..MaxMishaps
    BY SearchAssumption
    DEF SearchInvariant, SearchTyped, Search!Age, Search!HoldUp, Search!Mishap, Search!vars
  <1>3. /\ lock' \in [owner : Workers \cup {Search!Nobody, Search!Departed}, old : BOOLEAN]
        /\ lock'.owner = lock.owner
    <2>1. lock' = lock \/ lock' = [lock EXCEPT !.old = TRUE]
      BY DEF Search!Age, Search!HoldUp, Search!Aging, Search!vars
    <2> QED BY <2>1 DEF SearchInvariant, SearchTyped
  <1> QED
    BY <1>1, <1>2, <1>3 DEF SearchInvariant, SearchTyped, Exclusive, Current

LEMMA SearchKeeps == SearchInvariant /\ [Search!Next]_(Search!vars) => SearchInvariant'
  BY TrialMoves, AskingMoves, ReadingMoves, SectionMoves, EndingMoves, FailingMoves, AgingMoves
  DEF Search!Next, Search!Move

-----------------------------------------------------------------------------
\* Of the steps of the search one replaces the champion last written ...
LEMMA BestIsReplaced ==
    ASSUME Search!Next, best' # best
    PROVE  \E w \in Workers : Search!Write(w)
  BY DEF Search!Next, Search!Move, Search!Age, Search!HoldUp, Search!Throw, Search!Crash,
         Search!Start, Search!Trial, Search!End, Search!Acquire, Search!Check, Search!Unlink,
         Search!Release, Search!Drop, Search!ReadSeed, Search!Evaluate, Search!ReadTrial,
         Search!Truncate, Search!ReadClaim, Search!Claim

\* ... and one the claim.
LEMMA ClaimIsMade ==
    ASSUME Search!Next, claim' # claim
    PROVE  \E w \in Workers : Search!Claim(w)
  BY DEF Search!Next, Search!Move, Search!Age, Search!HoldUp, Search!Throw, Search!Crash,
         Search!Start, Search!Trial, Search!End, Search!Acquire, Search!Check, Search!Unlink,
         Search!Release, Search!Drop, Search!ReadSeed, Search!Evaluate, Search!ReadTrial,
         Search!Truncate, Search!ReadClaim, Search!Write

LEMMA SearchImproves ==
    ASSUME SearchInvariant, [Search!Next]_(Search!vars), ~spoiled'
    PROVE  Search!Better(best', best)
  <1>1. best \in Sound
    BY DEF SearchInvariant, SearchTyped
  <1>2. CASE best' = best
    <2>1. best.score \in Int
      BY <1>1, SearchAssumption DEF Sound, Search!Champions
    <2> QED BY <1>2, <2>1 DEF Search!Better
  <1>3. CASE best' # best
    <2>1. PICK w \in Workers : Search!Write(w)
      BY <1>3, BestIsReplaced DEF Search!vars
    <2>2. ~spoiled /\ worker[w].at = "write" /\ best' = worker[w].draft
      BY <2>1 DEF Search!Write, Search!At
    <2> QED BY <2>2 DEF SearchInvariant, Current
  <1> QED BY <1>2, <1>3

LEMMA SearchClaims ==
    ASSUME SearchInvariant, [Search!Next]_(Search!vars), ~spoiled', claim # Search!Nobody
    PROVE  claim' = claim
  <1> SUFFICES ASSUME claim' # claim PROVE FALSE
    OBVIOUS
  <1>1. PICK w \in Workers : Search!Claim(w)
    BY ClaimIsMade DEF Search!vars
  <1>2. ~spoiled /\ worker[w].at = "claim"
    BY <1>1 DEF Search!Claim, Search!At
  <1> QED BY <1>2 DEF SearchInvariant, Current

-----------------------------------------------------------------------------
(* The three beside each other.                                            *)

\* Each part of a behaviour of the three behaves as on its own.
LEMMA PartsOfTheRuntime ==
    RuntimeSpec => Spec /\ Limiter!Spec /\ Search!Spec
  <1>1. RuntimeInit => Init /\ Limiter!Init /\ Search!Init
    BY DEF RuntimeInit
  <1>2. [RuntimeNext]_RuntimeVars
           => [Next]_vars /\ [Limiter!Next]_(Limiter!vars) /\ [Search!Next]_(Search!vars)
    BY DEF RuntimeNext, RuntimeVars, limiterVars, searchVars, Limiter!vars, Search!vars
  <1> QED BY <1>1, <1>2, PTL DEF RuntimeSpec, Spec, Limiter!Spec, Search!Spec

LEMMA LimiterAlways == RuntimeSpec => []LimiterInvariant
  BY PartsOfTheRuntime, LimiterStarts, LimiterKeeps, PTL DEF Limiter!Spec

LEMMA SearchAlways == RuntimeSpec => []SearchInvariant
  BY PartsOfTheRuntime, SearchStarts, SearchKeeps, PTL DEF Search!Spec

\* The champion of the knob search only improves (ChampionOnlyImproves).
THEOREM Improving == RuntimeSpec => ChampionOnlyImproves
  <1>1. SearchInvariant /\ [Search!Next]_(Search!vars)
           => [~spoiled' => Search!Better(best', best)]_(Search!vars)
    BY SearchImproves
  <1> QED
    BY <1>1, PartsOfTheRuntime, SearchAlways, PTL
    DEF ChampionOnlyImproves, Search!ChampionOnlyImproves, Search!Spec

\* While no living worker was robbed of its lock or cut off in a write, never
\* two are between acquiring and releasing the research lock, however many run,
\* die and reclaim a dead one's (Exclusive; withFileLock, acquireLockOnce).
THEOREM Excluding ==
    RuntimeSpec => [](~spoiled => \A v, w \in Workers :
                        worker[v].at \in Holding /\ worker[w].at \in Holding => v = w)
  <1>1. SearchInvariant
           => (~spoiled => \A v, w \in Workers :
                        worker[v].at \in Holding /\ worker[w].at \in Holding => v = w)
    BY Alone
  <1> QED BY <1>1, SearchAlways, PTL

\* A claim of the knob search is written once (ClaimStands).
THEOREM Claiming == RuntimeSpec => ClaimStands
  <1>1. SearchInvariant /\ [Search!Next]_(Search!vars)
           => [claim # Search!Nobody /\ ~spoiled' => claim' = claim]_(Search!vars)
    BY SearchClaims
  <1> QED
    BY <1>1, PartsOfTheRuntime, SearchAlways, PTL
    DEF ClaimStands, Search!ClaimStands, Search!Spec

\* However many fibers wake up together and however the clock is set, no
\* window sees more than the small bucket and its refill (BurstBounded).
THEOREM Bursts == RuntimeSpec => []BurstBounded
  <1>1. LimiterInvariant => BurstBounded
    BY DEF LimiterInvariant, Windows, BurstBounded, Limiter!BurstBounded
  <1> QED BY <1>1, LimiterAlways, PTL

\* Shares stay percentages, the portfolio's sum a capital, the buckets within
\* what the clock was set by, and workers and lock among theirs (RuntimeTypeOK).
THEOREM RuntimeTypes == RuntimeSpec => []RuntimeTypeOK
  <1>1. Spec => []TypeOK
    BY SweepStartsTyped, SweepTyped, PTL DEF Spec
  <1>2. LimiterInvariant => Limiter!TypeOK
    BY DEF LimiterInvariant
  <1>3. SearchInvariant => Search!TypeOK
    BY SearchTypeFollows DEF SearchInvariant
  <1>4. TypeOK /\ Limiter!TypeOK /\ Search!TypeOK => RuntimeTypeOK
    BY DEF RuntimeTypeOK
  <1> QED
    BY <1>1, <1>2, <1>3, <1>4, PartsOfTheRuntime, LimiterAlways, SearchAlways, PTL
=============================================================================
