----------------------------- MODULE LadderProofs -----------------------------
(* Proofs about Ladder.                                                      *)
EXTENDS Ladder, FiniteSetTheorems, SequenceTheorems, TLAPS

LEMMA BatchFacts == Batch \in Nat /\ Batch >= 1 /\ Batch >= N
<1>1. \A n \in Nat, m \in Nat : n * m \in Nat /\ n * (m + 1) = n * m + n
  OBVIOUS
<1>2. /\ N \in Nat /\ N >= 1 /\ MaxBars - 1 \in Nat /\ MaxBars = (MaxBars - 1) + 1
  BY NAssumption, MaxBarsAssumption
<1> DEFINE m == MaxBars - 1
<1> HIDE DEF m
<1>3. N * m \in Nat /\ Batch = N * m + N BY <1>1, <1>2 DEF Batch, m
<1> QED BY <1>2, <1>3

\* The entries of the bars of an iteration are within its batch.
LEMMA BatchCovers ==
    ASSUME NEW d \in 0..MaxBars
    PROVE  /\ N * d \in Nat /\ N * d <= Batch
           /\ N * (d + 1) = N * d + N
<1>1. \A n \in Nat, i \in Nat, j \in Nat :
        n * i \in Nat /\ n * (i + j) = n * i + n * j /\ n * 1 = n
  OBVIOUS
<1>2. N \in Nat /\ d \in Nat /\ MaxBars - d \in Nat /\ d + (MaxBars - d) = MaxBars
  BY NAssumption, MaxBarsAssumption
<1>3. N * d \in Nat /\ N * (d + 1) = N * d + N BY <1>1, <1>2
<1> DEFINE j == MaxBars - d a == N * d b == N * j
<1>4. a \in Nat /\ b \in Nat /\ Batch = a + b
  <2> HIDE DEF j
  <2>1. N * (d + j) = N * d + N * j /\ N * d \in Nat /\ N * j \in Nat BY <1>1, <1>2 DEF j
  <2>2. d + j = MaxBars BY <1>2 DEF j
  <2> QED BY <2>1, <2>2 DEF Batch
<1> HIDE DEF j, a, b
<1>5. a <= Batch BY <1>4
<1> QED BY <1>3, <1>5 DEF a

\* One more fault buys one more batch.
LEMMA BatchGrows ==
    ASSUME NEW f \in Nat
    PROVE  /\ Batch * f \in Nat /\ Batch * f >= f
           /\ Batch * (f + 1) = Batch * f + Batch
<1> DEFINE b == Batch
<1>1. b \in Nat /\ b >= 1 BY BatchFacts
<1> HIDE DEF b
<1>2. b * f \in Nat /\ b * (f + 1) = b * f + b /\ b * f >= f BY <1>1
<1> QED BY <1>2 DEF b

LEMMA BatchMonotone ==
    ASSUME NEW f \in Nat, NEW g \in Nat, NEW h \in Nat, f <= g
    PROVE  Batch * (h + f) <= Batch * (h + g)
<1> DEFINE b == Batch
<1>1. b \in Nat /\ b >= 1 BY BatchFacts
<1> HIDE DEF b
<1>2. b * (h + f) <= b * (h + g) BY <1>1
<1> QED BY <1>2 DEF b

-----------------------------------------------------------------------------
(* One bar.                                                                *)

LEMMA LevelsFacts == IsFiniteSet(Levels) /\ Cardinality(Levels) = N
<1>1. 1 \in Int /\ N \in Int /\ ~(1 > N) /\ N - 1 + 1 = N BY NAssumption
<1> QED BY <1>1, FS_Interval, Zenon DEF Levels

LEMMA RungsIntro ==
    ASSUME NEW S \in SUBSET Levels, NEW f \in [S -> Ages \cup {Armed}]
    PROVE  f \in Rungs
<1> QED BY Zenon DEF Rungs

LEMMA RungsFacts ==
    ASSUME NEW x \in Rungs
    PROVE  /\ DOMAIN x \subseteq Levels /\ x \in [DOMAIN x -> Ages \cup {Armed}]
           /\ Open(x) \subseteq DOMAIN x /\ IsFiniteSet(Open(x)) /\ Count(x) \in 0..N
<1>1. PICK S \in SUBSET Levels : x \in [S -> Ages \cup {Armed}] BY Zenon DEF Rungs
<1>2. DOMAIN x = S BY <1>1
<1>3. Open(x) \subseteq S BY <1>2 DEF Open
<1>4. Open(x) \in SUBSET Levels BY <1>3
<1>5. IsFiniteSet(Open(x)) /\ Cardinality(Open(x)) <= N
  BY <1>4, LevelsFacts, FS_Subset
<1>6. Cardinality(Open(x)) \in Nat BY <1>5, FS_CardinalityType
<1> QED BY <1>1, <1>2, <1>3, <1>5, <1>6, NAssumption DEF Count

LEMMA ArmedFacts == \A a \in Ages : a # Armed
<1> QED BY MaxBarsAssumption DEF Ages, Armed

\* A finite set and its subset.
LEMMA SplitCount ==
    ASSUME NEW S, IsFiniteSet(S), NEW T, T \subseteq S
    PROVE  /\ Cardinality(S \ T) \in Nat /\ Cardinality(T) \in Nat
           /\ Cardinality(S \ T) + Cardinality(T) = Cardinality(S)
<1>1. IsFiniteSet(T) /\ IsFiniteSet(S \ T)
  BY FS_Subset
<1>2. (S \ T) \cup T = S /\ (S \ T) \cap T = {} OBVIOUS
<1>3. Cardinality((S \ T) \cup T)
        = Cardinality(S \ T) + Cardinality(T) - Cardinality((S \ T) \cap T)
  BY <1>1, FS_Union, Zenon
<1>4. Cardinality((S \ T) \cap T) = 0 BY <1>2, FS_EmptySet
<1>5. Cardinality(S \ T) \in Nat /\ Cardinality(T) \in Nat
  BY <1>1, FS_CardinalityType
<1>6. Cardinality(S) = Cardinality(S \ T) + Cardinality(T) - 0
  BY <1>2, <1>3, <1>4, Zenon
<1> QED BY <1>5, <1>6

\* Closing rungs of a side accounts for every one of them.
LEMMA CloseFacts ==
    ASSUME NEW x \in Rungs, NEW closed, closed \subseteq Open(x),
           NEW kept, kept \subseteq DOMAIN x,
           Open(x) \subseteq closed \/ Open(x) \subseteq kept
    PROVE  LET e == Close(x, closed, kept) IN
           /\ e.rungs \in Rungs /\ e.closed \in Nat
           /\ Count(e.rungs) + e.closed = Count(x)
<1> DEFINE left == IF Open(x) \subseteq closed THEN {} ELSE kept \ closed
           y == [r \in left |-> x[r]]
<1>1. /\ DOMAIN x \subseteq Levels /\ x \in [DOMAIN x -> Ages \cup {Armed}]
      /\ Open(x) \subseteq DOMAIN x /\ IsFiniteSet(Open(x))
  BY RungsFacts
<1>2. left \subseteq DOMAIN x OBVIOUS
<1>3. Open(x) \cap left = Open(x) \ closed OBVIOUS
<1> HIDE DEF left
<1>4. left \in SUBSET Levels /\ y \in [left -> Ages \cup {Armed}] BY <1>1, <1>2
<1>5. y \in Rungs BY <1>4, RungsIntro
<1>6. Open(y) = Open(x) \cap left BY <1>2 DEF Open
<1>7. Close(x, closed, kept) = [rungs |-> y, closed |-> Cardinality(closed)]
  BY DEF Close, left
<1> HIDE DEF y
<1>8. Count(y) = Cardinality(Open(x) \ closed) BY <1>3, <1>6 DEF Count
<1>9. /\ Cardinality(closed) \in Nat
      /\ Cardinality(Open(x) \ closed) + Cardinality(closed) = Count(x)
  BY <1>1, SplitCount DEF Count
<1> QED BY <1>5, <1>7, <1>8, <1>9

LEMMA FillFacts ==
    ASSUME NEW x \in Rungs, NEW touch, NEW age \in Ages
    PROVE  LET y == Fill(x, touch, age) IN
           /\ y \in Rungs /\ Open(x) \subseteq Open(y)
           /\ Cardinality(Open(y) \ Open(x)) \in 0..N
           /\ Count(y) = Count(x) + Cardinality(Open(y) \ Open(x))
<1> DEFINE y == Fill(x, touch, age) n == Cardinality(Open(y) \ Open(x))
<1>1. DOMAIN x \subseteq Levels /\ x \in [DOMAIN x -> Ages \cup {Armed}]
  BY RungsFacts
<1>2. y \in [DOMAIN x -> Ages \cup {Armed}] BY <1>1 DEF Fill
<1>3. y \in Rungs BY <1>1, <1>2, RungsIntro
<1>4. Open(x) \subseteq Open(y) BY ArmedFacts DEF Fill, Open
<1> HIDE DEF y
<1>5. IsFiniteSet(Open(y)) /\ Count(y) \in 0..N BY <1>3, RungsFacts
<1>6. /\ n \in Nat /\ Cardinality(Open(x)) \in Nat
      /\ n + Cardinality(Open(x)) = Cardinality(Open(y))
  BY <1>4, <1>5, SplitCount
<1>7. n \in 0..N /\ Count(y) = Count(x) + n
  <2> HIDE DEF n
  <2> QED BY <1>5, <1>6, NAssumption DEF Count
<1> QED BY <1>3, <1>4, <1>7 DEF y

\* Whatever ends the rungs, an exit accounts for every one of them.
LEMMA ExitFacts ==
    ASSUME NEW x \in Rungs, NEW s, NEW bar, NEW older, older \subseteq Open(x),
           NEW dd, NEW age
    PROVE  LET e == Exit(x, s, bar, older, dd, age) IN
           /\ e.rungs \in Rungs /\ e.closed \in Nat
           /\ Count(e.rungs) + e.closed = Count(x)
<1> DEFINE killed == Killed(x, bar.kill[s])
           finished == Finished(x, older, bar.target[s], bar.expire[s], age)
           e == Exit(x, s, bar, older, dd, age)
<1>1. Open(x) \subseteq DOMAIN x /\ Count(x) \in Nat BY RungsFacts, NAssumption
<1>2. killed \subseteq Open(x) /\ finished \subseteq Open(x)
  BY DEF Killed, Finished
<1>3. \/ e = [rungs |-> x, closed |-> 0]
      \/ e = Close(x, Open(x), {})
      \/ e = Close(x, killed, Open(x))
      \/ e = Close(x, finished, DOMAIN x)
  BY Zenon DEF Exit
<1> HIDE DEF e, killed, finished
<1>4. CASE e = [rungs |-> x, closed |-> 0] BY <1>1, <1>4 DEF e
<1>5. CASE e = Close(x, Open(x), {}) BY <1>1, <1>5, CloseFacts DEF e
<1>6. CASE e = Close(x, killed, Open(x)) BY <1>1, <1>2, <1>6, CloseFacts DEF e
<1>7. CASE e = Close(x, finished, DOMAIN x) BY <1>1, <1>2, <1>7, CloseFacts DEF e
<1> QED BY <1>3, <1>4, <1>5, <1>6, <1>7

\* Managing a side accounts for every rung: those open before and those filled
\* are open afterwards or closed.
LEMMA ManageFacts ==
    ASSUME NEW l \in Ledgers, NEW s \in Sides, NEW bar \in BarFacts, NEW age \in Ages
    PROVE  LET m == Manage(l, s, bar, age) IN
           /\ m.side \in Rungs /\ m.filled \in 0..N /\ m.closed \in Nat
           /\ Count(m.side) + m.closed = Count(l.side[s]) + m.filled
           /\ m.paused \in 0..Pause /\ m.dd \in BOOLEAN
<1> DEFINE x == l.side[s]
           y == Fill(x, bar.touch[s], age)
           n == Cardinality(Open(y) \ Open(x))
           e == Exit(y, s, bar, Open(x), l.dd, age)
           paused == IF Pauses(y, s, bar) THEN Pause ELSE l.paused
           dd == IF e.closed > 0 THEN bar.loss ELSE l.dd
<1>1. x \in Rungs BY DEF Ledgers
<1>2. y \in Rungs /\ Open(x) \subseteq Open(y) /\ n \in 0..N /\ Count(y) = Count(x) + n
  <2> HIDE DEF x
  <2> QED BY <1>1, FillFacts
<1>3. e.rungs \in Rungs /\ e.closed \in Nat /\ Count(e.rungs) + e.closed = Count(y)
  <2> HIDE DEF y, x
  <2> QED BY <1>2, ExitFacts
<1>4. Manage(l, s, bar, age) = [side |-> e.rungs, filled |-> n, closed |-> e.closed,
                               paused |-> paused, dd |-> dd]
  BY DEF Manage
<1>5. l.paused \in 0..Pause /\ l.dd \in BOOLEAN /\ bar.loss \in BOOLEAN /\ Pause \in 0..Pause
  BY PauseAssumption DEF Ledgers, BarFacts
<1> HIDE DEF e, y, n
<1>6. paused \in 0..Pause /\ dd \in BOOLEAN BY <1>5, Zenon
<1> HIDE DEF x, paused, dd
<1> QED BY <1>2, <1>3, <1>4, <1>6 DEF x

\* Re-anchoring and seeding leave the open rungs alone.
LEMMA SeededFacts ==
    ASSUME NEW l \in Ledgers, NEW bar \in BarFacts
    PROVE  /\ Seeded(l, bar) \in Ledgers
           /\ \A s \in Sides : Count(Seeded(l, bar).side[s]) = Count(l.side[s])
<1> DEFINE again == Flat(l) /\ l.dd
           dd == l.dd /\ ~again
           paused == IF again THEN Most(l.paused, Pause) ELSE l.paused
           side == [s \in Sides |-> Seed(l.side[s], bar.gate[s] /\ ~dd)]
<1>1. Seeded(l, bar) = [side |-> side, paused |-> paused, dd |-> dd]
  BY DEF Seeded
<1>2. paused \in 0..Pause
  <2>1. l.paused \in 0..Pause /\ Pause \in Nat
    BY PauseAssumption DEF Ledgers
  <2>2. Most(l.paused, Pause) \in 0..Pause BY <2>1 DEF Most
  <2> QED BY <2>1, <2>2, Zenon
<1>3. dd \in BOOLEAN BY Zenon DEF Ledgers
<1>4. ASSUME NEW s \in Sides
      PROVE  side[s] \in Rungs /\ Count(side[s]) = Count(l.side[s])
  <2>1. l.side[s] \in Rungs BY DEF Ledgers
  <2>2. ASSUME NEW allowed, NEW x \in Rungs
        PROVE  LET y == Seed(x, allowed) IN y \in Rungs /\ Count(y) = Count(x)
    <3>1. CASE Open(x) # {} BY <3>1 DEF Seed
    <3>2. CASE Open(x) = {}
      <4> DEFINE S == IF allowed THEN Levels ELSE {}
                 y == [r \in S |-> Armed]
      <4>1. S \in SUBSET Levels /\ y \in [S -> Ages \cup {Armed}] OBVIOUS
      <4>2. Seed(x, allowed) = y BY <3>2 DEF Seed
      <4>3. Open(y) = {} BY DEF Open
      <4> HIDE DEF y, S
      <4> QED BY <3>2, <4>1, <4>2, <4>3, RungsIntro DEF Count
    <3> QED BY <3>1, <3>2
  <2>3. side[s] = Seed(l.side[s], bar.gate[s] /\ ~dd) OBVIOUS
  <2> HIDE DEF side
  <2> QED BY <2>1, <2>2, <2>3
<1> HIDE DEF side, paused, dd
<1>5. side \in [Sides -> Rungs] BY <1>4 DEF side
<1> QED BY <1>1, <1>2, <1>3, <1>4, <1>5 DEF Ledgers

LEMMA ThenFacts ==
    ASSUME NEW l \in Ledgers, NEW m, m.paused \in 0..Pause, m.dd \in BOOLEAN
    PROVE  Then(l, m) \in Ledgers /\ Then(l, m).side = l.side
<1> QED BY DEF Then, Ledgers

\* Advancing over a bar: the rungs filled and those closed account for the
\* open ones, and no bar fills more than N of a side.
LEMMA AdvanceFacts ==
    ASSUME TypeOK, done < Len(bars), Advance
    PROVE  /\ w' \in Ledgers
           /\ fills' \in [Sides -> Nat] /\ closes' \in [Sides -> Nat]
           /\ \A s \in Sides : \E n \in 0..N, c \in Nat :
                 /\ fills'[s] = fills[s] + n /\ closes'[s] = closes[s] + c
                 /\ Count(w'.side[s]) + c = Count(w.side[s]) + n
<1>1. CASE w.paused > 0 /\ w' = [w EXCEPT !.paused = w.paused - 1] /\ UNCHANGED <<fills, closes>>
  <2>1. w.paused - 1 \in 0..Pause BY <1>1, PauseAssumption DEF TypeOK, Ledgers
  <2>2. w' \in Ledgers /\ w'.side = w.side
    BY <1>1, <2>1 DEF Ledgers, TypeOK
  <2>3. ASSUME NEW s \in Sides
        PROVE  /\ fills'[s] = fills[s] + 0 /\ closes'[s] = closes[s] + 0
               /\ Count(w'.side[s]) + 0 = Count(w.side[s]) + 0
    BY <1>1, <2>2 DEF TypeOK
  <2>4. 0 \in 0..N BY NAssumption
  <2> QED BY <1>1, <2>2, <2>3, <2>4 DEF TypeOK
<1>4. CASE UNCHANGED <<w, fills, closes>>
  <2>1. ASSUME NEW s \in Sides
        PROVE  /\ fills'[s] = fills[s] + 0 /\ closes'[s] = closes[s] + 0
               /\ Count(w'.side[s]) + 0 = Count(w.side[s]) + 0
    BY <1>4 DEF TypeOK
  <2>2. 0 \in 0..N BY NAssumption
  <2> QED BY <1>4, <2>1, <2>2 DEF TypeOK
<1>2. ASSUME NEW l, l = Seeded(w, bars[done + 1]),
             NEW a, a = Manage(l, "long", bars[done + 1], Len(bars) - (done + 1)),
             NEW b, b = Manage(Then(l, a), "short", bars[done + 1], Len(bars) - (done + 1)),
             w' = [side |-> PerSide(a.side, b.side), paused |-> b.paused, dd |-> b.dd],
             fills' = PerSide(fills["long"] + a.filled, fills["short"] + b.filled),
             closes' = PerSide(closes["long"] + a.closed, closes["short"] + b.closed)
      PROVE  /\ w' \in Ledgers
             /\ fills' \in [Sides -> Nat] /\ closes' \in [Sides -> Nat]
             /\ \A s \in Sides : \E n \in 0..N, c \in Nat :
                   /\ fills'[s] = fills[s] + n /\ closes'[s] = closes[s] + c
                   /\ Count(w'.side[s]) + c = Count(w.side[s]) + n
  <2>1. bars[done + 1] \in BarFacts /\ w \in Ledgers BY BarsAssumption DEF TypeOK
  <2>a. Len(bars) - (done + 1) \in Ages BY MaxBarsAssumption DEF TypeOK, Ages
  <2>2. l \in Ledgers /\ \A s \in Sides : Count(l.side[s]) = Count(w.side[s])
    BY <1>2, <2>1, SeededFacts
  <2>3. "long" \in Sides /\ "short" \in Sides /\ "long" # "short" BY DEF Sides
  <2>4. /\ a.side \in Rungs /\ a.filled \in 0..N /\ a.closed \in Nat
        /\ Count(a.side) + a.closed = Count(l.side["long"]) + a.filled
        /\ a.paused \in 0..Pause /\ a.dd \in BOOLEAN
    BY <1>2, <2>1, <2>a, <2>2, <2>3, ManageFacts
  <2>5. Then(l, a) \in Ledgers /\ Then(l, a).side = l.side BY <2>2, <2>4, ThenFacts
  <2>6. /\ b.side \in Rungs /\ b.filled \in 0..N /\ b.closed \in Nat
        /\ Count(b.side) + b.closed = Count(l.side["short"]) + b.filled
        /\ b.paused \in 0..Pause /\ b.dd \in BOOLEAN
    <3>1. LET m == Manage(Then(l, a), "short", bars[done + 1], Len(bars) - (done + 1)) IN
          /\ m.side \in Rungs /\ m.filled \in 0..N /\ m.closed \in Nat
          /\ Count(m.side) + m.closed = Count(Then(l, a).side["short"]) + m.filled
          /\ m.paused \in 0..Pause /\ m.dd \in BOOLEAN
      BY <2>1, <2>a, <2>3, <2>5, ManageFacts
    <3> QED BY <1>2, <2>5, <3>1
  <2>7. /\ w'.side = PerSide(a.side, b.side) /\ w'.paused = b.paused
        /\ w' \in Ledgers
    <3>1. PerSide(a.side, b.side) \in [Sides -> Rungs]
      BY <2>3, <2>4, <2>6 DEF PerSide
    <3> QED BY <1>2, <2>6, <3>1 DEF Ledgers
  <2>8. /\ fills["long"] \in Nat /\ fills["short"] \in Nat
        /\ closes["long"] \in Nat /\ closes["short"] \in Nat
    BY <2>3 DEF TypeOK
  <2>9. fills' \in [Sides -> Nat] /\ closes' \in [Sides -> Nat]
    <3>1. /\ fills["long"] + a.filled \in Nat /\ fills["short"] + b.filled \in Nat
          /\ closes["long"] + a.closed \in Nat /\ closes["short"] + b.closed \in Nat
      <4>1. a.filled \in 0..N /\ b.filled \in 0..N /\ a.closed \in Nat /\ b.closed \in Nat
        BY <2>4, <2>6
      <4>2. \A n \in 0..N : n \in Nat BY NAssumption
      <4>3. a.filled \in Nat /\ b.filled \in Nat BY <4>1, <4>2, Zenon
      <4>4. \A x \in Nat, y \in Nat : x + y \in Nat OBVIOUS
      <4> QED BY <2>8, <4>1, <4>3, <4>4, Zenon
    <3>2. \A x \in Nat, y \in Nat : PerSide(x, y) \in [Sides -> Nat]
      BY DEF PerSide
    <3> QED BY <1>2, <3>1, <3>2
  <2>10. ASSUME NEW s \in Sides
         PROVE  \E n \in 0..N, c \in Nat :
                   /\ fills'[s] = fills[s] + n /\ closes'[s] = closes[s] + c
                   /\ Count(w'.side[s]) + c = Count(w.side[s]) + n
    <3>1. CASE s = "long"
      <4>1. /\ fills'[s] = fills[s] + a.filled /\ closes'[s] = closes[s] + a.closed
            /\ Count(w'.side[s]) + a.closed = Count(w.side[s]) + a.filled
        BY <1>2, <2>2, <2>3, <2>4, <2>7, <3>1 DEF PerSide
      <4> QED BY <2>4, <4>1
    <3>2. CASE s = "short"
      <4>1. /\ fills'[s] = fills[s] + b.filled /\ closes'[s] = closes[s] + b.closed
            /\ Count(w'.side[s]) + b.closed = Count(w.side[s]) + b.filled
        BY <1>2, <2>2, <2>3, <2>6, <2>7, <3>2 DEF PerSide
      <4> QED BY <2>6, <4>1
    <3> QED BY <3>1, <3>2 DEF Sides
  <2> QED BY <2>7, <2>9, <2>10
<1>3. CASE \E l \in {Seeded(w, bars[done + 1])} :
           \E a \in {Manage(l, "long", bars[done + 1], Len(bars) - (done + 1))} :
           \E b \in {Manage(Then(l, a), "short", bars[done + 1], Len(bars) - (done + 1))} :
              /\ w' = [side |-> PerSide(a.side, b.side),
                       paused |-> b.paused, dd |-> b.dd]
              /\ fills' = PerSide(fills["long"] + a.filled, fills["short"] + b.filled)
              /\ closes' = PerSide(closes["long"] + a.closed, closes["short"] + b.closed)
  <2>1. PICK l \in {Seeded(w, bars[done + 1])} :
           \E a \in {Manage(l, "long", bars[done + 1], Len(bars) - (done + 1))} :
           \E b \in {Manage(Then(l, a), "short", bars[done + 1], Len(bars) - (done + 1))} :
              /\ w' = [side |-> PerSide(a.side, b.side),
                       paused |-> b.paused, dd |-> b.dd]
              /\ fills' = PerSide(fills["long"] + a.filled, fills["short"] + b.filled)
              /\ closes' = PerSide(closes["long"] + a.closed, closes["short"] + b.closed)
    BY <1>3, Zenon
  <2>2. PICK a \in {Manage(l, "long", bars[done + 1], Len(bars) - (done + 1))} :
           \E b \in {Manage(Then(l, a), "short", bars[done + 1], Len(bars) - (done + 1))} :
              /\ w' = [side |-> PerSide(a.side, b.side),
                       paused |-> b.paused, dd |-> b.dd]
              /\ fills' = PerSide(fills["long"] + a.filled, fills["short"] + b.filled)
              /\ closes' = PerSide(closes["long"] + a.closed, closes["short"] + b.closed)
    BY <2>1, Zenon
  <2>3. PICK b \in {Manage(Then(l, a), "short", bars[done + 1], Len(bars) - (done + 1))} :
              /\ w' = [side |-> PerSide(a.side, b.side),
                       paused |-> b.paused, dd |-> b.dd]
              /\ fills' = PerSide(fills["long"] + a.filled, fills["short"] + b.filled)
              /\ closes' = PerSide(closes["long"] + a.closed, closes["short"] + b.closed)
    BY <2>2, Zenon
  <2>4. l = Seeded(w, bars[done + 1]) BY Zenon
  <2>5. a = Manage(l, "long", bars[done + 1], Len(bars) - (done + 1)) BY Zenon
  <2>6. b = Manage(Then(l, a), "short", bars[done + 1], Len(bars) - (done + 1)) BY Zenon
  <2> QED BY <1>2, <2>3, <2>4, <2>5, <2>6, Zenon
<1> QED BY <1>1, <1>3, <1>4, Zenon DEF Advance

-----------------------------------------------------------------------------
(* The inductive invariant.                                                  *)

Afterwards == {"advance", "orders", "rollback", "tell", "save"}

\* Where the iteration is, and what its working state and counts hold there.
Stages ==
    /\ pc \in {"idle", "reseed", "guard"} =>
         fills = Zero /\ closes = Zero /\ placed = Zero /\ shut = Zero /\ done = 0
    /\ pc \in {"reconcile", "advance"} => placed = Zero /\ shut = Zero
    /\ pc = "reconcile" => done = 0
    /\ pc \in {"guard", "reconcile", "advance"} => done < Len(bars)
    /\ pc \in {"tell", "save"} => AllPlaced /\ AllShut

\* The rungs opened and closed so far account for the working state.
Accounts ==
    \A s \in Sides :
       /\ pc \in Afterwards \cup {"reconcile"} =>
            Count(w.side[s]) + closes[s] = Count(row.side[s]) + fills[s]
       /\ placed[s] <= fills[s] /\ shut[s] <= closes[s]
       /\ shut[s] > 0 => AllPlaced
       /\ fills[s] <= N * done

\* Changes of the configuration that have dropped the rungs.
Spent == edits - IF edited = "no" THEN 0 ELSE 1
Edits ==
    /\ edited # "no" => edits >= 1
    /\ pc \notin {"idle", "reseed"} => edited = "no"
    /\ pc = "reseed" => edited # "no"

\* ExposureBounded, with the resting orders paid for by faults alone and a
\* change of the configuration paid for when it drops the rungs.  Before a
\* rollback the fault has paid for the whole batch.
Exposure ==
    \A s \in Sides :
       /\ resting[s] <= faults
       /\ Dir(s) * pos + resting[s] <= Claim(s) + Batch * (faults + Spent)
       /\ pc = "rollback" =>
            Dir(s) * pos + resting[s] <= Count(row.side[s]) + Batch * (faults + Spent)

Lateness ==
    /\ late <= 2 * Batch
    /\ halted /\ pc \in {"reconcile", "advance", "orders"}
         => late <= placed["long"] + placed["short"]

IInv == TypeOK /\ Stages /\ Accounts /\ Edits /\ Exposure /\ Lateness

-----------------------------------------------------------------------------
(* Each action preserves it.                                                 *)

\* TypeOK in two parts, the flags and the rest.
Flags == edited \in Mismatches /\ halted \in BOOLEAN /\ blocked \in BOOLEAN
Kinds ==
    /\ row \in Ledgers /\ w \in Ledgers
    /\ bars \in Seq(Bars) /\ Len(bars) <= MaxBars
    /\ pos \in Int /\ resting \in [Sides -> Nat]
    /\ pc \in {"idle", "reseed", "guard", "reconcile", "advance", "orders",
               "rollback", "tell", "save"}
    /\ done \in 0..Len(bars)
    /\ fills \in [Sides -> Nat] /\ closes \in [Sides -> Nat]
    /\ placed \in [Sides -> Nat] /\ shut \in [Sides -> Nat]
    /\ late \in 0..(2 * Batch + 1)
    /\ faults \in 0..MaxFaults /\ edits \in 0..MaxEdits /\ stops \in 0..MaxStops

LEMMA TypeParts == (TypeOK <=> Flags /\ Kinds)
BY Zenon DEF TypeOK, Flags, Kinds

LEMMA FlagsStep == Flags /\ [Next]_vars => Flags'
<1> SUFFICES ASSUME Flags, [Next]_vars PROVE Flags' OBVIOUS
<1> USE DEF Flags
<1>1. CASE Reload BY <1>1, Zenon DEF Reload, Mismatches, ledger, exchange, iter, Outside, Still, Stop
<1>2. CASE Reseed BY <1>2, Zenon DEF Reseed, Mismatches, ledger, exchange, iter, Outside, Still, Stop
<1>3. CASE Fetch BY <1>3, Zenon DEF Fetch, ledger, exchange, iter, Outside, Still, Stop
<1>4. CASE Guard BY <1>4, Zenon DEF Guard, ledger, exchange, iter, Outside, Still, Stop
<1>5. CASE Reconcile BY <1>5, Zenon DEF Reconcile, ledger, exchange, iter, Outside, Still, Stop
<1>6. CASE Advance BY <1>6, Zenon DEF Advance, ledger, exchange, iter, Outside, Still, Stop
<1>7. CASE Record BY <1>7, Zenon DEF Record, ledger, exchange, iter, Outside, Still, Stop
<1>8. CASE Rollback BY <1>8, Zenon DEF Rollback, ledger, exchange, iter, Outside, Still, Stop
<1>9. CASE Tell BY <1>9, Zenon DEF Tell, ledger, exchange, iter, Outside, Still, Stop
<1>10. CASE Save BY <1>10, Zenon DEF Save, ledger, exchange, iter, Outside, Still, Stop
<1>11. CASE Abort BY <1>11, Zenon DEF Abort, ledger, exchange, iter, Outside, Still, Stop
<1>12. CASE NewBar BY <1>12, Zenon DEF NewBar, ledger, exchange, iter, Outside, Still, Stop
<1>13. CASE Reduce BY <1>13, Zenon DEF Reduce, ledger, exchange, iter, Outside, Still, Stop
<1>14. CASE Halt BY <1>14, Zenon DEF Halt, ledger, exchange, iter, Outside, Still, Stop
<1>15. CASE Resume BY <1>15, Zenon DEF Resume, ledger, exchange, iter, Outside, Still, Stop
<1>16. CASE EditConfig BY <1>16, Zenon DEF EditConfig, ledger, exchange, iter, Outside, Still, Stop
<1>17. CASE Unblock BY <1>17, Zenon DEF Unblock, ledger, exchange, iter, Outside, Still, Stop
<1>18. ASSUME NEW s \in Sides, PlaceFill(s) PROVE Flags' BY <1>18, Zenon DEF PlaceFill, ledger, exchange, iter, Outside, Still, Stop
<1>19. ASSUME NEW s \in Sides, ShutClose(s) PROVE Flags' BY <1>19, Zenon DEF ShutClose, ledger, exchange, iter, Outside, Still, Stop
<1>20. ASSUME NEW s \in Sides, RestingFill(s) PROVE Flags' BY <1>20, Zenon DEF RestingFill, ledger, exchange, iter, Outside, Still, Stop
<1>22. CASE Form BY <1>22, Zenon DEF Form, ledger, exchange, iter, Outside, Still, Stop
<1>21. CASE UNCHANGED vars BY <1>21, Zenon DEF vars
<1> QED BY <1>1, <1>2, <1>3, <1>4, <1>5, <1>6, <1>7, <1>8, <1>9, <1>10, <1>11, <1>12, <1>13, <1>14, <1>15, <1>16, <1>17, <1>18, <1>19, <1>20, <1>21, <1>22, Zenon DEF Next, Step, World

LEMMA SideFacts ==
    ASSUME Kinds, NEW s \in Sides
    PROVE  /\ Dir(s) \in {1, -1} /\ Dir(s) * pos \in Int
           /\ Count(row.side[s]) \in Nat /\ Count(w.side[s]) \in Nat /\ resting[s] \in Nat
           /\ fills[s] \in Nat /\ closes[s] \in Nat /\ placed[s] \in Nat /\ shut[s] \in Nat
           /\ Claim(s) \in Int
<1>1. row.side[s] \in Rungs /\ w.side[s] \in Rungs BY DEF Kinds, Ledgers
<1>2. Count(row.side[s]) \in Nat /\ Count(w.side[s]) \in Nat
  BY <1>1, RungsFacts, NAssumption
<1>3. Dir(s) \in {1, -1} BY DEF Dir
<1>4. pos \in Int BY DEF Kinds
<1>5. Dir(s) * pos \in Int BY <1>3, <1>4
<1>6. /\ resting[s] \in Nat /\ fills[s] \in Nat /\ closes[s] \in Nat
      /\ placed[s] \in Nat /\ shut[s] \in Nat
  BY DEF Kinds
<1> QED BY <1>2, <1>3, <1>5, <1>6 DEF Claim

LEMMA FreshFacts == Fresh \in Ledgers /\ \A s \in Sides : Count(Fresh.side[s]) = 0
<1>1. NoRungs \in Rungs
  <2>1. {} \in SUBSET Levels /\ NoRungs \in [{} -> Ages \cup {Armed}] BY DEF NoRungs
  <2> QED BY <2>1, RungsIntro
<1>2. Open(NoRungs) = {} BY DEF NoRungs, Open
<1>3. Count(NoRungs) = 0 BY <1>2, FS_EmptySet DEF Count
<1>4. \A s \in Sides : Fresh.side[s] = NoRungs BY DEF Fresh
<1>5. Fresh \in Ledgers
  <2> HIDE DEF NoRungs
  <2> QED BY <1>1, PauseAssumption DEF Fresh, Ledgers
<1> QED BY <1>3, <1>4, <1>5

\* A ledger without open rungs counts none.
LEMMA FlatFacts ==
    ASSUME NEW l, Flat(l), NEW s \in Sides
    PROVE  Count(l.side[s]) = 0
<1> QED BY FS_EmptySet DEF Flat, Count

LEMMA BoundFacts ==
    ASSUME Kinds, Edits
    PROVE  /\ faults \in Nat /\ edits \in Nat /\ Spent \in Nat
           /\ Batch * (faults + Spent) \in Nat /\ Batch * (faults + Spent) >= faults
           /\ faults < MaxFaults =>
                Batch * (faults + 1 + Spent) = Batch * (faults + Spent) + Batch
<1>1. faults \in Nat /\ edits \in Nat BY BoundsAssumption DEF Kinds
<1>2. Spent \in Nat
  <2>1. CASE edited # "no" BY <1>1, <2>1 DEF Spent, Edits
  <2>2. CASE edited = "no" BY <1>1, <2>2 DEF Spent
  <2> QED BY <2>1, <2>2
<1> DEFINE f == faults + Spent
<1>3. f \in Nat /\ f >= faults /\ faults + 1 + Spent = f + 1 BY <1>1, <1>2
<1> HIDE DEF f
<1>4. Batch * f \in Nat /\ Batch * f >= f /\ Batch * (f + 1) = Batch * f + Batch
  BY <1>3, BatchGrows
<1>5. Batch * f >= faults BY <1>1, <1>3, <1>4
<1>6. Batch * f = Batch * (faults + Spent) BY DEF f
<1> QED BY <1>1, <1>2, <1>3, <1>4, <1>5, <1>6

\* One side of the exposure, whatever the step does to the exchange.
LEMMA ExposureKept ==
    ASSUME Kinds, Edits, Exposure, UNCHANGED <<row, pc, placed, shut, faults>>, Spent' = Spent,
           resting' \in [Sides -> Nat],
           \A s \in Sides : /\ Dir(s) * pos' + resting'[s] <= Dir(s) * pos + resting[s]
                                \/ (Dir(s) * pos' <= 0 /\ resting'[s] <= resting[s])
                            /\ resting'[s] <= resting[s],
           \A s \in Sides : Claim(s) >= 0, pos' \in Int
    PROVE  Exposure'
<1> SUFFICES ASSUME NEW s \in Sides
             PROVE  /\ resting'[s] <= faults
                    /\ Dir(s) * pos' + resting'[s] <= Claim(s) + Batch * (faults + Spent)
                    /\ pc = "rollback" => Dir(s) * pos' + resting'[s]
                                             <= Count(row.side[s]) + Batch * (faults + Spent)
  BY DEF Exposure, Claim
<1>2. Batch * (faults + Spent) \in Nat /\ Batch * (faults + Spent) >= faults /\ faults \in Nat
  BY BoundFacts
<1>3. /\ Dir(s) * pos \in Int /\ resting[s] \in Nat /\ Claim(s) \in Int /\ Claim(s) >= 0
      /\ Count(row.side[s]) \in Nat
  BY SideFacts
<1>4. Dir(s) * pos' \in Int BY DEF Dir
<1>5. resting'[s] \in Nat OBVIOUS
<1> DEFINE d == Dir(s) * pos' e == Dir(s) * pos b == Batch * (faults + Spent) c == Claim(s)
           o == Count(row.side[s])
<1>1. /\ resting[s] <= faults /\ e + resting[s] <= c + b
      /\ pc = "rollback" => e + resting[s] <= o + b
  BY DEF Exposure
<1>6. /\ d + resting'[s] <= e + resting[s] \/ (d <= 0 /\ resting'[s] <= resting[s])
      /\ resting'[s] <= resting[s]
  OBVIOUS
<1>7. /\ b \in Nat /\ b >= faults /\ faults \in Nat /\ e \in Int /\ resting[s] \in Nat
      /\ c \in Int /\ c >= 0 /\ o \in Nat /\ d \in Int /\ resting'[s] \in Nat
  BY <1>2, <1>3, <1>4, <1>5
<1> HIDE DEF d, e, b, c, o
<1>8. /\ resting'[s] <= faults /\ d + resting'[s] <= c + b
      /\ pc = "rollback" => d + resting'[s] <= o + b
  BY <1>1, <1>6, <1>7
<1> QED BY <1>8 DEF d, b, c, o

LEMMA UnblockStep ==
    ASSUME Kinds, Stages, Accounts, Edits, Exposure, Lateness, Unblock
    PROVE  Kinds' /\ Stages' /\ Accounts' /\ Edits' /\ Exposure' /\ Lateness'
<1>1. UNCHANGED <<row, w, bars, pos, resting, pc, done, fills, closes, placed, shut,
                  late, faults, edits, stops>>
  BY Zenon DEF Unblock, Still, iter, exchange, NoFault
<1>2. Spent' = Spent /\ edited' = edited /\ halted' = halted
  BY Zenon DEF Unblock, Still, Spent
<1>3. Kinds' BY <1>1 DEF Kinds
<1>4. Stages' BY <1>1 DEF Stages, AllPlaced, AllShut
<1>5. Accounts' BY <1>1 DEF Accounts, Afterwards, AllPlaced
<1>6. Edits' BY <1>1, <1>2, Zenon DEF Edits
<1>7. Exposure' BY <1>1, <1>2 DEF Exposure, Claim
<1>8. Lateness' BY <1>1, <1>2, Zenon DEF Lateness
<1> QED BY <1>3, <1>4, <1>5, <1>6, <1>7, <1>8

LEMMA ResumeStep ==
    ASSUME Kinds, Stages, Accounts, Edits, Exposure, Lateness, Resume
    PROVE  Kinds' /\ Stages' /\ Accounts' /\ Edits' /\ Exposure' /\ Lateness'
<1>1. UNCHANGED <<row, w, bars, pos, resting, pc, done, fills, closes, placed, shut,
                  late, faults, edits, stops>>
  BY Zenon DEF Resume, Still, iter, exchange, NoFault
<1>2. Spent' = Spent /\ edited' = edited /\ ~halted'
  BY Zenon DEF Resume, Still, Spent
<1>3. Kinds' BY <1>1 DEF Kinds
<1>4. Stages' BY <1>1 DEF Stages, AllPlaced, AllShut
<1>5. Accounts' BY <1>1 DEF Accounts, Afterwards, AllPlaced
<1>6. Edits' BY <1>1, <1>2, Zenon DEF Edits
<1>7. Exposure' BY <1>1, <1>2 DEF Exposure, Claim
<1>8. Lateness' BY <1>1, <1>2, Zenon DEF Lateness
<1> QED BY <1>3, <1>4, <1>5, <1>6, <1>7, <1>8

LEMMA HaltStep ==
    ASSUME Kinds, Stages, Accounts, Edits, Exposure, Lateness, Halt
    PROVE  Kinds' /\ Stages' /\ Accounts' /\ Edits' /\ Exposure' /\ Lateness'
<1>1. /\ UNCHANGED <<row, w, bars, pos, resting, pc, done, fills, closes, placed, shut,
                     faults, edits>>
      /\ late' = 0 /\ stops < MaxStops /\ stops' = stops + 1
  BY Zenon DEF Halt, Stop, Still, iter, exchange, NoFault
<1>2. Spent' = Spent /\ edited' = edited
  BY Zenon DEF Halt, Still, Spent
<1>3. Kinds'
  <2>1. late' \in 0..(2 * Batch + 1) BY <1>1, BatchFacts
  <2>2. stops' \in 0..MaxStops BY <1>1, BoundsAssumption DEF Kinds
  <2> QED BY <1>1, <2>1, <2>2 DEF Kinds
<1>4. Stages' BY <1>1 DEF Stages, AllPlaced, AllShut
<1>5. Accounts' BY <1>1 DEF Accounts, Afterwards, AllPlaced
<1>6. Edits' BY <1>1, <1>2, Zenon DEF Edits
<1>7. Exposure' BY <1>1, <1>2 DEF Exposure, Claim
<1>8. Lateness'
  <2>1. late' <= 2 * Batch BY <1>1, BatchFacts
  <2>2. placed["long"] \in Nat /\ placed["short"] \in Nat BY SideFacts DEF Sides
  <2>3. late' <= placed'["long"] + placed'["short"] BY <1>1, <2>2
  <2> QED BY <2>1, <2>3, Zenon DEF Lateness
<1> QED BY <1>3, <1>4, <1>5, <1>6, <1>7, <1>8

\* A claim is never negative.
LEMMA ClaimFact ==
    ASSUME Kinds, Stages, Accounts, NEW s \in Sides
    PROVE  Claim(s) >= 0
<1>1. /\ Count(row.side[s]) \in Nat /\ Count(w.side[s]) \in Nat /\ fills[s] \in Nat
      /\ closes[s] \in Nat /\ placed[s] \in Nat /\ shut[s] \in Nat
  BY SideFacts
<1>2. shut[s] <= closes[s] /\ (shut[s] > 0 => placed[s] = fills[s])
  BY DEF Accounts, AllPlaced
<1>3. CASE shut[s] = 0 BY <1>1, <1>3 DEF Claim
<1>4. CASE shut[s] # 0
  <2>1. pc \in Afterwards
    <3>1. shut # Zero BY <1>4 DEF Zero
    <3> QED BY <3>1 DEF Stages, Kinds, Afterwards
  <2>2. Count(w.side[s]) + closes[s] = Count(row.side[s]) + fills[s] BY <2>1 DEF Accounts
  <2> QED BY <1>1, <1>2, <1>4, <2>2 DEF Claim
<1> QED BY <1>3, <1>4

LEMMA ReduceStep ==
    ASSUME Kinds, Stages, Accounts, Edits, Exposure, Lateness, Reduce
    PROVE  Kinds' /\ Stages' /\ Accounts' /\ Edits' /\ Exposure' /\ Lateness'
<1>1. /\ UNCHANGED <<row, w, bars, resting, pc, done, fills, closes, placed, shut,
                     late, faults, edits, stops>>
      /\ pos # 0 /\ pos' = pos - (IF pos > 0 THEN 1 ELSE -1)
  BY Zenon DEF Reduce, Still, iter, exchange, NoFault
<1>2. Spent' = Spent /\ edited' = edited /\ halted' = halted
  BY Zenon DEF Reduce, Still, Spent
<1>3. Kinds' BY <1>1 DEF Kinds
<1>4. Stages' BY <1>1 DEF Stages, AllPlaced, AllShut
<1>5. Accounts' BY <1>1 DEF Accounts, Afterwards, AllPlaced
<1>6. Edits' BY <1>1, <1>2, Zenon DEF Edits
<1>7. Exposure'
  <2>1. pos \in Int /\ pos' \in Int /\ resting' \in [Sides -> Nat] BY <1>1 DEF Kinds
  <2>2. ASSUME NEW s \in Sides
        PROVE  /\ Dir(s) * pos' + resting'[s] <= Dir(s) * pos + resting[s]
                    \/ (Dir(s) * pos' <= 0 /\ resting'[s] <= resting[s])
               /\ resting'[s] <= resting[s]
    <3>1. resting'[s] = resting[s] BY <1>1
    <3>2. resting[s] \in Nat BY <2>1, <3>1
    <3>3. Dir(s) = 1 \/ Dir(s) = -1 BY DEF Dir
    <3>4. (pos > 0 /\ pos' = pos - 1) \/ (pos < 0 /\ pos' = pos + 1) BY <1>1, <2>1
    <3> DEFINE d == Dir(s)
               q == pos'
               r == resting[s]
    <3>5. /\ q \in Int /\ r \in Nat /\ (d = 1 \/ d = -1)
          /\ (pos > 0 /\ q = pos - 1) \/ (pos < 0 /\ q = pos + 1)
      BY <2>1, <3>2, <3>3, <3>4
    <3> HIDE DEF d, q, r
    <3>6. d * q + r <= d * pos + r \/ d * q <= 0
      <4>1. CASE d = 1 BY <2>1, <3>5, <4>1
      <4>2. CASE d = -1 BY <2>1, <3>5, <4>2
      <4> QED BY <3>5, <4>1, <4>2
    <3>7. r <= r BY <3>5
    <3> QED BY <3>1, <3>6, <3>7, Zenon DEF d, q, r
  <2> QED BY <1>1, <1>2, <2>1, <2>2, ClaimFact, ExposureKept
<1>8. Lateness' BY <1>1, <1>2, Zenon DEF Lateness
<1> QED BY <1>3, <1>4, <1>5, <1>6, <1>7, <1>8

LEMMA RestingFillStep ==
    ASSUME Kinds, Stages, Accounts, Edits, Exposure, Lateness,
           NEW r \in Sides, RestingFill(r)
    PROVE  Kinds' /\ Stages' /\ Accounts' /\ Edits' /\ Exposure' /\ Lateness'
<1>1. /\ UNCHANGED <<row, w, bars, pc, done, fills, closes, placed, shut,
                     late, faults, edits, stops>>
      /\ resting[r] > 0 /\ pos' = pos + Dir(r)
      /\ resting' = [resting EXCEPT ![r] = resting[r] - 1]
  BY Zenon DEF RestingFill, Still, iter, exchange, NoFault
<1>2. Spent' = Spent /\ edited' = edited /\ halted' = halted
  BY Zenon DEF RestingFill, Still, Spent
<1>a. pos \in Int /\ pos' \in Int /\ resting' \in [Sides -> Nat]
  BY <1>1 DEF Kinds, Dir
<1>3. Kinds' BY <1>1, <1>a DEF Kinds
<1>4. Stages' BY <1>1 DEF Stages, AllPlaced, AllShut
<1>5. Accounts' BY <1>1 DEF Accounts, Afterwards, AllPlaced
<1>6. Edits' BY <1>1, <1>2, Zenon DEF Edits
<1>7. Exposure'
  <2>2. ASSUME NEW s \in Sides
        PROVE  /\ Dir(s) * pos' + resting'[s] <= Dir(s) * pos + resting[s]
                    \/ (Dir(s) * pos' <= 0 /\ resting'[s] <= resting[s])
               /\ resting'[s] <= resting[s]
    <3>1. resting \in [Sides -> Nat] BY DEF Kinds
    <3>2. CASE s = r BY <1>1, <1>a, <3>1, <3>2 DEF Dir
    <3>3. CASE s # r
      <4>1. Dir(s) * Dir(r) = -1 BY <3>3 DEF Dir, Sides
      <4> QED BY <1>1, <1>a, <3>1, <3>3, <4>1 DEF Dir
    <3> QED BY <3>2, <3>3
  <2> QED BY <1>1, <1>2, <1>a, <2>2, ClaimFact, ExposureKept
<1>8. Lateness' BY <1>1, <1>2, Zenon DEF Lateness
<1> QED BY <1>3, <1>4, <1>5, <1>6, <1>7, <1>8

LEMMA NewBarStep ==
    ASSUME Kinds, Stages, Accounts, Edits, Exposure, Lateness, NewBar
    PROVE  Kinds' /\ Stages' /\ Accounts' /\ Edits' /\ Exposure' /\ Lateness'
<1>1. /\ UNCHANGED <<row, w, pos, resting, pc, done, fills, closes, placed, shut,
                     late, faults, edits, stops>>
      /\ pc = "idle"
      /\ \E b \in Bars :
            bars' = Append(IF Len(bars) < MaxBars THEN bars ELSE Tail(bars), b)
  BY Zenon DEF NewBar, Still, iter, exchange, NoFault
<1>2. Spent' = Spent /\ edited' = edited /\ halted' = halted
  BY Zenon DEF NewBar, Still, Spent
<1>3. Kinds'
  <2>1. bars \in Seq(Bars) /\ Len(bars) \in Nat /\ Len(bars) <= MaxBars /\ MaxBars >= 1
    BY MaxBarsAssumption DEF Kinds
  <2>2. PICK b \in Bars : bars' = Append(IF Len(bars) < MaxBars THEN bars ELSE Tail(bars), b)
    BY <1>1
  <2>3. bars' \in Seq(Bars) /\ Len(bars') <= MaxBars
    <3>1. CASE Len(bars) < MaxBars BY <2>1, <2>2, <3>1, MaxBarsAssumption
    <3>2. CASE ~(Len(bars) < MaxBars)
      <4>1. Len(bars) >= 1 BY <2>1, <3>2, MaxBarsAssumption
      <4>3. bars # <<>> BY <4>1
      <4>2. Tail(bars) \in Seq(Bars) /\ Len(Tail(bars)) = Len(bars) - 1 BY <2>1, <4>3
      <4>4. bars' = Append(Tail(bars), b) BY <2>2, <3>2
      <4> QED BY <2>1, <4>1, <4>2, <4>4, MaxBarsAssumption
    <3> QED BY <3>1, <3>2
  <2>4. done = 0 BY <1>1 DEF Stages
  <2>5. done' \in 0..Len(bars') BY <1>1, <2>3, <2>4
  <2> QED BY <1>1, <2>3, <2>5 DEF Kinds
<1>4. Stages' BY <1>1 DEF Stages, AllPlaced, AllShut
<1>5. Accounts' BY <1>1 DEF Accounts, Afterwards, AllPlaced
<1>6. Edits' BY <1>1, <1>2, Zenon DEF Edits
<1>7. Exposure' BY <1>1, <1>2 DEF Exposure, Claim
<1>8. Lateness' BY <1>1, <1>2, Zenon DEF Lateness
<1> QED BY <1>3, <1>4, <1>5, <1>6, <1>7, <1>8

LEMMA FormStep ==
    ASSUME Kinds, Stages, Accounts, Edits, Exposure, Lateness, Form
    PROVE  Kinds' /\ Stages' /\ Accounts' /\ Edits' /\ Exposure' /\ Lateness'
<1>1. /\ UNCHANGED <<row, w, pos, resting, pc, done, fills, closes, placed, shut,
                     late, faults, edits, stops>>
      /\ pc = "idle" /\ bars # <<>>
      /\ \E b \in Bars : bars' = [bars EXCEPT ![Len(bars)] = b]
  BY Zenon DEF Form, Still, iter, exchange, NoFault
<1>2. Spent' = Spent /\ edited' = edited /\ halted' = halted
  BY Zenon DEF Form, Still, Spent
<1>3. Kinds'
  <2>1. PICK b \in Bars : bars' = [bars EXCEPT ![Len(bars)] = b] BY <1>1
  <2>2. bars \in Seq(Bars) BY DEF Kinds
  <2>4. Len(bars) \in 1..Len(bars) BY <1>1, <2>2
  <2>3. bars' \in Seq(Bars) /\ Len(bars') = Len(bars) BY <2>1, <2>2, <2>4, ExceptSeq
  <2> QED BY <1>1, <2>3 DEF Kinds
<1>4. Stages' BY <1>1 DEF Stages, AllPlaced, AllShut
<1>5. Accounts' BY <1>1 DEF Accounts, Afterwards, AllPlaced
<1>6. Edits' BY <1>1, <1>2, Zenon DEF Edits
<1>7. Exposure' BY <1>1, <1>2 DEF Exposure, Claim
<1>8. Lateness' BY <1>1, <1>2, Zenon DEF Lateness
<1> QED BY <1>3, <1>4, <1>5, <1>6, <1>7, <1>8

\* A larger allowance.
LEMMA ExposureLoosened ==
    ASSUME Kinds, Edits, Exposure, UNCHANGED <<row, pc, pos, resting, placed, shut, faults>>,
           Spent' \in Nat, Spent <= Spent', pc = "idle"
    PROVE  Exposure'
<1>1. faults \in Nat /\ Spent \in Nat BY BoundFacts
<1>2. Batch * (faults + Spent) <= Batch * (faults + Spent') BY <1>1, BatchMonotone
<1>3. Batch * (faults + Spent) \in Nat /\ Batch * (faults + Spent') \in Nat
  <2> DEFINE n == Spent'
  <2>a. n \in Nat OBVIOUS
  <2> HIDE DEF n
  <2>b. faults + n \in Nat BY <1>1, <2>a
  <2>1. faults + Spent' \in Nat BY <2>b DEF n
  <2> QED BY <2>1, BoundFacts, BatchGrows
<1> SUFFICES ASSUME NEW s \in Sides
             PROVE  /\ resting[s] <= faults
                    /\ Dir(s) * pos + resting[s] <= Claim(s) + Batch * (faults + Spent')
  BY DEF Exposure, Claim
<1> DEFINE d == Dir(s) * pos c == Claim(s)
           b == Batch * (faults + Spent) e == Batch * (faults + Spent')
<1>4. /\ d \in Int /\ c \in Int /\ b \in Nat /\ e \in Nat /\ b <= e
      /\ d + resting[s] <= c + b /\ resting[s] \in Nat /\ resting[s] <= faults
  BY <1>2, <1>3, SideFacts DEF Exposure
<1> HIDE DEF d, c, b, e
<1>5. d + resting[s] <= c + e BY <1>4
<1> QED BY <1>4, <1>5 DEF d, c, e

LEMMA EditConfigStep ==
    ASSUME Kinds, Stages, Accounts, Edits, Exposure, Lateness, EditConfig
    PROVE  Kinds' /\ Stages' /\ Accounts' /\ Edits' /\ Exposure' /\ Lateness'
<1>1. /\ UNCHANGED <<row, w, bars, pos, resting, pc, done, fills, closes, placed, shut,
                     late, faults, stops>>
      /\ pc = "idle" /\ edits < MaxEdits /\ edits' = edits + 1
  BY Zenon DEF EditConfig, iter, exchange, NoFault
<1>2. halted' = halted BY Zenon DEF EditConfig
<1>3. edits \in Nat /\ edits' \in Nat /\ edits' >= 1 /\ edits' \in 0..MaxEdits
  BY <1>1, BoundsAssumption DEF Kinds
<1>4. Spent' \in Nat /\ Spent \in Nat /\ Spent <= Spent'
  <2>1. Spent \in Nat BY BoundFacts
  <2>2. Spent <= edits
    <3>1. CASE edited # "no" BY <1>3, <3>1 DEF Spent
    <3>2. CASE edited = "no" BY <1>3, <3>2 DEF Spent
    <3> QED BY <3>1, <3>2
  <2>3. Spent' = edits' \/ Spent' = edits' - 1
    <3>1. CASE edited' # "no" BY <1>3, <3>1 DEF Spent
    <3>2. CASE edited' = "no"
      <4>1. Spent' = edits' - 0 BY <3>2 DEF Spent
      <4>3. \A x \in Nat : x - 0 = x OBVIOUS
      <4>2. edits' - 0 = edits' BY <1>3, <4>3, Zenon
      <4> QED BY <4>1, <4>2, Zenon
    <3> QED BY <3>1, <3>2
  <2> DEFINE m == Spent n == Spent'
  <2>4. m \in Nat /\ m <= edits /\ (n = edits' \/ n = edits' - 1) BY <2>1, <2>2, <2>3
  <2> HIDE DEF m, n
  <2>5. n \in Nat /\ m <= n BY <1>1, <1>3, <2>4
  <2> QED BY <2>1, <2>5 DEF m, n
<1>5. Kinds' BY <1>1, <1>3 DEF Kinds
<1>6. Stages' BY <1>1 DEF Stages, AllPlaced, AllShut
<1>7. Accounts' BY <1>1 DEF Accounts, Afterwards, AllPlaced
<1>8. Edits' BY <1>1, <1>2, <1>3, Zenon DEF Edits
<1>9. Exposure' BY <1>1, <1>4, ExposureLoosened
<1>10. Lateness' BY <1>1, <1>2, Zenon DEF Lateness
<1> QED BY <1>5, <1>6, <1>7, <1>8, <1>9, <1>10

LEMMA FetchStep ==
    ASSUME Kinds, Stages, Accounts, Edits, Exposure, Lateness, Fetch
    PROVE  Kinds' /\ Stages' /\ Accounts' /\ Edits' /\ Exposure' /\ Lateness'
<1>1. /\ UNCHANGED <<row, w, bars, pos, resting, done, fills, closes, placed, shut,
                     late, faults, edits, stops>>
      /\ pc = "idle" /\ pc' = "guard" /\ bars # <<>>
  BY Zenon DEF Fetch, Outside, iter, exchange, NoFault
<1>2. Spent' = Spent /\ edited' = edited /\ halted' = halted /\ edited = "no"
  BY Zenon DEF Fetch, Outside, Spent
<1>3. Kinds' BY <1>1 DEF Kinds
<1>4. Stages'
  <2>1. done < Len(bars) BY <1>1 DEF Kinds, Stages
  <2> QED BY <1>1, <2>1 DEF Stages, AllPlaced, AllShut
<1>5. Accounts' BY <1>1 DEF Accounts, Afterwards, AllPlaced
<1>6. Edits' BY <1>1, <1>2, Zenon DEF Edits
<1>7. Exposure' BY <1>1, <1>2 DEF Exposure, Claim
<1>8. Lateness'
  <2>1. pc' \notin {"reconcile", "advance", "orders"} BY <1>1
  <2> QED BY <1>1, <2>1, Zenon DEF Lateness
<1> QED BY <1>3, <1>4, <1>5, <1>6, <1>7, <1>8

LEMMA ReloadStep ==
    ASSUME Kinds, Stages, Accounts, Edits, Exposure, Lateness, Reload
    PROVE  Kinds' /\ Stages' /\ Accounts' /\ Edits' /\ Exposure' /\ Lateness'
<1>1. /\ UNCHANGED <<w, bars, pos, resting, done, fills, closes, placed, shut,
                     late, faults, edits, stops>>
      /\ pc = "idle" /\ pc' \in {"idle", "reseed"}
      /\ row' = row \/ (Flat(row) /\ row' = Fresh)
  BY Zenon DEF Reload, iter, exchange, NoFault
<1>2. /\ halted' = halted /\ edited # "no"
      /\ (edited' = edited /\ pc' = "reseed") \/ (edited' = "no" /\ pc' = "idle")
  <2>1. CASE Flat(row) /\ edited' = "no" /\ pc' = "idle"
    <3>1. halted' = halted /\ edited # "no" BY Zenon DEF Reload
    <3> QED BY <2>1, <3>1
  <2>2. CASE pc' = "reseed" /\ edited' = edited BY <2>2, Zenon DEF Reload
  <2> QED BY <2>1, <2>2, Zenon DEF Reload
<1>a. row' \in Ledgers /\ \A s \in Sides : Count(row'.side[s]) = Count(row.side[s])
  BY <1>1, FreshFacts, FlatFacts DEF Kinds
<1>3. Kinds' BY <1>1, <1>a DEF Kinds
<1>4. Stages' BY <1>1 DEF Stages, AllPlaced, AllShut
<1>5. Accounts' BY <1>1 DEF Accounts, Afterwards, AllPlaced
<1>6. Edits' BY <1>1, <1>2, Zenon DEF Edits
<1>7. Exposure'
  <2>1. edits \in Nat BY BoundFacts
  <2>2. Spent = edits - 1 BY <1>2, <2>1 DEF Spent
  <2>3. Spent' >= Spent /\ Spent' \in Nat /\ Spent \in Nat
    <3>1. CASE edited' # "no" BY <1>1, <1>2, <2>1, <2>2, <3>1, BoundFacts DEF Spent
    <3>2. CASE edited' = "no" BY <1>1, <2>1, <2>2, <3>2, BoundFacts DEF Spent
    <3> QED BY <3>1, <3>2
  <2>4. Batch * (faults + Spent) <= Batch * (faults + Spent')
    BY <2>3, BatchFacts, BoundFacts, BatchMonotone
  <2> SUFFICES ASSUME NEW s \in Sides
               PROVE  /\ resting[s] <= faults
                      /\ Dir(s) * pos + resting[s]
                           <= Count(row'.side[s]) + placed[s] - shut[s] + Batch * (faults + Spent')
    BY <1>1 DEF Exposure, Claim
  <2>5. /\ resting[s] <= faults
        /\ Dir(s) * pos + resting[s] <= Claim(s) + Batch * (faults + Spent)
    BY DEF Exposure
  <2>6. Claim(s) = Count(row'.side[s]) + placed[s] - shut[s] BY <1>a DEF Claim
  <2>7. Claim(s) \in Int /\ Dir(s) * pos \in Int /\ resting[s] \in Nat BY SideFacts
  <2>8. Batch * (faults + Spent) \in Nat /\ Batch * (faults + Spent') \in Nat
    BY <2>3, BoundFacts, BatchGrows
  <2> DEFINE d == Dir(s) * pos c == Claim(s)
             b == Batch * (faults + Spent) e == Batch * (faults + Spent')
  <2>9. d \in Int /\ c \in Int /\ b \in Nat /\ e \in Nat /\ b <= e
        /\ d + resting[s] <= c + b /\ resting[s] \in Nat
    BY <2>4, <2>5, <2>7, <2>8
  <2> HIDE DEF d, c, b, e
  <2>10. d + resting[s] <= c + e BY <2>9
  <2> QED BY <2>5, <2>6, <2>10 DEF d, c, e
<1>8. Lateness'
  <2>1. pc' \notin {"reconcile", "advance", "orders"} BY <1>1
  <2> QED BY <1>1, <2>1, Zenon DEF Lateness
<1> QED BY <1>3, <1>4, <1>5, <1>6, <1>7, <1>8

\* No iteration sends more than a batch of entries for one side.
LEMMA FillsBound ==
    ASSUME Kinds, Accounts, NEW s \in Sides
    PROVE  fills[s] <= Batch /\ placed[s] <= Batch
<1>1. fills[s] \in Nat /\ placed[s] \in Nat /\ placed[s] <= fills[s] /\ N \in Nat
  BY SideFacts, NAssumption DEF Accounts
<1>2. fills[s] <= N * done BY DEF Accounts
<1>3. done \in 0..MaxBars BY MaxBarsAssumption DEF Kinds
<1> DEFINE m == N * done
<1>4. m \in Nat /\ m <= Batch BY <1>3, BatchCovers
<1> HIDE DEF m
<1> QED BY <1>1, <1>2, <1>4, BatchFacts DEF m

LEMMA ReseedStep ==
    ASSUME Kinds, Stages, Accounts, Edits, Exposure, Lateness, Reseed
    PROVE  Kinds' /\ Stages' /\ Accounts' /\ Edits' /\ Exposure' /\ Lateness'
<1>1. /\ UNCHANGED <<w, bars, pos, resting, done, fills, closes, placed, shut,
                     late, faults, edits, stops>>
      /\ pc = "reseed" /\ pc' = "idle" /\ \E dd \in BOOLEAN : row' = [Fresh EXCEPT !.dd = dd]
  BY Zenon DEF Reseed, iter, exchange, NoFault
<1>2. halted' = halted BY Zenon DEF Reseed
<1>a. edited' = "no" BY Zenon DEF Reseed
<1>b. edited # "no" /\ edits >= 1 BY <1>1, Zenon DEF Edits, Reseed
<1>c. row' \in Ledgers /\ \A s \in Sides : Count(row'.side[s]) = 0
  <2>1. PICK dd \in BOOLEAN : row' = [Fresh EXCEPT !.dd = dd] BY <1>1, Zenon
  <2>2. row' = [side |-> Fresh.side, paused |-> Fresh.paused, dd |-> dd]
    BY <2>1 DEF Fresh
  <2> HIDE DEF Fresh
  <2> QED BY <2>2, FreshFacts DEF Ledgers
<1>3. Kinds' BY <1>1, <1>c DEF Kinds
<1>4. Stages' BY <1>1 DEF Stages, AllPlaced, AllShut
<1>5. Accounts' BY <1>1 DEF Accounts, Afterwards, AllPlaced
<1>6. Edits'
  <2>1. edited' = "no" BY <1>a
  <2>2. pc' # "reseed" BY <1>1
  <2> QED BY <2>1, <2>2, Zenon DEF Edits
<1>7. Exposure'
  <2>1. edits \in Nat /\ faults \in Nat BY BoundFacts
  <2>2. Spent = edits - 1 BY <1>b, <2>1 DEF Spent
  <2>3. Spent' = edits BY <1>1, <1>a, <2>1 DEF Spent
  <2>4. Spent' = Spent + 1 BY <2>1, <2>2, <2>3
  <2>5. Batch * (faults + Spent') = Batch * (faults + Spent) + Batch
    <3>1. Spent \in Nat BY BoundFacts
    <3> DEFINE f == faults + Spent
    <3>2. f \in Nat /\ faults + Spent' = f + 1 BY <2>1, <2>4, <3>1
    <3> HIDE DEF f
    <3>3. Batch * (f + 1) = Batch * f + Batch BY <3>2, BatchGrows
    <3> QED BY <3>2, <3>3 DEF f
  <2> SUFFICES ASSUME NEW s \in Sides
               PROVE  /\ resting[s] <= faults
                      /\ Dir(s) * pos + resting[s]
                           <= 0 + placed[s] - shut[s] + Batch * (faults + Spent')
    BY <1>1, <1>c DEF Exposure, Claim
  <2> DEFINE d == Dir(s) * pos
             b == Batch * (faults + Spent)
  <2>6. /\ resting[s] <= faults /\ d + resting[s] <= Claim(s) + b
    BY DEF Exposure
  <2>7. placed[s] = 0 /\ shut[s] = 0 BY <1>1 DEF Stages, Zero
  <2>8. Count(row.side[s]) \in 0..N BY RungsFacts DEF Kinds, Ledgers
  <2>9. /\ d \in Int /\ resting[s] \in Nat /\ b \in Nat
        /\ Batch \in Nat /\ Batch >= N /\ N \in Nat
    BY SideFacts, BoundFacts, BatchFacts, NAssumption
  <2>10. Claim(s) = Count(row.side[s]) BY <2>7, <2>8, <2>9 DEF Claim
  <2> DEFINE k == Batch o == Count(row.side[s])
  <2>11. d + resting[s] <= b + k
    <3>1. /\ d + resting[s] <= o + b /\ o \in 0..N /\ k \in Nat /\ k >= N /\ N \in Nat
          /\ d \in Int /\ resting[s] \in Nat /\ b \in Nat
      BY <2>6, <2>8, <2>9, <2>10
    <3> HIDE DEF d, b, k, o
    <3> QED BY <3>1
  <2>12. 0 + placed[s] - shut[s] + Batch * (faults + Spent') = b + k
    <3>1. b \in Nat /\ k \in Nat BY <2>9
    <3> QED BY <2>5, <2>7, <3>1
  <2> HIDE DEF d, b, k
  <2>13. d + resting[s] <= 0 + placed[s] - shut[s] + Batch * (faults + Spent')
    BY <2>11, <2>12
  <2> QED BY <2>6, <2>13 DEF d
<1>8. Lateness'
  <2>1. pc' \notin {"reconcile", "advance", "orders"} BY <1>1
  <2> QED BY <1>1, <2>1, Zenon DEF Lateness
<1> QED BY <1>3, <1>4, <1>5, <1>6, <1>7, <1>8

LEMMA TellStep ==
    ASSUME Kinds, Stages, Accounts, Edits, Exposure, Lateness, Tell
    PROVE  Kinds' /\ Stages' /\ Accounts' /\ Edits' /\ Exposure' /\ Lateness'
<1>1. /\ UNCHANGED <<row, w, bars, pos, resting, done, fills, closes, placed, shut,
                     faults, edits>>
      /\ pc = "tell" /\ pc' = "save"
  BY Zenon DEF Tell, Local, ledger, exchange, NoFault
<1>2. Spent' = Spent /\ edited' = edited
  BY Zenon DEF Tell, ledger, Spent
<1>a. late' \in {late, 0} /\ (stops' = stops \/ (stops < MaxStops /\ stops' = stops + 1))
  <2>1. CASE UNCHANGED <<halted, late, stops>> BY <2>1
  <2>2. CASE stops < MaxStops /\ stops' = stops + 1 /\ Stop
    <3>1. late' = late \/ late' = 0 BY <2>2, Zenon DEF Stop
    <3> QED BY <2>2, <3>1
  <2> QED BY <2>1, <2>2, Zenon DEF Tell
<1>3. Kinds'
  <2>1. late' \in 0..(2 * Batch + 1) BY <1>a, BatchFacts DEF Kinds
  <2>2. stops' \in 0..MaxStops BY <1>a, BoundsAssumption DEF Kinds
  <2> QED BY <1>1, <2>1, <2>2 DEF Kinds
<1>4. Stages' BY <1>1 DEF Stages, AllPlaced, AllShut
<1>5. Accounts' BY <1>1 DEF Accounts, Afterwards, AllPlaced
<1>6. Edits' BY <1>1, <1>2, Zenon DEF Edits
<1>7. Exposure' BY <1>1, <1>2 DEF Exposure, Claim
<1>8. Lateness'
  <2>1. pc' \notin {"reconcile", "advance", "orders"} BY <1>1
  <2>2. late' <= 2 * Batch BY <1>a, BatchFacts DEF Lateness
  <2> QED BY <2>1, <2>2, Zenon DEF Lateness
<1> QED BY <1>3, <1>4, <1>5, <1>6, <1>7, <1>8

LEMMA RecordStep ==
    ASSUME Kinds, Stages, Accounts, Edits, Exposure, Lateness, Record
    PROVE  Kinds' /\ Stages' /\ Accounts' /\ Edits' /\ Exposure' /\ Lateness'
<1>1. /\ UNCHANGED <<row, w, bars, pos, resting, done, fills, closes, placed, shut,
                     late, faults, edits, stops>>
      /\ pc = "orders" /\ (pc' = "save" \/ pc' = "tell") /\ AllPlaced /\ AllShut
  BY Zenon DEF Record, Local, Outside, exchange, NoFault
<1>2. Spent' = Spent /\ edited' = edited /\ halted' = halted
  BY Zenon DEF Record, Outside, Spent
<1>3. Kinds' BY <1>1 DEF Kinds
<1>4. Stages' BY <1>1 DEF Stages, AllPlaced, AllShut
<1>5. Accounts' BY <1>1 DEF Accounts, Afterwards, AllPlaced
<1>6. Edits'
  <2>1. pc \notin {"idle", "reseed"} BY <1>1
  <2> QED BY <1>1, <1>2, <2>1, Zenon DEF Edits
<1>7. Exposure' BY <1>1, <1>2 DEF Exposure, Claim
<1>8. Lateness'
  <2>1. pc' \notin {"reconcile", "advance", "orders"} BY <1>1
  <2> QED BY <1>1, <2>1, Zenon DEF Lateness
<1> QED BY <1>3, <1>4, <1>5, <1>6, <1>7, <1>8

\* The end of an iteration: what Forget leaves satisfies the stages.
LEMMA ForgetFacts ==
    ASSUME Kinds, Forget, row' \in Ledgers, bars' \in Seq(Bars)
    PROVE  /\ Stages' /\ Accounts'
           /\ w' \in Ledgers /\ done' \in 0..Len(bars')
           /\ fills' \in [Sides -> Nat] /\ closes' \in [Sides -> Nat]
           /\ placed' \in [Sides -> Nat] /\ shut' \in [Sides -> Nat]
           /\ \A s \in Sides : placed'[s] = 0 /\ shut'[s] = 0
<1>1. \A s \in Sides : Zero[s] = 0 BY DEF Zero
<1>2. Zero \in [Sides -> Nat] BY DEF Zero
<1>3. w' \in Ledgers BY FreshFacts DEF Forget
<1>4. pc' = "idle" BY DEF Forget
<1>5. Len(bars') \in Nat OBVIOUS
<1>6. done' \in 0..Len(bars') BY <1>5 DEF Forget
<1>7. Stages' BY <1>3, <1>4 DEF Stages, Forget
<1>8. Accounts' BY <1>1, <1>4, NAssumption DEF Accounts, Forget, Afterwards
<1> QED BY <1>1, <1>2, <1>3, <1>6, <1>7, <1>8 DEF Forget

LEMMA RollbackStep ==
    ASSUME Kinds, Stages, Accounts, Edits, Exposure, Lateness, Rollback
    PROVE  Kinds' /\ Stages' /\ Accounts' /\ Edits' /\ Exposure' /\ Lateness'
<1>1. /\ UNCHANGED <<row, pos, resting, late, faults, edits, stops>>
      /\ pc = "rollback" /\ Forget /\ bars' = <<>>
  BY Zenon DEF Rollback, Consume, exchange, NoFault
<1>2. Spent' = Spent /\ edited' = edited /\ halted' = halted
  BY Zenon DEF Rollback, Spent
<1>a. row' \in Ledgers /\ bars' \in Seq(Bars) /\ Len(bars') = 0 BY <1>1 DEF Kinds
<1>b. /\ Stages' /\ Accounts' /\ w' \in Ledgers /\ done' \in 0..Len(bars')
      /\ fills' \in [Sides -> Nat] /\ closes' \in [Sides -> Nat]
      /\ placed' \in [Sides -> Nat] /\ shut' \in [Sides -> Nat]
      /\ \A s \in Sides : placed'[s] = 0 /\ shut'[s] = 0
  BY <1>1, <1>a, ForgetFacts
<1>c. pc' = "idle" BY <1>1 DEF Forget
<1>3. Kinds'
  <2>1. Len(bars') <= MaxBars BY <1>a, MaxBarsAssumption
  <2> QED BY <1>1, <1>a, <1>b, <1>c, <2>1 DEF Kinds
<1>6. Edits'
  <2>1. edited' = "no" BY <1>1, <1>2, Zenon DEF Edits
  <2> QED BY <1>c, <2>1, Zenon DEF Edits
<1>7. Exposure'
  <2> SUFFICES ASSUME NEW s \in Sides
               PROVE  /\ resting[s] <= faults
                      /\ Dir(s) * pos + resting[s]
                           <= Count(row.side[s]) + 0 - 0 + Batch * (faults + Spent)
    BY <1>1, <1>2, <1>b, <1>c DEF Exposure, Claim
  <2>1. /\ resting[s] <= faults
        /\ Dir(s) * pos + resting[s] <= Count(row.side[s]) + Batch * (faults + Spent)
    BY <1>1 DEF Exposure
  <2>2. Count(row.side[s]) + 0 - 0 = Count(row.side[s]) BY SideFacts
  <2> QED BY <2>1, <2>2
<1>8. Lateness'
  <2>1. pc' \notin {"reconcile", "advance", "orders"} BY <1>c
  <2> QED BY <1>1, <2>1, Zenon DEF Lateness
<1> QED BY <1>3, <1>b, <1>6, <1>7, <1>8

LEMMA SaveStep ==
    ASSUME Kinds, Stages, Accounts, Edits, Exposure, Lateness, Save
    PROVE  Kinds' /\ Stages' /\ Accounts' /\ Edits' /\ Exposure' /\ Lateness'
<1>1. /\ UNCHANGED <<pos, resting, late, faults, edits, stops>>
      /\ pc = "save" /\ row' = w /\ Forget /\ bars' = <<>>
  BY Zenon DEF Save, Consume, exchange, NoFault
<1>2. Spent' = Spent /\ edited' = edited /\ halted' = halted
  BY Zenon DEF Save, Spent
<1>a. row' \in Ledgers /\ bars' \in Seq(Bars) /\ Len(bars') = 0 BY <1>1 DEF Kinds
<1>b. /\ Stages' /\ Accounts' /\ w' \in Ledgers /\ done' \in 0..Len(bars')
      /\ fills' \in [Sides -> Nat] /\ closes' \in [Sides -> Nat]
      /\ placed' \in [Sides -> Nat] /\ shut' \in [Sides -> Nat]
      /\ \A s \in Sides : placed'[s] = 0 /\ shut'[s] = 0
  BY <1>1, <1>a, ForgetFacts
<1>c. pc' = "idle" BY <1>1 DEF Forget
<1>3. Kinds'
  <2>1. Len(bars') <= MaxBars BY <1>a, MaxBarsAssumption
  <2> QED BY <1>1, <1>a, <1>b, <1>c, <2>1 DEF Kinds
<1>6. Edits'
  <2>1. edited' = "no" BY <1>1, <1>2, Zenon DEF Edits
  <2> QED BY <1>c, <2>1, Zenon DEF Edits
<1>7. Exposure'
  <2> SUFFICES ASSUME NEW s \in Sides
               PROVE  /\ resting[s] <= faults
                      /\ Dir(s) * pos + resting[s]
                           <= Count(w.side[s]) + 0 - 0 + Batch * (faults + Spent)
    BY <1>1, <1>2, <1>b, <1>c DEF Exposure, Claim
  <2>1. /\ resting[s] <= faults
        /\ Dir(s) * pos + resting[s] <= Claim(s) + Batch * (faults + Spent)
    BY DEF Exposure
  <2>2. placed[s] = fills[s] /\ shut[s] = closes[s] BY <1>1 DEF Stages, AllPlaced, AllShut
  <2>3. Count(w.side[s]) + closes[s] = Count(row.side[s]) + fills[s]
    BY <1>1 DEF Accounts, Afterwards
  <2>4. Claim(s) = Count(w.side[s]) + 0 - 0
    <3>1. /\ Count(row.side[s]) \in Nat /\ Count(w.side[s]) \in Nat
          /\ fills[s] \in Nat /\ closes[s] \in Nat
      BY SideFacts
    <3>2. Claim(s) = Count(row.side[s]) + fills[s] - closes[s] BY <2>2 DEF Claim
    <3> QED BY <2>3, <3>1, <3>2
  <2> QED BY <2>1, <2>4
<1>8. Lateness'
  <2>1. pc' \notin {"reconcile", "advance", "orders"} BY <1>c
  <2> QED BY <1>1, <2>1, Zenon DEF Lateness
<1> QED BY <1>3, <1>b, <1>6, <1>7, <1>8

\* A fault pays for the batch an iteration may have sent.
LEMMA FaultPays ==
    ASSUME Kinds, Accounts, Edits, Exposure, faults < MaxFaults, NEW s \in Sides
    PROVE  /\ Dir(s) * pos + resting[s]
                <= Count(row.side[s]) + Batch * (faults + 1 + Spent)
           /\ Dir(s) * pos + resting[s] <= Claim(s) + Batch * (faults + 1 + Spent)
           /\ placed[s] < fills[s] => Dir(s) * pos + resting[s] + 1
                <= Count(row.side[s]) + Batch * (faults + 1 + Spent)
           /\ Dir(s) * pos + resting[s] + 1 <= Claim(s) + Batch * (faults + 1 + Spent)
           /\ resting[s] <= faults
<1> DEFINE d == Dir(s) * pos b == Batch * (faults + Spent) k == Batch
           o == Count(row.side[s]) p == placed[s] h == shut[s] r == resting[s]
<1>1. /\ d \in Int /\ b \in Nat /\ k \in Nat /\ k >= 1 /\ o \in Nat /\ p \in Nat
      /\ h \in Nat /\ r \in Nat /\ fills[s] \in Nat
  BY SideFacts, BoundFacts, BatchFacts
<1>2. Batch * (faults + 1 + Spent) = b + k BY BoundFacts
<1>3. p <= k /\ fills[s] <= k BY FillsBound
<1>4. r <= faults /\ d + r <= o + p - h + b BY DEF Exposure, Claim
<1> HIDE DEF d, b, k, o, p, h, r
<1>5. /\ d + r <= o + (b + k) /\ d + r <= o + p - h + (b + k)
      /\ p < fills[s] => d + r + 1 <= o + (b + k)
      /\ d + r + 1 <= o + p - h + (b + k)
  BY <1>1, <1>3, <1>4
<1> QED BY <1>2, <1>4, <1>5 DEF d, o, p, h, r, Claim

LEMMA AbortStep ==
    ASSUME Kinds, Stages, Accounts, Edits, Exposure, Lateness, Abort
    PROVE  Kinds' /\ Stages' /\ Accounts' /\ Edits' /\ Exposure' /\ Lateness'
<1>1. /\ UNCHANGED <<row, bars, pos, resting, late, edits, stops>>
      /\ pc # "idle" /\ Forget /\ faults < MaxFaults /\ faults' = faults + 1
  BY Zenon DEF Abort, Outside, exchange, Fault
<1>2. Spent' = Spent /\ edited' = edited /\ halted' = halted
  BY Zenon DEF Abort, Outside, Spent
<1>a. row' \in Ledgers /\ bars' \in Seq(Bars) BY <1>1 DEF Stages, Kinds
<1>b. /\ Stages' /\ Accounts' /\ w' \in Ledgers /\ done' \in 0..Len(bars')
      /\ fills' \in [Sides -> Nat] /\ closes' \in [Sides -> Nat]
      /\ placed' \in [Sides -> Nat] /\ shut' \in [Sides -> Nat]
      /\ \A s \in Sides : placed'[s] = 0 /\ shut'[s] = 0
  BY <1>1, <1>a, ForgetFacts
<1>c. pc' = "idle" BY <1>1 DEF Forget
<1>3. Kinds'
  <2>1. faults' \in 0..MaxFaults BY <1>1, BoundsAssumption DEF Kinds
  <2> QED BY <1>1, <1>b, <1>c, <2>1 DEF Kinds
<1>6. Edits'
  <2>1. edited' # "no" => edits' >= 1 BY <1>1, <1>2, Zenon DEF Edits
  <2> QED BY <1>c, <2>1, Zenon DEF Edits
<1>7. Exposure'
  <2> SUFFICES ASSUME NEW s \in Sides
               PROVE  /\ resting[s] <= faults + 1
                      /\ Dir(s) * pos + resting[s]
                           <= Count(row.side[s]) + 0 - 0 + Batch * (faults + 1 + Spent)
    BY <1>1, <1>2, <1>b, <1>c DEF Exposure, Claim
  <2>1. /\ Dir(s) * pos + resting[s] <= Count(row.side[s]) + Batch * (faults + 1 + Spent)
        /\ resting[s] <= faults
    BY <1>1, FaultPays
  <2>2. Count(row.side[s]) + 0 - 0 = Count(row.side[s]) BY SideFacts
  <2>3. resting[s] <= faults + 1 BY <2>1, SideFacts, BoundFacts
  <2> QED BY <2>1, <2>2, <2>3
<1>8. Lateness'
  <2>1. pc' \notin {"reconcile", "advance", "orders"} BY <1>c
  <2> QED BY <1>1, <2>1, Zenon DEF Lateness
<1> QED BY <1>3, <1>b, <1>6, <1>7, <1>8

LEMMA GuardStep ==
    ASSUME Kinds, Stages, Accounts, Edits, Exposure, Lateness, Guard
    PROVE  Kinds' /\ Stages' /\ Accounts' /\ Edits' /\ Exposure' /\ Lateness'
<1>1. /\ UNCHANGED <<row, bars, pos, resting, late, edits, stops>>
      /\ pc = "guard"
      /\ \/ Forget /\ faults' = faults
         \/ /\ ~halted /\ pc' \in {"reconcile", "advance"} /\ w' = row
            /\ UNCHANGED <<done, fills, closes, placed, shut>>
            /\ faults' = faults \/ (faults < MaxFaults /\ faults' = faults + 1)
  <2>1. /\ UNCHANGED <<row, bars, pos, resting, late, edits, stops>> /\ pc = "guard"
        /\ \/ Forget /\ faults' = faults
           \/ /\ ~halted
              /\ \/ /\ pc' = IF Flat(row) /\ pos # 0 THEN "reconcile" ELSE "advance"
                    /\ faults' = faults
                 \/ pc' = "advance" /\ faults < MaxFaults /\ faults' = faults + 1
              /\ w' = row
              /\ UNCHANGED <<done, fills, closes, placed, shut>>
    BY Zenon DEF Guard, Outside, exchange, Fault, NoFault
  <2> QED BY <2>1, Zenon
<1>2. Spent' = Spent /\ edited' = edited /\ halted' = halted
  BY Zenon DEF Guard, Outside, Spent
<1>3. faults \in Nat /\ faults' \in 0..MaxFaults /\ faults' >= faults
  BY <1>1, BoundsAssumption DEF Kinds
<1>4. edited = "no" BY <1>1, Zenon DEF Edits
<1>a. pc' # "reseed" BY <1>1 DEF Forget
<1>5. Edits' BY <1>2, <1>4, <1>a, Zenon DEF Edits
<1>6. fills = Zero /\ closes = Zero /\ placed = Zero /\ shut = Zero /\ done = 0
      /\ done < Len(bars) /\ row \in Ledgers
  BY <1>1 DEF Stages, Kinds
<1>7. \A s \in Sides : Zero[s] = 0 BY DEF Zero
<1>8. Exposure' /\ Lateness' /\ (Stages' /\ Accounts') /\ Kinds'
  <2>1. /\ Stages' /\ Accounts' /\ Kinds' /\ pc' # "rollback"
        /\ \A s \in Sides : placed'[s] = 0 /\ shut'[s] = 0
    <3>1. CASE Forget
      <4>1. row' \in Ledgers /\ bars' \in Seq(Bars) BY <1>1, <1>6 DEF Kinds
      <4>2. /\ Stages' /\ Accounts' /\ w' \in Ledgers /\ done' \in 0..Len(bars')
            /\ fills' \in [Sides -> Nat] /\ closes' \in [Sides -> Nat]
            /\ placed' \in [Sides -> Nat] /\ shut' \in [Sides -> Nat]
            /\ \A s \in Sides : placed'[s] = 0 /\ shut'[s] = 0
        BY <3>1, <4>1, ForgetFacts
      <4>3. pc' = "idle" BY <3>1 DEF Forget
      <4>4. Kinds' BY <1>1, <1>3, <4>2, <4>3 DEF Kinds
      <4> QED BY <4>2, <4>3, <4>4
    <3>2. CASE /\ pc' \in {"reconcile", "advance"} /\ w' = row
               /\ UNCHANGED <<done, fills, closes, placed, shut>>
      <4>1. Stages' BY <1>1, <1>6, <3>2 DEF Stages
      <4>2. Accounts'
        <5> SUFFICES ASSUME NEW s \in Sides
                     PROVE  /\ Count(row.side[s]) + 0 = Count(row.side[s]) + 0
                            /\ 0 <= 0
          BY <1>1, <1>6, <1>7, <3>2 DEF Accounts
        <5> QED OBVIOUS
      <4>3. Kinds' BY <1>1, <1>3, <3>2 DEF Kinds
      <4> QED BY <1>6, <1>7, <3>2, <4>1, <4>2, <4>3
    <3> QED BY <1>1, <3>1, <3>2
  <2>2. Exposure'
    <3> SUFFICES ASSUME NEW s \in Sides
                 PROVE  /\ resting[s] <= faults'
                        /\ Dir(s) * pos + resting[s]
                             <= Count(row.side[s]) + 0 - 0 + Batch * (faults' + Spent)
      BY <1>1, <1>2, <2>1 DEF Exposure, Claim
    <3>1. Claim(s) = Count(row.side[s]) + 0 - 0 BY <1>6, <1>7 DEF Claim
    <3>2. /\ resting[s] <= faults
          /\ Dir(s) * pos + resting[s] <= Claim(s) + Batch * (faults + Spent)
      BY DEF Exposure
    <3>3. CASE faults' = faults BY <3>1, <3>2, <3>3
    <3>4. CASE faults < MaxFaults /\ faults' = faults + 1
      <4>1. resting[s] <= faults + 1 BY <3>2, <1>3, SideFacts
      <4>2. Dir(s) * pos + resting[s] <= Claim(s) + Batch * (faults + 1 + Spent)
        BY <3>4, FaultPays
      <4> QED BY <3>1, <3>4, <4>1, <4>2
    <3> QED BY <1>1, <3>3, <3>4
  <2>3. Lateness'
    <3>1. pc' = "idle" \/ ~halted BY <1>1, Zenon DEF Forget
    <3>2. pc' = "idle" => pc' \notin {"reconcile", "advance", "orders"} OBVIOUS
    <3>3. late' <= 2 * Batch BY <1>1 DEF Lateness
    <3> QED BY <1>2, <3>1, <3>2, <3>3, Zenon DEF Lateness
  <2> QED BY <2>1, <2>2, <2>3
<1> QED BY <1>5, <1>8

LEMMA ReconcileStep ==
    ASSUME Kinds, Stages, Accounts, Edits, Exposure, Lateness, Reconcile
    PROVE  Kinds' /\ Stages' /\ Accounts' /\ Edits' /\ Exposure' /\ Lateness'
<1>1. /\ UNCHANGED <<row, w, bars, resting, done, fills, closes, placed, shut,
                     late, edits, stops>>
      /\ pc = "reconcile" /\ pc' = "advance"
      /\ \/ pos' = 0 /\ faults' = faults
         \/ pos' = pos /\ faults < MaxFaults /\ faults' = faults + 1
  BY Zenon DEF Reconcile, ledger, iter, Fault, NoFault
<1>2. Spent' = Spent /\ edited' = edited /\ halted' = halted
  BY Zenon DEF Reconcile, ledger, Spent
<1>3. faults \in Nat /\ faults' \in 0..MaxFaults /\ faults' >= faults
  BY <1>1, BoundsAssumption DEF Kinds
<1>4. edited = "no" BY <1>1, Zenon DEF Edits
<1>a. pc' # "reseed" BY <1>1
<1>5. Edits' BY <1>2, <1>4, <1>a, Zenon DEF Edits
<1>6. Stages' BY <1>1 DEF Stages, AllPlaced, AllShut
<1>7. Accounts' BY <1>1 DEF Accounts, Afterwards, AllPlaced
<1>8. Kinds' BY <1>1, <1>3 DEF Kinds
<1>9. Exposure'
  <2> SUFFICES ASSUME NEW s \in Sides
               PROVE  /\ resting[s] <= faults'
                      /\ Dir(s) * pos' + resting[s]
                           <= Claim(s) + Batch * (faults' + Spent)
    BY <1>1, <1>2 DEF Exposure, Claim
  <2>1. /\ resting[s] <= faults
        /\ Dir(s) * pos + resting[s] <= Claim(s) + Batch * (faults + Spent)
    BY DEF Exposure
  <2>2. CASE pos' = 0 /\ faults' = faults
    <3>1. Claim(s) \in Int /\ Claim(s) >= 0 /\ resting[s] \in Nat
      BY SideFacts, ClaimFact
    <3>2. Batch * (faults + Spent) \in Nat /\ Batch * (faults + Spent) >= faults
      BY BoundFacts
    <3>3. Dir(s) * 0 = 0 BY DEF Dir
    <3> DEFINE c == Claim(s) b == Batch * (faults + Spent) r == resting[s]
    <3>4. c \in Int /\ c >= 0 /\ b \in Nat /\ b >= faults /\ r \in Nat /\ r <= faults
      BY <2>1, <3>1, <3>2
    <3> HIDE DEF c, b, r
    <3>5. 0 + r <= c + b BY <1>3, <3>4
    <3> QED BY <2>1, <2>2, <3>3, <3>5 DEF c, b, r
  <2>3. CASE pos' = pos /\ faults < MaxFaults /\ faults' = faults + 1
    <3>1. resting[s] <= faults + 1 BY <2>1, <1>3, SideFacts
    <3>2. Dir(s) * pos + resting[s] <= Claim(s) + Batch * (faults + 1 + Spent)
      BY <2>3, FaultPays
    <3> QED BY <2>3, <3>1, <3>2
  <2> QED BY <1>1, <2>2, <2>3
<1>10. Lateness'
  <2>1. halted' => late <= placed["long"] + placed["short"]
    BY <1>1, <1>2, Zenon DEF Lateness
  <2>2. late' <= 2 * Batch BY <1>1 DEF Lateness
  <2> QED BY <1>1, <2>1, <2>2, Zenon DEF Lateness
<1> QED BY <1>5, <1>6, <1>7, <1>8, <1>9, <1>10

LEMMA AdvanceStep ==
    ASSUME Kinds, Flags, Stages, Accounts, Edits, Exposure, Lateness, Advance
    PROVE  Kinds' /\ Stages' /\ Accounts' /\ Edits' /\ Exposure' /\ Lateness'
<1>1. /\ UNCHANGED <<row, bars, pos, resting, placed, shut, late, faults, edits, stops>>
      /\ pc = "advance" /\ pc' = IF done + 1 = Len(bars) THEN "orders" ELSE "advance"
      /\ done' = done + 1
  BY Zenon DEF Advance, Outside, exchange, NoFault
<1>2. Spent' = Spent /\ edited' = edited /\ halted' = halted
  BY Zenon DEF Advance, Outside, Spent
<1>3. edited = "no" BY <1>1, Zenon DEF Edits
<1>a. pc' # "reseed" BY <1>1
<1>4. Edits' BY <1>2, <1>3, <1>a, Zenon DEF Edits
<1>5. placed = Zero /\ shut = Zero /\ done < Len(bars)
  BY <1>1 DEF Stages
<1>6. \A s \in Sides : Zero[s] = 0 BY DEF Zero
<1>7. TypeOK BY Zenon, TypeParts
<1>8. /\ w' \in Ledgers
      /\ fills' \in [Sides -> Nat] /\ closes' \in [Sides -> Nat]
      /\ \A s \in Sides : \E n \in 0..N, c \in Nat :
            /\ fills'[s] = fills[s] + n /\ closes'[s] = closes[s] + c
            /\ Count(w'.side[s]) + c = Count(w.side[s]) + n
  BY <1>5, <1>7, AdvanceFacts
<1>9. done \in Nat /\ Len(bars) \in Nat /\ done + 1 <= Len(bars) /\ done \in 0..MaxBars
  BY <1>5, MaxBarsAssumption DEF Kinds
<1>10. pc' \in {"advance", "orders"} /\ (pc' = "advance" => done + 1 < Len(bars))
  BY <1>1, <1>9
<1>11. Kinds'
  <2>1. done' \in 0..Len(bars') BY <1>1, <1>9
  <2> QED BY <1>1, <1>8, <1>10, <2>1 DEF Kinds
<1>12. Stages'
  BY <1>1, <1>5, <1>8, <1>10 DEF Stages
<1>13. Accounts'
  <2> SUFFICES ASSUME NEW s \in Sides
               PROVE  /\ Count(w'.side[s]) + closes'[s] = Count(row.side[s]) + fills'[s]
                      /\ 0 <= fills'[s] /\ 0 <= closes'[s]
                      /\ fills'[s] <= N * (done + 1)
    BY <1>1, <1>5, <1>6, <1>9 DEF Accounts
  <2>1. PICK n \in 0..N, c \in Nat :
           /\ fills'[s] = fills[s] + n /\ closes'[s] = closes[s] + c
           /\ Count(w'.side[s]) + c = Count(w.side[s]) + n
    BY <1>8
  <2>2. Count(w.side[s]) + closes[s] = Count(row.side[s]) + fills[s]
    BY <1>1 DEF Accounts, Afterwards
  <2>3. fills[s] <= N * done
    BY DEF Accounts
  <2>4. /\ Count(row.side[s]) \in Nat /\ Count(w.side[s]) \in Nat
        /\ fills[s] \in Nat /\ closes[s] \in Nat /\ n \in Nat /\ n <= N /\ N \in Nat
    BY SideFacts, NAssumption
  <2>5. Count(w'.side[s]) \in Nat
    <3>1. w'.side[s] \in Rungs BY <1>8 DEF Ledgers
    <3> QED BY <3>1, RungsFacts, NAssumption
  <2>6. Count(w'.side[s]) + closes'[s] = Count(row.side[s]) + fills'[s]
    BY <2>1, <2>2, <2>4, <2>5
  <2>7. 0 <= fills'[s] /\ 0 <= closes'[s] BY <2>1, <2>4
  <2>8. fills'[s] <= N * (done + 1)
    <3> DEFINE m == N * done
    <3>1. m \in Nat /\ N * (done + 1) = m + N BY <1>9, BatchCovers
    <3>2. fills[s] <= m BY <2>3
    <3> HIDE DEF m
    <3> QED BY <2>1, <2>4, <3>1, <3>2
  <2> QED BY <2>6, <2>7, <2>8
<1>14. Exposure' BY <1>1, <1>2, <1>10 DEF Exposure, Claim
<1>15. Lateness'
  <2>1. halted' => late <= placed["long"] + placed["short"]
    BY <1>1, <1>2, Zenon DEF Lateness
  <2>2. late' <= 2 * Batch BY <1>1 DEF Lateness
  <2> QED BY <1>1, <2>1, <2>2, Zenon DEF Lateness
<1> QED BY <1>4, <1>11, <1>12, <1>13, <1>14, <1>15
LEMMA PlaceFillStep ==
    ASSUME Kinds, Stages, Accounts, Edits, Exposure, Lateness,
           NEW r \in Sides, PlaceFill(r)
    PROVE  Kinds' /\ Stages' /\ Accounts' /\ Edits' /\ Exposure' /\ Lateness'
<1>1. /\ UNCHANGED <<row, w, bars, done, fills, closes, shut, edits, stops>>
      /\ pc = "orders" /\ placed[r] < fills[r]
      /\ \/ /\ pc' = "orders" /\ placed' = [placed EXCEPT ![r] = placed[r] + 1]
            /\ pos' = pos + Dir(r) /\ resting' = resting /\ faults' = faults
            /\ CountLate
         \/ /\ pc' = "rollback" /\ placed' = placed
            /\ faults < MaxFaults /\ faults' = faults + 1
            /\ \/ pos' = pos /\ resting' = resting /\ late' = late
               \/ pos' = pos + Dir(r) /\ resting' = resting /\ CountLate
               \/ /\ pos' = pos /\ CountLate
                  /\ resting' = [resting EXCEPT ![r] = resting[r] + 1]
  BY Zenon DEF PlaceFill, ledger, Fault, NoFault
<1>2. Spent' = Spent /\ edited' = edited /\ halted' = halted
  BY Zenon DEF PlaceFill, ledger, Spent
<1>3. edited = "no" BY <1>1, Zenon DEF Edits
<1>4. Edits'
  <2>1. pc' # "reseed" BY <1>1
  <2> QED BY <1>2, <1>3, <2>1, Zenon DEF Edits
<1>5. faults \in Nat /\ faults' \in 0..MaxFaults /\ faults' >= faults
  BY <1>1, BoundsAssumption DEF Kinds
<1>6. shut = Zero
  <2> SUFFICES ASSUME NEW s \in Sides PROVE shut[s] = 0 BY DEF Kinds, Zero
  <2>1. ~AllPlaced
    <3>1. placed[r] \in Nat /\ fills[r] \in Nat BY SideFacts
    <3> QED BY <1>1, <3>1 DEF AllPlaced
  <2> QED BY <2>1, SideFacts DEF Accounts
<1>7. \A s \in Sides : Zero[s] = 0 BY DEF Zero
<1>8. /\ pos \in Int /\ pos' \in Int /\ resting \in [Sides -> Nat]
      /\ resting' \in [Sides -> Nat] /\ placed \in [Sides -> Nat]
      /\ placed' \in [Sides -> Nat]
  <2>1. pos \in Int /\ resting \in [Sides -> Nat] /\ placed \in [Sides -> Nat] BY DEF Kinds
  <2>2. pos + Dir(r) \in Int BY <2>1 DEF Dir
  <2>3. pos' \in Int BY <1>1, <2>1, <2>2
  <2>4. resting' \in [Sides -> Nat]
    <3>1. resting' = resting \/ resting' = [resting EXCEPT ![r] = resting[r] + 1] BY <1>1
    <3>2. resting[r] + 1 \in Nat BY <2>1
    <3> QED BY <2>1, <3>1, <3>2
  <2>5. placed' \in [Sides -> Nat]
    <3>1. placed' = placed \/ placed' = [placed EXCEPT ![r] = placed[r] + 1] BY <1>1
    <3>2. placed[r] + 1 \in Nat BY <2>1
    <3> QED BY <2>1, <3>1, <3>2
  <2> QED BY <2>1, <2>3, <2>4, <2>5
<1>9. late \in Nat /\ late <= 2 * Batch /\ late' \in 0..(2 * Batch + 1)
      /\ late' <= late + 1
  <2>1. late \in 0..(2 * Batch + 1) /\ late <= 2 * Batch BY DEF Kinds, Lateness
  <2>2. late' = late \/ late' = Least(late + 1, 2 * Batch + 1)
    BY <1>1, Zenon DEF CountLate
  <2> QED BY <2>1, <2>2, BatchFacts DEF Least
<1>10. Kinds' BY <1>1, <1>5, <1>8, <1>9 DEF Kinds
<1>11. Stages' BY <1>1 DEF Stages
<1>12. Accounts'
  <2> SUFFICES ASSUME NEW s \in Sides
               PROVE  /\ Count(w.side[s]) + closes[s] = Count(row.side[s]) + fills[s]
                      /\ placed'[s] <= fills[s] /\ shut[s] <= closes[s]
                      /\ shut[s] > 0 => AllPlaced'
                      /\ fills[s] <= N * done
    BY <1>1 DEF Accounts
  <2>1. placed[s] <= fills[s] /\ placed[s] \in Nat /\ fills[s] \in Nat
    BY SideFacts DEF Accounts
  <2>2. placed'[s] <= fills[s]
    <3>1. CASE s = r BY <1>1, <1>8, <2>1, <3>1, SideFacts
    <3>2. CASE s # r BY <1>1, <1>8, <2>1, <3>2
    <3> QED BY <3>1, <3>2
  <2>3. ~(shut[s] > 0) BY <1>6, <1>7
  <2> QED BY <1>1, <2>2, <2>3 DEF Accounts, Afterwards
<1>13. Exposure'
  <2> SUFFICES ASSUME NEW s \in Sides
               PROVE  /\ resting'[s] <= faults'
                      /\ Dir(s) * pos' + resting'[s] <=
                           Count(row.side[s]) + placed'[s] - shut[s] + Batch * (faults' + Spent)
                      /\ pc' = "rollback" => Dir(s) * pos' + resting'[s]
                           <= Count(row.side[s]) + Batch * (faults' + Spent)
    BY <1>1, <1>2 DEF Exposure, Claim
  <2>1. /\ resting[s] <= faults
        /\ Dir(s) * pos + resting[s] <= Claim(s) + Batch * (faults + Spent)
    BY DEF Exposure
  <2>2. Batch * (faults + Spent) \in Nat BY BoundFacts
  <2>3. /\ Dir(s) * pos \in Int /\ Count(row.side[s]) \in Nat /\ resting[s] \in Nat
        /\ placed[s] \in Nat /\ shut[s] = 0 /\ shut[s] \in Nat
    BY <1>6, <1>7, SideFacts
  <2>4. Dir(s) * (pos + Dir(r)) = Dir(s) * pos + (IF s = r THEN 1 ELSE -1)
    BY <1>8 DEF Dir, Sides
  <2>5. CASE /\ pc' = "orders" /\ placed' = [placed EXCEPT ![r] = placed[r] + 1]
             /\ pos' = pos + Dir(r) /\ resting' = resting /\ faults' = faults
    <3> DEFINE d == Dir(s) * pos b == Batch * (faults + Spent)
    <3>1. /\ d \in Int /\ b \in Nat
          /\ d + resting[s] <= Count(row.side[s]) + placed[s] - shut[s] + b
          /\ Dir(s) * pos' = d + (IF s = r THEN 1 ELSE -1)
      BY <2>1, <2>2, <2>3, <2>4, <2>5 DEF Claim
    <3>2. placed'[s] = IF s = r THEN placed[s] + 1 ELSE placed[s] BY <1>8, <2>5
    <3> HIDE DEF d, b
    <3>3. Dir(s) * pos' + resting[s] <= Count(row.side[s]) + placed'[s] - shut[s] + b
      BY <2>3, <3>1, <3>2
    <3> QED BY <2>1, <2>5, <3>3 DEF b
  <2>6. CASE /\ pc' = "rollback" /\ placed' = placed
             /\ faults < MaxFaults /\ faults' = faults + 1
             /\ \/ pos' = pos /\ resting' = resting
                \/ pos' = pos + Dir(r) /\ resting' = resting
                \/ pos' = pos /\ resting' = [resting EXCEPT ![r] = resting[r] + 1]
    <3> DEFINE d == Dir(s) * pos b == Batch * (faults + 1 + Spent) o == Count(row.side[s])
               e == Dir(s) * pos'
    <3>1. /\ d + resting[s] <= o + b
          /\ placed[s] < fills[s] => d + resting[s] + 1 <= o + b
      BY <2>6, FaultPays
    <3>2. b \in Nat BY <2>6, BoundFacts, BatchFacts
    <3>3. d \in Int /\ o \in Nat /\ e \in Int BY <2>3, <1>8 DEF Dir
    <3>4. /\ e = d \/ (e = d + (IF s = r THEN 1 ELSE -1) /\ resting'[s] = resting[s])
          /\ \/ resting'[s] = resting[s]
             \/ e = d /\ s = r /\ resting'[s] = resting[s] + 1
      <4>1. CASE pos' = pos /\ resting' = resting BY <4>1
      <4>2. CASE pos' = pos + Dir(r) /\ resting' = resting BY <2>4, <4>2
      <4>3. CASE pos' = pos /\ resting' = [resting EXCEPT ![r] = resting[r] + 1]
        <5>1. resting'[s] = IF s = r THEN resting[s] + 1 ELSE resting[s] BY <1>8, <4>3
        <5>2. e = d BY <4>3
        <5>3. CASE s = r BY <5>1, <5>2, <5>3, Zenon
        <5>4. CASE s # r BY <5>1, <5>2, <5>4, Zenon
        <5> QED BY <5>3, <5>4
      <4> QED BY <2>6, <4>1, <4>2, <4>3
    <3>5. resting'[s] \in Nat /\ resting'[s] <= faults + 1
      BY <1>5, <1>8, <2>1, <2>3, <3>4
    <3>6. s = r => placed[s] < fills[s] BY <1>1
    <3> HIDE DEF d, b, o, e
    <3>7. e + resting'[s] <= o + b
      BY <2>3, <3>1, <3>2, <3>3, <3>4, <3>5, <3>6
    <3>8. e + resting'[s] <= o + placed[s] - shut[s] + b
      BY <2>3, <3>2, <3>3, <3>5, <3>7
    <3> QED BY <2>6, <3>5, <3>7, <3>8 DEF b, o, e
  <2> QED BY <1>1, <2>5, <2>6
<1>14. Lateness'
  <2>1. /\ placed["long"] \in Nat /\ placed["short"] \in Nat
        /\ fills["long"] \in Nat /\ fills["short"] \in Nat
        /\ fills["long"] <= Batch /\ fills["short"] <= Batch
        /\ placed["long"] <= fills["long"] /\ placed["short"] <= fills["short"]
    BY SideFacts, FillsBound DEF Sides, Accounts
  <2>2. halted => late <= placed["long"] + placed["short"]
    BY <1>1, Zenon DEF Lateness
  <2>3. placed["long"] + placed["short"] + 1 <= 2 * Batch
    <3> DEFINE k == Batch
    <3>1. k \in Nat BY BatchFacts
    <3> HIDE DEF k
    <3>2. r = "long" \/ r = "short" BY DEF Sides
    <3>3. placed["long"] + placed["short"] + 1 <= 2 * k
      <4> USE DEF k
      <4>1. placed[r] < fills[r] BY <1>1
      <4>2. CASE r = "long" BY <2>1, <4>1, <4>2, BatchFacts
      <4>3. CASE r = "short" BY <2>1, <4>1, <4>3, BatchFacts
      <4> QED BY <3>2, <4>2, <4>3
    <3> QED BY <3>3 DEF k
  <2>4. ~halted => late' = late
    BY <1>1, Zenon DEF CountLate
  <2>5. late' <= 2 * Batch
    <3>1. CASE halted BY <1>9, <2>1, <2>2, <2>3, <3>1, BatchFacts
    <3>2. CASE ~halted BY <1>9, <2>4, <3>2
    <3> QED BY <3>1, <3>2
  <2>6. pc' = "orders" /\ halted => late' <= placed'["long"] + placed'["short"]
    <3> SUFFICES ASSUME pc' = "orders", halted
                 PROVE  late' <= placed'["long"] + placed'["short"]
      OBVIOUS
    <3>1. placed' = [placed EXCEPT ![r] = placed[r] + 1] BY <1>1
    <3>2. late <= placed["long"] + placed["short"] BY <2>2, Zenon
    <3>3. CASE r = "long"
      <4>1. placed'["long"] = placed["long"] + 1 /\ placed'["short"] = placed["short"]
        BY <1>8, <3>1, <3>3 DEF Sides
      <4> QED BY <1>9, <2>1, <3>2, <4>1
    <3>4. CASE r = "short"
      <4>1. placed'["long"] = placed["long"] /\ placed'["short"] = placed["short"] + 1
        BY <1>8, <3>1, <3>4 DEF Sides
      <4> QED BY <1>9, <2>1, <3>2, <4>1
    <3> QED BY <3>3, <3>4 DEF Sides
  <2>7. pc' \in {"orders", "rollback"} BY <1>1
  <2>8. pc' \in {"reconcile", "advance", "orders"} => pc' = "orders" BY <2>7
  <2> QED BY <1>2, <2>5, <2>6, <2>8, Zenon DEF Lateness
<1> QED BY <1>4, <1>10, <1>11, <1>12, <1>13, <1>14

LEMMA ShutCloseStep ==
    ASSUME Kinds, Stages, Accounts, Edits, Exposure, Lateness,
           NEW r \in Sides, ShutClose(r)
    PROVE  Kinds' /\ Stages' /\ Accounts' /\ Edits' /\ Exposure' /\ Lateness'
<1>1. /\ UNCHANGED <<row, w, bars, resting, done, fills, closes, placed, late, edits, stops>>
      /\ pc = "orders" /\ AllPlaced /\ shut[r] < closes[r]
      /\ \/ /\ pc' = "orders" /\ shut' = [shut EXCEPT ![r] = shut[r] + 1]
            /\ \/ pos' = Shrunk(r) /\ faults' = faults
               \/ pos' = pos /\ faults < MaxFaults /\ faults' = faults + 1
         \/ /\ pc' = "rollback" /\ shut' = shut
            /\ faults < MaxFaults /\ faults' = faults + 1
            /\ pos' = pos \/ pos' = Shrunk(r)
  BY Zenon DEF ShutClose, ledger, Fault, NoFault
<1>2. Spent' = Spent /\ edited' = edited /\ halted' = halted
  BY Zenon DEF ShutClose, ledger, Spent
<1>3. edited = "no" BY <1>1, Zenon DEF Edits
<1>4. Edits'
  <2>1. pc' # "reseed" BY <1>1
  <2> QED BY <1>2, <1>3, <2>1, Zenon DEF Edits
<1>5. faults \in Nat /\ faults' \in 0..MaxFaults /\ faults' >= faults
  BY <1>1, BoundsAssumption DEF Kinds
<1>6. /\ pos \in Int /\ shut \in [Sides -> Nat] /\ shut' \in [Sides -> Nat]
  <2>1. pos \in Int /\ shut \in [Sides -> Nat] BY DEF Kinds
  <2>2. shut' = shut \/ shut' = [shut EXCEPT ![r] = shut[r] + 1] BY <1>1
  <2>3. shut[r] + 1 \in Nat BY <2>1
  <2> QED BY <2>1, <2>2, <2>3
<1>7. /\ Shrunk(r) \in Int
      /\ Dir(r) * Shrunk(r) <= Dir(r) * pos
      /\ Dir(r) * Shrunk(r) <= 0 \/ Dir(r) * Shrunk(r) = Dir(r) * pos - 1
      /\ \A s \in Sides : Dir(s) * Shrunk(r) <= Dir(s) * pos \/ Dir(s) * Shrunk(r) <= 0
  BY <1>6 DEF Shrunk, Opposing, Dir, Sides
<1>8. pos' \in Int BY <1>1, <1>6, <1>7
<1>9. Kinds' BY <1>1, <1>5, <1>6, <1>8 DEF Kinds
<1>10. Stages' BY <1>1 DEF Stages
<1>11. Accounts'
  <2> SUFFICES ASSUME NEW s \in Sides
               PROVE  /\ Count(w.side[s]) + closes[s] = Count(row.side[s]) + fills[s]
                      /\ placed[s] <= fills[s] /\ shut'[s] <= closes[s]
                      /\ AllPlaced'
                      /\ fills[s] <= N * done
    BY <1>1 DEF Accounts
  <2>1. shut[s] <= closes[s] /\ shut[s] \in Nat /\ closes[s] \in Nat
    BY SideFacts DEF Accounts
  <2>2. shut'[s] <= closes[s]
    <3>1. CASE s = r BY <1>1, <1>6, <2>1, <3>1, SideFacts
    <3>2. CASE s # r BY <1>1, <1>6, <2>1, <3>2
    <3> QED BY <3>1, <3>2
  <2>3. AllPlaced' BY <1>1 DEF AllPlaced
  <2> QED BY <1>1, <2>2, <2>3 DEF Accounts, Afterwards
<1>12. Exposure'
  <2> SUFFICES ASSUME NEW s \in Sides
               PROVE  /\ resting[s] <= faults'
                      /\ Dir(s) * pos' + resting[s] <=
                           Count(row.side[s]) + placed[s] - shut'[s] + Batch * (faults' + Spent)
                      /\ pc' = "rollback" => Dir(s) * pos' + resting[s]
                           <= Count(row.side[s]) + Batch * (faults' + Spent)
    BY <1>1, <1>2 DEF Exposure, Claim
  <2> DEFINE d == Dir(s) * pos e == Dir(s) * pos' o == Count(row.side[s]) p == placed[s]
             h == shut[s] r0 == resting[s] b == Batch * (faults + Spent)
             b1 == Batch * (faults + 1 + Spent) g == shut'[s]
  <2>1. /\ d \in Int /\ e \in Int /\ o \in Nat /\ p \in Nat /\ h \in Nat /\ g \in Nat
        /\ r0 \in Nat /\ b \in Nat /\ b >= faults /\ Batch \in Nat
    BY <1>6, <1>8, SideFacts, BoundFacts, BatchFacts DEF Dir
  <2>2. /\ r0 <= faults /\ d + r0 <= o + p - h + b BY DEF Exposure, Claim
  <2>3. g = IF s = r /\ shut' # shut THEN h + 1 ELSE h BY <1>1, <1>6
  <2>4. o + p - g >= 0
    <3>1. Count(w.side[s]) + closes[s] = o + fills[s] /\ g <= closes[s] /\ p = fills[s]
      BY <1>1, <1>11 DEF Accounts, Afterwards, AllPlaced
    <3>2. Count(w.side[s]) \in Nat /\ closes[s] \in Nat /\ fills[s] \in Nat BY SideFacts
    <3> HIDE DEF o, p, g
    <3> QED BY <2>1, <3>1, <3>2
  <2>5. e = d \/ e <= 0 \/ (s = r /\ e = d - 1) BY <1>1, <1>6, <1>7 DEF Dir, Sides
  <2>6. CASE /\ pc' = "orders" /\ shut' = [shut EXCEPT ![r] = shut[r] + 1]
             /\ pos' = Shrunk(r) /\ faults' = faults
    <3>1. e <= 0 \/ (s = r /\ e = d - 1) \/ (s # r /\ e <= d)
      BY <1>6, <2>6 DEF Shrunk, Opposing, Dir, Sides
    <3>2. g = IF s = r THEN h + 1 ELSE h BY <1>6, <2>6
    <3> HIDE DEF d, e, o, p, h, r0, b, g
    <3>3. e + r0 <= o + p - g + b BY <1>5, <2>1, <2>2, <2>4, <3>1, <3>2
    <3> QED BY <2>2, <2>6, <3>3 DEF e, o, p, r0, b, g
  <2>7. CASE faults < MaxFaults /\ faults' = faults + 1
    <3>1. /\ d + r0 <= o + b1 /\ d + r0 + 1 <= o + p - h + b1 BY <2>7, FaultPays DEF Claim
    <3>2. b1 \in Nat /\ b1 >= faults
      <4>1. b1 = b + Batch BY <2>7, BoundFacts
      <4> HIDE DEF b1, b
      <4> QED BY <1>5, <2>1, <4>1
    <3>3. e <= d \/ e <= 0 BY <2>1, <2>5
    <3>4. g = h \/ g = h + 1 BY <2>3
    <3> HIDE DEF d, e, o, p, h, r0, b, b1, g
    <3>5. e + r0 <= o + p - g + b1 /\ e + r0 <= o + b1 /\ r0 <= faults + 1
      BY <1>5, <2>1, <2>2, <2>4, <3>1, <3>2, <3>3, <3>4
    <3> QED BY <2>7, <3>5 DEF e, o, p, r0, b1, g
  <2> QED BY <1>1, <2>6, <2>7
<1>13. Lateness'
  <2>1. halted => late <= placed["long"] + placed["short"]
    BY <1>1, Zenon DEF Lateness
  <2>2. late' <= 2 * Batch BY <1>1 DEF Lateness
  <2> QED BY <1>1, <1>2, <2>1, <2>2, Zenon DEF Lateness
<1> QED BY <1>4, <1>9, <1>10, <1>11, <1>12, <1>13
LEMMA RecordsStep ==
    ASSUME Kinds, Flags, Stages, Accounts, Edits, Exposure, Lateness, Step
    PROVE  Kinds' /\ Stages' /\ Accounts' /\ Edits' /\ Exposure' /\ Lateness'
<1>1. ASSUME NEW s \in Sides, PlaceFill(s) \/ ShutClose(s)
      PROVE  Kinds' /\ Stages' /\ Accounts' /\ Edits' /\ Exposure' /\ Lateness'
  <2>1. CASE PlaceFill(s) BY <2>1, PlaceFillStep
  <2>2. CASE ShutClose(s) BY <2>2, ShutCloseStep
  <2> QED BY <1>1, <2>1, <2>2
<1> QED
  BY <1>1, ReloadStep, ReseedStep, FetchStep, GuardStep, ReconcileStep, AdvanceStep,
     RecordStep, RollbackStep, TellStep, SaveStep, Zenon DEF Step

LEMMA WorldStep ==
    ASSUME Kinds, Flags, Stages, Accounts, Edits, Exposure, Lateness, World
    PROVE  Kinds' /\ Stages' /\ Accounts' /\ Edits' /\ Exposure' /\ Lateness'
<1>1. ASSUME NEW s \in Sides, RestingFill(s)
      PROVE  Kinds' /\ Stages' /\ Accounts' /\ Edits' /\ Exposure' /\ Lateness'
  BY <1>1, RestingFillStep
<1> QED
  BY <1>1, NewBarStep, FormStep, ReduceStep, HaltStep, ResumeStep, EditConfigStep, UnblockStep,
     Zenon DEF World

LEMMA StutterStep ==
    ASSUME Kinds, Stages, Accounts, Edits, Exposure, Lateness, UNCHANGED vars
    PROVE  Kinds' /\ Stages' /\ Accounts' /\ Edits' /\ Exposure' /\ Lateness'
<1>1. UNCHANGED <<row, w, bars, pos, resting, pc, done, fills, closes, placed, shut,
                  late, faults, edits, stops>>
  BY Zenon DEF vars
<1>2. Spent' = Spent /\ edited' = edited /\ halted' = halted BY Zenon DEF vars, Spent
<1>3. Kinds' BY <1>1 DEF Kinds
<1>4. Stages' BY <1>1 DEF Stages, AllPlaced, AllShut
<1>5. Accounts' BY <1>1 DEF Accounts, Afterwards, AllPlaced
<1>6. Edits' BY <1>1, <1>2, Zenon DEF Edits
<1>7. Exposure' BY <1>1, <1>2 DEF Exposure, Claim
<1>8. Lateness' BY <1>1, <1>2, Zenon DEF Lateness
<1> QED BY <1>3, <1>4, <1>5, <1>6, <1>7, <1>8

LEMMA InitInvariant == Init => IInv
<1> SUFFICES ASSUME Init PROVE IInv OBVIOUS
<1>1. /\ row = Fresh /\ bars = <<>> /\ pos = 0 /\ resting = Zero /\ pc = "idle"
      /\ w = Fresh /\ done = 0 /\ fills = Zero /\ closes = Zero /\ placed = Zero
      /\ shut = Zero /\ late = 0 /\ faults = 0 /\ edits = 0 /\ stops = 0
  BY Zenon DEF Init
<1>2. edited = "no" /\ Flags BY Zenon DEF Init, Flags, Mismatches
<1>3. Zero \in [Sides -> Nat] /\ \A s \in Sides : Zero[s] = 0 BY DEF Zero
<1>4. row \in Ledgers /\ w \in Ledgers /\ \A s \in Sides : Count(row.side[s]) = 0
  BY <1>1, FreshFacts
<1>5. Kinds
  <2>1. row \in Ledgers /\ w \in Ledgers BY <1>4
  <2>2. late \in 0..(2 * Batch + 1) BY <1>1, BatchFacts
  <2>3. bars \in Seq(Bars) /\ Len(bars) = 0 /\ Len(bars) <= MaxBars
    BY <1>1, MaxBarsAssumption
  <2> QED BY <1>1, <1>3, <2>1, <2>2, <2>3, BoundsAssumption DEF Kinds
<1>6. Stages BY <1>1, <1>4 DEF Stages
<1>7. Accounts BY <1>1, <1>3, NAssumption DEF Accounts, Afterwards
<1>8. Edits
  <2>1. pc = "idle" BY <1>1
  <2> QED BY <1>2, <2>1, Zenon DEF Edits
<1>9. Exposure
  <2> SUFFICES ASSUME NEW s \in Sides
               PROVE  0 <= 0 /\ Dir(s) * 0 + 0 <= 0 + 0 - 0 + Batch * (faults + Spent)
    BY <1>1, <1>3, <1>4 DEF Exposure, Claim
  <2>1. Batch * (faults + Spent) \in Nat BY <1>5, <1>8, BoundFacts
  <2> QED BY <2>1 DEF Dir
<1>10. Lateness
  <2>1. late <= 2 * Batch BY <1>1, BatchFacts
  <2>2. pc \notin {"reconcile", "advance", "orders"} BY <1>1
  <2> QED BY <2>1, <2>2, Zenon DEF Lateness
<1> QED BY <1>2, <1>5, <1>6, <1>7, <1>8, <1>9, <1>10, TypeParts, Zenon DEF IInv

LEMMA NextInvariant == IInv /\ [Next]_vars => IInv'
<1> SUFFICES ASSUME IInv, [Next]_vars PROVE IInv' OBVIOUS
<1>1. Kinds /\ Flags /\ Stages /\ Accounts /\ Edits /\ Exposure /\ Lateness
  BY TypeParts, Zenon DEF IInv
<1>2. Flags' BY <1>1, FlagsStep, Zenon
<1>3. Kinds' /\ Stages' /\ Accounts' /\ Edits' /\ Exposure' /\ Lateness'
  <2>1. CASE Step BY <1>1, <2>1, RecordsStep, Zenon
  <2>2. CASE Abort BY <1>1, <2>2, AbortStep, Zenon
  <2>3. CASE World BY <1>1, <2>3, WorldStep, Zenon
  <2>4. CASE UNCHANGED vars BY <1>1, <2>4, StutterStep, Zenon
  <2> QED BY <2>1, <2>2, <2>3, <2>4, Zenon DEF Next
<1>4. TypeOK' BY <1>2, <1>3, Zenon DEF TypeOK, Flags, Kinds
<1> QED BY <1>3, <1>4, Zenon DEF IInv

\* The inductive invariant of the ladder iteration.
THEOREM Invariant == Spec => []IInv
<1>1. Init => IInv BY InitInvariant
<1>2. IInv /\ [Next]_vars => IInv' BY NextInvariant
<1> QED BY <1>1, <1>2, PTL DEF Spec

\* The ledger, the iteration and the exchange stay within their types, whatever
\* the bars, the faults and the changes of the configuration.
THEOREM TypeCorrect == Spec => []TypeOK
<1>1. IInv => TypeOK BY Zenon DEF IInv
<1> QED BY <1>1, Invariant, PTL

\* Rollbacks, replays and netting do not compound: the exchange is never more
\* than one batch per fault and change of the configuration ahead of the ledger.
THEOREM Exposed == Spec => []ExposureBounded
<1>1. IInv => ExposureBounded
  <2> SUFFICES ASSUME IInv, NEW s \in Sides
               PROVE  Dir(s) * pos + resting[s] <= Claim(s) + Batch * (faults + edits)
    BY DEF ExposureBounded
  <2>1. Kinds /\ Edits /\ Exposure BY TypeParts, Zenon DEF IInv
  <2>2. Dir(s) * pos + resting[s] <= Claim(s) + Batch * (faults + Spent)
    BY <2>1 DEF Exposure
  <2>3. faults \in Nat /\ edits \in Nat /\ Spent \in Nat BY <2>1, BoundFacts
  <2>4. Spent <= edits
    <3>1. CASE edited # "no" BY <2>3, <3>1 DEF Spent
    <3>2. CASE edited = "no" BY <2>3, <3>2 DEF Spent
    <3> QED BY <3>1, <3>2
  <2>5. Batch * (faults + Spent) <= Batch * (faults + edits)
    BY <2>3, <2>4, BatchMonotone
  <2> DEFINE d == Dir(s) * pos + resting[s] c == Claim(s)
             b == Batch * (faults + Spent) b1 == Batch * (faults + edits)
  <2>6. d \in Int /\ c \in Int /\ b \in Int BY <2>1, SideFacts, BoundFacts
  <2>7. b1 \in Int
    <3>1. faults + edits \in Nat BY <2>3
    <3> QED BY <3>1, BatchFacts, BatchGrows
  <2>8. d <= c + b /\ b <= b1 BY <2>2, <2>5
  <2> HIDE DEF d, c, b, b1
  <2>9. d <= c + b1 BY <2>6, <2>7, <2>8
  <2> QED BY <2>9 DEF d, c, b1
<1> QED BY <1>1, Invariant, PTL

\* Stopping the trading lets at most the entries of one iteration out.
THEOREM Stopped == Spec => []OneBatchAfterStop
<1>1. IInv => OneBatchAfterStop BY Zenon DEF IInv, Lateness, OneBatchAfterStop
<1> QED BY <1>1, Invariant, PTL

\* A rung leaves the persisted ledger with its order or by a reseed.
THEOREM Leaves == Spec => RungLeavesWithItsOrder
<1> DEFINE Stays == \A s \in Sides :
                      \/ Open(row.side[s]) \subseteq Open(row'.side[s])
                      \/ pc = "reseed" \/ (pc = "save" /\ AllPlaced /\ AllShut)
<1>1. IInv /\ [Next]_vars => [Stays]_vars
  <2> SUFFICES ASSUME IInv, [Next]_vars, NEW s \in Sides,
                      ~(Open(row.side[s]) \subseteq Open(row'.side[s]))
               PROVE  pc = "reseed" \/ (pc = "save" /\ AllPlaced /\ AllShut)
    BY Zenon
  <2>1. Kinds /\ Stages BY TypeParts, Zenon DEF IInv
  <2>2. row' # row OBVIOUS
  <2>3. \/ Flat(row) /\ row' = Fresh
        \/ pc = "reseed"
        \/ pc = "save"
    <3>1. CASE Reload BY <2>2, <3>1, Zenon DEF Reload
    <3>2. CASE Reseed BY <3>2, Zenon DEF Reseed
    <3>3. CASE Fetch \/ Guard \/ Reconcile \/ Advance \/ Record \/ Rollback \/ Tell
      BY <2>2, <3>3, Zenon DEF Fetch, Guard, Reconcile, Advance, Record, Rollback, Tell, ledger
    <3>4. CASE Save BY <3>4, Zenon DEF Save
    <3>5. ASSUME NEW r \in Sides, PlaceFill(r) \/ ShutClose(r) PROVE FALSE
      BY <2>2, <3>5, Zenon DEF PlaceFill, ShutClose, ledger
    <3>6. CASE Abort BY <2>2, <3>6, Zenon DEF Abort
    <3>7. CASE NewBar \/ Form \/ Reduce \/ Halt \/ Resume \/ EditConfig \/ Unblock
      BY <2>2, <3>7, Zenon DEF NewBar, Form, Reduce, Halt, Resume, EditConfig, Unblock, Still
    <3>8. ASSUME NEW r \in Sides, RestingFill(r) PROVE FALSE
      BY <2>2, <3>8, Zenon DEF RestingFill, Still
    <3>9. CASE UNCHANGED vars BY <2>2, <3>9, Zenon DEF vars
    <3> QED BY <3>1, <3>2, <3>3, <3>4, <3>5, <3>6, <3>7, <3>8, <3>9, Zenon
        DEF Next, Step, World
  <2>4. ~(Flat(row) /\ row' = Fresh)
    BY Zenon DEF Flat
  <2>5. pc = "save" => AllPlaced /\ AllShut BY <2>1 DEF Stages
  <2> QED BY <2>3, <2>4, <2>5, Zenon
<1> QED BY <1>1, Invariant, PTL DEF Spec, RungLeavesWithItsOrder
=============================================================================
