------------------------- MODULE PaperPortfolioProofs -------------------------
(***************************************************************************)
(* The theorems of PaperPortfolio, for every number of symbols and         *)
(* iterations, every initial capital, fee and set of results.              *)
(***************************************************************************)
EXTENDS PaperPortfolio, TLAPS

\* The actions that move a symbol on without touching the account or the book.
Pass(s) == Market(s) \/ Hold(s) \/ Close(s) \/ Record(s)

\* The position row is what the iteration read until the iteration itself
\* changes it, and a scaled-out one had two lots.
PositionInv ==
    \A s \in Symbols :
        /\ owned[s] = lots[s]
        /\ pc[s] \in {"market", "decide", "order", "closing"} => copy[s].lots = lots[s]
        /\ pc[s] = "order" => lots[s] = 0
        /\ pc[s] \in {"scaled", "resave"} => copy[s].lots = 2 /\ lots[s] = 1

-----------------------------------------------------------------------------
(* Types.                                                                  *)

LEMMA WorthIsInt ==
    ASSUME capital \in Int, peak \in Int
    PROVE  Worth \in Int /\ Peak \in Int
  BY InitialAssumption DEF Worth, Peak, Larger

LEMMA ReadType ==
    ASSUME TypeOK, NEW s \in Symbols, Read(s)
    PROVE  TypeOK'
  <1>1. [capital |-> Worth, peak |-> Peak, lots |-> lots[s]] \in Copies
    BY WorthIsInt DEF TypeOK, Copies
  <1> QED
    BY <1>1, MaxRunsAssumption DEF TypeOK, Read, Goto, Points, account, book

\* What a save does to the types, whatever it saves.
LEMMA SetPortfolioType ==
    ASSUME TypeOK, NEW s \in Symbols, NEW c \in Int, NEW p \in Int, SetPortfolio(s, c, p)
    PROVE  /\ capital' \in Int /\ peak' \in Int
           /\ fresh' \in [Symbols -> BOOLEAN] /\ torn' \in BOOLEAN
           /\ late' \in [Symbols -> 0..2]
  <1>1. capital' \in Int /\ peak' \in Int
    BY DEF SetPortfolio
  <1>2. fresh' \in [Symbols -> BOOLEAN]
    BY Zenon DEF SetPortfolio
  <1>3. torn' \in BOOLEAN
    BY Zenon DEF SetPortfolio
  <1>4. late' \in [Symbols -> 0..2]
    BY DEF SetPortfolio, TypeOK
  <1> QED BY <1>1, <1>2, <1>3, <1>4

LEMMA TypeStep == TypeOK /\ PositionInv /\ [Next]_vars => TypeOK'
  <1> SUFFICES ASSUME TypeOK, PositionInv, [Next]_vars PROVE TypeOK'
    OBVIOUS
  <1>1. ASSUME NEW s \in Symbols, Read(s) PROVE TypeOK'
    BY <1>1, ReadType
  <1>2. ASSUME NEW s \in Symbols, Pass(s) PROVE TypeOK'
    BY <1>2 DEF TypeOK, Pass, Market, Hold, Close, Record, Goto, Points, account, book
  <1>3. ASSUME NEW s \in Symbols, Save(s) PROVE TypeOK'
    <2>1. copy[s].capital \in Int /\ copy[s].peak \in Int
      BY DEF TypeOK, Copies
    <2>2. SetPortfolio(s, copy[s].capital, copy[s].peak)
      BY <1>3 DEF Save
    <2>3. pc' \in [Symbols -> Points]
      BY <1>3 DEF Save, Goto, TypeOK, Points
    <2> QED
      BY <1>3, <2>1, <2>2, <2>3, SetPortfolioType DEF TypeOK, Save, book
  <1>4. ASSUME NEW s \in Symbols, PlaceOrder(s) PROVE TypeOK'
    BY <1>4 DEF TypeOK, PlaceOrder, Goto, Points, account, book
  <1>5. ASSUME NEW s \in Symbols, Open(s) \/ Book(s) \/ ScaleOut(s) PROVE TypeOK'
    <2>1. PICK n \in Int : Earn(s, n)
      <3>1. -Fee \in Int
        BY FeeAssumption
      <3> QED
        BY <1>5, <3>1, ResultsAssumption DEF Open, Book, ScaleOut
    <2>2. net' \in [Symbols -> Int] /\ earned' \in Int /\ due' \in Int
      BY <2>1 DEF Earn, TypeOK
    <2>3. copy[s].lots \in Int
      BY DEF TypeOK, Copies
    <2>4. /\ pc' \in [Symbols -> Points]
          /\ lots' \in [Symbols -> 0..2]
          /\ owned' \in [Symbols -> Int]
          /\ UNCHANGED <<capital, peak, copy, fresh, torn, late, runs>>
      BY <1>5, <2>3 DEF TypeOK, Open, Book, ScaleOut, Goto, Points, account
    <2> QED
      BY <2>2, <2>4 DEF TypeOK
  <1>6. ASSUME NEW s \in Symbols, SettleEntry(s) \/ SettleClose(s) \/ SettleScaleOut(s)
        PROVE  TypeOK'
    <2>1. PICK at \in Points, next \in Points : Settle(s, at, next)
      BY <1>6 DEF SettleEntry, SettleClose, SettleScaleOut, Points
    <2> DEFINE c == copy[s].capital + net[s]
               p == Larger(copy[s].peak, c)
    <2>2. c \in Int /\ p \in Int /\ net[s] \in Int
      BY DEF TypeOK, Copies, Larger
    <2>3. SetPortfolio(s, c, p)
      BY <2>1 DEF Settle
    <2>4. pc' \in [Symbols -> Points] /\ net' \in [Symbols -> Int]
      BY <2>1 DEF Settle, Goto, TypeOK
    <2>5. due' \in Int /\ UNCHANGED <<lots, copy, owned, earned, runs>>
      BY <2>1, <2>2 DEF Settle, TypeOK
    <2> HIDE DEF c, p
    <2>6. /\ capital' \in Int /\ peak' \in Int
          /\ fresh' \in [Symbols -> BOOLEAN] /\ torn' \in BOOLEAN
          /\ late' \in [Symbols -> 0..2]
      BY <2>2, <2>3, SetPortfolioType
    <2> QED
      BY <2>4, <2>5, <2>6 DEF TypeOK
  <1>7. ASSUME NEW s \in Symbols, Resave(s) PROVE TypeOK'
    <2>1. copy[s].lots - 1 = 1
      BY <1>7 DEF PositionInv, Resave, Goto
    <2> QED
      BY <1>7, <2>1 DEF TypeOK, Resave, Goto, Points, account
  <1>8. ASSUME NEW s \in Symbols, Die(s) PROVE TypeOK'
    <2>1. torn' \in BOOLEAN
      BY <1>8, Zenon DEF Die
    <2>2. net' \in [Symbols -> Int] /\ due' \in Int
      BY <1>8 DEF Die, TypeOK
    <2>3. /\ pc' \in [Symbols -> Points]
          /\ UNCHANGED <<capital, peak, lots, copy, owned, earned, fresh, late, runs>>
      BY <1>8 DEF TypeOK, Die, Points, account
    <2> QED
      BY <2>1, <2>2, <2>3 DEF TypeOK
  <1>9. CASE UNCHANGED vars
    BY <1>9 DEF TypeOK, vars
  <1> QED
    BY <1>1, <1>2, <1>3, <1>4, <1>5, <1>6, <1>7, <1>8, <1>9
       DEF Next, Iteration, Pass

-----------------------------------------------------------------------------
(* The position and the trade ledger.                                      *)

LEMMA PositionStep == TypeOK /\ PositionInv /\ [Next]_vars => PositionInv'
  <1> SUFFICES ASSUME TypeOK, PositionInv, [Next]_vars PROVE PositionInv'
    OBVIOUS
  <1>1. ASSUME NEW s \in Symbols, Read(s) PROVE PositionInv'
    <2>1. copy'[s].lots = lots[s] /\ \A t \in Symbols \ {s} : copy'[t] = copy[t]
      BY <1>1 DEF Read, TypeOK
    <2>2. /\ pc'[s] = "market" /\ \A t \in Symbols \ {s} : pc'[t] = pc[t]
          /\ UNCHANGED <<lots, owned>>
      BY <1>1 DEF Read, Goto, TypeOK, book
    <2> QED
      BY <2>1, <2>2 DEF PositionInv
  <1>2. ASSUME NEW s \in Symbols, Pass(s) \/ Save(s) \/ PlaceOrder(s) PROVE PositionInv'
    <2>1. /\ \A t \in Symbols \ {s} : pc'[t] = pc[t]
          /\ UNCHANGED <<lots, owned, copy>>
      BY <1>2 DEF Pass, Market, Hold, Close, Record, Save, PlaceOrder, Goto, TypeOK, book
    <2>2. \/ pc'[s] = "idle"
          \/ pc[s] \in {"market", "decide"} /\ pc'[s] \in {"decide", "closing"}
          \/ pc[s] = "decide" /\ pc'[s] = "order" /\ copy[s].lots = 0
      BY <1>2 DEF Pass, Market, Hold, Close, Record, Save, PlaceOrder, Goto, TypeOK
    <2> QED
      BY <2>1, <2>2 DEF PositionInv
  <1>3. ASSUME NEW s \in Symbols, Open(s) \/ Book(s) \/ ScaleOut(s) PROVE PositionInv'
    <2>1. /\ \A t \in Symbols \ {s} :
                pc'[t] = pc[t] /\ lots'[t] = lots[t] /\ owned'[t] = owned[t]
          /\ UNCHANGED copy
      BY <1>3 DEF Open, Book, ScaleOut, Goto, TypeOK
    <2>2. owned'[s] = lots'[s]
      <3>1. CASE Open(s)
        BY <3>1 DEF Open, Goto, TypeOK, PositionInv
      <3>2. CASE Book(s)
        BY <3>2 DEF Book, Goto, TypeOK, PositionInv
      <3>3. CASE ScaleOut(s)
        BY <3>3 DEF ScaleOut, Goto, TypeOK, PositionInv
      <3> QED
        BY <1>3, <3>1, <3>2, <3>3
    <2>3. \/ pc'[s] \in {"opened", "booked"}
          \/ pc'[s] = "scaled" /\ copy[s].lots = 2 /\ lots'[s] = 1
      BY <1>3 DEF Open, Book, ScaleOut, Goto, TypeOK
    <2> QED
      BY <2>1, <2>2, <2>3 DEF PositionInv
  <1>4. ASSUME NEW s \in Symbols, SettleEntry(s) \/ SettleClose(s) \/ SettleScaleOut(s)
        PROVE  PositionInv'
    <2>1. /\ \A t \in Symbols \ {s} : pc'[t] = pc[t]
          /\ UNCHANGED <<lots, owned, copy>>
      BY <1>4 DEF SettleEntry, SettleClose, SettleScaleOut, Settle, Goto, TypeOK
    <2>2. \/ pc'[s] \in {"idle", "record"}
          \/ pc[s] = "scaled" /\ pc'[s] = "resave"
      BY <1>4 DEF SettleEntry, SettleClose, SettleScaleOut, Settle, Goto, TypeOK
    <2> QED
      BY <2>1, <2>2 DEF PositionInv
  <1>5. ASSUME NEW s \in Symbols, Resave(s) PROVE PositionInv'
    <2>1. lots[s] = 1 /\ copy[s].lots - 1 = 1
      BY <1>5 DEF PositionInv, Resave, Goto
    <2>2. /\ pc'[s] = "record" /\ \A t \in Symbols \ {s} : pc'[t] = pc[t]
          /\ \A t \in Symbols : lots'[t] = lots[t]
          /\ UNCHANGED <<owned, copy>>
      BY <1>5, <2>1 DEF Resave, Goto, TypeOK
    <2> QED
      BY <2>2 DEF PositionInv
  <1>6. ASSUME NEW s \in Symbols, Die(s) PROVE PositionInv'
    <2>1. /\ pc'[s] = "idle" /\ \A t \in Symbols \ {s} : pc'[t] = pc[t]
          /\ UNCHANGED <<lots, owned, copy>>
      BY <1>6 DEF Die, TypeOK
    <2> QED
      BY <2>1 DEF PositionInv
  <1>7. CASE UNCHANGED vars
    BY <1>7 DEF PositionInv, vars
  <1> QED
    BY <1>1, <1>2, <1>3, <1>4, <1>5, <1>6, <1>7 DEF Next, Iteration, Pass

LEMMA TypeInit == Init => TypeOK /\ PositionInv
  <1> SUFFICES ASSUME Init PROVE TypeOK /\ PositionInv
    OBVIOUS
  <1>1. NoCopy \in Copies
    BY DEF NoCopy, Copies
  <1>2. fresh \in [Symbols -> BOOLEAN] /\ torn \in BOOLEAN
    BY Zenon DEF Init
  <1>3. TypeOK
    BY <1>1, <1>2, MaxRunsAssumption DEF Init, TypeOK, Points
  <1>4. PositionInv
    BY DEF Init, PositionInv
  <1> QED
    BY <1>3, <1>4

\* Every variable keeps its type: positions stay within two lots.
THEOREM TypeCorrect == Spec => [](TypeOK /\ PositionInv)
  <1>1. TypeOK /\ PositionInv /\ [Next]_vars => (TypeOK /\ PositionInv)'
    BY TypeStep, PositionStep
  <1> QED
    BY TypeInit, <1>1, PTL DEF Spec

\* Each lot is in the position row or in the trade ledger, and only once.
THEOREM LotsOnce == Spec => []LotsTradedOnce
  <1>1. TypeOK /\ PositionInv => LotsTradedOnce
    BY DEF TypeOK, PositionInv, LotsTradedOnce
  <1> QED
    BY TypeCorrect, <1>1, PTL

-----------------------------------------------------------------------------
(* The account and the ledger.                                             *)

\* The row is missing, or its peak covers its capital and the first deposit;
\* so does what an iteration read, and while nobody changed the row since, the
\* two are the same.
RowInv == (peak = 0 /\ capital = 0) \/ (peak >= Initial /\ capital <= peak)
CopyInv ==
    \A s \in Symbols : pc[s] # "idle" =>
        /\ copy[s].peak >= Initial /\ copy[s].capital <= copy[s].peak
        /\ fresh[s] => copy[s].capital = Worth /\ copy[s].peak = Peak
AccountInv == RowInv /\ CopyInv /\ AccountMatchesLedger

LEMMA WorthInv ==
    ASSUME TypeOK, RowInv
    PROVE  Worth \in Int /\ Peak \in Int /\ Worth <= Peak /\ Peak >= Initial
  BY InitialAssumption DEF TypeOK, RowInv, Worth, Peak, IsFresh, Larger

\* What a save makes of the row: its worth is the capital saved, whatever the
\* loss, and every iteration that read another one is stale.
LEMMA SaveWorth ==
    ASSUME NEW s \in Symbols, NEW c \in Int, NEW q \in Int,
           c <= q, q >= Initial, SetPortfolio(s, c, q)
    PROVE  RowInv' /\ Worth' = c /\ Peak' = q
  <1>1. capital' = c /\ peak' = q
    BY DEF SetPortfolio
  <1>2. q > 0
    BY InitialAssumption
  <1> QED
    BY <1>1, <1>2 DEF RowInv, Worth, Peak, IsFresh, Larger

LEMMA SaveAccount ==
    ASSUME TypeOK, AccountInv, NEW s \in Symbols, NEW c \in Int, NEW q \in Int,
           c <= q, q >= Initial, SetPortfolio(s, c, q), UNCHANGED <<copy, earned>>,
           pc[s] # "idle", \A t \in Symbols \ {s} : pc'[t] = pc[t],
           due' = due + copy[s].capital - c
    PROVE  AccountInv'
  <1>1. RowInv' /\ Worth' = c /\ Peak' = q
    BY SaveWorth
  <1>2. \A t \in Symbols : fresh'[t] => fresh[t] /\ Worth' = Worth /\ Peak' = Peak
    BY Zenon DEF SetPortfolio
  <1>3. CopyInv'
    <2> SUFFICES ASSUME NEW t \in Symbols, pc'[t] # "idle"
                 PROVE  /\ copy'[t].peak >= Initial /\ copy'[t].capital <= copy'[t].peak
                        /\ fresh'[t] => copy'[t].capital = Worth' /\ copy'[t].peak = Peak'
      BY DEF CopyInv
    <2>1. pc[t] # "idle" /\ copy'[t] = copy[t]
      BY Zenon
    <2>2. /\ copy[t].peak >= Initial /\ copy[t].capital <= copy[t].peak
          /\ fresh[t] => copy[t].capital = Worth /\ copy[t].peak = Peak
      BY <2>1 DEF AccountInv, CopyInv
    <2> QED
      BY <2>1, <2>2, <1>2
  <1>4. ASSUME ~torn' PROVE ~torn /\ fresh[s]
    BY <1>4, Zenon DEF SetPortfolio
  <1>5. ASSUME ~torn' PROVE Worth' + due' = Initial + earned'
    <2>1. Worth + due = Initial + earned
      BY <1>4, <1>5 DEF AccountInv, AccountMatchesLedger
    <2>2. copy[s].capital = Worth
      BY <1>4, <1>5 DEF AccountInv, CopyInv
    <2>3. Worth \in Int
      BY WorthInv DEF AccountInv
    <2> QED
      BY <2>1, <2>2, <2>3, <1>1, InitialAssumption DEF TypeOK
  <1> QED
    BY <1>1, <1>3, <1>5 DEF AccountInv, AccountMatchesLedger

LEMMA AccountStep == TypeOK /\ AccountInv /\ [Next]_vars => AccountInv'
  <1> SUFFICES ASSUME TypeOK, AccountInv, [Next]_vars PROVE AccountInv'
    OBVIOUS
  <1>1. ASSUME NEW s \in Symbols, Read(s) PROVE AccountInv'
    <2>1. Worth <= Peak /\ Peak >= Initial
      BY WorthInv DEF AccountInv
    <2>2. UNCHANGED <<capital, peak, torn, earned, due>> /\ Worth' = Worth /\ Peak' = Peak
      BY <1>1 DEF Read, account, book, Worth, Peak, IsFresh, Larger
    <2>3. copy'[s].capital = Worth /\ copy'[s].peak = Peak
      BY <1>1 DEF Read, TypeOK
    <2>4. \A t \in Symbols \ {s} : pc'[t] = pc[t] /\ copy'[t] = copy[t]
      BY <1>1 DEF Read, Goto, TypeOK
    <2>5. \A t \in Symbols \ {s} : fresh'[t] = fresh[t]
      BY <1>1, Zenon DEF Read, TypeOK
    <2>6. CopyInv'
      <3> SUFFICES ASSUME NEW t \in Symbols, pc'[t] # "idle"
                   PROVE  /\ copy'[t].peak >= Initial /\ copy'[t].capital <= copy'[t].peak
                          /\ fresh'[t] => copy'[t].capital = Worth' /\ copy'[t].peak = Peak'
        BY DEF CopyInv
      <3>1. CASE t = s
        BY <3>1, <2>1, <2>2, <2>3
      <3>2. CASE t # s
        <4>1. /\ copy[t].peak >= Initial /\ copy[t].capital <= copy[t].peak
              /\ fresh[t] => copy[t].capital = Worth /\ copy[t].peak = Peak
          BY <3>2, <2>4 DEF AccountInv, CopyInv
        <4> QED
          BY <3>2, <4>1, <2>2, <2>4, <2>5
      <3> QED
        BY <3>1, <3>2
    <2> QED
      BY <2>2, <2>6 DEF AccountInv, AccountMatchesLedger, RowInv
  <1>2. ASSUME NEW s \in Symbols,
               \/ Pass(s) \/ PlaceOrder(s) \/ Resave(s)
               \/ Open(s) \/ Book(s) \/ ScaleOut(s)
        PROVE  AccountInv'
    <2>1. UNCHANGED <<capital, peak, copy, fresh, torn>>
      BY <1>2 DEF Pass, Market, Hold, Close, Record, PlaceOrder, Resave, Open, Book, ScaleOut,
                  account, book
    <2>2. PICK n \in Int : earned' = earned + n /\ due' = due + n
      <3>1. CASE Pass(s) \/ PlaceOrder(s) \/ Resave(s)
        <4>1. earned' = earned + 0 /\ due' = due + 0
          BY <3>1 DEF Pass, Market, Hold, Close, Record, PlaceOrder, Resave, book, TypeOK
        <4> QED
          BY <4>1
      <3>2. CASE Open(s) \/ Book(s) \/ ScaleOut(s)
        <4>1. -Fee \in Int
          BY FeeAssumption
        <4> QED
          BY <3>2, <4>1, ResultsAssumption DEF Open, Book, ScaleOut, Earn
      <3> QED
        BY <1>2, <3>1, <3>2
    <2>3. \A t \in Symbols : pc'[t] # "idle" => pc[t] # "idle"
      BY <1>2 DEF Pass, Market, Hold, Close, Record, PlaceOrder, Resave,
                  Open, Book, ScaleOut, Goto, TypeOK
    <2>4. Worth' = Worth /\ Peak' = Peak
      BY <2>1 DEF Worth, Peak, IsFresh, Larger
    <2>5. CopyInv'
      BY <2>1, <2>3, <2>4 DEF AccountInv, CopyInv
    <2>6. Worth \in Int
      BY WorthInv DEF AccountInv
    <2>7. AccountMatchesLedger'
      <3>1. earned \in Int /\ due \in Int
        BY DEF TypeOK
      <3>2. ASSUME ~torn' PROVE Worth + due = Initial + earned
        BY <3>2, <2>1, Zenon DEF AccountInv, AccountMatchesLedger
      <3>3. ASSUME Worth + due = Initial + earned PROVE Worth' + due' = Initial + earned'
        BY <3>1, <3>3, <2>2, <2>4, <2>6, InitialAssumption
      <3> QED
        BY <3>2, <3>3, Zenon DEF AccountMatchesLedger
    <2> QED
      BY <2>1, <2>5, <2>7 DEF AccountInv, RowInv
  <1>3. ASSUME NEW s \in Symbols, Save(s) PROVE AccountInv'
    <2>1. /\ pc[s] # "idle" /\ \A t \in Symbols \ {s} : pc'[t] = pc[t]
          /\ SetPortfolio(s, copy[s].capital, copy[s].peak)
          /\ UNCHANGED <<copy, earned, due>>
      BY <1>3 DEF Save, Goto, TypeOK, book
    <2>2. /\ copy[s].capital \in Int /\ copy[s].peak \in Int
          /\ copy[s].capital <= copy[s].peak /\ copy[s].peak >= Initial
      BY <2>1 DEF TypeOK, Copies, AccountInv, CopyInv
    <2>3. due' = due + copy[s].capital - copy[s].capital
      BY <2>1, <2>2 DEF TypeOK
    <2> QED
      BY <2>1, <2>2, <2>3, SaveAccount
  <1>4. ASSUME NEW s \in Symbols, SettleEntry(s) \/ SettleClose(s) \/ SettleScaleOut(s)
        PROVE  AccountInv'
    <2> DEFINE c == copy[s].capital + net[s]
               q == Larger(copy[s].peak, c)
    <2>1. /\ pc[s] # "idle" /\ \A t \in Symbols \ {s} : pc'[t] = pc[t]
          /\ SetPortfolio(s, c, q)
          /\ due' = due - net[s]
          /\ UNCHANGED <<copy, earned>>
      BY <1>4 DEF SettleEntry, SettleClose, SettleScaleOut, Settle, Goto, TypeOK
    <2>2. /\ copy[s].capital \in Int /\ copy[s].peak \in Int /\ net[s] \in Int
          /\ copy[s].peak >= Initial
      BY <2>1 DEF TypeOK, Copies, AccountInv, CopyInv
    <2>3. c \in Int /\ q \in Int /\ c <= q /\ q >= Initial
      BY <2>2, InitialAssumption DEF Larger
    <2>4. due' = due + copy[s].capital - c
      BY <2>1, <2>2 DEF TypeOK
    <2> HIDE DEF c, q
    <2> QED
      BY <2>1, <2>3, <2>4, SaveAccount
  <1>5. ASSUME NEW s \in Symbols, Die(s) PROVE AccountInv'
    <2>1. /\ UNCHANGED <<capital, peak, copy, fresh, earned>>
          /\ \A t \in Symbols : pc'[t] # "idle" => pc[t] # "idle"
          /\ due' = due - net[s]
      BY <1>5 DEF Die, account, TypeOK
    <2>2. Worth' = Worth /\ Peak' = Peak
      BY <2>1 DEF Worth, Peak, IsFresh, Larger
    <2>3. ASSUME ~torn' PROVE ~torn /\ net[s] = 0
      BY <1>5, <2>3, Zenon DEF Die
    <2>4. AccountMatchesLedger'
      BY <2>1, <2>2, <2>3 DEF AccountInv, AccountMatchesLedger, TypeOK
    <2>5. CopyInv'
      BY <2>1, <2>2 DEF AccountInv, CopyInv
    <2> QED
      BY <2>1, <2>4, <2>5 DEF AccountInv, RowInv
  <1>6. CASE UNCHANGED vars
    BY <1>6 DEF AccountInv, RowInv, CopyInv, AccountMatchesLedger, Worth, Peak, IsFresh,
                Larger, vars
  <1> QED
    BY <1>1, <1>2, <1>3, <1>4, <1>5, <1>6 DEF Next, Iteration, Pass

LEMMA AccountInit == Init => AccountInv
  BY InitialAssumption
     DEF Init, AccountInv, RowInv, CopyInv, AccountMatchesLedger, Worth, IsFresh

THEOREM AccountInvariant == Spec => []AccountInv
  <1>1. TypeOK /\ AccountInv /\ [Next]_vars => AccountInv'
    BY AccountStep
  <1> QED
    BY AccountInit, TypeCorrect, <1>1, PTL DEF Spec

\* Without an overlap or a death in between, the row is the initial capital
\* and all that was earned since.
THEOREM AccountMatches == Spec => []AccountMatchesLedger
  <1>1. AccountInv => AccountMatchesLedger
    BY DEF AccountInv
  <1> QED
    BY AccountInvariant, <1>1, PTL

\* No loss and no stale save makes the account look fresh again.
THEOREM NeverFreshAgain == Spec => []BlownIsNotFresh
  <1>1. AccountInv => BlownIsNotFresh
    BY DEF AccountInv, RowInv, BlownIsNotFresh
  <1> QED
    BY AccountInvariant, <1>1, PTL

-----------------------------------------------------------------------------
(* Entries of a blown account.                                             *)

\* The entries are counted while the account is blown; a symbol that has made
\* its one has since read that there is nothing to enter with.
LateInv ==
    /\ ~Blown => \A s \in Symbols : late[s] = 0
    /\ \A s \in Symbols : late[s] <= 1
    /\ \A s \in Symbols :
          Blown /\ late[s] = 1 /\ pc[s] \in {"market", "decide"} => copy[s].capital <= 0

\* A save that leaves the account blown keeps the count, any other ends it.
LEMMA SaveLate ==
    ASSUME TypeOK, LateInv, NEW s \in Symbols, NEW c \in Int, NEW q \in Int,
           SetPortfolio(s, c, q), UNCHANGED copy,
           pc'[s] \notin {"market", "decide"}, \A t \in Symbols \ {s} : pc'[t] = pc[t]
    PROVE  LateInv'
  <1>1. CASE Blown'
    <2>1. late' = late
      BY <1>1 DEF SetPortfolio
    <2>2. CASE Blown
      BY <1>1, <2>1, <2>2 DEF LateInv
    <2>3. CASE ~Blown
      BY <1>1, <2>1, <2>3 DEF LateInv
    <2> QED
      BY <2>2, <2>3
  <1>2. CASE ~Blown'
    <2>1. \A t \in Symbols : late'[t] = 0
      BY <1>2 DEF SetPortfolio
    <2> QED
      BY <1>2, <2>1 DEF LateInv
  <1> QED
    BY <1>1, <1>2

LEMMA LateStep == TypeOK /\ LateInv /\ [Next]_vars => LateInv'
  <1> SUFFICES ASSUME TypeOK, LateInv, [Next]_vars PROVE LateInv'
    OBVIOUS
  <1>1. ASSUME NEW s \in Symbols, Read(s) PROVE LateInv'
    <2>1. UNCHANGED <<capital, peak, late>> /\ Blown' = Blown
      BY <1>1 DEF Read, account, Blown
    <2>2. \A t \in Symbols \ {s} : pc'[t] = pc[t] /\ copy'[t] = copy[t]
      BY <1>1 DEF Read, Goto, TypeOK
    <2>3. copy'[s].capital = Worth
      BY <1>1 DEF Read, TypeOK
    <2>4. ASSUME Blown PROVE Worth <= 0
      BY <2>4 DEF Blown, Worth, IsFresh, TypeOK
    <2> QED
      BY <2>1, <2>2, <2>3, <2>4 DEF LateInv
  <1>2. ASSUME NEW s \in Symbols,
               \/ Pass(s) \/ Resave(s) \/ Die(s)
               \/ Open(s) \/ Book(s) \/ ScaleOut(s)
        PROVE  LateInv'
    <2>1. UNCHANGED <<capital, peak, late, copy>>
      BY <1>2 DEF Pass, Market, Hold, Close, Record, Resave, Die, Open, Book, ScaleOut, account
    <2>2. \A t \in Symbols : pc'[t] \in {"market", "decide"} => pc[t] \in {"market", "decide"}
      BY <1>2 DEF Pass, Market, Hold, Close, Record, Resave, Die, Open, Book, ScaleOut,
                  Goto, TypeOK
    <2>3. Blown' = Blown
      BY <2>1 DEF Blown
    <2> QED
      BY <2>1, <2>2, <2>3 DEF LateInv
  <1>3. ASSUME NEW s \in Symbols, PlaceOrder(s) PROVE LateInv'
    <2>1. /\ UNCHANGED <<capital, peak, copy>>
          /\ pc'[s] = "order" /\ \A t \in Symbols \ {s} : pc'[t] = pc[t]
          /\ pc[s] = "decide" /\ copy[s].capital > 0
      BY <1>3 DEF PlaceOrder, Goto, TypeOK, account
    <2>2. Blown' = Blown
      BY <2>1 DEF Blown
    <2>3. CASE Blown
      <3>1. copy[s].capital \in Int /\ late[s] \in 0..2
        BY DEF TypeOK, Copies
      <3>2. late[s] = 0
        BY <2>1, <2>3, <3>1 DEF LateInv
      <3>3. late'[s] = 1 /\ \A t \in Symbols \ {s} : late'[t] = late[t]
        BY <1>3, <2>3, <3>2 DEF PlaceOrder, TypeOK
      <3> QED
        BY <2>1, <2>2, <2>3, <3>3 DEF LateInv
    <2>4. CASE ~Blown
      <3>1. late' = late
        BY <1>3, <2>4 DEF PlaceOrder
      <3> QED
        BY <2>2, <2>4, <3>1 DEF LateInv
    <2> QED
      BY <2>3, <2>4
  <1>4. ASSUME NEW s \in Symbols, Save(s) PROVE LateInv'
    <2>1. /\ pc'[s] = "idle" /\ \A t \in Symbols \ {s} : pc'[t] = pc[t]
          /\ SetPortfolio(s, copy[s].capital, copy[s].peak)
          /\ UNCHANGED copy
      BY <1>4 DEF Save, Goto, TypeOK
    <2>2. copy[s].capital \in Int /\ copy[s].peak \in Int
      BY DEF TypeOK, Copies
    <2> QED
      BY <2>1, <2>2, SaveLate
  <1>5. ASSUME NEW s \in Symbols, SettleEntry(s) \/ SettleClose(s) \/ SettleScaleOut(s)
        PROVE  LateInv'
    <2> DEFINE c == copy[s].capital + net[s]
               q == Larger(copy[s].peak, c)
    <2>1. /\ pc'[s] \in {"idle", "record", "resave"}
          /\ \A t \in Symbols \ {s} : pc'[t] = pc[t]
          /\ SetPortfolio(s, c, q)
          /\ UNCHANGED copy
      BY <1>5 DEF SettleEntry, SettleClose, SettleScaleOut, Settle, Goto, TypeOK
    <2>2. c \in Int /\ q \in Int
      BY DEF TypeOK, Copies, Larger
    <2> HIDE DEF c, q
    <2> QED
      BY <2>1, <2>2, SaveLate
  <1>6. CASE UNCHANGED vars
    BY <1>6 DEF LateInv, Blown, vars
  <1> QED
    BY <1>1, <1>2, <1>3, <1>4, <1>5, <1>6 DEF Next, Iteration, Pass

\* A blown account lets each symbol enter once at most, the entry for which it
\* had read the capital before.
THEOREM OneEntryOnBlown == Spec => []AtMostOneEntryOnBlown
  <1>1. Init => LateInv
    BY DEF Init, LateInv
  <1>2. TypeOK /\ LateInv /\ [Next]_vars => LateInv'
    BY LateStep
  <1>3. LateInv => AtMostOneEntryOnBlown
    BY DEF LateInv, AtMostOneEntryOnBlown
  <1> QED
    BY <1>1, <1>2, <1>3, TypeCorrect, PTL DEF Spec
=============================================================================
