----------------------------- MODULE GatewayProofs -----------------------------
(***************************************************************************)
(* What holds of the gateway for any number of commands and process        *)
(* identifiers, and for any faults: its types; that stop signals services  *)
(* only; that a start which gives up leaves nothing of its own; that the   *)
(* state file tells the truth of commands that follow one another; and     *)
(* that every process stop cannot find is owed to a fault or to commands   *)
(* at the same time.                                                       *)
(***************************************************************************)
EXTENDS Gateway, FiniteSetTheorems, TLAPS

LEMMA OrderFacts ==
    /\ Len(Order) = 2
    /\ \A n \in 1..Len(Order) : Order[n] \in Services
    /\ Services = {"backend", "telegram"}
  <1>1. Len(Order) = 2 /\ Order[1] = "backend" /\ Order[2] = "telegram"
    BY DEF Order
  <1>2. 1..Len(Order) = {1, 2}
    BY <1>1
  <1> QED BY <1>1, <1>2 DEF Services

LEMMA IdleIsRecord ==
    /\ Idle \in Records
    /\ Idle.do = "none" /\ Idle.at = "idle" /\ Idle.n = 1 /\ Idle.victim = NoPid
    /\ \A s \in Services : Idle.own[s] = NoPid
  BY OrderFacts DEF Idle, Records, Points

\* What the updates of a command's record leave.
LEMMA RecordAt ==
    ASSUME NEW r \in Records, NEW at \in Points
    PROVE  LET q == [r EXCEPT !.at = at]
           IN  /\ q \in Records /\ q.at = at
               /\ q.n = r.n /\ q.own = r.own /\ q.victim = r.victim
  BY DEF Records

LEMMA RecordVictim ==
    ASSUME NEW r \in Records, NEW at \in Points, NEW v \in Pids \cup {NoPid}
    PROVE  LET q == [r EXCEPT !.at = at, !.victim = v]
           IN  /\ q \in Records /\ q.at = at
               /\ q.n = r.n /\ q.own = r.own /\ q.victim = v
  BY Zenon DEF Records

LEMMA RecordNext ==
    ASSUME NEW r \in Records, r.n < Len(Order), NEW at \in Points, NEW warm \in BOOLEAN
    PROVE  LET q == [r EXCEPT !.n = @ + 1, !.victim = NoPid, !.at = at, !.warm = warm]
           IN  q \in Records /\ q.at = at /\ q.own = r.own
  <1>1. r.n + 1 \in 1..Len(Order)
    BY OrderFacts DEF Records
  <1> QED BY <1>1, Zenon DEF Records

LEMMA RecordLast ==
    ASSUME NEW r \in Records, NEW warm \in BOOLEAN
    PROVE  LET q == [Idle EXCEPT !.do = r.do, !.at = "mark", !.warm = warm]
           IN  q \in Records /\ q.at = "mark" /\ q.own = Idle.own
  BY IdleIsRecord, Zenon DEF Records, Points

-----------------------------------------------------------------------------
\* A command that is about to signal holds a service, or what was one: its
\* check said so, or it started the process itself; and an identifier that a
\* command holds is not given away.
Good(r, pr) ==
    /\ r.at \in {"write", "probe"} => r.own[Order[r.n]] # NoPid
    /\ r.at \in {"check", "term"} => r.victim # NoPid
    /\ r.at = "term" => pr[r.victim].is # "foreign"
    /\ \A s \in Services : r.own[s] # NoPid => pr[r.own[s]].is # "foreign"

Sparing == ~struck /\ \A c \in Commands : Good(cmd[c], proc)

LEMMA IdleIsGood == \A pr : Good(Idle, pr)
  BY IdleIsRecord, Zenon DEF Good

\* Nobody becomes foreign whom a command holds.
Steady == \A p \in Pids : proc'[p].is = "foreign" => proc[p].is = "foreign" \/ ~Held(p)

LEMMA Stays ==
    ASSUME TypeOK, NEW c \in Commands, Good(cmd[c], proc), Steady
    PROVE  Good(cmd[c], proc')
  <1> DEFINE r == cmd[c]
  <1>1. r \in Records
    BY DEF TypeOK
  <1>2. r.victim # NoPid => r.victim \in Pids /\ Held(r.victim)
    BY <1>1 DEF Records, Held
  <1>3. ASSUME NEW s \in Services, r.own[s] # NoPid
        PROVE  r.own[s] \in Pids /\ Held(r.own[s])
    BY <1>1, <1>3 DEF Records, Held
  <1> QED BY <1>1, <1>2, <1>3 DEF Good, Steady

\* A step of one command keeps the others as they are.
LEMMA Change ==
    ASSUME TypeOK, Sparing, Steady, UNCHANGED struck,
           NEW c \in Commands, NEW r \in Records, Becomes(c, r), Good(r, proc')
    PROVE  cmd' \in [Commands -> Records] /\ Sparing'
  <1>1. cmd \in [Commands -> Records]
    BY DEF TypeOK
  <1>2. cmd'[c] = r /\ \A d \in Commands \ {c} : cmd'[d] = cmd[d]
    BY <1>1 DEF Becomes
  <1>3. cmd' \in [Commands -> Records]
    BY <1>1 DEF Becomes
  <1>4. ASSUME NEW d \in Commands PROVE Good(cmd'[d], proc')
    BY <1>2, Stays DEF Sparing
  <1> QED BY <1>3, <1>4 DEF Sparing

\* A step of the world keeps all commands as they are.
LEMMA Settled ==
    ASSUME TypeOK, Sparing, Steady, UNCHANGED <<cmd, struck>>
    PROVE  cmd' \in [Commands -> Records] /\ Sparing'
  <1>1. ASSUME NEW c \in Commands PROVE Good(cmd'[c], proc')
    BY Stays DEF Sparing
  <1> QED BY <1>1 DEF Sparing, TypeOK

LEMMA Going ==
    ASSUME TypeOK, Sparing, Steady, UNCHANGED struck, NEW c \in Commands,
           NEW at \in Points, Goto(c, at),
           at \in {"write", "probe"} => cmd[c].own[At(c)] # NoPid,
           at \in {"check", "term"} => cmd[c].victim # NoPid,
           at = "term" => proc'[cmd[c].victim].is # "foreign"
    PROVE  cmd' \in [Commands -> Records] /\ Sparing'
  <1> DEFINE r == [cmd[c] EXCEPT !.at = at]
  <1>1. cmd[c] \in Records
    BY DEF TypeOK
  <1>2. r \in Records /\ r.at = at /\ r.n = cmd[c].n /\ r.own = cmd[c].own
        /\ r.victim = cmd[c].victim
    BY <1>1, RecordAt
  <1>3. Good(cmd[c], proc')
    BY Stays DEF Sparing
  <1>4. Becomes(c, r)
    BY DEF Goto
  <1> HIDE DEF r
  <1>5. Good(r, proc')
    BY <1>2, <1>3 DEF Good, At
  <1> QED BY <1>2, <1>4, <1>5, Change

LEMMA Finishing ==
    ASSUME TypeOK, Sparing, Steady, UNCHANGED struck, NEW c \in Commands, Finish(c)
    PROVE  cmd' \in [Commands -> Records] /\ Sparing'
  BY Change, IdleIsRecord, IdleIsGood DEF Finish

LEMMA Advancing ==
    ASSUME TypeOK, Sparing, Steady, UNCHANGED struck, NEW c \in Commands,
           NEW at \in {"spawn", "read"}, NEW warm \in BOOLEAN, Advance(c, at, warm)
    PROVE  cmd' \in [Commands -> Records] /\ Sparing'
  <1>1. cmd[c] \in Records /\ Good(cmd[c], proc')
    BY Stays DEF TypeOK, Sparing
  <1>2. CASE cmd[c].n < Len(Order)
    <2> DEFINE r == [cmd[c] EXCEPT !.n = @ + 1, !.victim = NoPid, !.at = at, !.warm = warm]
    <2>0. at \in Points
      BY DEF Points
    <2>1. r \in Records /\ r.at = at /\ r.own = cmd[c].own
      BY <1>1, <1>2, <2>0, RecordNext, Zenon
    <2>2. Becomes(c, r)
      BY <1>2 DEF Advance
    <2> HIDE DEF r
    <2>3. Good(r, proc')
      BY <1>1, <2>1 DEF Good
    <2> QED BY <2>1, <2>2, <2>3, Change
  <1>3. CASE ~(cmd[c].n < Len(Order))
    <2> DEFINE r == [Idle EXCEPT !.do = cmd[c].do, !.at = "mark", !.warm = warm]
    <2>1. r \in Records /\ r.at = "mark" /\ r.own = Idle.own
      BY <1>1, RecordLast
    <2>2. Becomes(c, r)
      BY <1>3 DEF Advance
    <2> HIDE DEF r
    <2>3. Good(r, proc')
      BY <2>1, IdleIsRecord DEF Good
    <2> QED BY <2>1, <2>2, <2>3, Change
  <1> QED BY <1>2, <1>3

-----------------------------------------------------------------------------
(* Every step keeps both.                                                  *)

Safe == TypeOK /\ Sparing

LEMMA Starting == Init => Safe
  <1> SUFFICES ASSUME Init PROVE Safe
    OBVIOUS
  <1>1. Gone \in Processes
    BY DEF Gone, Processes
  <1>2. proc \in [Pids -> Processes] /\ cmd \in [Commands -> Records]
    BY <1>1, IdleIsRecord, Zenon DEF Init
  <1>3. TypeOK
    <2>1. struck \in BOOLEAN
      BY Zenon DEF Init
    <2>2. file \in [Services -> Pids \cup {NoPid}]
      BY Zenon DEF Init
    <2> QED BY <1>2, <2>1, <2>2, BoundsAssumption DEF Init, TypeOK
  <1> QED BY <1>3, IdleIsGood DEF Safe, Sparing, Init

LEMMA Counting ==
    ASSUME TypeOK, Fault \/ NoFault
    PROVE  faults' \in 0..MaxFaults
  BY BoundsAssumption DEF TypeOK, Fault, NoFault

LEMMA Issuing ==
    ASSUME TypeOK, NEW c \in Commands, NEW isRash, Issue(c, isRash)
    PROVE  rash' \in 0..MaxRash
  BY BoundsAssumption DEF TypeOK, Issue

\* A step that leaves the processes alone.
LEMMA Quietly == ASSUME UNCHANGED proc PROVE Steady
  BY DEF Steady

\* What a command is at is a service.
LEMMA AtService == ASSUME TypeOK, NEW c \in Commands PROVE At(c) \in Services
  <1>1. cmd[c].n \in 1..Len(Order)
    BY DEF TypeOK, Records
  <1> QED BY <1>1, OrderFacts DEF At

LEMMA BeginSafe ==
    ASSUME Safe, NEW c \in Commands, BeginStart(c) \/ BeginStop(c)
    PROVE  Safe'
  <1>1. CASE BeginStart(c)
    <2>1. PICK want \in Wishes, supervised \in BOOLEAN :
             Becomes(c, [Idle EXCEPT !.do = "start", !.at = "spawn",
                                     !.want = want, !.supervised = supervised])
      BY <1>1, Zenon DEF BeginStart
    <2> DEFINE r == [Idle EXCEPT !.do = "start", !.at = "spawn",
                                 !.want = want, !.supervised = supervised]
    <2>a. want \in SUBSET Services
      BY WishesAssumption
    <2>2. r \in Records /\ r.at = "spawn" /\ r.own = Idle.own
      BY <2>a, IdleIsRecord, Zenon DEF Records, Points
    <2>3. Becomes(c, r)
      BY <2>1
    <2> HIDE DEF r
    <2>4. Good(r, proc')
      BY <2>2, IdleIsRecord DEF Good
    <2>5. cmd' \in [Commands -> Records] /\ Sparing'
      BY <1>1, <2>2, <2>3, <2>4, Change, Quietly DEF BeginStart, Safe
    <2>6. rash' \in 0..MaxRash
      BY <1>1, Issuing DEF BeginStart, Safe
    <2> QED BY <1>1, <2>5, <2>6 DEF Safe, TypeOK, BeginStart
  <1>2. CASE BeginStop(c)
    <2> DEFINE r == [Idle EXCEPT !.do = "stop", !.at = "read"]
    <2>1. r \in Records /\ r.at = "read" /\ r.own = Idle.own
      BY IdleIsRecord, Zenon DEF Records, Points
    <2>2. Becomes(c, r)
      BY <1>2 DEF BeginStop
    <2> HIDE DEF r
    <2>3. Good(r, proc')
      BY <2>1, IdleIsRecord DEF Good
    <2>4. cmd' \in [Commands -> Records] /\ Sparing'
      BY <1>2, <2>1, <2>2, <2>3, Change, Quietly DEF BeginStop, Safe
    <2>5. rash' \in 0..MaxRash
      BY <1>2, Issuing DEF BeginStop, Safe
    <2> QED BY <1>2, <2>4, <2>5 DEF Safe, TypeOK, BeginStop
  <1> QED BY <1>1, <1>2

LEMMA SpawnSafe ==
    ASSUME Safe, NEW c \in Commands, Spawn(c)
    PROVE  Safe'
  <1>1. CASE Advance(c, "spawn", cmd[c].warm) /\ NoFault /\ UNCHANGED proc
    <2>1. cmd[c].warm \in BOOLEAN
      BY Zenon DEF Safe, TypeOK, Records
    <2>2. cmd' \in [Commands -> Records] /\ Sparing'
      BY <1>1, <2>1, Advancing, Quietly DEF Safe, Spawn
    <2> QED BY <1>1, <2>2, Counting DEF Safe, TypeOK, Spawn
  <1>2. CASE /\ Free # {}
             /\ proc' = [proc EXCEPT ![NextPid].is = At(c)]
             /\ Becomes(c, [cmd[c] EXCEPT !.at = "write", !.own[At(c)] = NextPid])
             /\ NoFault
    <2>1. NextPid \in Free
      BY <1>2 DEF NextPid
    <2>2. NextPid \in Pids /\ ~Held(NextPid) /\ At(c) \in Services /\ At(c) # "foreign"
      BY <2>1, AtService, OrderFacts DEF Free, Safe
    <2> HIDE DEF NextPid
    <2>3. proc' \in [Pids -> Processes]
      BY <1>2, <2>2 DEF Safe, TypeOK, Processes
    <2>4. Steady /\ proc'[NextPid].is # "foreign"
      BY <1>2, <2>2 DEF Steady, Safe, TypeOK, Processes
    <2> DEFINE own == [cmd[c].own EXCEPT ![At(c)] = NextPid]
               r == [cmd[c] EXCEPT !.at = "write", !.own = own]
    <2>5. cmd[c] \in Records /\ Good(cmd[c], proc')
      BY <2>4, Stays DEF Safe, Sparing, TypeOK
    <2>6. cmd[c].own \in [Services -> Pids \cup {NoPid}]
      BY <2>5 DEF Records
    <2>7. /\ own \in [Services -> Pids \cup {NoPid}]
          /\ own[At(c)] = NextPid
          /\ \A s \in Services \ {At(c)} : own[s] = cmd[c].own[s]
      BY <2>2, <2>6
    <2>8. Becomes(c, r)
      BY <1>2
    <2> HIDE DEF own
    <2>9. r \in Records /\ r.at = "write" /\ r.n = cmd[c].n /\ r.own = own
      <3>1. "write" \in Points
        BY DEF Points
      <3>2. cmd[c] \in Records
        BY <2>5
      <3>3. own \in [Services -> Pids \cup {NoPid}]
        BY <2>7
      <3> QED BY <3>1, <3>2, <3>3, Zenon DEF Records
    <2> HIDE DEF r
    <2>10. Good(r, proc')
      BY <2>2, <2>4, <2>5, <2>7, <2>9, NoPidAssumption DEF Good, At
    <2>11. cmd' \in [Commands -> Records] /\ Sparing'
      BY <2>4, <2>8, <2>9, <2>10, Change DEF Safe, Spawn
    <2> QED BY <1>2, <2>3, <2>11, Counting DEF Safe, TypeOK, Spawn
  <1>3. CASE (Fault \/ NoFault) /\ Finish(c) /\ UNCHANGED proc
    <2>1. cmd' \in [Commands -> Records] /\ Sparing'
      BY <1>3, Finishing, Quietly DEF Safe, Spawn
    <2> QED BY <1>3, <2>1, Counting DEF Safe, TypeOK, Spawn
  <1> QED BY <1>1, <1>2, <1>3 DEF Spawn

LEMMA StartSafe ==
    ASSUME Safe, NEW c \in Commands, WritePid(c) \/ Healthy(c) \/ Unhealthy(c) \/ Started(c)
    PROVE  Safe'
  <1>1. At(c) \in Services /\ cmd[c] \in Records /\ Good(cmd[c], proc)
    BY AtService DEF Safe, TypeOK, Sparing
  <1>2. cmd[c].warm \in BOOLEAN /\ \A s \in Services : cmd[c].own[s] \in Pids \cup {NoPid}
    BY <1>1, Zenon DEF Records
  <1>3. CASE WritePid(c)
    <2>1. cmd[c].own[At(c)] # NoPid
      BY <1>1, <1>3 DEF Good, WritePid, Step, At
    <2>2. cmd' \in [Commands -> Records] /\ Sparing'
      BY <1>3, <2>1, Going, Quietly DEF Safe, WritePid, Points
    <2>3. file' \in [Services -> Pids \cup {NoPid}]
      BY <1>1, <1>2, <1>3 DEF Safe, TypeOK, WritePid
    <2> QED BY <1>3, <2>2, <2>3, Counting DEF Safe, TypeOK, WritePid
  <1>4. CASE Healthy(c)
    <2>1. cmd' \in [Commands -> Records] /\ Sparing'
      BY <1>2, <1>4, Advancing, Quietly DEF Safe, Healthy
    <2> QED BY <1>4, <2>1 DEF Safe, TypeOK, Healthy
  <1>5. CASE Unhealthy(c) /\ cmd[c].supervised
    <2>1. cmd' \in [Commands -> Records] /\ Sparing'
      BY <1>5, Advancing, Quietly DEF Safe, Unhealthy
    <2> QED BY <1>5, <2>1 DEF Safe, TypeOK, Unhealthy
  <1>6. CASE Unhealthy(c) /\ ~cmd[c].supervised
    <2> DEFINE v == cmd[c].own[At(c)]
               r == [cmd[c] EXCEPT !.at = "term", !.victim = v]
    <2>1. v \in Pids \cup {NoPid} /\ v # NoPid /\ proc[v].is # "foreign"
      BY <1>1, <1>2, <1>6 DEF Good, Unhealthy, Step, At
    <2>2. Becomes(c, r)
      BY <1>6 DEF Unhealthy
    <2> HIDE DEF v
    <2>3. r \in Records /\ r.at = "term" /\ r.own = cmd[c].own /\ r.victim = v
      <3>1. "term" \in Points /\ v \in Pids \cup {NoPid} /\ cmd[c] \in Records
        BY <1>1, <2>1 DEF Points
      <3> QED BY <3>1, Zenon DEF Records
    <2> HIDE DEF r
    <2>4. Good(r, proc') /\ Steady
      BY <1>1, <1>6, <2>1, <2>3, Quietly DEF Good, Unhealthy
    <2>5. cmd' \in [Commands -> Records] /\ Sparing'
      BY <1>6, <2>2, <2>3, <2>4, Change DEF Safe, Unhealthy
    <2> QED BY <1>6, <2>5 DEF Safe, TypeOK, Unhealthy
  <1>7. CASE Started(c)
    <2>1. cmd' \in [Commands -> Records] /\ Sparing'
      BY <1>7, Finishing, Quietly DEF Safe, Started
    <2> QED BY <1>7, <2>1 DEF Safe, TypeOK, Started
  <1> QED BY <1>3, <1>4, <1>5, <1>6, <1>7

LEMMA StopSafe ==
    ASSUME Safe, NEW c \in Commands, ReadPid(c) \/ CheckProcess(c) \/ RemovePid(c) \/ Stopped(c)
    PROVE  Safe'
  <1>1. At(c) \in Services /\ cmd[c] \in Records /\ Good(cmd[c], proc)
    BY AtService DEF Safe, TypeOK, Sparing
  <1>2. CASE ReadPid(c)
    <2>1. CASE Advance(c, "read", FALSE) /\ (Fault \/ NoFault)
      <3>1. cmd' \in [Commands -> Records] /\ Sparing'
        BY <1>2, <2>1, Advancing, Quietly DEF Safe, ReadPid
      <3> QED BY <1>2, <2>1, <3>1, Counting DEF Safe, TypeOK, ReadPid
    <2>2. CASE /\ file[At(c)] # NoPid /\ NoFault
               /\ Becomes(c, [cmd[c] EXCEPT !.at = "check", !.victim = file[At(c)]])
      <3> DEFINE v == file[At(c)]
                 r == [cmd[c] EXCEPT !.at = "check", !.victim = v]
      <3>1. v \in Pids \cup {NoPid} /\ "check" \in Points /\ cmd[c] \in Records
        BY <1>1 DEF Safe, TypeOK, Points
      <3>2. Becomes(c, r) /\ v # NoPid
        BY <2>2
      <3> HIDE DEF v
      <3>3. r \in Records /\ r.at = "check" /\ r.own = cmd[c].own /\ r.victim = v
        BY <3>1, Zenon DEF Records
      <3> HIDE DEF r
      <3>4. Good(r, proc') /\ Steady
        BY <1>1, <1>2, <3>2, <3>3, Quietly DEF Good, ReadPid
      <3>5. cmd' \in [Commands -> Records] /\ Sparing'
        BY <1>2, <3>2, <3>3, <3>4, Change DEF Safe, ReadPid
      <3> QED BY <1>2, <2>2, <3>5, Counting DEF Safe, TypeOK, ReadPid
    <2> QED BY <1>2, <2>1, <2>2 DEF ReadPid
  <1>3. CASE CheckProcess(c)
    <2>1. cmd[c].victim # NoPid /\ UNCHANGED proc /\ (Fault \/ NoFault)
      BY <1>1, <1>3 DEF Good, CheckProcess, Step
    <2>2. PICK to \in {"term", "remove"} :
            Goto(c, to) /\ (to = "term" => proc[cmd[c].victim].is = At(c))
      BY <1>3 DEF CheckProcess
    <2>3. to \in Points /\ to \notin {"write", "probe", "check"}
          /\ (to = "term" => proc'[cmd[c].victim].is # "foreign")
      BY <1>1, <2>1, <2>2, OrderFacts DEF Points
    <2>4. cmd' \in [Commands -> Records] /\ Sparing'
      BY <1>3, <2>1, <2>2, <2>3, Going, Quietly DEF Safe, CheckProcess
    <2> QED BY <1>3, <2>1, <2>4, Counting DEF Safe, TypeOK, CheckProcess
  <1>4. CASE RemovePid(c)
    <2>1. cmd' \in [Commands -> Records] /\ Sparing'
      BY <1>4, Advancing, Quietly DEF Safe, RemovePid
    <2>2. file' \in [Services -> Pids \cup {NoPid}]
      BY <1>1, <1>4 DEF Safe, TypeOK, RemovePid
    <2> QED BY <1>4, <2>1, <2>2, Counting DEF Safe, TypeOK, RemovePid
  <1>5. CASE Stopped(c)
    <2>1. cmd' \in [Commands -> Records] /\ Sparing'
      BY <1>5, Finishing, Quietly DEF Safe, Stopped
    <2> QED BY <1>5, <2>1 DEF Safe, TypeOK, Stopped
  <1> QED BY <1>2, <1>3, <1>4, <1>5

\* What both commands do to their victim.
LEMMA KillSafe ==
    ASSUME Safe, NEW c \in Commands, Signal(c) \/ Await(c)
    PROVE  Safe'
  <1>1. cmd[c] \in Records /\ Good(cmd[c], proc) /\ proc \in [Pids -> Processes]
    BY DEF Safe, TypeOK, Sparing
  <1>2. cmd[c].victim \in Pids \cup {NoPid} /\ cmd[c].own["backend"] \in Pids \cup {NoPid}
    BY <1>1, OrderFacts DEF Records
  <1>3. CASE Signal(c)
    <2> DEFINE v == cmd[c].victim
    <2>1. v \in Pids /\ proc[v].is # "foreign"
      BY <1>1, <1>2, <1>3 DEF Good, Signal, Step
    <2>2. proc' = [proc EXCEPT ![v].term = proc[v] # Gone] /\ UNCHANGED struck
      BY <1>3, <2>1, Zenon DEF Signal
    <2>3. (proc[v] # Gone) \in BOOLEAN
      OBVIOUS
    <2> HIDE DEF v
    <2>4. proc' \in [Pids -> Processes] /\ Steady
      <3> DEFINE b == proc[v] # Gone
      <3>1. b \in BOOLEAN /\ proc' = [proc EXCEPT ![v].term = b]
        BY <2>2, <2>3
      <3> HIDE DEF b
      <3> QED BY <1>1, <2>1, <3>1 DEF Processes, Steady
    <2>5. cmd' \in [Commands -> Records] /\ Sparing'
      BY <1>3, <2>2, <2>4, Going DEF Safe, Signal, Points
    <2> QED BY <1>3, <2>4, <2>5 DEF Safe, TypeOK, Signal, Sparing
  <1>4. CASE Await(c)
    <2>1. Gone \in Processes /\ Gone.is = "none"
      BY DEF Gone, Processes
    <2>2. proc' \in [Pids -> Processes] /\ Steady
      BY <1>1, <1>4, <2>1 DEF Await, Steady
    <2>3. CASE cmd[c].do = "stop"
      <3>1. cmd' \in [Commands -> Records] /\ Sparing'
        BY <1>4, <2>2, <2>3, Going DEF Safe, Await, AfterVictim, Points
      <3> QED BY <1>4, <2>2, <2>3, <3>1 DEF Safe, TypeOK, Await, AfterVictim
    <2>4. CASE /\ cmd[c].own["backend"] # NoPid
               /\ Becomes(c, [cmd[c] EXCEPT !.at = "term", !.victim = cmd[c].own["backend"]])
               /\ UNCHANGED mode
      <3> DEFINE v == cmd[c].own["backend"]
                 r == [cmd[c] EXCEPT !.at = "term", !.victim = v]
      <3>1. Good(cmd[c], proc')
        BY <2>2, Stays DEF Safe, Sparing
      <3>2. v # NoPid /\ Becomes(c, r) /\ proc'[v].is # "foreign"
        BY <2>4, <3>1, OrderFacts DEF Good
      <3>3. "term" \in Points /\ v \in Pids \cup {NoPid} /\ cmd[c] \in Records
        BY <1>1, <1>2 DEF Points
      <3> HIDE DEF v
      <3>4. r \in Records /\ r.at = "term" /\ r.own = cmd[c].own /\ r.victim = v
        BY <3>3, Zenon DEF Records
      <3> HIDE DEF r
      <3>5. Good(r, proc')
        BY <3>1, <3>2, <3>4 DEF Good
      <3>6. cmd' \in [Commands -> Records] /\ Sparing'
        BY <1>4, <2>2, <3>2, <3>4, <3>5, Change DEF Safe, Await
      <3> QED BY <1>4, <2>2, <2>4, <3>6 DEF Safe, TypeOK, Await
    <2>5. CASE Finish(c) /\ mode' = "down"
      <3>1. cmd' \in [Commands -> Records] /\ Sparing'
        BY <1>4, <2>2, <2>5, Finishing DEF Safe, Await
      <3> QED BY <1>4, <2>2, <2>5, <3>1 DEF Safe, TypeOK, Await
    <2> QED BY <1>4, <2>3, <2>4, <2>5 DEF Await, AfterVictim
  <1> QED BY <1>3, <1>4

LEMMA WorldSafe ==
    ASSUME Safe,
           \/ \E p \in Pids : Boot(p) \/ Exit(p) \/ Die(p) \/ Reuse(p)
           \/ \E c \in Commands : CommandDies(c)
           \/ UNCHANGED vars
    PROVE  Safe'
  <1>1. Gone \in Processes /\ Gone.is = "none" /\ proc \in [Pids -> Processes]
    BY DEF Gone, Processes, Safe, TypeOK
  <1>2. ASSUME NEW p \in Pids, Boot(p) \/ Exit(p) \/ Die(p) \/ Reuse(p) PROVE Safe'
    <2>1. \/ proc' = [proc EXCEPT ![p] = Gone]
          \/ proc' = [proc EXCEPT ![p].up = TRUE]
          \/ proc' = [proc EXCEPT ![p].is = "foreign"] /\ ~Held(p)
      BY <1>2, Zenon DEF Boot, Exit, Die, Reuse
    <2>2. proc' \in [Pids -> Processes] /\ Steady
      <3>1. CASE proc' = [proc EXCEPT ![p] = Gone]
        BY <1>1, <3>1 DEF Steady
      <3>2. CASE proc' = [proc EXCEPT ![p].up = TRUE]
        BY <1>1, <3>2 DEF Steady, Processes
      <3>3. CASE proc' = [proc EXCEPT ![p].is = "foreign"] /\ ~Held(p)
        BY <1>1, <3>3 DEF Steady, Processes
      <3> QED BY <2>1, <3>1, <3>2, <3>3
    <2>3. cmd' \in [Commands -> Records] /\ Sparing'
      BY <1>2, <2>2, Settled DEF Boot, Exit, Die, Reuse, Safe
    <2>4. faults' \in 0..MaxFaults
      BY <1>2, Counting DEF Boot, Exit, Die, Reuse, Safe, NoFault
    <2> QED BY <1>2, <2>2, <2>3, <2>4 DEF Boot, Exit, Die, Reuse, Safe, TypeOK
  <1>3. ASSUME NEW c \in Commands, CommandDies(c) PROVE Safe'
    <2>1. cmd' \in [Commands -> Records] /\ Sparing'
      BY <1>3, Finishing, Quietly DEF Safe, CommandDies
    <2> QED BY <1>3, <2>1, Counting DEF Safe, TypeOK, CommandDies
  <1>4. CASE UNCHANGED vars
    BY <1>4 DEF vars, Safe, TypeOK, Sparing
  <1> QED BY <1>2, <1>3, <1>4

-----------------------------------------------------------------------------
\* The types and what a command knows of its victim hold in every state.
THEOREM Invariant == Spec => []Safe
  <1>1. Safe /\ [Next]_vars => Safe'
    BY BeginSafe, SpawnSafe, StartSafe, StopSafe, KillSafe, WorldSafe DEF Next, Progress
  <1> QED BY Starting, <1>1, PTL DEF Spec

\* Type correctness of the gateway (TypeOK).
THEOREM TypeCorrect == Spec => []TypeOK
  <1>1. Safe => TypeOK
    BY DEF Safe
  <1> QED BY <1>1, Invariant, PTL

\* No stop and no failed start signals a program that is no service, however
\* old the PID file and whatever died, failed or was reused (ForeignSpared).
THEOREM Spared == Spec => []ForeignSpared
  <1>1. Safe => ForeignSpared
    BY DEF Safe, Sparing, ForeignSpared
  <1> QED BY <1>1, Invariant, PTL

-----------------------------------------------------------------------------
(* What a step makes of a command's record.                                *)

LEMMA TheOrder ==
    /\ Order[1] = "backend" /\ Order[2] = "telegram" /\ Len(Order) = 2
    /\ Services = {"backend", "telegram"}
  BY OrderFacts DEF Order

Rest(c) == \A d \in Commands \ {c} : cmd'[d] = cmd[d]

\* The record goes on, but for the point it is at and its victim.
Same(c) ==
    /\ cmd'[c].do = cmd[c].do /\ cmd'[c].n = cmd[c].n /\ cmd'[c].want = cmd[c].want
    /\ cmd'[c].own = cmd[c].own /\ cmd'[c].warm = cmd[c].warm

\* It is at the second service, or at its final write.
Moved(c, at, warm) ==
    \/ /\ cmd[c].n = 1 /\ cmd'[c].n = 2 /\ cmd'[c].at = at
       /\ cmd'[c].do = cmd[c].do /\ cmd'[c].want = cmd[c].want
       /\ cmd'[c].own = cmd[c].own
       /\ cmd'[c].warm = warm
    \/ /\ cmd[c].n = 2 /\ cmd'[c].n = 1 /\ cmd'[c].at = "mark"
       /\ cmd'[c].do = cmd[c].do /\ cmd'[c].want = {}
       /\ cmd'[c].own = Idle.own
       /\ cmd'[c].warm = warm

LEMMA Become ==
    ASSUME TypeOK, NEW c \in Commands, NEW r, Becomes(c, r)
    PROVE  cmd'[c] = r /\ Rest(c)
  BY DEF TypeOK, Becomes, Rest

LEMMA Fields ==
    ASSUME NEW r \in Records
    PROVE  /\ r.do \in {"none", "start", "stop"} /\ r.at \in Points /\ r.n \in {1, 2}
           /\ r.want \subseteq Services /\ r.supervised \in BOOLEAN /\ r.warm \in BOOLEAN
           /\ r.own \in [Services -> Pids \cup {NoPid}] /\ r.victim \in Pids \cup {NoPid}
  <1>1. 1..Len(Order) = {1, 2}
    BY TheOrder
  <1> QED BY <1>1, Zenon DEF Records

LEMMA Goes ==
    ASSUME TypeOK, NEW c \in Commands, NEW at, Goto(c, at)
    PROVE  /\ Rest(c) /\ Same(c)
           /\ cmd'[c].at = at /\ cmd'[c].victim = cmd[c].victim
  <1>1. cmd[c] \in Records
    BY DEF TypeOK
  <1>2. cmd'[c] = [cmd[c] EXCEPT !.at = at] /\ Rest(c)
    BY Become DEF Goto
  <1> QED BY <1>1, <1>2, Zenon DEF Records, Same

LEMMA Aims ==
    ASSUME TypeOK, NEW c \in Commands, NEW at, NEW v,
           Becomes(c, [cmd[c] EXCEPT !.at = at, !.victim = v])
    PROVE  /\ Rest(c) /\ Same(c)
           /\ cmd'[c].at = at /\ cmd'[c].victim = v
  <1>1. cmd[c] \in Records
    BY DEF TypeOK
  <1>2. cmd'[c] = [cmd[c] EXCEPT !.at = at, !.victim = v] /\ Rest(c)
    BY Become
  <1> QED BY <1>1, <1>2, Zenon DEF Records, Same

LEMMA Advances ==
    ASSUME TypeOK, NEW c \in Commands, NEW at, NEW warm, Advance(c, at, warm)
    PROVE  Rest(c) /\ Moved(c, at, warm)
  <1>1. cmd[c] \in Records /\ cmd[c].n \in {1, 2}
    BY Fields DEF TypeOK
  <1>2. CASE cmd[c].n = 1
    <2>1. cmd'[c] = [cmd[c] EXCEPT !.n = cmd[c].n + 1, !.victim = NoPid, !.at = at, !.warm = warm]
          /\ Rest(c)
      BY <1>2, TheOrder, Become DEF Advance
    <2> DEFINE m == cmd[c].n + 1
    <2>2. m = 2
      BY <1>2
    <2>3. cmd'[c] = [cmd[c] EXCEPT !.n = m, !.victim = NoPid, !.at = at, !.warm = warm]
      BY <2>1
    <2> HIDE DEF m
    <2> QED BY <1>1, <1>2, <2>1, <2>2, <2>3, Zenon DEF Records, Moved
  <1>3. CASE cmd[c].n = 2
    <2>1. cmd'[c] = [Idle EXCEPT !.do = cmd[c].do, !.at = "mark", !.warm = warm] /\ Rest(c)
      BY <1>3, TheOrder, Become DEF Advance
    <2> QED BY <1>1, <1>3, <2>1, Zenon DEF Idle, Moved
  <1> QED BY <1>1, <1>2, <1>3

LEMMA Finishes ==
    ASSUME TypeOK, NEW c \in Commands, Finish(c)
    PROVE  Rest(c) /\ cmd'[c] = Idle
  BY Become DEF Finish

LEMMA BeginsStart ==
    ASSUME TypeOK, NEW c \in Commands, BeginStart(c)
    PROVE  /\ Rest(c) /\ cmd[c] = Idle
           /\ cmd'[c].do = "start" /\ cmd'[c].at = "spawn" /\ cmd'[c].n = 1
           /\ cmd'[c].own = Idle.own /\ cmd'[c].warm = FALSE
  <1>1. PICK want \in Wishes, supervised \in BOOLEAN :
           Becomes(c, [Idle EXCEPT !.do = "start", !.at = "spawn",
                                   !.want = want, !.supervised = supervised])
    BY Zenon DEF BeginStart
  <1>2. /\ Rest(c)
        /\ cmd'[c] = [Idle EXCEPT !.do = "start", !.at = "spawn",
                                  !.want = want, !.supervised = supervised]
    BY <1>1, Become
  <1>3. cmd[c] = Idle
    BY DEF BeginStart, Issue
  <1> QED BY <1>2, <1>3, Zenon DEF Idle

LEMMA BeginsStop ==
    ASSUME TypeOK, NEW c \in Commands, BeginStop(c)
    PROVE  /\ Rest(c) /\ cmd[c] = Idle
           /\ cmd'[c].do = "stop" /\ cmd'[c].at = "read" /\ cmd'[c].n = 1
           /\ cmd'[c].own = Idle.own
  <1>1. cmd'[c] = [Idle EXCEPT !.do = "stop", !.at = "read"] /\ Rest(c)
    BY Become DEF BeginStop
  <1>2. cmd[c] = Idle
    BY DEF BeginStop, Issue
  <1> QED BY <1>1, <1>2, Zenon DEF Idle

\* A new process is held by no command, and is not up yet.
Spawned(c, p) ==
    /\ p \in Pids /\ proc[p] = Gone /\ ~Held(p)
    /\ proc' = [proc EXCEPT ![p].is = At(c)]
    /\ cmd'[c].at = "write" /\ cmd'[c].n = cmd[c].n /\ cmd'[c].do = cmd[c].do
    /\ cmd'[c].want = cmd[c].want /\ cmd'[c].warm = cmd[c].warm
    /\ cmd'[c].own = [cmd[c].own EXCEPT ![At(c)] = p]

LEMMA Spawns ==
    ASSUME TypeOK, NEW c \in Commands, Spawn(c)
    PROVE  /\ Rest(c) /\ cmd[c].at = "spawn"
           /\ \/ At(c) \notin cmd[c].want /\ Moved(c, "spawn", cmd[c].warm) /\ NoFault /\ UNCHANGED proc
              \/ At(c) \in cmd[c].want /\ NoFault /\ \E p : Spawned(c, p)
              \/ At(c) \in cmd[c].want /\ (Fault \/ NoFault) /\ cmd'[c] = Idle /\ UNCHANGED proc
  <1>0. cmd[c].at = "spawn" /\ cmd[c] \in Records
    BY DEF Spawn, Step, TypeOK
  <1>1. CASE At(c) \notin cmd[c].want /\ Advance(c, "spawn", cmd[c].warm) /\ NoFault /\ UNCHANGED proc
    BY <1>0, <1>1, Advances
  <1>2. CASE /\ At(c) \in cmd[c].want /\ Free # {}
             /\ proc' = [proc EXCEPT ![NextPid].is = At(c)]
             /\ Becomes(c, [cmd[c] EXCEPT !.at = "write",
                                          !.own = [cmd[c].own EXCEPT ![At(c)] = NextPid]])
             /\ NoFault
    <2>1. NextPid \in Free
      BY <1>2 DEF NextPid
    <2> DEFINE p == NextPid
               own == [cmd[c].own EXCEPT ![At(c)] = p]
    <2>2. p \in Pids /\ proc[p] = Gone /\ ~Held(p)
      BY <2>1 DEF Free
    <2>3. Rest(c) /\ cmd'[c] = [cmd[c] EXCEPT !.at = "write", !.own = own]
      BY <1>2, Become
    <2>4. proc' = [proc EXCEPT ![p].is = At(c)]
      BY <1>2
    <2> HIDE DEF p
    <2>5. cmd'[c].own = own
      BY <1>0, <2>3, Zenon DEF Records
    <2>6. /\ cmd'[c].at = "write" /\ cmd'[c].n = cmd[c].n /\ cmd'[c].do = cmd[c].do
          /\ cmd'[c].want = cmd[c].want /\ cmd'[c].warm = cmd[c].warm
      BY <1>0, <2>3, Zenon DEF Records
    <2>7. Spawned(c, p)
      BY <2>2, <2>4, <2>5, <2>6 DEF Spawned
    <2> QED BY <1>0, <1>2, <2>3, <2>7
  <1>3. CASE /\ At(c) \in cmd[c].want
             /\ Fault \/ (Free = {} /\ NoFault)
             /\ Finish(c) /\ UNCHANGED proc
    BY <1>0, <1>3, Finishes
  <1> QED BY <1>1, <1>2, <1>3 DEF Spawn

-----------------------------------------------------------------------------
(* What a step makes of the processes.                                     *)

\* A service goes or stays, and stays up.
Fading ==
    \A p \in Pids : /\ proc'[p].is = proc[p].is \/ proc'[p].is = "none"
                    /\ proc[p].up /\ proc'[p].is # "none" => proc'[p].up

\* What a command holds goes or stays.
Keeping ==
    \A p \in Pids : Held(p) => proc'[p].is = proc[p].is \/ proc'[p].is = "none"

LEMMA FadingKeeps == ASSUME Fading PROVE Keeping
  BY DEF Fading, Keeping

LEMMA QuietFades == ASSUME UNCHANGED proc PROVE Fading
  BY DEF Fading

LEMMA GoneFades ==
    ASSUME TypeOK, NEW p, proc' = [proc EXCEPT ![p] = Gone]
    PROVE  Fading /\ (p \in Pids => proc'[p].is = "none") /\ \A q \in Pids \ {p} : proc'[q] = proc[q]
  BY DEF TypeOK, Gone, Fading

LEMMA SignalFades ==
    ASSUME TypeOK, NEW c \in Commands, Signal(c)
    PROVE  Fading /\ \A p \in Pids : proc'[p].is = proc[p].is
  <1> DEFINE v == cmd[c].victim
             b == proc[v] # Gone
  <1>1. proc' = [proc EXCEPT ![v].term = b]
    BY Zenon DEF Signal
  <1> HIDE DEF v, b
  <1>2. \A p \in Pids : proc'[p].is = proc[p].is /\ proc'[p].up = proc[p].up
    BY <1>1, Zenon DEF TypeOK, Processes
  <1> QED BY <1>2 DEF Fading

LEMMA AwaitFades ==
    ASSUME TypeOK, NEW c \in Commands, Await(c)
    PROVE  Fading /\ (cmd[c].victim \in Pids => proc'[cmd[c].victim].is = "none")
  <1>1. CASE UNCHANGED proc /\ proc[cmd[c].victim] = Gone
    BY <1>1, QuietFades DEF Gone
  <1>2. CASE proc' = [proc EXCEPT ![cmd[c].victim] = Gone]
    BY <1>2, GoneFades
  <1> QED BY <1>1, <1>2 DEF Await

LEMMA WorldFades ==
    ASSUME TypeOK, NEW p \in Pids, Boot(p) \/ Exit(p) \/ Die(p)
    PROVE  Fading
  <1>1. CASE proc' = [proc EXCEPT ![p] = Gone]
    BY <1>1, GoneFades
  <1>2. CASE proc' = [proc EXCEPT ![p].up = TRUE]
    BY <1>2 DEF TypeOK, Processes, Fading
  <1> QED BY <1>1, <1>2 DEF Boot, Exit, Die

LEMMA SpawnKeeps ==
    ASSUME TypeOK, NEW c \in Commands, NEW p, Spawned(c, p)
    PROVE  /\ Keeping /\ proc'[p].is = At(c) /\ ~proc'[p].up /\ proc[p].is = "none"
           /\ \A q \in Pids \ {p} : proc'[q] = proc[q]
  <1>1. /\ p \in Pids /\ ~Held(p) /\ proc' = [proc EXCEPT ![p].is = At(c)]
        /\ proc[p] = Gone
    BY DEF Spawned
  <1>2. \A q \in Pids \ {p} : proc'[q] = proc[q]
    BY <1>1 DEF TypeOK
  <1>3. proc'[p].is = At(c) /\ proc'[p].up = proc[p].up
    BY <1>1, Zenon DEF TypeOK, Processes
  <1> QED BY <1>1, <1>2, <1>3 DEF Keeping, Gone

LEMMA ReuseKeeps ==
    ASSUME TypeOK, NEW p \in Pids, Reuse(p)
    PROVE  /\ Keeping /\ proc'[p].is = "foreign"
           /\ \A q \in Pids \ {p} : proc'[q] = proc[q]
  <1>1. ~Held(p) /\ proc' = [proc EXCEPT ![p].is = "foreign"]
    BY DEF Reuse
  <1>2. \A q \in Pids \ {p} : proc'[q] = proc[q]
    BY <1>1 DEF TypeOK
  <1> QED BY <1>1, <1>2, Zenon DEF Keeping, TypeOK, Processes

-----------------------------------------------------------------------------
(* What a command's record says of itself and of the processes it started. *)

\* Which points a start and a stop pass, and what a start owns by then.
Shape(r) ==
    /\ r.at = "idle" \/ r.do = "none" => r = Idle
    /\ r.at \in {"spawn", "write", "probe"} => r.do = "start"
    /\ r.at \in {"read", "check", "remove"} => r.do = "stop"
    /\ r.do = "stop" => r.own = Idle.own
    /\ r.n = 1 => r.own["telegram"] = NoPid
    /\ r.at = "spawn" => r.own[Order[r.n]] = NoPid
    /\ r.own["telegram"] # NoPid => r.own["telegram"] # r.own["backend"]

\* What a start owns is its service, or gone.
Owned(r, pr) ==
    \A s \in Services : r.own[s] # NoPid => pr[r.own[s]].is = s \/ pr[r.own[s]].is = "none"

\* A start that gives up stops the failing service first, the backend last.
Doomed(r, pr) ==
    r.do = "start" /\ r.at \in {"term", "await"} =>
        /\ r.victim # NoPid
        /\ r.victim = r.own["backend"] \/ r.victim = r.own["telegram"]
        /\ r.victim = r.own["backend"] /\ r.own["telegram"] # NoPid
              => pr[r.own["telegram"]].is = "none"

Ordered == \A c \in Commands : Shape(cmd[c]) /\ Owned(cmd[c], proc) /\ Doomed(cmd[c], proc)

LEMMA IdleFits ==
    /\ Idle.do = "none" /\ Idle.at = "idle" /\ Idle.n = 1 /\ Idle.victim = NoPid
    /\ Idle.want = {} /\ Idle.warm = FALSE
    /\ Idle.own["backend"] = NoPid /\ Idle.own["telegram"] = NoPid
    /\ Shape(Idle) /\ \A pr : Owned(Idle, pr) /\ Doomed(Idle, pr)
  <1>1. /\ Idle.do = "none" /\ Idle.at = "idle" /\ Idle.n = 1 /\ Idle.victim = NoPid
        /\ Idle.want = {} /\ Idle.warm = FALSE
        /\ Idle.own["backend"] = NoPid /\ Idle.own["telegram"] = NoPid
    BY TheOrder DEF Idle
  <1> HIDE DEF Idle
  <1>2. Shape(Idle)
    BY <1>1, TheOrder DEF Shape
  <1>3. \A pr : Owned(Idle, pr) /\ Doomed(Idle, pr)
    BY <1>1, TheOrder DEF Owned, Doomed
  <1> QED BY <1>1, <1>2, <1>3

\* The others are not disturbed.
LEMMA OthersFit ==
    ASSUME TypeOK, Ordered, Keeping, NEW c \in Commands, cmd'[c] = cmd[c]
    PROVE  Shape(cmd[c]) /\ Owned(cmd[c], proc') /\ Doomed(cmd[c], proc')
  <1>1. cmd[c].own \in [Services -> Pids \cup {NoPid}]
    BY Fields DEF TypeOK
  <1>2. \A s \in Services : cmd[c].own[s] # NoPid => cmd[c].own[s] \in Pids /\ Held(cmd[c].own[s])
    BY <1>1 DEF Held
  <1>3. Shape(cmd[c]) /\ Owned(cmd[c], proc) /\ Doomed(cmd[c], proc)
    BY DEF Ordered
  <1>4. Owned(cmd[c], proc')
    BY <1>2, <1>3, Zenon DEF Owned, Keeping
  <1>5. Doomed(cmd[c], proc')
    BY <1>2, <1>3, TheOrder DEF Doomed, Keeping
  <1> QED BY <1>3, <1>4, <1>5

LEMMA OneMoves ==
    ASSUME TypeOK, Ordered, Keeping, NEW c \in Commands, Rest(c),
           Shape(cmd'[c]) /\ Owned(cmd'[c], proc') /\ Doomed(cmd'[c], proc')
    PROVE  Ordered'
  BY OthersFit DEF Rest, Ordered

\* A step that only moves the record of a command on.
LEMMA SameFits ==
    ASSUME TypeOK, Ordered, Keeping, NEW c \in Commands, Same(c),
           cmd[c].at # "idle", cmd'[c].at \notin {"idle", "spawn"}, cmd[c].do # "none",
           cmd'[c].at \in {"write", "probe"} => cmd[c].do = "start",
           cmd'[c].at \in {"read", "check", "remove"} => cmd[c].do = "stop"
    PROVE  Shape(cmd'[c]) /\ Owned(cmd'[c], proc')
  <1>1. cmd[c].own \in [Services -> Pids \cup {NoPid}]
    BY Fields DEF TypeOK
  <1>2. \A s \in Services : cmd[c].own[s] # NoPid => cmd[c].own[s] \in Pids /\ Held(cmd[c].own[s])
    BY <1>1 DEF Held
  <1>3. Shape(cmd[c]) /\ Owned(cmd[c], proc)
    BY DEF Ordered
  <1>4. Owned(cmd'[c], proc')
    BY <1>2, <1>3 DEF Owned, Keeping, Same
  <1>5. Shape(cmd'[c])
    BY <1>3 DEF Shape, Same
  <1> QED BY <1>4, <1>5

LEMMA MovedFits ==
    ASSUME TypeOK, Ordered, Keeping, NEW c \in Commands, NEW at, NEW warm,
           Moved(c, at, warm), cmd[c].do # "none", cmd[c].at # "idle",
           \/ at = "spawn" /\ cmd[c].do = "start"
           \/ at = "read" /\ cmd[c].do = "stop"
    PROVE  Shape(cmd'[c]) /\ Owned(cmd'[c], proc') /\ Doomed(cmd'[c], proc')
  <1>1. cmd[c].own \in [Services -> Pids \cup {NoPid}]
    BY Fields DEF TypeOK
  <1>2. \A s \in Services : cmd[c].own[s] # NoPid => cmd[c].own[s] \in Pids /\ Held(cmd[c].own[s])
    BY <1>1 DEF Held
  <1>3. Shape(cmd[c]) /\ Owned(cmd[c], proc)
    BY DEF Ordered
  <1>4. CASE cmd[c].n = 1
    <2>1. cmd'[c].n = 2 /\ cmd'[c].at = at /\ cmd'[c].do = cmd[c].do /\ cmd'[c].own = cmd[c].own
      BY <1>4 DEF Moved
    <2>2. Owned(cmd'[c], proc')
      BY <1>2, <1>3, <2>1 DEF Owned, Keeping
    <2>3. Shape(cmd'[c]) /\ Doomed(cmd'[c], proc')
      BY <1>3, <1>4, <2>1, TheOrder DEF Shape, Doomed
    <2> QED BY <2>2, <2>3
  <1>5. CASE cmd[c].n = 2
    <2>1. cmd'[c].at = "mark" /\ cmd'[c].do = cmd[c].do /\ cmd'[c].own = Idle.own /\ cmd'[c].n = 1
      BY <1>5 DEF Moved
    <2> QED BY <2>1, IdleFits, TheOrder DEF Shape, Doomed, Owned
  <1> QED BY <1>4, <1>5 DEF Moved

LEMMA BeginFits ==
    ASSUME Safe, Ordered, NEW c \in Commands, BeginStart(c) \/ BeginStop(c)
    PROVE  Ordered'
  <1>1. TypeOK /\ Keeping
    BY QuietFades, FadingKeeps DEF Safe, BeginStart, BeginStop
  <1>2. /\ Rest(c) /\ cmd'[c].own = Idle.own /\ cmd'[c].n = 1
        /\ \/ cmd'[c].do = "start" /\ cmd'[c].at = "spawn"
           \/ cmd'[c].do = "stop" /\ cmd'[c].at = "read"
    BY <1>1, BeginsStart, BeginsStop
  <1>3. Shape(cmd'[c]) /\ Owned(cmd'[c], proc') /\ Doomed(cmd'[c], proc')
    BY <1>2, IdleFits, TheOrder DEF Shape, Owned, Doomed
  <1> QED BY <1>1, <1>2, <1>3, OneMoves

LEMMA SpawnFits ==
    ASSUME Safe, Ordered, NEW c \in Commands, Spawn(c)
    PROVE  Ordered'
  <1>1. TypeOK /\ Rest(c) /\ cmd[c].at = "spawn"
    BY Spawns DEF Safe
  <1>2. Shape(cmd[c]) /\ Owned(cmd[c], proc) /\ cmd[c].do = "start" /\ cmd[c].at # "idle"
    BY <1>1 DEF Ordered, Shape
  <1>3. CASE Moved(c, "spawn", cmd[c].warm) /\ UNCHANGED proc
    <2>1. Keeping
      BY <1>3, QuietFades, FadingKeeps
    <2> QED BY <1>1, <1>2, <1>3, <2>1, MovedFits, OneMoves
  <1>4. ASSUME NEW p, Spawned(c, p) PROVE Ordered'
    <2>1. /\ Keeping /\ proc'[p].is = At(c)
          /\ \A q \in Pids \ {p} : proc'[q] = proc[q]
      BY <1>1, <1>4, SpawnKeeps
    <2>2. /\ p \in Pids /\ ~Held(p) /\ cmd'[c].at = "write" /\ cmd'[c].n = cmd[c].n
          /\ cmd'[c].do = "start" /\ cmd'[c].own = [cmd[c].own EXCEPT ![At(c)] = p]
      BY <1>2, <1>4 DEF Spawned
    <2>3. cmd[c].own \in [Services -> Pids \cup {NoPid}] /\ cmd[c].n \in {1, 2}
      BY <1>1, Fields DEF TypeOK
    <2>4. At(c) \in Services /\ p # NoPid /\ At(c) = Order[cmd[c].n]
      BY <1>1, <2>2, AtService, NoPidAssumption DEF At
    <2>5. /\ cmd'[c].own[At(c)] = p
          /\ \A s \in Services \ {At(c)} : cmd'[c].own[s] = cmd[c].own[s] /\ cmd[c].own[s] # p
      <3>1. \A s \in Services : cmd[c].own[s] # p
        BY <2>2 DEF Held
      <3> QED BY <2>2, <2>3, <2>4, <3>1
    <2>6. \A s \in Services \ {At(c)} : cmd'[c].own[s] # NoPid => cmd'[c].own[s] \in Pids \ {p}
      BY <2>3, <2>5
    <2>7. Owned(cmd'[c], proc')
      <3> SUFFICES ASSUME NEW s \in Services, cmd'[c].own[s] # NoPid
                   PROVE  proc'[cmd'[c].own[s]].is = s \/ proc'[cmd'[c].own[s]].is = "none"
        BY DEF Owned
      <3>1. CASE s = At(c)
        BY <2>1, <2>5, <3>1
      <3>2. CASE s # At(c)
        <4>1. cmd'[c].own[s] \in Pids \ {p} /\ cmd'[c].own[s] = cmd[c].own[s]
          BY <2>5, <2>6, <3>2
        <4> QED BY <1>2, <2>1, <4>1 DEF Owned
      <3> QED BY <3>1, <3>2
    <2>8. Shape(cmd'[c])
      BY <1>2, <2>2, <2>3, <2>4, <2>5, TheOrder DEF Shape
    <2>9. Doomed(cmd'[c], proc')
      BY <2>2 DEF Doomed
    <2> QED BY <1>1, <2>1, <2>7, <2>8, <2>9, OneMoves
  <1>5. CASE cmd'[c] = Idle /\ UNCHANGED proc
    BY <1>1, <1>5, IdleFits, QuietFades, FadingKeeps, OneMoves
  <1> QED BY <1>1, <1>3, <1>4, <1>5, Spawns

LEMMA EndFits ==
    ASSUME TypeOK, Ordered, NEW c \in Commands, Finish(c), Keeping
    PROVE  Ordered'
  BY Finishes, IdleFits, OneMoves

\* The point a step begins at.
LEMMA Begun ==
    ASSUME Ordered, NEW c \in Commands, cmd[c].at # "idle"
    PROVE  /\ cmd[c].do # "none"
           /\ cmd[c].at \in {"spawn", "write", "probe"} => cmd[c].do = "start"
           /\ cmd[c].at \in {"read", "check", "remove"} => cmd[c].do = "stop"
  BY IdleFits DEF Ordered, Shape

LEMMA StartFits ==
    ASSUME Safe, Ordered, NEW c \in Commands,
           WritePid(c) \/ Healthy(c) \/ Unhealthy(c) \/ Started(c)
    PROVE  Ordered'
  <1>1. TypeOK /\ Keeping /\ Good(cmd[c], proc)
    BY QuietFades, FadingKeeps DEF Safe, Sparing, WritePid, Healthy, Unhealthy, Started
  <1>2. CASE WritePid(c)
    <2>1. cmd[c].at = "write" /\ Goto(c, "probe")
      BY <1>2 DEF WritePid, Step
    <2>2. cmd[c].do = "start" /\ cmd[c].at # "idle"
      BY <2>1, Begun
    <2>3. Rest(c) /\ Same(c) /\ cmd'[c].at = "probe"
      BY <1>1, <2>1, Goes
    <2>4. Shape(cmd'[c]) /\ Owned(cmd'[c], proc')
      BY <1>1, <2>2, <2>3, SameFits
    <2>5. Doomed(cmd'[c], proc')
      BY <2>3 DEF Doomed
    <2> QED BY <1>1, <2>3, <2>4, <2>5, OneMoves
  <1>3. ASSUME NEW warm, cmd[c].at = "probe", Advance(c, "spawn", warm) PROVE Ordered'
    <2>1. cmd[c].do = "start" /\ cmd[c].at # "idle"
      BY <1>3, Begun
    <2>2. Rest(c) /\ Moved(c, "spawn", warm)
      BY <1>1, <1>3, Advances
    <2> QED BY <1>1, <2>1, <2>2, MovedFits, OneMoves
  <1>4. CASE Unhealthy(c) /\ ~cmd[c].supervised
    <2> DEFINE v == cmd[c].own[At(c)]
    <2>1. cmd[c].at = "probe" /\ Becomes(c, [cmd[c] EXCEPT !.at = "term", !.victim = v])
      BY <1>4 DEF Unhealthy, Step
    <2>2. cmd[c].do = "start" /\ cmd[c].at # "idle"
      BY <2>1, Begun
    <2>3. Rest(c) /\ Same(c) /\ cmd'[c].at = "term" /\ cmd'[c].victim = v
      <3> HIDE DEF v
      <3> QED BY <1>1, <2>1, Aims
    <2>4. Shape(cmd'[c]) /\ Owned(cmd'[c], proc')
      BY <1>1, <2>2, <2>3, SameFits
    <2>5. v # NoPid /\ cmd[c].n \in {1, 2} /\ Shape(cmd[c])
      BY <1>1, <2>1, Fields DEF Good, At, TypeOK, Ordered
    <2>6. Doomed(cmd'[c], proc')
      <3>1. CASE cmd[c].n = 1
        BY <2>3, <2>5, <3>1, TheOrder DEF Doomed, Same, At, Shape
      <3>2. CASE cmd[c].n = 2
        BY <2>3, <2>5, <3>2, TheOrder DEF Doomed, Same, At, Shape
      <3> QED BY <2>5, <3>1, <3>2
    <2> QED BY <1>1, <2>3, <2>4, <2>6, OneMoves
  <1>5. CASE Started(c)
    BY <1>1, <1>5, EndFits DEF Started
  <1> QED BY <1>2, <1>3, <1>4, <1>5 DEF Healthy, Unhealthy, Step

LEMMA StopFits ==
    ASSUME Safe, Ordered, NEW c \in Commands,
           ReadPid(c) \/ CheckProcess(c) \/ RemovePid(c) \/ Stopped(c)
    PROVE  Ordered'
  <1>1. TypeOK /\ Keeping
    BY QuietFades, FadingKeeps DEF Safe, ReadPid, CheckProcess, RemovePid, Stopped
  <1>2. ASSUME cmd[c].at \in {"read", "remove"}, Advance(c, "read", FALSE) PROVE Ordered'
    <2>1. cmd[c].do = "stop" /\ cmd[c].at # "idle"
      BY <1>2, Begun
    <2>2. Rest(c) /\ Moved(c, "read", FALSE)
      BY <1>1, <1>2, Advances
    <2> QED BY <1>1, <2>1, <2>2, MovedFits, OneMoves
  <1>3. ASSUME cmd[c].at \in {"read", "check"}, Rest(c), Same(c),
               cmd'[c].at \in {"check", "term", "remove"}
        PROVE  Ordered'
    <2>1. cmd[c].do = "stop" /\ cmd[c].at # "idle"
      BY <1>3, Begun
    <2>2. Shape(cmd'[c]) /\ Owned(cmd'[c], proc')
      BY <1>1, <1>3, <2>1, SameFits
    <2>3. Doomed(cmd'[c], proc')
      BY <1>3, <2>1 DEF Doomed, Same
    <2> QED BY <1>1, <1>3, <2>2, <2>3, OneMoves
  <1>4. CASE ReadPid(c)
    <2>1. cmd[c].at = "read"
      BY <1>4 DEF ReadPid, Step
    <2>2. CASE Advance(c, "read", FALSE)
      BY <1>2, <2>1, <2>2
    <2>3. CASE Becomes(c, [cmd[c] EXCEPT !.at = "check", !.victim = file[At(c)]])
      BY <1>1, <1>3, <2>1, <2>3, Aims
    <2> QED BY <1>4, <2>2, <2>3 DEF ReadPid
  <1>5. CASE CheckProcess(c)
    <2>1. cmd[c].at = "check" /\ (Goto(c, "term") \/ Goto(c, "remove"))
      BY <1>5 DEF CheckProcess, Step
    <2> QED BY <1>1, <1>3, <2>1, Goes
  <1>6. CASE RemovePid(c)
    BY <1>2, <1>6 DEF RemovePid, Step
  <1>7. CASE Stopped(c)
    BY <1>1, <1>7, EndFits DEF Stopped
  <1> QED BY <1>4, <1>5, <1>6, <1>7

LEMMA KillFits ==
    ASSUME Safe, Ordered, NEW c \in Commands, Signal(c) \/ Await(c)
    PROVE  Ordered'
  <1>1. TypeOK /\ Fading /\ Keeping
    BY SignalFades, AwaitFades, FadingKeeps DEF Safe
  <1>2. Shape(cmd[c]) /\ Doomed(cmd[c], proc) /\ cmd[c].do # "none" /\ cmd[c].at # "idle"
    BY Begun DEF Ordered, Signal, Await, Step
  <1>3. cmd[c].own \in [Services -> Pids \cup {NoPid}] /\ cmd[c].victim \in Pids \cup {NoPid}
        /\ cmd[c].do \in {"none", "start", "stop"}
    BY <1>1, Fields DEF TypeOK
  <1>4. CASE Signal(c)
    <2>1. cmd[c].at = "term" /\ Goto(c, "await")
      BY <1>4 DEF Signal, Step
    <2>2. Rest(c) /\ Same(c) /\ cmd'[c].at = "await" /\ cmd'[c].victim = cmd[c].victim
      BY <1>1, <2>1, Goes
    <2>3. Shape(cmd'[c]) /\ Owned(cmd'[c], proc')
      BY <1>1, <1>2, <2>2, SameFits
    <2>4. Doomed(cmd'[c], proc')
      BY <1>1, <1>2, <1>3, <2>1, <2>2, TheOrder DEF Doomed, Same, Fading
    <2> QED BY <1>1, <2>2, <2>3, <2>4, OneMoves
  <1>5. CASE Await(c)
    <2>0. cmd[c].at = "await"
      BY <1>5 DEF Await, Step
    <2>1. CASE cmd[c].do = "stop" /\ Goto(c, "remove")
      <3>1. Rest(c) /\ Same(c) /\ cmd'[c].at = "remove"
        BY <1>1, <2>1, Goes
      <3>2. Shape(cmd'[c]) /\ Owned(cmd'[c], proc')
        BY <1>1, <1>2, <2>1, <3>1, SameFits
      <3>3. Doomed(cmd'[c], proc')
        BY <3>1 DEF Doomed
      <3> QED BY <1>1, <3>1, <3>2, <3>3, OneMoves
    <2>2. CASE /\ cmd[c].do # "stop" /\ cmd[c].victim # cmd[c].own["backend"]
               /\ cmd[c].own["backend"] # NoPid
               /\ Becomes(c, [cmd[c] EXCEPT !.at = "term", !.victim = cmd[c].own["backend"]])
      <3>1. /\ Rest(c) /\ Same(c) /\ cmd'[c].at = "term"
            /\ cmd'[c].victim = cmd[c].own["backend"]
        <4> DEFINE v == cmd[c].own["backend"]
        <4>1. Becomes(c, [cmd[c] EXCEPT !.at = "term", !.victim = v])
          BY <2>2
        <4> HIDE DEF v
        <4>2. Rest(c) /\ Same(c) /\ cmd'[c].at = "term" /\ cmd'[c].victim = v
          BY <1>1, <4>1, Aims
        <4> QED BY <4>2 DEF v
      <3>2. Shape(cmd'[c]) /\ Owned(cmd'[c], proc')
        BY <1>1, <1>2, <3>1, SameFits
      <3>3. cmd[c].victim = cmd[c].own["telegram"] /\ cmd[c].victim # NoPid
        BY <1>2, <1>3, <2>0, <2>2 DEF Doomed
      <3>4. proc'[cmd[c].own["telegram"]].is = "none"
        BY <1>1, <1>3, <1>5, <3>3, AwaitFades
      <3>5. Doomed(cmd'[c], proc')
        BY <2>2, <3>1, <3>3, <3>4 DEF Doomed, Same
      <3> QED BY <1>1, <3>1, <3>2, <3>5, OneMoves
    <2>3. CASE Finish(c)
      BY <1>1, <2>3, EndFits
    <2> QED BY <1>5, <2>1, <2>2, <2>3 DEF Await, AfterVictim
  <1> QED BY <1>4, <1>5

LEMMA WorldFits ==
    ASSUME Safe, Ordered,
           \/ \E p \in Pids : Boot(p) \/ Exit(p) \/ Die(p) \/ Reuse(p)
           \/ \E c \in Commands : CommandDies(c)
           \/ UNCHANGED vars
    PROVE  Ordered'
  <1>1. TypeOK
    BY DEF Safe
  <1>2. ASSUME Keeping, UNCHANGED cmd PROVE Ordered'
    <2>1. \A c \in Commands : Shape(cmd[c]) /\ Owned(cmd[c], proc') /\ Doomed(cmd[c], proc')
      BY <1>1, <1>2, OthersFit
    <2> QED BY <1>2, <2>1 DEF Ordered
  <1>3. ASSUME NEW p \in Pids, Boot(p) \/ Exit(p) \/ Die(p) PROVE Ordered'
    BY <1>1, <1>2, <1>3, WorldFades, FadingKeeps DEF Boot, Exit, Die
  <1>4. ASSUME NEW p \in Pids, Reuse(p) PROVE Ordered'
    BY <1>1, <1>2, <1>4, ReuseKeeps DEF Reuse
  <1>5. ASSUME NEW c \in Commands, CommandDies(c) PROVE Ordered'
    BY <1>1, <1>5, EndFits, QuietFades, FadingKeeps DEF CommandDies
  <1>6. CASE UNCHANGED vars
    BY <1>2, <1>6, QuietFades, FadingKeeps DEF vars
  <1> QED BY <1>3, <1>4, <1>5, <1>6

\* The records' invariant, beside the one above.
LEMMA OrderedAlways == Spec => []Ordered
  <1>1. Init => Ordered
    BY IdleFits DEF Init, Ordered
  <1>2. Safe /\ Ordered /\ [Next]_vars => Ordered'
    BY BeginFits, SpawnFits, StartFits, StopFits, KillFits, WorldFits DEF Next, Progress
  <1> QED BY <1>1, <1>2, Invariant, PTL DEF Spec

-----------------------------------------------------------------------------
\* A start that gives up ends with its last victim, when the other process it
\* owns is gone already (FailedStartLeavesNothing).
LEMMA GivingUp ==
    ASSUME Safe, Ordered, Next, NEW c \in Commands,
           cmd[c].do = "start", cmd[c].at = "await", cmd'[c] = Idle, faults' = faults
    PROVE  \A s \in Services : cmd[c].own[s] # NoPid => proc'[cmd[c].own[s]].is # s
  <1>1. TypeOK /\ Doomed(cmd[c], proc) /\ cmd[c] # Idle
    BY IdleFits DEF Safe, Ordered
  <1>2. cmd[c].own \in [Services -> Pids \cup {NoPid}] /\ cmd[c].victim \in Pids \cup {NoPid}
    BY <1>1, Fields DEF TypeOK
  <1>3. Await(c)
    <2>1. ASSUME NEW d \in Commands,
                 BeginStart(d) \/ BeginStop(d) \/ Progress(d) \/ CommandDies(d)
          PROVE  d = c
      <3>1. \E r : Becomes(d, r)
        BY <2>1, Zenon DEF BeginStart, BeginStop, Progress, CommandDies, Spawn, WritePid, Healthy,
                  Unhealthy, Started, ReadPid, CheckProcess, RemovePid, Stopped, Signal, Await,
                  AfterVictim, Goto, Finish, Advance
      <3> QED BY <1>1, <3>1, Become DEF Rest
    <2>2. cmd' # cmd
      BY <1>1
    <2>3. ~CommandDies(c)
      BY <1>1 DEF CommandDies, Fault, TypeOK
    <2>4. ~BeginStart(c) /\ ~BeginStop(c)
      BY <1>1 DEF BeginStart, BeginStop, Issue
    <2>5. Progress(c)
      BY <2>1, <2>2, <2>3, <2>4 DEF Next, Boot, Exit, Die, Reuse
    <2> QED BY <2>5 DEF Progress, Spawn, WritePid, Healthy, Unhealthy, Started, ReadPid,
                        CheckProcess, RemovePid, Stopped, Signal, Step
  <1>4. cmd[c].victim \in Pids /\ Fading /\ proc'[cmd[c].victim].is = "none"
    BY <1>1, <1>2, <1>3, AwaitFades DEF Doomed
  <1>5. ~ /\ cmd[c].victim # cmd[c].own["backend"] /\ cmd[c].own["backend"] # NoPid
    <2>1. ASSUME cmd[c].victim # cmd[c].own["backend"], cmd[c].own["backend"] # NoPid
          PROVE  Becomes(c, [cmd[c] EXCEPT !.at = "term", !.victim = cmd[c].own["backend"]])
      BY <1>3, <2>1 DEF Await, AfterVictim
    <2> QED BY <1>1, <2>1, Aims, IdleFits
  <1>6. CASE cmd[c].victim = cmd[c].own["backend"]
    BY <1>1, <1>2, <1>4, <1>6, TheOrder DEF Doomed, Fading
  <1>7. CASE cmd[c].own["backend"] = NoPid
    BY <1>1, <1>2, <1>4, <1>7, TheOrder DEF Doomed
  <1> QED BY <1>5, <1>6, <1>7

\* A start that gives up leaves none of its processes (FailedStartLeavesNothing).
THEOREM FailedStart == Spec => FailedStartLeavesNothing
  <1>1. Safe /\ Ordered /\ [Next]_vars =>
          [\A c \in Commands :
             (cmd[c].do = "start" /\ cmd[c].at = "await" /\ cmd'[c] = Idle /\ faults' = faults)
                => \A s \in Services : cmd[c].own[s] # NoPid => proc'[cmd[c].own[s]].is # s]_vars
    BY GivingUp
  <1> QED BY <1>1, Invariant, OrderedAlways, PTL DEF Spec, FailedStartLeavesNothing

-----------------------------------------------------------------------------
(* One command after the other, and no faults.                             *)

Calm == rash = 0 /\ faults = 0

\* The file names the process, or a start is about to write it.
Known(p) ==
    \/ file[proc[p].is] = p
    \/ \E c \in Commands :
          Step(c, "write") /\ At(c) = proc[p].is /\ cmd[c].own[At(c)] = p

\* All that runs was started by the running start; what it is done with is up,
\* unless it is left to warm up.
Launching(c) == cmd[c].do = "start" =>
    /\ mode # "down" /\ mode # "healthy"
    /\ cmd[c].at # "mark" => \A p \in Pids : Alive(p) => cmd[c].own[proc[p].is] = p
    /\ ~cmd[c].warm /\ (cmd[c].at = "mark" \/ cmd[c].n = 2) =>
          \A p \in Pids : Alive(p) /\ (cmd[c].at = "mark" \/ proc[p].is = "backend") => proc[p].up

\* Nothing runs of the services the running stop is done with.
Halting(c) == cmd[c].do = "stop" =>
    /\ cmd[c].at = "mark" => \A p \in Pids : ~Alive(p)
    /\ cmd[c].n = 2 => \A p \in Pids : proc[p].is # "backend"
    /\ cmd[c].at \in {"check", "term", "await"} => cmd[c].victim = file[At(c)]
    /\ cmd[c].at = "remove" => \A p \in Pids : proc[p].is # At(c)

Honest ==
    /\ mode = "down" => \A p \in Pids : ~Alive(p)
    /\ mode = "healthy" => \A p \in Pids : Alive(p) => proc[p].up

Alone == \A c, d \in Commands : cmd[c].do # "none" /\ cmd[d].do # "none" => c = d

Sequential ==
    /\ Alone
    /\ \A p \in Pids : Alive(p) => Known(p)
    /\ \A c \in Commands : Launching(c) /\ Halting(c)
    /\ Quiet => Honest

LEMMA CalmBefore ==
    ASSUME Safe, [Next]_vars, Calm'
    PROVE  Calm
  <1>1. rash \in Nat /\ faults \in Nat
    BY BoundsAssumption DEF Safe, TypeOK
  <1>2. rash' = rash \/ rash' = rash + 1
    BY Zenon DEF Next, vars, BeginStart, BeginStop, Issue, Progress, Spawn, WritePid, Healthy,
       Unhealthy, Started, ReadPid, CheckProcess, RemovePid, Stopped, Signal, Await, CommandDies,
       Boot, Exit, Die, Reuse
  <1>3. faults' = faults \/ faults' = faults + 1
    BY Zenon DEF Next, vars, BeginStart, BeginStop, Progress, Spawn, WritePid, Healthy,
       Unhealthy, Started, ReadPid, CheckProcess, RemovePid, Stopped, Signal, Await, CommandDies,
       Boot, Exit, Die, Reuse, Fault, NoFault
  <1> QED BY <1>1, <1>2, <1>3 DEF Calm

LEMMA NoFaultCalm ==
    ASSUME Safe, Calm, Calm'
    PROVE  ~Fault /\ \A c \in Commands : \A isRash : Issue(c, isRash) => ~isRash
  BY DEF Safe, TypeOK, Calm, Fault, Issue

\* Processes that only go or come up.
LEMMA AliveBefore ==
    ASSUME Fading, NEW p \in Pids, Alive(p)'
    PROVE  /\ Alive(p) /\ proc'[p].is = proc[p].is /\ (proc[p].up => proc'[p].up)
           /\ proc[p].is \in Services /\ proc[p].is # "none"
  BY TheOrder DEF Fading, Alive

\* Who runs when a step of a command begins.
LEMMA OnlyOne ==
    ASSUME Ordered, Alone, NEW c \in Commands, cmd[c].at # "idle"
    PROVE  \A d \in Commands \ {c} : cmd[d].do = "none" /\ cmd[d].at = "idle"
  <1>1. cmd[c].do # "none"
    BY Begun
  <1>2. \A d \in Commands \ {c} : cmd[d].do = "none"
    BY <1>1 DEF Alone
  <1> QED BY <1>2, IdleFits DEF Ordered, Shape

\* The step of one command, when no other runs.
LEMMA OneActs ==
    ASSUME NEW c \in Commands, Rest(c),
           \A d \in Commands \ {c} : cmd[d].do = "none",
           \A p \in Pids : Alive(p)' => Known(p)',
           Launching(c)', Halting(c)',
           cmd'[c] = Idle => Honest'
    PROVE  Sequential'
  <1>1. \A d \in Commands \ {c} : cmd'[d].do = "none"
    BY DEF Rest
  <1>2. Alone'
    BY <1>1 DEF Alone
  <1>3. \A d \in Commands : Launching(d)' /\ Halting(d)'
    BY <1>1 DEF Launching, Halting
  <1>4. Quiet' => Honest'
    BY DEF Quiet
  <1> QED BY <1>2, <1>3, <1>4 DEF Sequential

\* Outside a write every process is named by its file.
LEMMA KnownByFile ==
    ASSUME Ordered, Sequential, NEW c \in Commands, cmd[c].at # "idle", cmd[c].at # "write"
    PROVE  \A p \in Pids : Alive(p) => file[proc[p].is] = p
  <1>1. \A d \in Commands : ~Step(d, "write")
    BY OnlyOne DEF Sequential, Step
  <1> QED BY <1>1 DEF Sequential, Known

LEMMA StillKnown ==
    ASSUME Ordered, Sequential, NEW c \in Commands, cmd[c].at # "idle", cmd[c].at # "write",
           Fading, UNCHANGED file
    PROVE  \A p \in Pids : Alive(p)' => Known(p)'
  <1>1. \A p \in Pids : Alive(p) => file[proc[p].is] = p
    BY KnownByFile
  <1> QED BY <1>1, AliveBefore DEF Known

LEMMA CalmBegin ==
    ASSUME Safe, Ordered, Sequential, Calm, Calm', NEW c \in Commands,
           BeginStart(c) \/ BeginStop(c)
    PROVE  Sequential'
  <1>1. TypeOK /\ ~Others(c) /\ (BeginStart(c) => \A p \in Pids : ~Alive(p))
    BY NoFaultCalm DEF Safe, BeginStart, BeginStop
  <1>2. \A d \in Commands \ {c} : cmd[d].do = "none"
    BY <1>1 DEF Others
  <1>3. \A d \in Commands : cmd[d].at = "idle"
    <2>1. cmd[c] = Idle
      BY <1>1, BeginsStart, BeginsStop
    <2> QED BY <1>2, <2>1, IdleFits DEF Ordered, Shape
  <1>4. Rest(c) /\ UNCHANGED <<proc, file>>
    BY <1>1, BeginsStart, BeginsStop DEF BeginStart, BeginStop
  <1>5. \A p \in Pids : Alive(p) => file[proc[p].is] = p
    BY <1>3 DEF Sequential, Known, Step
  <1>6. \A p \in Pids : Alive(p)' => Known(p)'
    BY <1>4, <1>5 DEF Known, Alive
  <1>7. CASE BeginStart(c)
    <2>1. cmd'[c].do = "start" /\ cmd'[c] # Idle /\ mode' = "starting"
      BY <1>1, <1>7, BeginsStart, IdleFits DEF BeginStart
    <2>2. \A p \in Pids : ~Alive(p)'
      BY <1>1, <1>4, <1>7 DEF Alive
    <2>3. Launching(c)' /\ Halting(c)'
      BY <2>1, <2>2 DEF Launching, Halting
    <2> QED BY <1>2, <1>4, <1>6, <2>1, <2>3, OneActs
  <1>8. CASE BeginStop(c)
    <2>1. cmd'[c].do = "stop" /\ cmd'[c] # Idle /\ cmd'[c].at = "read" /\ cmd'[c].n = 1
      BY <1>1, <1>8, BeginsStop, IdleFits
    <2>2. Launching(c)' /\ Halting(c)'
      BY <2>1 DEF Launching, Halting
    <2> QED BY <1>2, <1>4, <1>6, <2>1, <2>2, OneActs
  <1> QED BY <1>7, <1>8

\* What a start knows of the service it leaves behind when it moves on.
LEMMA CalmMove ==
    ASSUME Ordered, NEW c \in Commands, NEW at \in Points, at # "mark", NEW warm \in BOOLEAN,
           TypeOK, Launching(c), cmd[c].do = "start", cmd[c].at # "mark",
           Moved(c, at, warm), UNCHANGED proc, cmd[c].warm => warm,
           mode' # "down", mode' # "healthy",
           \A p \in Pids : proc[p].is = At(c) /\ ~warm => proc[p].up
    PROVE  Launching(c)'
  <1>1. cmd[c].n \in {1, 2} /\ \A p \in Pids : Alive(p)' <=> Alive(p)
    BY Fields DEF TypeOK, Alive
  <1>2. CASE cmd[c].n = 1
    <2>1. cmd'[c].n = 2 /\ cmd'[c].at = at /\ cmd'[c].own = cmd[c].own /\ cmd'[c].warm = warm
      BY <1>2 DEF Moved
    <2>2. At(c) = "backend"
      BY <1>2, TheOrder DEF At
    <2> QED BY <1>1, <2>1, <2>2 DEF Launching
  <1>3. CASE cmd[c].n = 2
    <2>1. cmd'[c].at = "mark" /\ cmd'[c].warm = warm
      BY <1>3 DEF Moved
    <2>2. At(c) = "telegram"
      BY <1>3, TheOrder DEF At
    <2>3. ASSUME NEW p \in Pids, Alive(p), ~warm PROVE proc[p].up
      <3>1. proc[p].is = "backend" \/ proc[p].is = "telegram"
        BY <2>3, TheOrder DEF Alive
      <3>2. CASE proc[p].is = "backend"
        BY <1>3, <2>3, <3>2 DEF Launching
      <3> QED BY <2>2, <2>3, <3>1, <3>2
    <2> QED BY <1>1, <2>1, <2>3 DEF Launching
  <1> QED BY <1>1, <1>2, <1>3

LEMMA CalmSpawn ==
    ASSUME Safe, Ordered, Sequential, Calm, Calm', NEW c \in Commands, Spawn(c)
    PROVE  Sequential'
  <1>1. TypeOK /\ Rest(c) /\ cmd[c].at = "spawn" /\ UNCHANGED <<file, mode>>
    BY Spawns DEF Safe, Spawn
  <1>2. cmd[c].do = "start" /\ cmd[c].at # "idle" /\ \A d \in Commands \ {c} : cmd[d].do = "none"
    BY <1>1, Begun, OnlyOne DEF Sequential
  <1>3. Launching(c) /\ Shape(cmd[c]) /\ cmd[c].own[At(c)] = NoPid
    BY <1>1 DEF Ordered, Sequential, Shape, At
  <1>4. ASSUME NEW p \in Pids, Alive(p)
        PROVE  cmd[c].own[proc[p].is] = p /\ proc[p].is # At(c) /\ file[proc[p].is] = p
    <2>1. cmd[c].own[proc[p].is] = p /\ p # NoPid
      BY <1>1, <1>2, <1>3, <1>4, NoPidAssumption DEF Launching
    <2>2. file[proc[p].is] = p
      BY <1>1, <1>4, KnownByFile
    <2> QED BY <1>3, <2>1, <2>2
  <1>5. mode # "down" /\ mode # "healthy"
    BY <1>2, <1>3 DEF Launching
  <1>6. At(c) \in Services /\ cmd[c].warm \in BOOLEAN
    BY <1>1, AtService, Fields DEF TypeOK
  <1>7. CASE Moved(c, "spawn", cmd[c].warm) /\ UNCHANGED proc
    <2>1. \A p \in Pids : proc[p].is # At(c)
      BY <1>4, <1>6 DEF Alive
    <2>2. Launching(c)'
      BY <1>1, <1>2, <1>3, <1>5, <1>6, <1>7, <2>1, CalmMove DEF Points
    <2>3. Halting(c)' /\ cmd'[c] # Idle
      BY <1>2, <1>7, IdleFits DEF Halting, Moved
    <2>4. \A p \in Pids : Alive(p)' => Known(p)'
      BY <1>1, <1>7, StillKnown, QuietFades
    <2> QED BY <1>1, <1>2, <2>2, <2>3, <2>4, OneActs
  <1>8. ASSUME NEW p, Spawned(c, p) PROVE Sequential'
    <2>1. /\ proc'[p].is = At(c) /\ \A q \in Pids \ {p} : proc'[q] = proc[q]
      BY <1>1, <1>8, SpawnKeeps
    <2>2. /\ p \in Pids /\ ~Held(p) /\ cmd'[c].at = "write" /\ cmd'[c].n = cmd[c].n
          /\ cmd'[c].do = "start" /\ cmd'[c].warm = cmd[c].warm
          /\ cmd'[c].own = [cmd[c].own EXCEPT ![At(c)] = p]
      BY <1>2, <1>8 DEF Spawned
    <2>3. cmd[c].own \in [Services -> Pids \cup {NoPid}] /\ cmd[c].n \in {1, 2}
      BY <1>1, Fields DEF TypeOK
    <2>4. cmd'[c].own[At(c)] = p /\ \A s \in Services \ {At(c)} : cmd'[c].own[s] = cmd[c].own[s]
      BY <1>6, <2>2, <2>3
    <2>5. At(c)' = At(c)
      BY <2>2 DEF At
    <2>6. ASSUME NEW q \in Pids, Alive(q)', q # p
          PROVE  Alive(q) /\ proc'[q] = proc[q] /\ proc[q].is \in Services \ {At(c)}
      <3>1. proc'[q] = proc[q]
        BY <2>1, <2>6
      <3>2. Alive(q)
        BY <2>6, <3>1 DEF Alive
      <3> QED BY <1>4, <3>1, <3>2 DEF Alive
    <2>7. ASSUME NEW q \in Pids, Alive(q)' PROVE Known(q)'
      <3>1. CASE q = p
        BY <2>1, <2>2, <2>4, <2>5, <3>1 DEF Known, Step
      <3>2. CASE q # p
        BY <1>1, <1>4, <2>6, <2>7, <3>2 DEF Known
      <3> QED BY <3>1, <3>2
    <2>8. ASSUME NEW q \in Pids, Alive(q)' PROVE cmd'[c].own[proc'[q].is] = q
      <3>1. CASE q = p
        BY <2>1, <2>4, <3>1
      <3>2. CASE q # p
        BY <1>4, <2>4, <2>6, <2>8, <3>2
      <3> QED BY <3>1, <3>2
    <2>9. ASSUME NEW q \in Pids, Alive(q)', ~cmd[c].warm, cmd[c].n = 2, proc'[q].is = "backend"
          PROVE  proc'[q].up
      <3>1. At(c) = "telegram"
        BY <2>9, TheOrder DEF At
      <3>2. q # p
        BY <2>1, <2>9, <3>1
      <3> QED BY <1>2, <1>3, <2>6, <2>9, <3>2 DEF Launching
    <2>10. Launching(c)'
      BY <1>1, <1>5, <2>2, <2>8, <2>9 DEF Launching
    <2>11. Halting(c)' /\ cmd'[c] # Idle
      BY <2>2, IdleFits DEF Halting
    <2> QED BY <1>1, <1>2, <2>7, <2>10, <2>11, OneActs
  <1>9. CASE cmd'[c] = Idle /\ UNCHANGED proc
    <2>1. Launching(c)' /\ Halting(c)' /\ Honest'
      BY <1>1, <1>5, <1>9, IdleFits DEF Launching, Halting, Honest
    <2>2. \A p \in Pids : Alive(p)' => Known(p)'
      BY <1>1, <1>9, StillKnown, QuietFades
    <2> QED BY <1>1, <1>2, <2>1, <2>2, OneActs
  <1> QED BY <1>1, <1>7, <1>8, <1>9, Spawns

LEMMA CalmStart ==
    ASSUME Safe, Ordered, Sequential, Calm, Calm', NEW c \in Commands,
           WritePid(c) \/ Healthy(c) \/ Unhealthy(c) \/ Started(c)
    PROVE  Sequential'
  <1>1. TypeOK /\ Fading /\ UNCHANGED proc
    BY QuietFades DEF Safe, WritePid, Healthy, Unhealthy, Started
  <1>2. /\ cmd[c].do = "start" /\ cmd[c].at # "idle"
        /\ \A d \in Commands \ {c} : cmd[d].do = "none" /\ cmd[d].at = "idle"
    <2>1. cmd[c].at \in {"write", "probe"} \/ (cmd[c].at = "mark" /\ cmd[c].do = "start")
      BY DEF WritePid, Healthy, Unhealthy, Started, Step
    <2> QED BY <2>1, Begun, OnlyOne DEF Sequential
  <1>3. Launching(c) /\ mode # "down" /\ mode # "healthy"
    BY <1>2 DEF Sequential, Launching
  <1>4. At(c) \in Services /\ cmd[c].warm \in BOOLEAN
        /\ cmd[c].own \in [Services -> Pids \cup {NoPid}]
    BY <1>1, AtService, Fields DEF TypeOK
  <1>5. CASE WritePid(c)
    <2>1. cmd[c].at = "write" /\ file' = [file EXCEPT ![At(c)] = cmd[c].own[At(c)]]
          /\ Goto(c, "probe") /\ UNCHANGED mode
      BY <1>5, NoFaultCalm DEF WritePid, Step
    <2>2. Rest(c) /\ Same(c) /\ cmd'[c].at = "probe"
      BY <1>1, <2>1, Goes
    <2>3. ASSUME NEW p \in Pids, Alive(p) PROVE file'[proc[p].is] = p
      <3>1. cmd[c].own[proc[p].is] = p /\ proc[p].is \in Services
        BY <1>2, <1>3, <2>1, <2>3 DEF Launching, Alive
      <3>2. CASE proc[p].is = At(c)
        BY <1>1, <2>1, <3>1, <3>2 DEF TypeOK
      <3>3. CASE proc[p].is # At(c)
        <4>1. Known(p)
          BY <2>3 DEF Sequential
        <4>2. \A d \in Commands : Step(d, "write") => d = c
          BY <1>2 DEF Step
        <4>3. file[proc[p].is] = p
          BY <3>3, <4>1, <4>2 DEF Known
        <4> QED BY <1>1, <2>1, <3>1, <3>3, <4>3 DEF TypeOK
      <3> QED BY <3>2, <3>3
    <2>4. \A p \in Pids : Alive(p)' => Known(p)'
      BY <1>1, <2>3 DEF Known, Alive
    <2>5. Launching(c)'
      BY <1>1, <1>2, <1>3, <2>1, <2>2 DEF Launching, Same, Alive
    <2>6. Halting(c)' /\ cmd'[c] # Idle
      BY <1>2, <2>2, IdleFits DEF Halting, Same
    <2> QED BY <1>2, <2>2, <2>4, <2>5, <2>6, OneActs
  <1>6. CASE Healthy(c)
    <2>1. /\ cmd[c].at = "probe" /\ Advance(c, "spawn", cmd[c].warm) /\ UNCHANGED <<file, mode>>
          /\ \E p \in Pids : proc[p].is = At(c) /\ proc[p].up
      BY <1>6 DEF Healthy, Step, Listening
    <2>2. Rest(c) /\ Moved(c, "spawn", cmd[c].warm)
      BY <1>1, <2>1, Advances
    <2>3. PICK q \in Pids : proc[q].is = At(c) /\ proc[q].up
      BY <2>1
    <2>4. ASSUME NEW p \in Pids, proc[p].is = At(c) PROVE proc[p].up
      <3>1. cmd[c].own[At(c)] = p /\ cmd[c].own[At(c)] = q
        BY <1>2, <1>3, <1>4, <2>1, <2>3, <2>4 DEF Launching, Alive
      <3> QED BY <2>3, <3>1
    <2>5. Launching(c)'
      BY <1>1, <1>2, <1>3, <1>4, <2>1, <2>2, <2>4, CalmMove DEF Points
    <2>6. Halting(c)' /\ cmd'[c] # Idle
      BY <1>2, <2>2, IdleFits DEF Halting, Moved
    <2>7. \A p \in Pids : Alive(p)' => Known(p)'
      BY <1>1, <1>2, <2>1, StillKnown
    <2> QED BY <1>2, <2>2, <2>5, <2>6, <2>7, OneActs
  <1>7. CASE Unhealthy(c)
    <2>1. cmd[c].at = "probe" /\ UNCHANGED file
      BY <1>7 DEF Unhealthy, Step
    <2>2. \A p \in Pids : Alive(p)' => Known(p)'
      BY <1>1, <1>2, <2>1, StillKnown
    <2>3. CASE mode' = "warming" /\ Advance(c, "spawn", TRUE)
      <3>1. Rest(c) /\ Moved(c, "spawn", TRUE)
        BY <1>1, <2>3, Advances
      <3>2. Launching(c)'
        BY <1>1, <1>2, <1>3, <2>1, <2>3, <3>1, CalmMove DEF Points
      <3>3. Halting(c)' /\ cmd'[c] # Idle
        BY <1>2, <3>1, IdleFits DEF Halting, Moved
      <3> QED BY <1>2, <2>2, <3>1, <3>2, <3>3, OneActs
    <2>4. CASE /\ Becomes(c, [cmd[c] EXCEPT !.at = "term", !.victim = cmd[c].own[At(c)]])
               /\ UNCHANGED mode
      <3> DEFINE v == cmd[c].own[At(c)]
      <3>1. Becomes(c, [cmd[c] EXCEPT !.at = "term", !.victim = v])
        BY <2>4
      <3> HIDE DEF v
      <3>2. Rest(c) /\ Same(c) /\ cmd'[c].at = "term"
        BY <1>1, <3>1, Aims
      <3>3. Launching(c)'
        BY <1>1, <1>2, <1>3, <2>1, <2>4, <3>2 DEF Launching, Same, Alive
      <3>4. Halting(c)' /\ cmd'[c] # Idle
        BY <1>2, <3>2, IdleFits DEF Halting, Same
      <3> QED BY <1>2, <2>2, <3>2, <3>3, <3>4, OneActs
    <2> QED BY <1>7, <2>3, <2>4 DEF Unhealthy
  <1>8. CASE Started(c)
    <2>1. cmd[c].at = "mark" /\ mode' = (IF cmd[c].warm THEN "warming" ELSE "healthy")
          /\ Finish(c) /\ UNCHANGED file
      BY <1>8 DEF Started, Step
    <2>2. Rest(c) /\ cmd'[c] = Idle
      BY <1>1, <2>1, Finishes
    <2>3. Honest'
      BY <1>1, <1>2, <1>3, <2>1 DEF Honest, Launching, Alive
    <2>4. Launching(c)' /\ Halting(c)'
      BY <2>2, IdleFits DEF Launching, Halting
    <2>5. \A p \in Pids : Alive(p)' => Known(p)'
      BY <1>1, <1>2, <2>1, StillKnown
    <2> QED BY <1>2, <2>2, <2>3, <2>4, <2>5, OneActs
  <1> QED BY <1>5, <1>6, <1>7, <1>8

LEMMA CalmStop ==
    ASSUME Safe, Ordered, Sequential, Calm, Calm', NEW c \in Commands,
           ReadPid(c) \/ CheckProcess(c) \/ RemovePid(c) \/ Stopped(c)
    PROVE  Sequential'
  <1>1. TypeOK /\ Fading /\ UNCHANGED proc
    BY QuietFades DEF Safe, ReadPid, CheckProcess, RemovePid, Stopped
  <1>2. /\ cmd[c].do = "stop" /\ cmd[c].at # "idle" /\ cmd[c].at # "write"
        /\ \A d \in Commands \ {c} : cmd[d].do = "none"
    <2>1. cmd[c].at \in {"read", "check", "remove"} \/ (cmd[c].at = "mark" /\ cmd[c].do = "stop")
      BY DEF ReadPid, CheckProcess, RemovePid, Stopped, Step
    <2> QED BY <2>1, Begun, OnlyOne DEF Sequential
  <1>3. Halting(c) /\ \A p \in Pids : Alive(p) => file[proc[p].is] = p
    BY <1>2, KnownByFile DEF Sequential
  <1>4. At(c) \in Services /\ cmd[c].n \in {1, 2}
    BY <1>1, AtService, Fields DEF TypeOK
  \* What is done with the service it is at goes on.
  <1>5. ASSUME Moved(c, "read", FALSE), Rest(c), \A p \in Pids : proc[p].is # At(c),
               \A p \in Pids : Alive(p)' => Known(p)'
        PROVE  Sequential'
    <2>1. Launching(c)' /\ cmd'[c] # Idle
      BY <1>2, <1>5, IdleFits DEF Launching, Moved
    <2>2. Halting(c)'
      <3>1. CASE cmd[c].n = 1
        <4>1. cmd'[c].at = "read" /\ At(c) = "backend"
          BY <1>5, <3>1, TheOrder DEF Moved, At
        <4> QED BY <1>1, <1>5, <4>1 DEF Halting
      <3>2. CASE cmd[c].n = 2
        <4>1. cmd'[c].at = "mark" /\ cmd'[c].n = 1 /\ At(c) = "telegram"
          BY <1>5, <3>2, TheOrder DEF Moved, At
        <4>2. \A p \in Pids : ~Alive(p)
          BY <1>2, <1>3, <1>5, <3>2, <4>1, TheOrder DEF Halting, Alive
        <4> QED BY <1>1, <4>1, <4>2 DEF Halting, Alive
      <3> QED BY <1>4, <3>1, <3>2
    <2> QED BY <1>2, <1>5, <2>1, <2>2, OneActs
  <1>6. CASE ReadPid(c)
    <2>1. cmd[c].at = "read" /\ UNCHANGED file
      BY <1>6 DEF ReadPid, Step
    <2>2. \A p \in Pids : Alive(p)' => Known(p)'
      BY <1>1, <1>2, <2>1, StillKnown
    <2>3. CASE file[At(c)] = NoPid /\ Advance(c, "read", FALSE)
      <3>1. \A p \in Pids : proc[p].is # At(c)
        BY <1>3, <1>4, <2>3, NoPidAssumption DEF Alive
      <3> QED BY <1>1, <1>5, <2>2, <2>3, <3>1, Advances
    <2>4. CASE Becomes(c, [cmd[c] EXCEPT !.at = "check", !.victim = file[At(c)]])
      <3>1. Rest(c) /\ Same(c) /\ cmd'[c].at = "check" /\ cmd'[c].victim = file[At(c)]
        <4> DEFINE v == file[At(c)]
        <4>1. Becomes(c, [cmd[c] EXCEPT !.at = "check", !.victim = v])
          BY <2>4
        <4> HIDE DEF v
        <4>2. Rest(c) /\ Same(c) /\ cmd'[c].at = "check" /\ cmd'[c].victim = v
          BY <1>1, <4>1, Aims
        <4> QED BY <4>2 DEF v
      <3>2. Launching(c)' /\ cmd'[c] # Idle
        BY <1>2, <3>1, IdleFits DEF Launching, Same
      <3>3. Halting(c)'
        BY <1>1, <1>2, <1>3, <2>1, <3>1 DEF Halting, Same, At
      <3> QED BY <1>2, <2>2, <3>1, <3>2, <3>3, OneActs
    <2> QED BY <1>6, <2>3, <2>4, NoFaultCalm DEF ReadPid
  <1>7. CASE CheckProcess(c)
    <2>1. cmd[c].at = "check" /\ UNCHANGED file
          /\ \/ Goto(c, "term")
             \/ Goto(c, "remove") /\ proc[cmd[c].victim].is # At(c)
      BY <1>7, NoFaultCalm DEF CheckProcess, Step
    <2>2. \A p \in Pids : Alive(p)' => Known(p)'
      BY <1>1, <1>2, <2>1, StillKnown
    <2>3. cmd[c].victim = file[At(c)]
      BY <1>2, <1>3, <2>1 DEF Halting
    <2>4. /\ Rest(c) /\ Same(c) /\ cmd'[c].victim = cmd[c].victim
          /\ \/ cmd'[c].at = "term"
             \/ cmd'[c].at = "remove" /\ proc[cmd[c].victim].is # At(c)
      BY <1>1, <2>1, Goes
    <2>5. cmd'[c].at = "remove" => \A p \in Pids : proc[p].is # At(c)
      BY <1>3, <1>4, <2>3, <2>4 DEF Alive
    <2>6. Launching(c)' /\ cmd'[c] # Idle
      BY <1>2, <2>4, IdleFits DEF Launching, Same
    <2>7. Halting(c)'
      BY <1>1, <1>2, <1>3, <2>1, <2>3, <2>4, <2>5 DEF Halting, Same, At
    <2> QED BY <1>2, <2>2, <2>4, <2>6, <2>7, OneActs
  <1>8. CASE RemovePid(c)
    <2>1. cmd[c].at = "remove" /\ file' = [file EXCEPT ![At(c)] = NoPid]
          /\ Advance(c, "read", FALSE)
      BY <1>8, NoFaultCalm DEF RemovePid, Step
    <2>2. \A p \in Pids : proc[p].is # At(c)
      BY <1>2, <1>3, <2>1 DEF Halting
    <2>3. ASSUME NEW p \in Pids, Alive(p)' PROVE Known(p)'
      <3>1. Alive(p) /\ proc'[p].is = proc[p].is /\ proc[p].is \in Services
        BY <1>1, <2>3 DEF Alive
      <3>2. file'[proc[p].is] = file[proc[p].is]
        BY <1>1, <2>1, <2>2, <3>1 DEF TypeOK
      <3> QED BY <1>3, <3>1, <3>2 DEF Known
    <2> QED BY <1>1, <1>5, <2>1, <2>2, <2>3, Advances
  <1>9. CASE Stopped(c)
    <2>1. cmd[c].at = "mark" /\ mode' = "down" /\ Finish(c) /\ UNCHANGED file
      BY <1>9 DEF Stopped, Step
    <2>2. Rest(c) /\ cmd'[c] = Idle
      BY <1>1, <2>1, Finishes
    <2>3. Honest'
      BY <1>1, <1>2, <1>3, <2>1 DEF Honest, Halting, Alive
    <2>4. Launching(c)' /\ Halting(c)'
      BY <2>2, IdleFits DEF Launching, Halting
    <2>5. \A p \in Pids : Alive(p)' => Known(p)'
      BY <1>1, <1>2, <2>1, StillKnown
    <2> QED BY <1>2, <2>2, <2>3, <2>4, <2>5, OneActs
  <1> QED BY <1>6, <1>7, <1>8, <1>9

LEMMA CalmKill ==
    ASSUME Safe, Ordered, Sequential, Calm, Calm', Next, NEW c \in Commands,
           Signal(c) \/ Await(c)
    PROVE  Sequential'
  <1>1. TypeOK /\ Fading /\ UNCHANGED file
    BY SignalFades, AwaitFades DEF Safe, Signal, Await
  <1>2. /\ cmd[c].at \in {"term", "await"} /\ cmd[c].do \in {"start", "stop"}
        /\ \A d \in Commands \ {c} : cmd[d].do = "none"
    <2>1. cmd[c].at \in {"term", "await"}
      BY DEF Signal, Await, Step
    <2>2. cmd[c].do \in {"none", "start", "stop"}
      BY <1>1, Fields DEF TypeOK
    <2> QED BY <2>1, <2>2, Begun, OnlyOne DEF Sequential
  <1>3. Launching(c) /\ Halting(c) /\ \A p \in Pids : Alive(p) => file[proc[p].is] = p
    BY <1>2, KnownByFile DEF Sequential
  <1>4. At(c) \in Services /\ cmd[c].n \in {1, 2} /\ cmd[c].victim \in Pids \cup {NoPid}
        /\ cmd[c].own \in [Services -> Pids \cup {NoPid}]
    BY <1>1, AtService, Fields DEF TypeOK
  <1>5. \A p \in Pids : Alive(p)' => Known(p)'
    BY <1>1, <1>2, StillKnown
  \* A start that stops its own.
  <1>6. ASSUME Rest(c), Same(c), cmd'[c].at \in {"term", "await"}, UNCHANGED mode,
               cmd[c].do = "start"
        PROVE  Sequential'
    <2>1. Halting(c)' /\ cmd'[c] # Idle
      BY <1>6, IdleFits DEF Halting, Same
    <2>2. Launching(c)'
      BY <1>1, <1>2, <1>3, <1>6, AliveBefore DEF Launching, Same
    <2> QED BY <1>2, <1>5, <1>6, <2>1, <2>2, OneActs
  \* A stop and its victim.
  <1>7. ASSUME Rest(c), Same(c), cmd[c].do = "stop",
               \/ cmd'[c].at = "await" /\ cmd'[c].victim = cmd[c].victim
               \/ cmd'[c].at = "remove" /\ (cmd[c].victim \in Pids => proc'[cmd[c].victim].is = "none")
        PROVE  Sequential'
    <2>1. Launching(c)' /\ cmd'[c] # Idle
      BY <1>7, IdleFits DEF Launching, Same
    <2>2. cmd[c].victim = file[At(c)]
      BY <1>2, <1>3, <1>7 DEF Halting
    <2>3. ASSUME NEW p \in Pids, proc'[p].is \in Services
          PROVE  proc[p].is = proc'[p].is /\ Alive(p)
      BY <1>1, <2>3, AliveBefore DEF Alive
    <2>4. cmd[c].n = 2 => \A p \in Pids : proc'[p].is # "backend"
      BY <1>3, <1>7, <2>3, TheOrder DEF Halting
    <2>5. cmd'[c].at = "remove" => \A p \in Pids : proc'[p].is # At(c)
      <3> SUFFICES ASSUME cmd'[c].at = "remove", NEW p \in Pids, proc'[p].is = At(c)
                   PROVE  FALSE
        OBVIOUS
      <3>1. Alive(p) /\ proc[p].is = At(c)
        BY <1>4, <2>3
      <3>2. p = cmd[c].victim
        BY <1>3, <2>2, <3>1
      <3> QED BY <1>4, <1>7, <3>2, TheOrder
    <2>6. Halting(c)'
      BY <1>1, <1>7, <2>2, <2>4, <2>5 DEF Halting, Same, At
    <2> QED BY <1>2, <1>5, <1>7, <2>1, <2>6, OneActs
  <1>8. CASE Signal(c)
    <2>1. Goto(c, "await") /\ UNCHANGED mode
      BY <1>8 DEF Signal
    <2>2. Rest(c) /\ Same(c) /\ cmd'[c].at = "await" /\ cmd'[c].victim = cmd[c].victim
      BY <1>1, <2>1, Goes
    <2> QED BY <1>2, <1>6, <1>7, <2>1, <2>2
  <1>9. CASE Await(c)
    <2>1. CASE cmd[c].do = "stop" /\ Goto(c, "remove")
      BY <1>1, <1>7, <1>9, <2>1, Goes, AwaitFades
    <2>2. CASE /\ cmd[c].do # "stop" /\ UNCHANGED mode
               /\ Becomes(c, [cmd[c] EXCEPT !.at = "term", !.victim = cmd[c].own["backend"]])
      <3> DEFINE v == cmd[c].own["backend"]
      <3>1. Becomes(c, [cmd[c] EXCEPT !.at = "term", !.victim = v])
        BY <2>2
      <3> HIDE DEF v
      <3> QED BY <1>1, <1>2, <1>6, <2>2, <3>1, Aims
    <2>3. CASE cmd[c].do # "stop" /\ Finish(c) /\ mode' = "down"
      <3>1. Rest(c) /\ cmd'[c] = Idle /\ cmd[c].at = "await" /\ faults' = faults
        BY <1>1, <1>9, <2>3, Finishes DEF Await, Step
      <3>2. \A s \in Services : cmd[c].own[s] # NoPid => proc'[cmd[c].own[s]].is # s
        BY <1>2, <2>3, <3>1, GivingUp
      <3>3. ASSUME NEW p \in Pids PROVE ~Alive(p)'
        <4> SUFFICES ASSUME Alive(p)' PROVE FALSE
          OBVIOUS
        <4>1. Alive(p) /\ proc'[p].is = proc[p].is /\ proc[p].is \in Services
          BY <1>1, AliveBefore
        <4>2. cmd[c].own[proc[p].is] = p /\ p # NoPid
          BY <1>2, <1>3, <2>3, <4>1, NoPidAssumption DEF Launching
        <4> QED BY <3>2, <4>1, <4>2
      <3>4. Honest'
        BY <2>3, <3>3 DEF Honest
      <3>5. Launching(c)' /\ Halting(c)'
        BY <3>1, IdleFits DEF Launching, Halting
      <3> QED BY <1>2, <1>5, <3>1, <3>4, <3>5, OneActs
    <2> QED BY <1>9, <2>1, <2>2, <2>3 DEF Await, AfterVictim
  <1> QED BY <1>8, <1>9

LEMMA CalmWorld ==
    ASSUME Safe, Ordered, Sequential, Calm, Calm',
           \/ \E p \in Pids : Boot(p) \/ Exit(p) \/ Die(p) \/ Reuse(p)
           \/ \E c \in Commands : CommandDies(c)
           \/ UNCHANGED vars
    PROVE  Sequential'
  <1>1. Fading /\ UNCHANGED <<cmd, file, mode>>
    <2>1. ASSUME NEW p \in Pids, Boot(p) \/ Exit(p) PROVE Fading /\ UNCHANGED <<cmd, file, mode>>
      BY <2>1, WorldFades DEF Safe, Boot, Exit
    <2>2. UNCHANGED vars => Fading /\ UNCHANGED <<cmd, file, mode>>
      BY QuietFades DEF vars
    <2> QED BY <2>1, <2>2, NoFaultCalm DEF Die, Reuse, CommandDies
  <1>2. Alone' /\ (Quiet' <=> Quiet)
    BY <1>1 DEF Sequential, Alone, Quiet
  <1>3. ASSUME NEW p \in Pids, Alive(p)' PROVE Known(p)'
    <2>1. Known(p) /\ proc'[p].is = proc[p].is
      BY <1>1, <1>3, AliveBefore DEF Sequential
    <2> QED BY <1>1, <2>1 DEF Known, Step, At
  <1>4. ASSUME NEW c \in Commands PROVE Launching(c)' /\ Halting(c)'
    <2>1. Launching(c) /\ Halting(c)
      BY DEF Sequential
    <2>2. Launching(c)'
      BY <1>1, <2>1, AliveBefore DEF Launching
    <2>3. \A p \in Pids : proc'[p].is \in Services => proc'[p].is = proc[p].is
      BY <1>1, AliveBefore DEF Alive
    <2>4. At(c) = At(c)' /\ (cmd[c].at = "remove" => At(c) \in Services)
      BY <1>1, AtService DEF At, Safe
    <2>5. Halting(c)'
      <3>1. cmd[c].do = "stop" /\ cmd[c].at = "mark" => \A p \in Pids : ~Alive(p)'
        BY <1>1, <2>1, AliveBefore DEF Halting
      <3>2. cmd[c].do = "stop" /\ cmd[c].n = 2 => \A p \in Pids : proc'[p].is # "backend"
        BY <2>1, <2>3, TheOrder DEF Halting
      <3>3. cmd[c].do = "stop" /\ cmd[c].at = "remove" => \A p \in Pids : proc'[p].is # At(c)
        BY <2>1, <2>3, <2>4 DEF Halting
      <3> QED BY <1>1, <2>1, <2>4, <3>1, <3>2, <3>3 DEF Halting
    <2> QED BY <2>2, <2>5
  <1>5. Quiet => Honest'
    BY <1>1, AliveBefore DEF Sequential, Honest
  <1> QED BY <1>2, <1>3, <1>4, <1>5 DEF Sequential

LEMMA SequentialAlways == Spec => [](Calm => Sequential)
  <1>1. Init => Sequential
    <2> SUFFICES ASSUME Init PROVE Sequential
      OBVIOUS
    <2>1. \A p \in Pids : ~Alive(p)
      BY TheOrder DEF Init, Alive, Gone
    <2>2. \A c \in Commands : cmd[c].do = "none"
      BY IdleFits DEF Init
    <2> QED BY <2>1, <2>2 DEF Sequential, Alone, Launching, Halting, Honest
  <1>2. Safe /\ Ordered /\ (Calm => Sequential) /\ [Next]_vars => (Calm => Sequential)'
    <2> SUFFICES ASSUME Safe, Ordered, Calm => Sequential, [Next]_vars, Calm'
                 PROVE  Sequential'
      OBVIOUS
    <2>1. Calm /\ Sequential
      BY CalmBefore
    <2> QED BY <2>1, CalmBegin, CalmSpawn, CalmStart, CalmStop, CalmKill, CalmWorld
            DEF Next, Progress
  <1> QED BY <1>1, <1>2, Invariant, OrderedAlways, PTL DEF Spec

\* As long as commands follow one another and nothing fails, "down" means that
\* nothing runs and "healthy" that all that runs answers (ModeIsTrue).
THEOREM ModeTrue == Spec => []ModeIsTrue
  <1>1. (Calm => Sequential) => ModeIsTrue
    BY DEF Calm, Sequential, Honest, ModeIsTrue
  <1> QED BY <1>1, SequentialAlways, PTL

-----------------------------------------------------------------------------
(* Processes that stop cannot find, and who answers for them.              *)

Place(s) == IF s = "backend" THEN 1 ELSE 2
Live(s) == {p \in Pids : proc[p].is = s}

\* The command is a start that has yet to spawn the service.
Awaits(c, s) ==
    /\ cmd[c].do = "start" /\ s \in cmd[c].want
    /\ Place(s) > cmd[c].n \/ (Place(s) = cmd[c].n /\ cmd[c].at = "spawn")

Due(s) == {c \in Commands : Awaits(c, s)}
Count(s) == Cardinality(Live(s)) + Cardinality(Due(s))

Writing(c, s) == cmd[c].at = "write" /\ At(c) = s /\ cmd[c].own[s] \in Live(s)

\* One of those that count is no orphan.
Backed(s) == file[s] \in Live(s) \/ Due(s) # {} \/ \E c \in Commands : Writing(c, s)

\* A start writes the identifier of a process that lives; a stop signals and
\* has yet to reach none but the one that the file names.
Tight(c, s) ==
    /\ cmd[c].at = "write" /\ At(c) = s => cmd[c].own[s] \in Live(s)
    /\ cmd[c].do = "stop" /\ cmd[c].at # "mark" /\ cmd[c].n <= Place(s) => file[s] \in Live(s)
    /\ cmd[c].do = "stop" /\ cmd[c].at \in {"check", "term", "await"} /\ At(c) = s
          => cmd[c].victim \in Live(s)
    /\ cmd[c].at = "remove" => At(c) # s

\* There is at most one more than the rash commands; and when there is, and
\* nothing has failed, one of them is no orphan.  Every process that goes
\* leaves room, which only a start that finds nothing running uses up.
Owes(s) ==
    /\ Count(s) <= 1 + rash
    /\ faults = 0 /\ Count(s) > rash => Backed(s) /\ \A c \in Commands : Tight(c, s)

LEMMA Counts ==
    ASSUME NEW s
    PROVE  /\ IsFiniteSet(Live(s)) /\ IsFiniteSet(Due(s))
           /\ IsFiniteSet(Live(s)') /\ IsFiniteSet(Due(s)')
           /\ Cardinality(Live(s)) \in Nat /\ Cardinality(Due(s)) \in Nat
           /\ Cardinality(Live(s)') \in Nat /\ Cardinality(Due(s)') \in Nat
           /\ Count(s) \in Nat /\ Count(s)' \in Nat
           /\ Count(s) = Cardinality(Live(s)) + Cardinality(Due(s))
           /\ Count(s)' = Cardinality(Live(s)') + Cardinality(Due(s)')
  <1>1. /\ Live(s) \subseteq Pids /\ Live(s)' \subseteq Pids
        /\ Due(s) \subseteq Commands /\ Due(s)' \subseteq Commands
    BY DEF Live, Due
  <1>2. /\ IsFiniteSet(Live(s)) /\ IsFiniteSet(Due(s))
        /\ IsFiniteSet(Live(s)') /\ IsFiniteSet(Due(s)')
    BY <1>1, FiniteAssumption, FS_Subset
  <1>3. /\ Cardinality(Live(s)) \in Nat /\ Cardinality(Due(s)) \in Nat
        /\ Cardinality(Live(s)') \in Nat /\ Cardinality(Due(s)') \in Nat
    BY <1>2, FS_CardinalityType
  <1>4. /\ Count(s) = Cardinality(Live(s)) + Cardinality(Due(s))
        /\ Count(s)' = Cardinality(Live(s)') + Cardinality(Due(s)')
    BY DEF Count
  <1> QED BY <1>2, <1>3, <1>4

LEMMA Shrinks ==
    ASSUME NEW s, Live(s)' \subseteq Live(s), Due(s)' \subseteq Due(s)
    PROVE  /\ Count(s)' <= Count(s)
           /\ Count(s)' = Count(s) => Live(s)' = Live(s) /\ Due(s)' = Due(s)
  <1>1. /\ Cardinality(Live(s)') <= Cardinality(Live(s))
        /\ Cardinality(Live(s)) = Cardinality(Live(s)') => Live(s) = Live(s)'
    BY Counts, FS_Subset
  <1>2. /\ Cardinality(Due(s)') <= Cardinality(Due(s))
        /\ Cardinality(Due(s)) = Cardinality(Due(s)') => Due(s) = Due(s)'
    BY Counts, FS_Subset
  <1> DEFINE a == Cardinality(Live(s))
             b == Cardinality(Due(s))
             x == Cardinality(Live(s)')
             y == Cardinality(Due(s)')
  <1>3. /\ a \in Nat /\ b \in Nat /\ x \in Nat /\ y \in Nat
        /\ Count(s) = a + b /\ Count(s)' = x + y /\ x <= a /\ y <= b
    BY <1>1, <1>2, Counts
  <1>4. (a = x => Live(s)' = Live(s)) /\ (b = y => Due(s)' = Due(s))
    BY <1>1, <1>2
  <1> DEFINE m == Count(s)
             n == Count(s)'
  <1>5. m = a + b /\ n = x + y
    BY <1>3
  <1> HIDE DEF a, b, x, y, m, n
  <1>6. n <= m /\ (n = m => a = x /\ b = y)
    BY <1>3, <1>5
  <1> QED BY <1>4, <1>6 DEF m, n

\* A step that adds nothing to what counts.
LEMMA OwesKept ==
    ASSUME TypeOK, NEW s, Owes(s), Live(s)' \subseteq Live(s), Due(s)' \subseteq Due(s),
           rash' = rash, faults' = 0 => faults = 0,
           (/\ faults' = 0 /\ Live(s)' = Live(s) /\ Due(s)' = Due(s)
            /\ Backed(s) /\ \A c \in Commands : Tight(c, s))
              => Backed(s)' /\ \A c \in Commands : Tight(c, s)'
    PROVE  Owes(s)'
  <1> DEFINE m == Count(s)
             n == Count(s)'
             k == rash
  <1>1. m \in Nat /\ n \in Nat /\ k \in Nat /\ n <= m /\ m <= 1 + k
        /\ (n = m => Live(s)' = Live(s) /\ Due(s)' = Due(s))
    BY Counts, Shrinks, BoundsAssumption DEF TypeOK, Owes
  <1>2. (faults = 0 /\ m > k) => Backed(s) /\ \A c \in Commands : Tight(c, s)
    BY DEF Owes
  <1> HIDE DEF m, n, k
  <1>3. n <= 1 + k /\ (n > k => n = m /\ m > k)
    BY <1>1
  <1>4. faults' = 0 /\ n > k => Backed(s)' /\ \A c \in Commands : Tight(c, s)'
    BY <1>1, <1>2, <1>3
  <1> QED BY <1>3, <1>4 DEF Owes, m, n, k

\* A step of one command that spawns nothing.
LEMMA OneOwes ==
    ASSUME TypeOK, NEW c \in Commands, Rest(c), NEW s, Owes(s),
           Live(s)' \subseteq Live(s), Awaits(c, s)' => Awaits(c, s),
           rash' = rash, faults' = 0 => faults = 0,
           (faults' = 0 /\ Live(s)' = Live(s) /\ (Awaits(c, s)' <=> Awaits(c, s)) /\ Tight(c, s))
              => /\ Tight(c, s)'
                 /\ file'[s] = file[s] \/ file'[s] \in Live(s)
                 /\ Writing(c, s) => Writing(c, s)' \/ file'[s] \in Live(s)
    PROVE  Owes(s)'
  <1>1. \A d \in Commands \ {c} : (Awaits(d, s)' <=> Awaits(d, s)) /\ At(d)' = At(d)
    BY DEF Rest, Awaits, At
  <1>2. Due(s)' \subseteq Due(s)
    BY <1>1 DEF Due
  <1>3. ASSUME faults' = 0, Live(s)' = Live(s), Due(s)' = Due(s),
               Backed(s), \A d \in Commands : Tight(d, s)
        PROVE  Backed(s)' /\ \A d \in Commands : Tight(d, s)'
    <2>1. Awaits(c, s)' <=> Awaits(c, s)
      BY <1>3 DEF Due
    <2>2. /\ Tight(c, s)'
          /\ file'[s] = file[s] \/ file'[s] \in Live(s)
          /\ Writing(c, s) => Writing(c, s)' \/ file'[s] \in Live(s)
      BY <1>3, <2>1
    <2>3. ASSUME NEW d \in Commands \ {c} PROVE Tight(d, s)'
      BY <1>1, <1>3, <2>2 DEF Tight, Rest
    <2>4. Backed(s)'
      <3>1. CASE file[s] \in Live(s)
        BY <1>3, <2>2, <3>1 DEF Backed
      <3>2. CASE Due(s) # {}
        BY <1>3, <3>2 DEF Backed
      <3>3. ASSUME NEW d \in Commands, Writing(d, s) PROVE Backed(s)'
        <4>1. d # c => Writing(d, s)'
          BY <1>1, <1>3, <3>3 DEF Writing, Rest
        <4> QED BY <1>3, <2>2, <3>3, <4>1 DEF Backed
      <3> QED BY <1>3, <3>1, <3>2, <3>3 DEF Backed
    <2> QED BY <2>2, <2>3, <2>4
  <1> QED BY <1>2, <1>3, OwesKept

LEMMA FadingLive == ASSUME TypeOK, Fading, NEW s \in Services PROVE Live(s)' \subseteq Live(s)
  BY TheOrder DEF Fading, Live

LEMMA NoFaultBefore ==
    ASSUME TypeOK, Fault \/ NoFault
    PROVE  /\ faults' = 0 => faults = 0 /\ NoFault
           /\ faults' = 0 => ~Fault
  BY DEF TypeOK, Fault, NoFault

\* Where a command is when it moves on, and when it stays at its service.
LEMMA Places ==
    ASSUME TypeOK, NEW c \in Commands, NEW s \in Services
    PROVE  /\ cmd[c].n \in {1, 2} /\ Place(s) \in {1, 2} /\ At(c) \in Services
           /\ At(c) = s <=> Place(s) = cmd[c].n
  <1>1. cmd[c].n \in {1, 2}
    BY Fields DEF TypeOK
  <1> QED BY <1>1, TheOrder DEF At, Place

LEMMA MovedAwaits ==
    ASSUME TypeOK, NEW c \in Commands, NEW s \in Services, NEW at, NEW warm,
           at # "mark", cmd[c].at # "mark",
           Moved(c, at, warm),
           \/ at = "spawn" /\ (cmd[c].at # "spawn" \/ At(c) \notin cmd[c].want)
           \/ cmd[c].do = "stop"
    PROVE  /\ Awaits(c, s)' => Awaits(c, s)
           /\ at = "spawn" /\ cmd[c].do = "start" => Tight(c, s)'
           /\ cmd[c].do = "stop" /\ at = "read" /\ Tight(c, s) /\ file'[s] = file[s]
                 /\ Live(s)' = Live(s) => Tight(c, s)'
  <1>0. cmd[c].n \in {1, 2} /\ Place(s) \in {1, 2} /\ (At(c) = s <=> Place(s) = cmd[c].n)
    BY Places
  <1>1. CASE cmd[c].n = 1
    <2>1. cmd'[c].n = 2 /\ cmd'[c].at = at /\ cmd'[c].do = cmd[c].do /\ cmd'[c].want = cmd[c].want
      BY <1>1 DEF Moved
    <2>2. Awaits(c, s)' => Awaits(c, s)
      BY <1>0, <1>1, <2>1 DEF Awaits
    <2>3. at = "spawn" /\ cmd[c].do = "start" => Tight(c, s)'
      BY <2>1 DEF Tight
    <2>4. cmd[c].do = "stop" /\ at = "read" /\ Tight(c, s) /\ file'[s] = file[s]
                 /\ Live(s)' = Live(s) => Tight(c, s)'
      <3> SUFFICES ASSUME cmd[c].do = "stop", at = "read", Tight(c, s), file'[s] = file[s],
                          Live(s)' = Live(s)
                   PROVE  Tight(c, s)'
        OBVIOUS
      <3>1. cmd'[c].n <= Place(s) => cmd[c].n <= Place(s)
        BY <1>0, <1>1, <2>1
      <3> QED BY <2>1, <3>1 DEF Tight
    <2> QED BY <2>2, <2>3, <2>4
  <1>2. CASE cmd[c].n = 2
    <2>1. cmd'[c].at = "mark" /\ cmd'[c].want = {}
      BY <1>2 DEF Moved
    <2> QED BY <2>1 DEF Awaits, Tight
  <1> QED BY <1>0, <1>1, <1>2

Owing == \A s \in Services : Owes(s)

\* A command that is done, or is dead.
LEMMA IdleOwes ==
    ASSUME TypeOK, NEW c \in Commands, Rest(c), cmd'[c] = Idle, NEW s \in Services, Owes(s),
           Live(s)' \subseteq Live(s), file' = file, rash' = rash, Fault \/ NoFault,
           faults' = 0 => cmd[c].at # "write"
    PROVE  Owes(s)'
  <1>1. ~Awaits(c, s)' /\ Tight(c, s)'
    BY IdleFits DEF Awaits, Tight
  <1>2. faults' = 0 => faults = 0
    BY NoFaultBefore
  <1>3. faults' = 0 => ~Writing(c, s)
    BY DEF Writing
  <1> QED BY <1>1, <1>2, <1>3, OneOwes

\* What there is when a command is issued.
LEMMA IssuedFits ==
    ASSUME Safe, Ordered, NEW c \in Commands, ~Others(c), NEW d \in Commands \ {c}
    PROVE  cmd[d] = Idle
  BY DEF Others, Ordered, Shape

LEMMA BeginStartOwes ==
    ASSUME Safe, Ordered, NEW s \in Services, Owes(s), NEW c \in Commands, BeginStart(c)
    PROVE  Owes(s)'
  <1>1. /\ TypeOK /\ Rest(c) /\ cmd[c] = Idle
        /\ cmd'[c].do = "start" /\ cmd'[c].at = "spawn"
    BY BeginsStart DEF Safe
  <1>2. UNCHANGED <<proc, file, faults>>
    BY DEF BeginStart
  <1>3. Live(s)' = Live(s) /\ Due(s) \subseteq Due(s)' /\ Due(s)' \subseteq Due(s) \cup {c}
        /\ c \notin Due(s)
    <2>1. \A d \in Commands \ {c} : Awaits(d, s)' <=> Awaits(d, s)
      BY <1>1 DEF Rest, Awaits
    <2>2. ~Awaits(c, s)
      BY <1>1, IdleFits DEF Awaits
    <2> QED BY <1>2, <2>1, <2>2 DEF Live, Due
  <1>4. Tight(c, s)'
    BY <1>1 DEF Tight
  <1>5. CASE rash' = rash + 1
    <2>1. Cardinality(Due(s)') <= Cardinality(Due(s)) + 1
      <3>1. IsFiniteSet(Due(s) \cup {c}) /\ Cardinality(Due(s) \cup {c}) = Cardinality(Due(s)) + 1
        BY <1>3, Counts, FS_AddElement
      <3>2. Cardinality(Due(s)') <= Cardinality(Due(s) \cup {c})
        BY <1>3, <3>1, FS_Subset
      <3> QED BY <3>1, <3>2
    <2>2. Cardinality(Live(s)') = Cardinality(Live(s))
      BY <1>3
    <2> DEFINE a == Cardinality(Live(s))
               b == Cardinality(Due(s))
               y == Cardinality(Due(s)')
               m == Count(s)
               n == Count(s)'
    <2>3. /\ a \in Nat /\ b \in Nat /\ y \in Nat /\ m = a + b /\ n = a + y /\ y <= b + 1
          /\ m <= 1 + rash /\ rash \in Nat
      BY <1>1, <2>1, <2>2, Counts, BoundsAssumption DEF Owes, TypeOK
    <2>4. faults = 0 /\ m > rash => Backed(s) /\ \A d \in Commands : Tight(d, s)
      BY DEF Owes
    <2> HIDE DEF a, b, y, m, n
    <2>5. n <= 1 + rash' /\ (n > rash' => m > rash)
      BY <1>5, <2>3
    <2>6. ASSUME faults' = 0, n > rash' PROVE Backed(s)' /\ \A d \in Commands : Tight(d, s)'
      <3>1. Backed(s) /\ \A d \in Commands : Tight(d, s)
        BY <1>2, <2>4, <2>5, <2>6
      <3>2. \A d \in Commands \ {c} : Tight(d, s)'
        BY <1>1, <1>2, <1>3, <3>1 DEF Rest, Tight, At
      <3>3. ~Writing(c, s) /\ \A d \in Commands \ {c} : Writing(d, s)' <=> Writing(d, s)
        BY <1>1, <1>2, <1>3, IdleFits DEF Rest, Writing, At
      <3>4. Backed(s)'
        BY <1>2, <1>3, <3>1, <3>3 DEF Backed
      <3> QED BY <1>4, <3>2, <3>4
    <2> QED BY <2>5, <2>6 DEF Owes, n
  <1>6. CASE ~Others(c) /\ ~(\E p \in Pids : Alive(p)) /\ rash' = rash
    <2>1. Live(s)' = {} /\ Due(s)' \subseteq {c}
      <3>1. Live(s) = {}
        BY <1>6 DEF Live, Alive
      <3>2. \A d \in Commands \ {c} : ~Awaits(d, s)
        BY <1>6, IssuedFits, IdleFits DEF Awaits
      <3> QED BY <1>3, <3>1, <3>2 DEF Due
    <2>2. Cardinality(Live(s)') = 0
      BY <2>1, FS_EmptySet
    <2>3. Due(s)' = {} \/ Due(s)' = {c}
      BY <2>1
    <2>4. CASE Due(s)' = {}
      <3>1. Cardinality(Due(s)') = 0
        BY <2>4, FS_EmptySet
      <3> DEFINE n == Count(s)'
                 k == rash
      <3>2. n = 0 /\ k \in Nat /\ rash' = k
        BY <1>1, <1>6, <2>2, <3>1, Counts, BoundsAssumption DEF TypeOK
      <3> HIDE DEF n, k
      <3>3. n <= 1 + rash' /\ ~(n > rash')
        BY <3>2
      <3> QED BY <3>3 DEF Owes, n
    <2>5. CASE Due(s)' = {c}
      <3>1. Cardinality(Due(s)') = 1
        BY <2>5, FS_Singleton
      <3> DEFINE n == Count(s)'
                 k == rash
      <3>2. n = 1 /\ k \in Nat /\ rash' = k
        BY <1>1, <1>6, <2>2, <3>1, Counts, BoundsAssumption DEF TypeOK
      <3> HIDE DEF n, k
      <3>3. n <= 1 + rash'
        BY <3>2
      <3>4. Backed(s)'
        BY <2>5 DEF Backed
      <3>5. \A d \in Commands \ {c} : Tight(d, s)'
        BY <1>1, <1>6, IssuedFits, IdleFits DEF Rest, Tight
      <3> QED BY <1>4, <3>3, <3>4, <3>5 DEF Owes, n
    <2> QED BY <2>3, <2>4, <2>5
  <1>7. \/ rash' = rash + 1
        \/ ~Others(c) /\ ~(\E p \in Pids : Alive(p)) /\ rash' = rash
    BY DEF BeginStart, Issue
  <1> QED BY <1>5, <1>6, <1>7

LEMMA BeginStopOwes ==
    ASSUME Safe, Ordered, NEW s \in Services, Owes(s), NEW c \in Commands, BeginStop(c)
    PROVE  Owes(s)'
  <1>1. /\ TypeOK /\ Rest(c) /\ cmd[c] = Idle
        /\ cmd'[c].do = "stop" /\ cmd'[c].at = "read" /\ cmd'[c].n = 1
    BY BeginsStop DEF Safe
  <1>2. UNCHANGED <<proc, file, faults>>
    BY DEF BeginStop
  <1>3. Live(s)' = Live(s) /\ Due(s)' = Due(s) /\ ~Writing(c, s)
    <2>1. \A d \in Commands \ {c} : Awaits(d, s)' <=> Awaits(d, s)
      BY <1>1 DEF Rest, Awaits
    <2>2. ~Awaits(c, s) /\ ~Awaits(c, s)' /\ ~Writing(c, s)
      BY <1>1, IdleFits DEF Awaits, Writing
    <2> QED BY <1>2, <2>1, <2>2 DEF Live, Due
  <1>4. CASE rash' = rash + 1
    <2> DEFINE m == Count(s)
               n == Count(s)'
    <2>1. m \in Nat /\ n = m /\ m <= 1 + rash /\ rash \in Nat
      BY <1>1, <1>3, Counts, BoundsAssumption DEF Owes, TypeOK
    <2> HIDE DEF m, n
    <2>2. n <= 1 + rash' /\ ~(n > rash')
      BY <1>4, <2>1
    <2> QED BY <2>2 DEF Owes, n
  <1>5. CASE ~Others(c) /\ rash' = rash
    <2>1. \A d \in Commands \ {c} : cmd[d] = Idle
      BY <1>5, IssuedFits
    <2>2. Due(s) = {} /\ \A d \in Commands : ~Writing(d, s)
      BY <1>1, <2>1, IdleFits DEF Due, Awaits, Writing
    <2>3. ASSUME Backed(s) PROVE Backed(s)' /\ \A d \in Commands : Tight(d, s)'
      <3>1. file'[s] \in Live(s)'
        BY <1>2, <1>3, <2>2, <2>3 DEF Backed
      <3>2. Tight(c, s)'
        BY <1>1, <3>1 DEF Tight
      <3>3. \A d \in Commands \ {c} : Tight(d, s)'
        BY <1>1, <2>1, IdleFits DEF Rest, Tight
      <3> QED BY <3>1, <3>2, <3>3 DEF Backed
    <2> QED BY <1>1, <1>2, <1>3, <1>5, <2>3, OwesKept
  <1>6. rash' = rash + 1 \/ (~Others(c) /\ rash' = rash)
    BY DEF BeginStop, Issue
  <1> QED BY <1>4, <1>5, <1>6

LEMMA SpawnOwes ==
    ASSUME Safe, Ordered, NEW s \in Services, Owes(s), NEW c \in Commands, Spawn(c)
    PROVE  Owes(s)'
  <1>1. /\ TypeOK /\ Rest(c) /\ cmd[c].at = "spawn" /\ cmd[c].do = "start"
        /\ UNCHANGED <<file, rash>>
    BY Spawns, Begun DEF Safe, Spawn
  <1>2. ~Writing(c, s) /\ (Place(s) = cmd[c].n <=> At(c) = s)
    BY <1>1, Places DEF Writing
  <1>3. CASE At(c) \notin cmd[c].want /\ Moved(c, "spawn", cmd[c].warm) /\ NoFault /\ UNCHANGED proc
    <2>1. (Awaits(c, s)' => Awaits(c, s)) /\ Tight(c, s)'
      BY <1>1, <1>3, MovedAwaits
    <2>2. Live(s)' = Live(s) /\ (faults' = 0 => faults = 0)
      BY <1>3 DEF Live, NoFault
    <2> QED BY <1>1, <1>2, <2>1, <2>2, OneOwes
  <1>4. ASSUME NEW p, Spawned(c, p), NoFault, At(c) \in cmd[c].want
        PROVE  Owes(s)'
    <2>1. /\ p \in Pids /\ proc'[p].is = At(c) /\ proc[p].is = "none"
          /\ \A q \in Pids \ {p} : proc'[q] = proc[q]
      BY <1>1, <1>4, SpawnKeeps DEF Spawned
    <2>2. /\ cmd'[c].at = "write" /\ cmd'[c].n = cmd[c].n /\ cmd'[c].do = cmd[c].do
          /\ cmd'[c].want = cmd[c].want /\ cmd'[c].own = [cmd[c].own EXCEPT ![At(c)] = p]
      BY <1>4 DEF Spawned
    <2>3. s # "none" /\ At(c)' = At(c)
      BY <2>2, TheOrder DEF At
    <2>4. CASE At(c) # s
      <3>1. Live(s)' \subseteq Live(s)
        BY <2>1, <2>4 DEF Live
      <3>2. Awaits(c, s)' => Awaits(c, s)
        BY <1>2, <2>2, <2>4 DEF Awaits
      <3>3. Tight(c, s)'
        BY <1>1, <2>2, <2>3, <2>4 DEF Tight
      <3> QED BY <1>1, <1>2, <1>4, <3>1, <3>2, <3>3, OneOwes DEF NoFault
    <2>5. CASE At(c) = s
      <3>1. p \notin Live(s) /\ Live(s)' = Live(s) \cup {p}
        BY <2>1, <2>3, <2>5 DEF Live
      <3>2. \A d \in Commands \ {c} : (Awaits(d, s)' <=> Awaits(d, s)) /\ At(d)' = At(d)
        BY <1>1 DEF Rest, Awaits, At
      <3>3. Awaits(c, s) /\ ~Awaits(c, s)'
        BY <1>1, <1>2, <1>4, <2>2, <2>5, Places DEF Awaits
      <3>4. c \in Due(s) /\ Due(s)' = Due(s) \ {c}
        BY <3>2, <3>3 DEF Due
      <3>5. Cardinality(Live(s)') = Cardinality(Live(s)) + 1
        BY <3>1, Counts, FS_AddElement
      <3>6. Cardinality(Due(s)') = Cardinality(Due(s)) - 1
        BY <3>4, Counts, FS_RemoveElement
      <3>7. Count(s)' = Count(s)
        BY <3>5, <3>6, Counts
      <3>8. cmd'[c].own[s] = p
        BY <1>1, <2>2, <2>5, Fields DEF TypeOK
      <3>9. Backed(s)'
        BY <2>2, <2>3, <2>5, <3>1, <3>8 DEF Backed, Writing
      <3>10. Tight(c, s)'
        BY <1>1, <2>2, <3>1, <3>8 DEF Tight
      <3>11. \A d \in Commands \ {c} : Tight(d, s) => Tight(d, s)'
        BY <1>1, <3>1, <3>2 DEF Rest, Tight
      <3> QED BY <1>1, <1>4, <3>7, <3>9, <3>10, <3>11 DEF Owes, NoFault
    <2> QED BY <2>4, <2>5
  <1>5. CASE (Fault \/ NoFault) /\ cmd'[c] = Idle /\ UNCHANGED proc
    <2>1. Live(s)' = Live(s)
      BY <1>5 DEF Live
    <2> QED BY <1>1, <1>5, <2>1, IdleOwes
  <1> QED BY <1>1, <1>3, <1>4, <1>5, Spawns

LEMMA StartOwes ==
    ASSUME Safe, Ordered, NEW s \in Services, Owes(s), NEW c \in Commands,
           WritePid(c) \/ Healthy(c) \/ Unhealthy(c) \/ Started(c)
    PROVE  Owes(s)'
  <1>1. TypeOK /\ Live(s)' = Live(s) /\ UNCHANGED rash
    BY DEF Safe, WritePid, Healthy, Unhealthy, Started, Live
  <1>2. CASE WritePid(c)
    <2>1. cmd[c].at = "write" /\ Goto(c, "probe")
      BY <1>2 DEF WritePid, Step
    <2>2. /\ cmd[c].do = "start" /\ Rest(c) /\ Same(c) /\ cmd'[c].at = "probe"
          /\ At(c) \in Services
      BY <1>1, <2>1, Begun, Goes, Places
    <2>3. (Awaits(c, s)' => Awaits(c, s)) /\ Tight(c, s)'
      BY <2>1, <2>2 DEF Same, Awaits, Tight
    <2>4. CASE NoFault /\ file' = [file EXCEPT ![At(c)] = cmd[c].own[At(c)]]
      <3>1. CASE At(c) = s
        <4>1. file'[s] = cmd[c].own[s]
          BY <1>1, <2>4, <3>1 DEF TypeOK
        <4>2. Tight(c, s) => file'[s] \in Live(s)
          BY <2>1, <3>1, <4>1 DEF Tight
        <4> QED BY <1>1, <2>2, <2>3, <2>4, <4>2, OneOwes DEF NoFault
      <3>2. CASE At(c) # s
        <4>1. file'[s] = file[s] /\ ~Writing(c, s)
          BY <1>1, <2>4, <3>2 DEF TypeOK, Writing
        <4> QED BY <1>1, <2>2, <2>3, <2>4, <4>1, OneOwes DEF NoFault
      <3> QED BY <3>1, <3>2
    <2>5. CASE Fault
      <3>1. ~(faults' = 0)
        BY <1>1, <2>5, NoFaultBefore
      <3> QED BY <1>1, <2>2, <2>3, <3>1, OneOwes
    <2> QED BY <1>2, <2>4, <2>5 DEF WritePid
  <1>3. ASSUME NEW warm, cmd[c].at = "probe", Advance(c, "spawn", warm), UNCHANGED <<file, faults>>
        PROVE  Owes(s)'
    <2>1. cmd[c].do = "start" /\ Rest(c) /\ Moved(c, "spawn", warm) /\ ~Writing(c, s)
      BY <1>1, <1>3, Begun, Advances DEF Writing
    <2>2. (Awaits(c, s)' => Awaits(c, s)) /\ Tight(c, s)'
      BY <1>1, <1>3, <2>1, MovedAwaits
    <2> QED BY <1>1, <1>3, <2>1, <2>2, OneOwes
  <1>4. CASE Unhealthy(c) /\ ~cmd[c].supervised
    <2> DEFINE v == cmd[c].own[At(c)]
    <2>1. /\ cmd[c].at = "probe" /\ Becomes(c, [cmd[c] EXCEPT !.at = "term", !.victim = v])
          /\ UNCHANGED <<file, faults>>
      BY <1>4 DEF Unhealthy, Step
    <2> HIDE DEF v
    <2>2. cmd[c].do = "start" /\ Rest(c) /\ Same(c) /\ cmd'[c].at = "term" /\ ~Writing(c, s)
      BY <1>1, <2>1, Begun, Aims DEF Writing
    <2>3. (Awaits(c, s)' => Awaits(c, s)) /\ Tight(c, s)'
      BY <2>1, <2>2 DEF Same, Awaits, Tight
    <2> QED BY <1>1, <2>1, <2>2, <2>3, OneOwes
  <1>5. CASE Started(c)
    <2>1. /\ cmd[c].at = "mark" /\ Rest(c) /\ cmd'[c] = Idle /\ UNCHANGED file /\ NoFault
      BY <1>1, <1>5, Finishes DEF Started, Step, NoFault
    <2> QED BY <1>1, <2>1, IdleOwes
  <1> QED BY <1>2, <1>3, <1>4, <1>5 DEF Healthy, Unhealthy, Step

LEMMA StopOwes ==
    ASSUME Safe, Ordered, NEW s \in Services, Owes(s), NEW c \in Commands,
           ReadPid(c) \/ CheckProcess(c) \/ RemovePid(c) \/ Stopped(c)
    PROVE  Owes(s)'
  <1>1. TypeOK /\ Live(s)' = Live(s) /\ UNCHANGED rash
    BY DEF Safe, ReadPid, CheckProcess, RemovePid, Stopped, Live
  <1>2. /\ Place(s) = cmd[c].n <=> At(c) = s
        /\ cmd[c].n \in {1, 2} /\ Place(s) \in {1, 2}
    BY <1>1, Places
  <1>3. CASE ReadPid(c)
    <2>1. cmd[c].at = "read" /\ UNCHANGED file /\ (Fault \/ NoFault)
      BY <1>3 DEF ReadPid, Step
    <2>a. faults' = 0 => faults = 0
      BY <1>1, <2>1, NoFaultBefore
    <2>2. cmd[c].do = "stop" /\ ~Writing(c, s)
      BY <2>1, Begun DEF Writing
    <2>3. CASE Advance(c, "read", FALSE)
      <3>1. Rest(c) /\ Moved(c, "read", FALSE)
        BY <1>1, <2>3, Advances
      <3>2. (Awaits(c, s)' => Awaits(c, s)) /\ (Tight(c, s) => Tight(c, s)')
        BY <1>1, <2>1, <2>2, <3>1, MovedAwaits
      <3> QED BY <1>1, <2>1, <2>a, <2>2, <3>1, <3>2, OneOwes
    <2>4. CASE Becomes(c, [cmd[c] EXCEPT !.at = "check", !.victim = file[At(c)]])
      <3> DEFINE v == file[At(c)]
      <3>1. Becomes(c, [cmd[c] EXCEPT !.at = "check", !.victim = v])
        BY <2>4
      <3> HIDE DEF v
      <3>2. Rest(c) /\ Same(c) /\ cmd'[c].at = "check" /\ cmd'[c].victim = v
        BY <1>1, <3>1, Aims
      <3>3. At(c) = s => v = file[s]
        BY DEF v
      <3>4. Awaits(c, s)' => Awaits(c, s)
        BY <2>2, <3>2 DEF Same, Awaits
      <3>5. Tight(c, s) => Tight(c, s)'
        <4>1. At(c)' = At(c) /\ cmd'[c].do = cmd[c].do /\ cmd'[c].n = cmd[c].n
          BY <3>2 DEF Same, At
        <4> QED BY <1>1, <1>2, <2>1, <2>2, <3>2, <3>3, <4>1 DEF Tight
      <3> QED BY <1>1, <2>1, <2>a, <2>2, <3>2, <3>4, <3>5, OneOwes
    <2> QED BY <1>3, <2>3, <2>4 DEF ReadPid
  <1>4. CASE CheckProcess(c)
    <2>1. cmd[c].at = "check" /\ UNCHANGED file /\ (Fault \/ NoFault)
      BY <1>4 DEF CheckProcess, Step
    <2>a. (faults' = 0 => faults = 0) /\ (faults' = 0 => ~Fault)
      BY <1>1, <2>1, NoFaultBefore
    <2>2. PICK to \in {"term", "remove"} :
            Goto(c, to) /\ (to = "remove" => proc[cmd[c].victim].is # At(c) \/ Fault)
      BY <1>4 DEF CheckProcess
    <2>3. /\ cmd[c].do = "stop" /\ ~Writing(c, s)
          /\ Rest(c) /\ Same(c) /\ cmd'[c].at = to /\ cmd'[c].victim = cmd[c].victim
      BY <1>1, <2>1, <2>2, Begun, Goes DEF Writing
    <2>4. At(c)' = At(c) /\ cmd'[c].do = cmd[c].do /\ cmd'[c].n = cmd[c].n
      BY <2>3 DEF Same, At
    <2>5. Awaits(c, s)' => Awaits(c, s)
      BY <2>3, <2>4 DEF Awaits
    <2>6. faults' = 0 /\ Tight(c, s) /\ At(c) = s => to # "remove"
      BY <2>1, <2>a, <2>2, <2>3 DEF Tight, Live
    <2>7. faults' = 0 /\ Tight(c, s) => Tight(c, s)'
      BY <1>1, <2>1, <2>2, <2>3, <2>4, <2>6 DEF Tight
    <2> QED BY <1>1, <2>1, <2>a, <2>3, <2>5, <2>7, OneOwes
  <1>5. CASE RemovePid(c)
    <2>1. /\ cmd[c].at = "remove" /\ (Fault \/ NoFault) /\ Advance(c, "read", FALSE)
          /\ file' = [file EXCEPT ![At(c)] = NoPid] \/ file' = file
      BY <1>5 DEF RemovePid, Step
    <2>2. /\ cmd[c].do = "stop" /\ ~Writing(c, s) /\ Rest(c) /\ Moved(c, "read", FALSE)
      BY <1>1, <2>1, Begun, Advances DEF Writing
    <2>3. At(c) # s => file'[s] = file[s]
      BY <1>1, <2>1 DEF TypeOK
    <2>4. Tight(c, s) => At(c) # s
      BY <2>1 DEF Tight
    <2>5. /\ Awaits(c, s)' => Awaits(c, s)
          /\ Tight(c, s) /\ file'[s] = file[s] => Tight(c, s)'
      BY <1>1, <2>1, <2>2, MovedAwaits
    <2>6. faults' = 0 => faults = 0
      BY <1>1, <2>1, NoFaultBefore
    <2> QED BY <1>1, <2>2, <2>3, <2>4, <2>5, <2>6, OneOwes
  <1>6. CASE Stopped(c)
    <2>1. /\ cmd[c].at = "mark" /\ Rest(c) /\ cmd'[c] = Idle /\ UNCHANGED file /\ NoFault
      BY <1>1, <1>6, Finishes DEF Stopped, Step, NoFault
    <2> QED BY <1>1, <2>1, IdleOwes
  <1> QED BY <1>3, <1>4, <1>5, <1>6

LEMMA KillOwes ==
    ASSUME Safe, Ordered, NEW s \in Services, Owes(s), NEW c \in Commands, Signal(c) \/ Await(c)
    PROVE  Owes(s)'
  <1>1. /\ TypeOK /\ Fading /\ Live(s)' \subseteq Live(s)
        /\ UNCHANGED <<file, rash, faults>> /\ NoFault
    BY SignalFades, AwaitFades, FadingLive DEF Safe, Signal, Await, NoFault
  <1>2. /\ cmd[c].at \in {"term", "await"} /\ ~Writing(c, s)
        /\ cmd[c].do \in {"start", "stop"}
    BY <1>1, Begun, Fields DEF Signal, Await, Step, Writing, TypeOK
  \* It stays at its service.
  <1>3. ASSUME Rest(c), Same(c), cmd'[c].at # "spawn", cmd'[c].at # "write",
               Tight(c, s) /\ Live(s)' = Live(s) => Tight(c, s)'
        PROVE  Owes(s)'
    <2>1. Awaits(c, s)' => Awaits(c, s)
      BY <1>3 DEF Same, Awaits
    <2> QED BY <1>1, <1>2, <1>3, <2>1, OneOwes
  <1>4. CASE Signal(c)
    <2>1. cmd[c].at = "term" /\ Goto(c, "await")
      BY <1>4 DEF Signal, Step
    <2>2. Rest(c) /\ Same(c) /\ cmd'[c].at = "await" /\ cmd'[c].victim = cmd[c].victim
      BY <1>1, <2>1, Goes
    <2>3. At(c)' = At(c) /\ cmd'[c].do = cmd[c].do /\ cmd'[c].n = cmd[c].n
      BY <2>2 DEF Same, At
    <2>4. Tight(c, s) /\ Live(s)' = Live(s) => Tight(c, s)'
      BY <1>1, <2>1, <2>2, <2>3 DEF Tight
    <2> QED BY <1>3, <2>2, <2>4
  <1>5. CASE Await(c)
    <2>1. cmd[c].at = "await"
      BY <1>5 DEF Await, Step
    <2>2. CASE cmd[c].do = "stop" /\ Goto(c, "remove")
      <3>1. Rest(c) /\ Same(c) /\ cmd'[c].at = "remove"
        BY <1>1, <2>2, Goes
      <3>2. At(c)' = At(c) /\ cmd'[c].do = cmd[c].do /\ cmd'[c].n = cmd[c].n
        BY <3>1 DEF Same, At
      <3>3. ASSUME At(c) = s, Tight(c, s) PROVE Live(s)' # Live(s)
        <4>1. cmd[c].victim \in Live(s)
          BY <2>1, <2>2, <3>3 DEF Tight
        <4>2. cmd[c].victim \in Pids /\ proc'[cmd[c].victim].is = "none"
          BY <1>1, <1>5, <4>1, AwaitFades DEF Live
        <4>3. cmd[c].victim \notin Live(s)'
          BY <4>2, TheOrder DEF Live
        <4> QED BY <4>1, <4>3
      <3>4. Tight(c, s) /\ Live(s)' = Live(s) => Tight(c, s)'
        BY <1>1, <2>1, <3>1, <3>2, <3>3 DEF Tight
      <3> QED BY <1>3, <3>1, <3>4
    <2>3. CASE /\ cmd[c].do # "stop"
               /\ Becomes(c, [cmd[c] EXCEPT !.at = "term", !.victim = cmd[c].own["backend"]])
      <3> DEFINE v == cmd[c].own["backend"]
      <3>1. Becomes(c, [cmd[c] EXCEPT !.at = "term", !.victim = v])
        BY <2>3
      <3> HIDE DEF v
      <3>2. Rest(c) /\ Same(c) /\ cmd'[c].at = "term"
        BY <1>1, <3>1, Aims
      <3>3. Tight(c, s)'
        BY <2>3, <3>2 DEF Same, Tight
      <3> QED BY <1>3, <3>2, <3>3
    <2>4. CASE Finish(c)
      BY <1>1, <1>2, <2>4, Finishes, IdleOwes
    <2> QED BY <1>5, <2>2, <2>3, <2>4 DEF Await, AfterVictim
  <1> QED BY <1>4, <1>5

LEMMA WorldOwes ==
    ASSUME Safe, NEW s \in Services, Owes(s),
           \/ \E p \in Pids : Boot(p) \/ Exit(p) \/ Die(p) \/ Reuse(p)
           \/ \E c \in Commands : CommandDies(c)
           \/ UNCHANGED vars
    PROVE  Owes(s)'
  <1>1. TypeOK
    BY DEF Safe
  <1>2. ASSUME Live(s)' \subseteq Live(s), UNCHANGED <<file, cmd, rash>>, Fault \/ NoFault
        PROVE  Owes(s)'
    <2>1. Due(s)' = Due(s)
      BY <1>2 DEF Due, Awaits
    <2>2. ASSUME Live(s)' = Live(s), Backed(s), \A c \in Commands : Tight(c, s)
          PROVE  Backed(s)' /\ \A c \in Commands : Tight(c, s)'
      <3>1. \A c \in Commands : (Writing(c, s)' <=> Writing(c, s)) /\ (Tight(c, s)' <=> Tight(c, s))
        BY <1>2, <2>2 DEF Writing, Tight, At
      <3> QED BY <1>2, <2>1, <2>2, <3>1 DEF Backed
    <2> QED BY <1>1, <1>2, <2>1, <2>2, NoFaultBefore, OwesKept
  <1>3. ASSUME NEW p \in Pids, Boot(p) \/ Exit(p) \/ Die(p) PROVE Owes(s)'
    <2>1. UNCHANGED <<file, cmd, rash>> /\ (Fault \/ NoFault)
      BY <1>3 DEF Boot, Exit, Die, NoFault
    <2> QED BY <1>1, <1>2, <1>3, <2>1, WorldFades, FadingLive
  <1>4. ASSUME NEW p \in Pids, Reuse(p) PROVE Owes(s)'
    <2>1. UNCHANGED <<file, cmd, rash>> /\ Fault
      BY <1>4 DEF Reuse
    <2>2. Live(s)' \subseteq Live(s)
      BY <1>1, <1>4, ReuseKeeps, TheOrder DEF Live
    <2> QED BY <1>2, <2>1, <2>2
  <1>5. ASSUME NEW c \in Commands, CommandDies(c) PROVE Owes(s)'
    <2>1. UNCHANGED <<proc, file, rash>> /\ Fault /\ Finish(c)
      BY <1>5 DEF CommandDies
    <2>2. Rest(c) /\ cmd'[c] = Idle /\ Live(s)' = Live(s) /\ ~(faults' = 0)
      BY <1>1, <2>1, Finishes, NoFaultBefore DEF Live
    <2> QED BY <1>1, <2>1, <2>2, IdleOwes
  <1>6. CASE UNCHANGED vars
    BY <1>2, <1>6 DEF vars, Live, NoFault
  <1> QED BY <1>3, <1>4, <1>5, <1>6

\* What is owed, with the faults and the rash commands so far.
LEMMA OwingAlways == Spec => []Owing
  <1>1. Init => Owing
    <2> SUFFICES ASSUME Init, NEW s \in Services PROVE Owes(s)
      BY DEF Owing
    <2>1. Live(s) = {} /\ Due(s) = {}
      BY TheOrder, IdleFits DEF Init, Live, Due, Awaits, Gone
    <2>2. Count(s) = 0 /\ rash = 0
      BY <2>1, FS_EmptySet DEF Init, Count
    <2> QED BY <2>2 DEF Owes
  <1>2. Safe /\ Ordered /\ Owing /\ [Next]_vars => Owing'
    BY BeginStartOwes, BeginStopOwes, SpawnOwes, StartOwes, StopOwes, KillOwes, WorldOwes
       DEF Owing, Next, Progress
  <1> QED BY <1>1, <1>2, Invariant, OrderedAlways, PTL DEF Spec

\* Of what counts, one is no orphan, unless it is within the rash commands.
LEMMA OrphansCounted ==
    ASSUME TypeOK, NEW s \in Services, Owes(s)
    PROVE  Cardinality(Orphans(s)) <= rash + faults
  <1>1. Orphans(s) \subseteq Live(s)
    BY DEF Orphans, Live
  <1>2. IsFiniteSet(Orphans(s)) /\ Cardinality(Orphans(s)) \in Nat
        /\ Cardinality(Orphans(s)) <= Cardinality(Live(s))
    BY <1>1, Counts, FS_Subset, FS_CardinalityType
  <1>3. rash \in Nat /\ faults \in Nat
    BY BoundsAssumption DEF TypeOK
  <1>4. Count(s) <= 1 + rash
        /\ (faults = 0 /\ Count(s) > rash => Backed(s))
    BY DEF Owes
  <1>5. ASSUME NEW p \in Live(s), p \notin Orphans(s)
        PROVE  Cardinality(Orphans(s)) <= Cardinality(Live(s)) - 1
    <2>1. Orphans(s) \subseteq Live(s) \ {p}
      BY <1>1, <1>5
    <2>2. /\ IsFiniteSet(Live(s) \ {p})
          /\ Cardinality(Live(s) \ {p}) = Cardinality(Live(s)) - 1
      BY Counts, FS_RemoveElement
    <2> QED BY <2>1, <2>2, FS_Subset
  <1>6. Backed(s) => Cardinality(Orphans(s)) <= Count(s) - 1
    <2> SUFFICES ASSUME Backed(s) PROVE Cardinality(Orphans(s)) <= Count(s) - 1
      OBVIOUS
    <2>1. ASSUME NEW p \in Live(s), p \notin Orphans(s)
          PROVE  Cardinality(Orphans(s)) <= Count(s) - 1
      BY <1>2, <1>5, <2>1, Counts
    <2>2. CASE file[s] \in Live(s)
      BY <2>1, <2>2 DEF Orphans
    <2>3. CASE Due(s) # {}
      <3>1. Cardinality(Due(s)) # 0
        BY <2>3, Counts, FS_EmptySet
      <3> QED BY <1>2, <3>1, Counts
    <2>4. ASSUME NEW c \in Commands, Writing(c, s)
          PROVE  Cardinality(Orphans(s)) <= Count(s) - 1
      BY <2>1, <2>4 DEF Writing, Orphans, Step
    <2> QED BY <2>2, <2>3, <2>4 DEF Backed
  <1> DEFINE o == Cardinality(Orphans(s))
             l == Cardinality(Live(s))
             m == Count(s)
  <1>7. o \in Nat /\ l \in Nat /\ m \in Nat /\ o <= l /\ l <= m
    BY <1>2, Counts
  <1>8. m <= 1 + rash /\ (faults = 0 /\ m > rash => o <= m - 1)
    BY <1>4, <1>6
  <1> HIDE DEF o, l, m
  <1>9. o <= rash + faults
    BY <1>3, <1>7, <1>8
  <1> QED BY <1>9 DEF o

\* Every process that stop cannot find is owed to a fault, to a second start
\* or to commands that ran at the same time (OrphansAreOwed).
THEOREM OrphansOwed == Spec => []OrphansAreOwed
  <1>1. TypeOK /\ Owing => OrphansAreOwed
    BY OrphansCounted DEF Owing, OrphansAreOwed
  <1> QED BY <1>1, TypeCorrect, OwingAlways, PTL
================================================================================
