------------------------------- MODULE Gateway -------------------------------
(***************************************************************************)
(* The gateway commands (services/gateway-orchestrator.ts over             *)
(* process-manager.ts, pid.ts, utils/signal.ts and gateway-state.ts):      *)
(* "start" spawns the services one after the other and waits for each to   *)
(* answer its health endpoint, "stop" finds them again by their PID files. *)
(*                                                                         *)
(* Commands are processes of their own, so they interleave and may die at  *)
(* every step; the services live on without them.  A service answers on a  *)
(* fixed port: a second instance cannot bind it and exits, while its       *)
(* health probe is answered by the first.  A program whose command line    *)
(* holds a service's name counts as that service, since the check of       *)
(* pid.ts cannot tell.  Of the state file only the mode is kept; that two  *)
(* commands writing it at once may lose one write is left out, and no      *)
(* property speaks of the mode then.  So is status, which writes nothing.  *)
(***************************************************************************)
EXTENDS Integers, FiniteSets, Sequences

CONSTANTS
    Commands,   \* slots, numbers, of the commands that may run at the same time
    Pids,       \* process identifiers, numbers
    NoPid,      \* no process
    Wishes,     \* the sets of services that a start may be asked for
    MaxFaults,  \* bound: failed writes, removals, spawns, deaths, reused pids
    MaxRash     \* bound: commands issued while another runs, and starts
                \* issued while a service runs

ASSUME NoPidAssumption == NoPid \notin Pids
ASSUME FiniteAssumption == IsFiniteSet(Pids) /\ IsFiniteSet(Commands)
ASSUME BoundsAssumption == MaxFaults \in Nat /\ MaxRash \in Nat

\* Started in this order, stopped in this order; the third name that stop
\* knows, ccxt, is embedded in the backend and never has a PID file.
Order == <<"backend", "telegram">>
Services == {Order[i] : i \in 1..Len(Order)}

ASSUME WishesAssumption == Wishes \subseteq SUBSET Services

VARIABLES
    proc,   \* [Pids -> what runs there, is it listening, did it get SIGTERM]
    file,   \* [Services -> the PID its file names]
    mode,   \* mode of the gateway state file
    cmd,    \* [Commands -> the command's progress]
    struck, \* a process that is no service was signalled
    rash, faults

vars == <<proc, file, mode, cmd, struck, rash, faults>>

Gone == [is |-> "none", up |-> FALSE, term |-> FALSE]
Idle == [do |-> "none", at |-> "idle", n |-> 1, want |-> {}, supervised |-> FALSE,
         warm |-> FALSE, own |-> [s \in Services |-> NoPid], victim |-> NoPid]

Points == {"idle", "spawn", "write", "probe", "read", "check", "term", "await",
           "remove", "mark"}

Records == [do : {"none", "start", "stop"}, at : Points, n : 1..Len(Order),
            want : SUBSET Services, supervised : BOOLEAN, warm : BOOLEAN,
            own : [Services -> Pids \cup {NoPid}], victim : Pids \cup {NoPid}]
Processes == [is : Services \cup {"none", "foreign"}, up : BOOLEAN, term : BOOLEAN]

TypeOK ==
    /\ proc \in [Pids -> Processes]
    /\ file \in [Services -> Pids \cup {NoPid}]
    /\ mode \in {"none", "starting", "warming", "healthy", "down"}
    /\ cmd \in [Commands -> Records]
    /\ struck \in BOOLEAN /\ rash \in 0..MaxRash /\ faults \in 0..MaxFaults

Init ==
    /\ proc = [p \in Pids |-> Gone]
    /\ file = [s \in Services |-> NoPid]
    /\ mode = "none"
    /\ cmd = [c \in Commands |-> Idle]
    /\ struck = FALSE /\ rash = 0 /\ faults = 0

-----------------------------------------------------------------------------
Fault == faults < MaxFaults /\ faults' = faults + 1
NoFault == UNCHANGED faults

Alive(p) == proc[p].is \in Services
Listening(s) == \E p \in Pids : proc[p].is = s /\ proc[p].up
Others(c) == \E d \in Commands \ {c} : cmd[d].do # "none"

\* A running command counts on this identifier.
Held(p) == \E c \in Commands :
              \/ cmd[c].victim = p
              \/ \E s \in Services : cmd[c].own[s] = p

\* Which of the free ones the system picks makes no difference.
Free == {p \in Pids : proc[p] = Gone /\ ~Held(p)}
NextPid == CHOOSE p \in Free : TRUE

\* The service a command is at.
At(c) == Order[cmd[c].n]
Step(c, at) == cmd[c].at = at

\* The command's record becomes r; it goes to a point, to its end, or on to the
\* next service, after the last one to its final write of the state.
Becomes(c, r) == cmd' = [cmd EXCEPT ![c] = r]
Goto(c, at) == Becomes(c, [cmd[c] EXCEPT !.at = at])
Finish(c) == Becomes(c, Idle)
Advance(c, at, warm) ==
    Becomes(c, IF cmd[c].n < Len(Order)
               THEN [cmd[c] EXCEPT !.n = @ + 1, !.victim = NoPid, !.at = at, !.warm = warm]
               ELSE [Idle EXCEPT !.do = cmd[c].do, !.at = "mark", !.warm = warm])

\* A new command takes the least slot.
Issue(c, isRash) ==
    /\ cmd[c] = Idle /\ \A d \in Commands : d < c => cmd[d] # Idle
    /\ IF isRash THEN rash < MaxRash /\ rash' = rash + 1 ELSE UNCHANGED rash

-----------------------------------------------------------------------------
(* start                                                                   *)

\* want: the backend, unless NEURATRADE_TS_ONLY; telegram, if it is enabled.
BeginStart(c) ==
    /\ Issue(c, Others(c) \/ \E p \in Pids : Alive(p))
    /\ \E want \in Wishes, supervised \in BOOLEAN :
          Becomes(c, [Idle EXCEPT !.do = "start", !.at = "spawn",
                                  !.want = want, !.supervised = supervised])
    /\ mode' = "starting"
    /\ UNCHANGED <<proc, file, struck, faults>>

\* startService: no binary or no process ends the command as it stands.
Spawn(c) ==
    /\ Step(c, "spawn")
    /\ \/ At(c) \notin cmd[c].want /\ Advance(c, "spawn", cmd[c].warm) /\ NoFault /\ UNCHANGED proc
       \/ /\ At(c) \in cmd[c].want /\ Free # {}
          /\ proc' = [proc EXCEPT ![NextPid].is = At(c)]
          /\ Becomes(c, [cmd[c] EXCEPT !.at = "write",
                                       !.own = [cmd[c].own EXCEPT ![At(c)] = NextPid]])
          /\ NoFault
       \/ /\ At(c) \in cmd[c].want
          /\ Fault \/ (Free = {} /\ NoFault)
          /\ Finish(c) /\ UNCHANGED proc
    /\ UNCHANGED <<file, mode, struck, rash>>

\* Mutant: the PID file is written only when there is none.
WriteOnce(c) ==
    /\ Step(c, "write")
    /\ file' = IF file[At(c)] = NoPid
               THEN [file EXCEPT ![At(c)] = cmd[c].own[At(c)]] ELSE file
    /\ NoFault /\ Goto(c, "probe")
    /\ UNCHANGED <<proc, mode, struck, rash>>

\* A failure to write the PID file is swallowed.
WritePid(c) ==
    /\ Step(c, "write")
    /\ \/ file' = [file EXCEPT ![At(c)] = cmd[c].own[At(c)]] /\ NoFault
       \/ Fault /\ UNCHANGED file
    /\ Goto(c, "probe")
    /\ UNCHANGED <<proc, mode, struck, rash>>

\* waitForHealthy: whoever listens on the service's port may answer.
Healthy(c) ==
    /\ Step(c, "probe") /\ Listening(At(c))
    /\ Advance(c, "spawn", cmd[c].warm)
    /\ UNCHANGED <<proc, file, mode, struck, rash, faults>>

\* The probe timed out: supervised, the service is left to warm up; otherwise
\* the command's own processes are stopped, the failing one first.
Unhealthy(c) ==
    /\ Step(c, "probe")
    /\ \/ /\ cmd[c].supervised
          /\ mode' = "warming"
          /\ Advance(c, "spawn", TRUE)
       \/ /\ ~cmd[c].supervised
          /\ Becomes(c, [cmd[c] EXCEPT !.at = "term", !.victim = cmd[c].own[At(c)]])
          /\ UNCHANGED mode
    /\ UNCHANGED <<proc, file, struck, rash, faults>>

\* Mutant: a mode the state file does not know.
StartedAsRunning(c) ==
    /\ Step(c, "mark") /\ cmd[c].do = "start"
    /\ mode' = IF cmd[c].warm THEN "warming" ELSE "running"
    /\ Finish(c)
    /\ UNCHANGED <<proc, file, struck, rash, faults>>

Started(c) ==
    /\ Step(c, "mark") /\ cmd[c].do = "start"
    /\ mode' = IF cmd[c].warm THEN "warming" ELSE "healthy"
    /\ Finish(c)
    /\ UNCHANGED <<proc, file, struck, rash, faults>>

-----------------------------------------------------------------------------
(* stop                                                                    *)

BeginStop(c) ==
    /\ Issue(c, Others(c))
    /\ Becomes(c, [Idle EXCEPT !.do = "stop", !.at = "read"])
    /\ UNCHANGED <<proc, file, mode, struck, faults>>

\* A file that cannot be read counts as missing.
ReadPid(c) ==
    /\ Step(c, "read")
    /\ \/ /\ file[At(c)] # NoPid /\ NoFault
          /\ Becomes(c, [cmd[c] EXCEPT !.at = "check", !.victim = file[At(c)]])
       \/ file[At(c)] = NoPid /\ Advance(c, "read", FALSE) /\ NoFault
       \/ file[At(c)] # NoPid /\ Advance(c, "read", FALSE) /\ Fault
    /\ UNCHANGED <<proc, file, mode, struck, rash>>

\* Mutant: any live process is taken for the service.
CheckAlive(c) ==
    /\ Step(c, "check")
    /\ Goto(c, IF proc[cmd[c].victim] # Gone THEN "term" ELSE "remove")
    /\ UNCHANGED <<proc, file, mode, struck, rash, faults>>

\* Is the process alive, and is the service's name in its command line?  When ps
\* fails there is no command line, and the file of a live service goes.
CheckProcess(c) ==
    /\ Step(c, "check")
    /\ \/ proc[cmd[c].victim].is = At(c) /\ Goto(c, "term") /\ NoFault
       \/ proc[cmd[c].victim].is # At(c) /\ Goto(c, "remove") /\ NoFault
       \/ proc[cmd[c].victim].is = At(c) /\ Goto(c, "remove") /\ Fault
    /\ UNCHANGED <<proc, file, mode, struck, rash>>

\* Mutant: the first service stopped takes every PID file with it.
RemoveAll(c) ==
    /\ Step(c, "remove")
    /\ file' = [s \in Services |-> NoPid]
    /\ NoFault /\ Advance(c, "read", FALSE)
    /\ UNCHANGED <<proc, mode, struck, rash>>

\* The file goes, whatever it names by now; a failure is swallowed.
RemovePid(c) ==
    /\ Step(c, "remove")
    /\ \/ file' = [file EXCEPT ![At(c)] = NoPid] /\ NoFault
       \/ file[At(c)] # NoPid /\ Fault /\ UNCHANGED file
    /\ Advance(c, "read", FALSE)
    /\ UNCHANGED <<proc, mode, struck, rash>>

\* markStopped after a stop.
Stopped(c) ==
    /\ Step(c, "mark") /\ cmd[c].do = "stop"
    /\ mode' = "down"
    /\ Finish(c)
    /\ UNCHANGED <<proc, file, struck, rash, faults>>

-----------------------------------------------------------------------------
(* signalAndWait, by both: SIGTERM, a poll, SIGKILL after the timeout.     *)

Signal(c) ==
    /\ Step(c, "term")
    /\ LET v == cmd[c].victim
       IN /\ proc' = [proc EXCEPT ![v].term = proc[v] # Gone]
          /\ struck' = IF proc[v].is = "foreign" THEN TRUE ELSE struck
    /\ Goto(c, "await")
    /\ UNCHANGED <<file, mode, rash, faults>>

\* Mutant: a failed start stops only the service that failed.
AfterVictimEnd(c) ==
    IF cmd[c].do = "stop"
    THEN Goto(c, "remove") /\ UNCHANGED mode
    ELSE Finish(c) /\ mode' = "down"

\* The victim is gone: stop removes its file; a failed start goes on to the
\* backend it had started, then marks the gateway stopped.
AfterVictim(c) ==
    IF cmd[c].do = "stop"
    THEN Goto(c, "remove") /\ UNCHANGED mode
    ELSE IF cmd[c].victim # cmd[c].own["backend"] /\ cmd[c].own["backend"] # NoPid
         THEN /\ Becomes(c, [cmd[c] EXCEPT !.at = "term", !.victim = cmd[c].own["backend"]])
              /\ UNCHANGED mode
         ELSE Finish(c) /\ mode' = "down"

\* Mutant: no SIGKILL after the timeout.
AwaitExit(c) ==
    /\ Step(c, "await") /\ proc[cmd[c].victim] = Gone
    /\ AfterVictim(c)
    /\ UNCHANGED <<proc, file, struck, rash, faults>>

Await(c) ==
    /\ Step(c, "await")
    /\ \/ proc[cmd[c].victim] = Gone /\ UNCHANGED proc
       \/ proc[cmd[c].victim] # Gone /\ proc' = [proc EXCEPT ![cmd[c].victim] = Gone]
    /\ AfterVictim(c)
    /\ UNCHANGED <<file, struck, rash, faults>>

-----------------------------------------------------------------------------
(* The world around the commands.                                          *)

\* A service binds its port, or finds it taken and exits.
Boot(p) ==
    /\ Alive(p) /\ ~proc[p].up /\ ~proc[p].term
    /\ proc' = IF Listening(proc[p].is) THEN [proc EXCEPT ![p] = Gone]
               ELSE [proc EXCEPT ![p].up = TRUE]
    /\ UNCHANGED <<file, mode, cmd, struck, rash, faults>>

\* A process that got SIGTERM may exit, in its own time.
Exit(p) ==
    /\ proc[p].term
    /\ proc' = [proc EXCEPT ![p] = Gone]
    /\ UNCHANGED <<file, mode, cmd, struck, rash, faults>>

Die(p) ==
    /\ Alive(p) /\ Fault
    /\ proc' = [proc EXCEPT ![p] = Gone]
    /\ UNCHANGED <<file, mode, cmd, struck, rash>>

\* The identifier a PID file still names is given to another program; not so
\* fast that a running command, which holds it, is overtaken.
Reuse(p) ==
    /\ proc[p] = Gone /\ ~Held(p) /\ Fault
    /\ \E s \in Services : file[s] = p
    /\ proc' = [proc EXCEPT ![p].is = "foreign"]
    /\ UNCHANGED <<file, mode, cmd, struck, rash>>

CommandDies(c) ==
    /\ cmd[c].do # "none" /\ Fault /\ Finish(c)
    /\ UNCHANGED <<proc, file, mode, struck, rash>>

-----------------------------------------------------------------------------
Progress(c) ==
    \/ Spawn(c) \/ WritePid(c) \/ Healthy(c) \/ Unhealthy(c) \/ Started(c)
    \/ ReadPid(c) \/ CheckProcess(c) \/ RemovePid(c) \/ Stopped(c)
    \/ Signal(c) \/ Await(c)

Next ==
    \/ \E c \in Commands :
          BeginStart(c) \/ BeginStop(c) \/ Progress(c) \/ CommandDies(c)
    \/ \E p \in Pids : Boot(p) \/ Exit(p) \/ Die(p) \/ Reuse(p)

Spec == Init /\ [][Next]_vars

\* A command keeps running: its probes and its waits have timeouts.  Nothing
\* is assumed of the services: they may neither come up nor obey SIGTERM.
FairSpec == Spec /\ \A c \in Commands : WF_vars(Progress(c))

-----------------------------------------------------------------------------
(* Properties.                                                             *)

Quiet == \A c \in Commands : cmd[c] = Idle

\* A PID file that outlived its process, its command or a reboot never makes
\* stop signal a program that is no service.
ForeignSpared == ~struck

\* Live processes of a service that its PID file does not name, and whose
\* start is not about to write it: stop cannot find them.
Orphans(s) ==
    {p \in Pids : /\ proc[p].is = s /\ file[s] # p
                  /\ \A c \in Commands : ~(Step(c, "write") /\ cmd[c].own[s] = p)}

\* Every process that stop cannot find is owed to a fault, to a second start
\* or to commands that ran at the same time, one process of a service each.
OrphansAreOwed == \A s \in Services : Cardinality(Orphans(s)) <= rash + faults

\* Used one command after the other and without faults, the state file tells
\* the truth: "down" when nothing runs, "healthy" when all that runs answers.
ModeIsTrue ==
    (Quiet /\ rash = 0 /\ faults = 0) =>
        /\ mode = "down" => \A p \in Pids : ~Alive(p)
        /\ mode = "healthy" => \A p \in Pids : Alive(p) => proc[p].up

\* A start that gives up on a health check has stopped all it had started,
\* deaf services included.
FailedStartLeavesNothing ==
    [][\A c \in Commands :
          (cmd[c].do = "start" /\ cmd[c].at = "await" /\ cmd'[c] = Idle /\ faults' = faults)
             => \A s \in Services : cmd[c].own[s] # NoPid => proc'[cmd[c].own[s]].is # s]_vars

\* Every command ends, whatever the services do.
CommandsEnd == \A c \in Commands : cmd[c].do # "none" ~> cmd[c].do = "none"
=============================================================================
