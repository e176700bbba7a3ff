------------------------------- MODULE Research -------------------------------
(***************************************************************************)
(* The parallel workers of the knob search (autoresearch/loop.ts over      *)
(* lock.ts and mutate.ts): each evaluates candidates on its own and, under *)
(* a lock file, compares them with the shared champion and writes it; one  *)
(* that meets all goals is claimed after a last evaluation.                *)
(*                                                                         *)
(* A worker asks for the lock for five seconds, a lock is taken for        *)
(* abandoned after thirty, and the work done under it is a few file        *)
(* accesses, or an evaluation of up to 225 seconds when the champion has   *)
(* no score for the dataset.  So a lock is found old when its owner is     *)
(* gone, evaluates, or was held up (a mishap).  The file is created with   *)
(* its content in one step; losses in between are found by its age as      *)
(* well.  Knobs and metrics are left out but for the score.                *)
(***************************************************************************)
EXTENDS Integers

CONSTANTS
    Workers,    \* numbers above 0
    Goal,       \* the score that, with the guards passed, meets the goals
    MaxMishaps  \* bound: crashes, failed writes, workers held up

VARIABLES
    lock,       \* champion.lock: the owner it names and whether it is old
    champion,   \* champion.json
    claim,      \* claimed.json: who wrote it
    worker,     \* [Workers -> where it is, what for, and what it would write]
    best,       \* history: the champion as last written completely
    spoiled,    \* history: a living worker lost its lock, or a write was cut off
    mishaps

vars == <<lock, champion, claim, worker, best, spoiled, mishaps>>

Nobody == 0
Departed == -1        \* the name of an owner that is gone

\* A score of 0 is none: not yet evaluated on this dataset, or not finite.
Champions == [score : 0..Goal, ok : BOOLEAN, screened : BOOLEAN]
Fresh == [score |-> 0, ok |-> FALSE, screened |-> FALSE]

\* What an evaluation can find: the guards ask for a finite, positive score.
Verdicts == {c \in Champions : c.screened /\ (c.ok => c.score > 0)}

Free == [owner |-> Nobody, old |-> FALSE]
Off == [at |-> "off", job |-> "seed", draft |-> Fresh]

Points == {"off", "idle", "try", "check", "unlink", "read", "evaluate", "truncate",
           "write", "claim", "release", "drop"}

TypeOK ==
    /\ lock \in [owner : Workers \cup {Nobody, Departed}, old : BOOLEAN]
    /\ champion \in Champions /\ best \in Champions
    /\ claim \in Workers \cup {Nobody}
    /\ worker \in [Workers -> [at : Points, job : {"seed", "trial", "claim", "exit"},
                               draft : Champions]]
    /\ spoiled \in BOOLEAN /\ mishaps \in 0..MaxMishaps

\* No champion yet, or one of a version that stored no screen score.
Init ==
    /\ lock = Free /\ claim = Nobody
    /\ champion \in {Fresh, [score |-> 1, ok |-> TRUE, screened |-> FALSE]}
    /\ best = champion
    /\ worker = [w \in Workers |-> Off]
    /\ spoiled = FALSE /\ mishaps = 0

-----------------------------------------------------------------------------
Mishap == mishaps < MaxMishaps /\ mishaps' = mishaps + 1
At(w, at) == worker[w].at = at
Become(w, r) == worker' = [worker EXCEPT ![w] = r]
Goto(w, at) == Become(w, [worker[w] EXCEPT !.at = at])

\* pm2 restarts a worker; one that finds a claim exits again at once.
Start(w) ==
    /\ At(w, "off") /\ claim = Nobody
    /\ Become(w, [Off EXCEPT !.at = "try"])
    /\ UNCHANGED <<lock, champion, claim, best, spoiled, mishaps>>

\* Mutate, screen and confirm, outside the lock.  The champion read for the
\* screen only decides which candidates are worth it.
Trial(w) ==
    /\ At(w, "idle") /\ claim = Nobody
    /\ \E found \in Verdicts : Become(w, [at |-> "try", job |-> "trial", draft |-> found])
    /\ UNCHANGED <<lock, champion, claim, best, spoiled, mishaps>>

\* Another worker has claimed, or all trials are done.
End(w) ==
    /\ At(w, "idle") /\ Become(w, Off)
    /\ UNCHANGED <<lock, champion, claim, best, spoiled, mishaps>>

-----------------------------------------------------------------------------
(* withFileLock.                                                           *)

\* Mutant: the file is opened without the exclusive flag.
AcquireShared(w) ==
    /\ At(w, "try")
    /\ lock' = [owner |-> w, old |-> FALSE] /\ Goto(w, "read")
    /\ UNCHANGED <<champion, claim, best, spoiled, mishaps>>

\* acquireLockOnce: create the file or find it taken.
Acquire(w) ==
    /\ At(w, "try")
    /\ \/ /\ lock.owner = Nobody
          /\ lock' = [owner |-> w, old |-> FALSE] /\ Goto(w, "read")
       \/ /\ lock.owner # Nobody
          /\ Goto(w, "check") /\ UNCHANGED lock
    /\ UNCHANGED <<champion, claim, best, spoiled, mishaps>>

\* Mutant: a lock never counts as abandoned.
CheckOwnerOnly(w) ==
    /\ At(w, "check")
    /\ Goto(w, "try") \/ Become(w, Off)
    /\ UNCHANGED <<lock, champion, claim, best, spoiled, mishaps>>

\* tryRecoverStaleLock asks for the age; after the last retry the error ends
\* the process.
Check(w) ==
    /\ At(w, "check")
    /\ \/ lock.old /\ Goto(w, "unlink")
       \/ ~lock.old /\ Goto(w, "try")
       \/ ~lock.old /\ Become(w, Off)
    /\ UNCHANGED <<lock, champion, claim, best, spoiled, mishaps>>

\* Whatever lock is there by now is gone.
Remove(w) ==
    /\ lock' = Free
    /\ spoiled' = (spoiled \/ lock.owner \in Workers \ {w})

Unlink(w) ==
    /\ At(w, "unlink") /\ Remove(w)
    /\ Goto(w, "try") \/ Become(w, Off)
    /\ UNCHANGED <<champion, claim, best, mishaps>>

\* Where a worker is once its section is over, and what it would write.
AfterSection(w) ==
    Become(w, CASE worker[w].job = "claim" -> [Off EXCEPT !.at = "try", !.job = "claim"]
                [] worker[w].job = "exit" -> Off
                [] OTHER -> [Off EXCEPT !.at = "idle"])

\* releaseOwnLock reads the file, then removes it.
Release(w) ==
    /\ At(w, "release")
    /\ IF lock.owner = w THEN Goto(w, "drop") ELSE AfterSection(w)
    /\ UNCHANGED <<lock, champion, claim, best, spoiled, mishaps>>

Drop(w) ==
    /\ At(w, "drop") /\ Remove(w) /\ AfterSection(w)
    /\ UNCHANGED <<champion, claim, best, mishaps>>

-----------------------------------------------------------------------------
(* The sections.                                                           *)

Leave(w, job) == Become(w, [at |-> "release", job |-> job, draft |-> Fresh])

\* Once a champion has passed the guards only better ones that pass them
\* follow; equal scores are told apart by other metrics, either way.
Better(a, b) == (b.ok => a.ok) /\ a.score >= b.score
MayKeep(new, old) == new.score > 0 /\ Better(new, old)
MayDiscard(new, old) == new.score = 0 \/ ~Better(new, old) \/ new.score = old.score

\* The seed section: a champion without a score is evaluated, one without a
\* screen score is screened.
ReadSeed(w) ==
    /\ At(w, "read") /\ worker[w].job = "seed"
    /\ IF champion.score = 0 \/ ~champion.screened
       THEN Become(w, [worker[w] EXCEPT !.at = "evaluate", !.draft = champion])
       ELSE Leave(w, "trial")
    /\ UNCHANGED <<lock, champion, claim, best, spoiled, mishaps>>

Evaluate(w) ==
    /\ At(w, "evaluate")
    /\ LET draft == worker[w].draft
       IN \/ /\ draft.score = 0
             /\ \E found \in Verdicts :
                   Become(w, [at |-> "truncate", job |-> "seed", draft |-> found])
          \/ /\ draft.score > 0
             /\ Become(w, [at |-> "truncate", job |-> "trial",
                           draft |-> [draft EXCEPT !.screened = TRUE]])
    /\ UNCHANGED <<lock, champion, claim, best, spoiled, mishaps>>

\* The trial section: keep or discard.
ReadTrial(w) ==
    /\ At(w, "read") /\ worker[w].job = "trial"
    /\ \/ MayKeep(worker[w].draft, champion)
          /\ Become(w, [worker[w] EXCEPT !.at = "truncate", !.job = "seed"])
       \/ MayDiscard(worker[w].draft, champion) /\ Leave(w, "trial")
    /\ UNCHANGED <<lock, champion, claim, best, spoiled, mishaps>>

\* writeFileSync empties the file, then fills it; an empty file is no champion.
Truncate(w) ==
    /\ At(w, "truncate") /\ champion' = Fresh /\ Goto(w, "write")
    /\ UNCHANGED <<lock, claim, best, spoiled, mishaps>>

\* A champion evaluated just now (job "seed") that meets the goals is a
\* candidate for a claim; a screened one is not.
Write(w) ==
    /\ At(w, "write")
    /\ champion' = worker[w].draft /\ best' = worker[w].draft
    /\ Leave(w, IF worker[w].job = "seed" /\ champion'.ok /\ champion'.score = Goal
                THEN "claim" ELSE "trial")
    /\ UNCHANGED <<lock, claim, spoiled, mishaps>>

\* Mutant: a claim is written without looking for an earlier one.
ReadClaimBlind(w) ==
    /\ At(w, "read") /\ worker[w].job = "claim" /\ Goto(w, "claim")
    /\ UNCHANGED <<lock, champion, claim, best, spoiled, mishaps>>

\* The claim section: somebody else was first, or the frozen holdout decides.
ReadClaim(w) ==
    /\ At(w, "read") /\ worker[w].job = "claim"
    /\ IF claim # Nobody THEN Leave(w, "exit")
       ELSE Goto(w, "claim") \/ Leave(w, "trial")
    /\ UNCHANGED <<lock, champion, claim, best, spoiled, mishaps>>

\* A claim file cut off counts as none, which is what was there.
Claim(w) ==
    /\ At(w, "claim") /\ claim' = w /\ Leave(w, "exit")
    /\ UNCHANGED <<lock, champion, best, spoiled, mishaps>>

-----------------------------------------------------------------------------
(* Time and mishaps.                                                       *)

Aging == ~lock.old /\ lock.owner # Nobody /\ lock' = [lock EXCEPT !.old = TRUE]

\* The owner is gone, or evaluates for longer than the lock may live.
Age ==
    /\ Aging
    /\ lock.owner = Departed \/ \E w \in Workers : lock.owner = w /\ At(w, "evaluate")
    /\ UNCHANGED <<champion, claim, worker, best, spoiled, mishaps>>

\* The owner is held up: the machine sleeps, the disk hangs.
HoldUp ==
    /\ Aging /\ Mishap
    /\ \E w \in Workers : lock.owner = w /\ ~At(w, "evaluate")
    /\ UNCHANGED <<champion, claim, worker, best, spoiled>>

\* A write that throws ends the process, after the release.
Throw(w) ==
    /\ worker[w].at \in {"truncate", "write", "claim"} /\ Mishap
    /\ spoiled' = (spoiled \/ At(w, "write"))
    /\ Leave(w, "exit")
    /\ UNCHANGED <<lock, champion, claim, best>>

Crash(w) ==
    /\ ~At(w, "off") /\ Mishap
    /\ Become(w, Off)
    /\ lock' = IF lock.owner = w THEN [lock EXCEPT !.owner = Departed] ELSE lock
    /\ spoiled' = (spoiled \/ At(w, "write"))
    /\ UNCHANGED <<champion, claim, best>>

-----------------------------------------------------------------------------
Move(w) ==
    \/ Start(w) \/ Trial(w) \/ End(w)
    \/ Acquire(w) \/ Check(w) \/ Unlink(w) \/ Release(w) \/ Drop(w)
    \/ ReadSeed(w) \/ Evaluate(w) \/ ReadTrial(w) \/ Truncate(w) \/ Write(w)
    \/ ReadClaim(w) \/ Claim(w)

Next == Age \/ HoldUp \/ (\E w \in Workers : Move(w) \/ Throw(w) \/ Crash(w))

Spec == Init /\ [][Next]_vars

\* A worker runs and is restarted when it ends, and time passes.
FairSpec == Spec /\ WF_vars(Age) /\ \A w \in Workers : WF_vars(Move(w))

-----------------------------------------------------------------------------
(* Properties.                                                             *)

\* As long as no living worker loses its lock and no write is cut off, the
\* champion only improves, across all workers, crashes and abandoned locks.
ChampionOnlyImproves == [][~spoiled' => Better(best', best)]_vars

\* Under the same condition a claim is written once.
ClaimStands == [][claim # Nobody /\ ~spoiled' => claim' = claim]_vars

\* The lock of a worker that is gone does not block the others for ever.
AbandonedLockEnds == lock.owner = Departed ~> lock.owner # Departed \/ claim # Nobody
===============================================================================
