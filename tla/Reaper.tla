-------------------------------- MODULE Reaper -------------------------------
(***************************************************************************)
(* The box's three sighting reapers: scripts/orphan-browser-reap.py        *)
(* ("browser"), scripts/agent-rc-reap.py ("worktree") and                  *)
(* scripts/cgroup-runaway-guard.py ("runaway").  A timer starts a pass     *)
(* that loads the sightings file, scans /proc, keeps the sightings that    *)
(* still hold, signals what has been sighted for the grace period, and     *)
(* saves the file; the browser reaper then deletes dead profiles.  Nothing *)
(* stands still meanwhile: processes start, exit, get an owner or a client *)
(* back and die in the middle of a pass; pids are recycled; the wall clock *)
(* is stepped; a pass can be killed or fail to save.                       *)
(***************************************************************************)
EXTENDS Integers, FiniteSets

CONSTANTS
    Pids,         \* process ids
    Profiles,     \* --user-data-dir directories under the scratch root
    NoProfile,
    Scripts,      \* which of the reapers an instance is about
    Stepped,      \* the reapers during whose life the wall clock is stepped
    Grace,        \* --grace-sec, in ticks
    MaxBorn,      \* bound: processes started per pid
    MaxSteps,     \* bound: clock steps
    MaxFailures,  \* bound: passes that are killed or fail to save
    Strict        \* a pass that failed to save still counts (see sighted)

ASSUME GraceAssumption == Grace \in Nat \ {0}
ASSUME BoundsAssumption == {MaxBorn, MaxSteps, MaxFailures} \subseteq Nat
ASSUME ScriptsAssumption ==
    /\ Scripts \subseteq {"browser", "worktree", "runaway"}
    /\ Stepped \subseteq Scripts
    /\ NoProfile \notin Profiles
ASSUME StrictAssumption == Strict \in BOOLEAN

VARIABLES
    script,    \* the reaper of this behaviour
    proc,      \* proc[p]: the process that has pid p
    stalled,   \* runaway: the cgroup is pinned at MemoryHigh and stalls
    epoch,     \* clock steps so far: /proc/stat's btime moves with each
    file,      \* seen.json: identity -> age of its first sighting, in ticks
    dirs,      \* the profile directories on disk
    pc,        \* where the pass is
    fresh,     \* the sightings this pass keeps
    due,       \* to be sent SIGTERM
    hit,       \* were sent SIGTERM
    todo,      \* to be checked and sent SIGKILL
    seen,      \* browsers of the scan, by pid
    failures,  \* passes that failed so far
    sighted    \* history: sighted[p], ticks p has been a candidate at every pass

pass == <<pc, fresh, due, hit, todo, seen>>
world == <<proc, stalled, epoch, dirs>>
vars == <<script, world, file, pass, failures, sighted>>

Unsighted == -1

Keys == [pid : Pids, born : 0..MaxBorn, epoch : 0..MaxSteps]

(* owned: its spawner lives (browser), it is an agent session, scaffolding  *)
(* or a protected comm (worktree, runaway).  quiet: the scan proves that no *)
(* client is attached, its cwd is deleted, it is above both RSS bars.       *)
Processes == [up : BOOLEAN, born : 0..MaxBorn, owned : BOOLEAN,
              quiet : BOOLEAN, profile : Profiles \cup {NoProfile}]

NoProcess == [up |-> FALSE, born |-> 0, owned |-> FALSE, quiet |-> FALSE,
              profile |-> NoProfile]

Phases == {"idle", "term", "kill", "save", "purge"}

IsLedger(L) == DOMAIN L \subseteq Keys /\ \A k \in DOMAIN L : L[k] \in 0..Grace

NoSightings == [k \in {} |-> 0]

TypeOK ==
    /\ script \in Scripts
    /\ proc \in [Pids -> Processes]
    /\ stalled \in BOOLEAN
    /\ epoch \in 0..MaxSteps
    /\ IsLedger(file)
    /\ dirs \subseteq Profiles
    /\ pc \in Phases
    /\ IsLedger(fresh)
    /\ {due, hit, todo} \subseteq SUBSET DOMAIN fresh
    /\ seen \in [Pids -> Profiles \cup {NoProfile}]
    /\ failures \in 0..MaxFailures
    /\ sighted \in [Pids -> Unsighted..Grace]

Init ==
    /\ script \in Scripts
    /\ proc = [p \in Pids |-> NoProcess]
    /\ stalled = (script # "runaway")
    /\ epoch = 0
    /\ file = NoSightings
    /\ dirs = {}
    /\ pc = "idle"
    /\ fresh = NoSightings
    /\ due = {}
    /\ hit = {}
    /\ todo = {}
    /\ seen = [p \in Pids |-> NoProfile]
    /\ failures = 0
    /\ sighted = [p \in Pids |-> Unsighted]

-----------------------------------------------------------------------------
(* Judging.                                                                *)

(* Mutant: the pid alone.                                                   *)
KeyOfPid(p) == [pid |-> p, born |-> 0, epoch |-> 0]

(* Browser.key, Proc.key, Member.key.  The start time is btime plus ticks   *)
(* in the first two, so it moves when the clock is stepped; the runaway     *)
(* guard uses the ticks alone.                                              *)
Key(p) == [pid |-> p, born |-> proc[p].born,
           epoch |-> IF script = "runaway" THEN 0 ELSE epoch]

(* is_orphan, select_orphans, select_candidate: no owner, and proof of it.  *)
Candidate(p) == proc[p].up /\ ~proc[p].owned /\ proc[p].quiet

(* What a scan can come back with.                                          *)
BrowserScans == {{p \in Pids : Candidate(p)}}

WorktreeScans == {{p \in Pids : Candidate(p)}}

(* The guard names one process, the largest; which one that is changes with *)
(* their sizes.                                                             *)
RunawayScans ==
    LET runaways == {p \in Pids : stalled /\ Candidate(p)}
    IN  IF runaways = {} THEN {{}} ELSE {{p} : p \in runaways}

Scans == CASE script = "browser"  -> BrowserScans
           [] script = "worktree" -> WorktreeScans
           [] script = "runaway"  -> RunawayScans

(* reconcile: absent identities are dropped.                                *)
Reconcile(orphans) ==
    [k \in {Key(p) : p \in orphans} |-> IF k \in DOMAIN file THEN file[k] ELSE 0]

PastGrace(L) == {k \in DOMAIN L : L[k] >= Grace}

-----------------------------------------------------------------------------
(* A pass.                                                                 *)

Sweep(orphans) ==
    /\ pc = "idle"
    /\ fresh' = Reconcile(orphans)
    /\ due' = PastGrace(fresh')
    /\ hit' = {}
    /\ todo' = {}
    /\ seen' = [p \in Pids |-> IF proc[p].up THEN proc[p].profile ELSE NoProfile]
    /\ pc' = IF due' = {} THEN "save" ELSE "term"
    /\ sighted' = [p \in Pids |->
           IF p \in orphans THEN IF sighted[p] = Unsighted THEN 0 ELSE sighted[p]
           ELSE IF Strict THEN Unsighted ELSE sighted[p]]
    /\ UNCHANGED <<script, world, file, failures>>

(* SIGTERM, to whatever has the pid now; an exited process is not hit.  A   *)
(* process is free to ignore it: exits are Exit's.                          *)
Term(k) ==
    /\ pc = "term"
    /\ k \in due
    /\ due' = due \ {k}
    /\ hit' = IF proc[k.pid].up THEN hit \cup {k} ELSE hit
    /\ todo' = hit'
    /\ pc' = IF due' # {} THEN "term" ELSE IF hit' = {} THEN "save" ELSE "kill"
    /\ UNCHANGED <<script, world, file, fresh, seen, sighted, failures>>

(* After the wait: kill(pid, 0), then SIGKILL if that found it.             *)
Kill(k) ==
    /\ pc = "kill"
    /\ k \in todo
    /\ todo' = todo \ {k}
    /\ proc' = [proc EXCEPT ![k.pid].up = FALSE]
    /\ pc' = IF todo' = {} THEN "save" ELSE "kill"
    /\ UNCHANGED <<script, stalled, epoch, dirs, file, fresh, due, hit, seen, sighted, failures>>

(* The process of the pass ends.                                            *)
EndPass ==
    /\ pc' = "idle"
    /\ fresh' = NoSightings
    /\ due' = {}
    /\ hit' = {}
    /\ todo' = {}
    /\ seen' = [p \in Pids |-> NoProfile]

(* The browser reaper goes on to the profiles.                              *)
AfterSave ==
    IF script = "browser" /\ hit # {}
      THEN pc' = "purge" /\ UNCHANGED <<fresh, due, hit, todo, seen>>
      ELSE EndPass

(* Mutant: the file does not outlive the unit (no RuntimeDirectoryPreserve). *)
SaveUnpreserved ==
    /\ pc = "save"
    /\ file' = NoSightings
    /\ sighted' = [p \in Pids |->
           IF \E k \in DOMAIN fresh : k.pid = p THEN sighted[p] ELSE Unsighted]
    /\ AfterSave
    /\ UNCHANGED <<script, world, failures>>

(* What was hit does not linger; os.replace makes the write atomic.         *)
Save ==
    /\ pc = "save"
    /\ file' = [k \in DOMAIN fresh \ hit |-> fresh[k]]
    /\ sighted' = [p \in Pids |->
           IF \E k \in DOMAIN fresh : k.pid = p THEN sighted[p] ELSE Unsighted]
    /\ AfterSave
    /\ UNCHANGED <<script, world, failures>>

(* "cannot persist state ... grace restarts each pass": a warning only.     *)
SaveFails ==
    /\ failures < MaxFailures
    /\ failures' = failures + 1
    /\ pc = "save"
    /\ AfterSave
    /\ UNCHANGED <<script, world, file, sighted>>

(* Mutant: only what the pass did not find orphaned counts as a survivor.   *)
SurvivorsOwned == {seen[p] : p \in {q \in Pids : \A k \in DOMAIN fresh : k.pid # q}}

(* The profiles of the scanned browsers that were not hit.                  *)
Survivors == {seen[p] : p \in {q \in Pids : \A k \in hit : k.pid # q}}

(* purge_profiles, of the hit browsers' profiles no survivor names.         *)
Purge ==
    /\ pc = "purge"
    /\ dirs' = dirs \ ({seen[k.pid] : k \in hit} \ Survivors)
    /\ EndPass
    /\ UNCHANGED <<script, proc, stalled, epoch, file, sighted, failures>>

(* The pass dies: TimeoutStartSec, the OOM killer.                          *)
PassKilled ==
    /\ failures < MaxFailures
    /\ failures' = failures + 1
    /\ pc # "idle"
    /\ EndPass
    /\ UNCHANGED <<script, world, file, sighted>>

-----------------------------------------------------------------------------
(* The box.                                                                *)

(* A pid comes round again only after the whole pid space: not while a pass *)
(* holds on to it.                                                          *)
Reusable(p) == \A k \in due \cup hit : k.pid # p

(* A new browser makes itself a profile (mkdtemp) or joins one that a       *)
(* browser of a live session already uses.                                  *)
ProfileFor(f) ==
    IF script = "browser"
      THEN f \in Profiles /\ (f \notin dirs \/
             \E q \in Pids : proc[q].up /\ proc[q].owned /\ proc[q].profile = f)
      ELSE f = NoProfile

Start(p, owned, f) ==
    /\ ~proc[p].up
    /\ proc[p].born < MaxBorn
    /\ Reusable(p)
    /\ ProfileFor(f)
    /\ script = "browser" => owned
    /\ proc' = [proc EXCEPT ![p] = [up |-> TRUE, born |-> proc[p].born + 1,
                                    owned |-> owned, quiet |-> FALSE, profile |-> f]]
    /\ dirs' = dirs \cup ({f} \cap Profiles)
    /\ sighted' = [sighted EXCEPT ![p] = Unsighted]
    /\ UNCHANGED <<script, stalled, epoch, file, pass, failures>>

Exit(p) ==
    /\ proc[p].up
    /\ proc' = [proc EXCEPT ![p].up = FALSE]
    /\ UNCHANGED <<script, stalled, epoch, dirs, file, pass, sighted, failures>>

(* The agent session that spawned a browser ends.                           *)
OwnerEnds(p) ==
    /\ script = "browser"
    /\ proc[p].up /\ proc[p].owned
    /\ proc' = [proc EXCEPT ![p].owned = FALSE]
    /\ UNCHANGED <<script, stalled, epoch, dirs, file, pass, sighted, failures>>

(* A client attaches or leaves; a worktree is removed or comes back; a      *)
(* process grows or shrinks.                                                *)
Changes(p) ==
    /\ proc[p].up /\ ~proc[p].owned
    /\ proc' = [proc EXCEPT ![p].quiet = ~proc[p].quiet]
    /\ UNCHANGED <<script, stalled, epoch, dirs, file, pass, sighted, failures>>

SetStalled(b) ==
    /\ script = "runaway"
    /\ stalled # b
    /\ stalled' = b
    /\ UNCHANGED <<script, proc, epoch, dirs, file, pass, sighted, failures>>

Older(n) == IF n = Unsighted \/ n = Grace THEN n ELSE n + 1

Tick ==
    /\ file' = [k \in DOMAIN file |-> Older(file[k])]
    /\ fresh' = [k \in DOMAIN fresh |-> Older(fresh[k])]
    /\ sighted' = [p \in Pids |-> Older(sighted[p])]
    /\ UNCHANGED <<script, world, pc, due, hit, todo, seen, failures>>

(* The wall clock is stepped forward past the grace period.                 *)
ClockStep ==
    /\ script \in Stepped
    /\ epoch < MaxSteps
    /\ epoch' = epoch + 1
    /\ file' = [k \in DOMAIN file |-> Grace]
    /\ fresh' = [k \in DOMAIN fresh |-> Grace]
    /\ UNCHANGED <<script, proc, stalled, dirs, pc, due, hit, todo, seen, sighted, failures>>

-----------------------------------------------------------------------------
PassStep ==
    \/ \E orphans \in Scans : Sweep(orphans)
    \/ \E k \in due : Term(k)
    \/ \E k \in todo : Kill(k)
    \/ Save
    \/ Purge

Next ==
    \/ PassStep
    \/ SaveFails
    \/ PassKilled
    \/ \E p \in Pids :
          \/ \E owned \in BOOLEAN, f \in Profiles \cup {NoProfile} : Start(p, owned, f)
          \/ Exit(p)
          \/ OwnerEnds(p)
          \/ Changes(p)
    \/ \E b \in BOOLEAN : SetStalled(b)
    \/ Tick
    \/ ClockStep

Spec == Init /\ [][Next]_vars

(* The timer keeps firing, the pass is scheduled, and time passes.          *)
FairSpec == Spec /\ WF_vars(PassStep) /\ WF_vars(Tick)

-----------------------------------------------------------------------------
(* Properties.                                                             *)

(* "Only after the sighting has held across passes spanning the grace       *)
(* period" (orphan-browser-reap.py:38, and its siblings): whatever is       *)
(* signalled was a candidate at every pass for the whole grace period, as   *)
(* the same process.  Recycled pids, failed passes and clock steps do not   *)
(* shorten it.                                                              *)
GraceHeld == \A k \in due \cup hit : sighted[k.pid] = Grace

(* "only if no surviving browser names it": a profile directory is never    *)
(* deleted under a running browser.                                         *)
PurgeSpares ==
    [][\A f \in dirs \ dirs' : \A p \in Pids : ~(proc[p].up /\ proc[p].profile = f)]_vars

(* What a leak is stays bounded: a process cannot remain an orphan for ever *)
(* (the guard may alternate between two runaways, so it is not promised     *)
(* there).                                                                  *)
Reaped ==
    \A p \in Pids : (script # "runaway" /\ Candidate(p)) ~> ~Candidate(p)
=============================================================================
