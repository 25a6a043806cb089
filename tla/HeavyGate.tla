------------------------------ MODULE HeavyGate -----------------------------
(***************************************************************************)
(* The heavy-command gate, scripts/devbox-heavy-command.sh: a wrapper      *)
(* installed in front of the toolchain that queues a user's builds,        *)
(* typechecks and tests for a small pool of flock-backed slots.            *)
(*                                                                         *)
(* The kernel side is modelled as far as the script relies on it:          *)
(*   - an flock belongs to the open file description, so it is held by     *)
(*     every process that inherited the descriptor (`held`);               *)
(*   - a descriptor can be open on a slot file without its lock            *)
(*     (`stale`): a script that ran `flock -u` and kept the descriptor;    *)
(*   - children of a dead process are reparented to Root;                  *)
(*   - a systemd scope lives as long as it has a member.                   *)
(***************************************************************************)
EXTENDS Integers, FiniteSets

CONSTANTS
    Procs,        \* pids of one account; a dead one may be reused
    Root,         \* init / the user manager: the parent of every orphan
    MaxSlots,     \* bound: the largest count the slots file ever holds
    WaitTimeout,  \* DEVBOX_HEAVY_JOB_WAIT_TIMEOUT_SEC in polls; 0: no timeout
    Scopes,       \* bound: transient scopes that can exist at one time
    NoScope,      \* outside every registered scope
    NoSlot,       \* no slot taken
    NoProc,       \* no marker
    Orphaned,     \* a marker whose bootstrap was killed before its EXIT trap
    KeepsFd,      \* scripts may `flock -u` and keep the descriptor open
    Kills         \* SIGKILL can hit any process

Slots == 0..(MaxSlots - 1)

ASSUME MaxSlotsAssumption == MaxSlots \in Nat \ {0}
ASSUME WaitTimeoutAssumption == WaitTimeout \in Nat
ASSUME ProcsAssumption == IsFiniteSet(Procs)
ASSUME SentinelAssumption ==
    /\ Root \notin Procs
    /\ NoScope \notin Scopes
    /\ NoSlot \notin Slots
    /\ {NoProc, Orphaned} \cap Procs = {}
    /\ NoProc # Orphaned
ASSUME SwitchAssumption == KeepsFd \in BOOLEAN /\ Kills \in BOOLEAN

VARIABLES
    slotsFile,    \* the count /etc/agent-devbox/heavy-gate-slots lists
    pc,           \* pc[p]: what the process is doing
    parent,       \* parent[p]: PPid
    held,         \* held[s]: processes sharing the description locked on s
    stale,        \* stale[s]: processes with an unlocked descriptor on s
    own,          \* own[p]: the slot p itself locked and still runs under
    local,        \* local[p]: the shell variables of p's gate run
    scope,        \* scope[p]: the transient scope p's cgroup is
    marker        \* marker[sc]: whose heavy-job.scope.<inode> file exists

vars == <<slotsFile, pc, parent, held, stale, own, local, scope, marker>>

Phases == {"free",       \* no such pid
           "shell",      \* an ungated command: agent, shell, task runner
           "start",      \* the gate, classified heavy, before the slots
           "probe",      \* slot_held_by_ancestor, between two descriptors
           "probing",    \* ... holding the lock its probe just took
           "take",       \* the first try_take_slot
           "waiting",    \* the polling loop
           "admit",      \* past the gate, about to exec
           "run",        \* the heavy command
           "flock",      \* a hand-written flock(1), blocked on slot 0
           "wrap"}       \* ... holding slot 0 around its own command

GatePhases == {"start", "probe", "probing", "take", "waiting", "admit"}

Locals == [pool : 1..MaxSlots,           \* $slots, read once per invocation
           idx : 0..MaxSlots,            \* index of the scan, or slot probed
           cursor : Procs \cup {Root},   \* $pid of the ancestor walk
           todo : SUBSET Slots,          \* descriptors find listed, not probed
           waited : 0..WaitTimeout]      \* failed polls

NoLocals == [pool |-> 1, idx |-> 0, cursor |-> Root, todo |-> {}, waited |-> 0]

TypeOK ==
    /\ slotsFile \in 1..MaxSlots
    /\ pc \in [Procs -> Phases]
    /\ parent \in [Procs -> Procs \cup {Root}]
    /\ held \in [Slots -> SUBSET Procs]
    /\ stale \in [Slots -> SUBSET Procs]
    /\ own \in [Procs -> Slots \cup {NoSlot}]
    /\ local \in [Procs -> Locals]
    /\ scope \in [Procs -> Scopes \cup {NoScope}]
    /\ marker \in [Scopes -> Procs \cup {NoProc, Orphaned}]

Init ==
    /\ slotsFile \in 1..MaxSlots
    /\ pc = [p \in Procs |-> "free"]
    /\ parent = [p \in Procs |-> Root]
    /\ held = [s \in Slots |-> {}]
    /\ stale = [s \in Slots |-> {}]
    /\ own = [p \in Procs |-> NoSlot]
    /\ local = [p \in Procs |-> NoLocals]
    /\ scope = [p \in Procs |-> NoScope]
    /\ marker = [sc \in Scopes |-> NoProc]

-----------------------------------------------------------------------------
(* Helpers.                                                                *)

(* p and every live ancestor of p: what every set of processes contains     *)
(* that has p and, with a process, its parent.                              *)
Lineage(p) ==
    {a \in Procs : \A S \in SUBSET Procs :
        p \in S /\ (\A q \in S : parent[q] \in S \cup {Root}) => a \in S}

(* Mutant: probe every slot file, not only the ones p has open.             *)
DescriptorsAll(p) == Slots

(* The slot files find(1) lists under /proc/p/fd.                          *)
Descriptors(p) == {s \in Slots : p \in held[s] \/ p \in stale[s]}

Members(sc) == {p \in Procs : scope[p] = sc}

(* The marker file is readable and names the cgroup it stands for.         *)
InMarkedScope(p) == scope[p] # NoScope /\ marker[scope[p]] # NoProc

(* A marker of a scope that is gone matches no later cgroup: neither the   *)
(* inode nor the randomly named path comes back.                           *)
MarkersAfter(scopes, m) ==
    [sc \in Scopes |-> IF \E q \in Procs : scopes[q] = sc THEN m[sc] ELSE NoProc]

-----------------------------------------------------------------------------
(* Processes come and go.                                                  *)

CanFork(p) == pc[p] \in {"shell", "run", "wrap"}

(* p (or Root) starts q: an ungated command, a gated heavy one, or a        *)
(* hand-written flock(1) on the historical slot file.  A runtime may close  *)
(* the inherited descriptors in its child (inherit = FALSE).  A pid is not  *)
(* reused while an ancestor walk stands on it.                              *)
Spawn(p, q, phase, inherit) ==
    /\ pc[q] = "free"
    /\ p # Root => CanFork(p)
    /\ \A r \in Procs : local[r].cursor # q
    /\ pc' = [pc EXCEPT ![q] = phase]
    /\ parent' = [parent EXCEPT ![q] = p]
    /\ scope' = [scope EXCEPT ![q] = IF p = Root THEN NoScope ELSE scope[p]]
    /\ IF inherit
         THEN /\ held' = [s \in Slots |-> IF p \in held[s] THEN held[s] \cup {q} ELSE held[s]]
              /\ stale' = [s \in Slots |-> IF p \in stale[s] THEN stale[s] \cup {q} ELSE stale[s]]
         ELSE UNCHANGED <<held, stale>>
    /\ UNCHANGED <<slotsFile, own, local, marker>>

(* What the kernel does when p is gone: its descriptors close, its children *)
(* go to Root.  The bootstrap's EXIT trap removed its marker; a SIGKILL     *)
(* leaves the file behind (`left`).                                         *)
Vanish(p, left) ==
    /\ pc' = [pc EXCEPT ![p] = "free"]
    /\ parent' = [q \in Procs |-> IF q = p \/ parent[q] = p THEN Root ELSE parent[q]]
    /\ held' = [s \in Slots |-> held[s] \ {p}]
    /\ stale' = [s \in Slots |-> stale[s] \ {p}]
    /\ own' = [own EXCEPT ![p] = NoSlot]
    /\ local' = [local EXCEPT ![p] = NoLocals]
    /\ scope' = [scope EXCEPT ![p] = NoScope]
    /\ marker' = MarkersAfter(scope',
                   [sc \in Scopes |-> IF marker[sc] = p THEN left ELSE marker[sc]])
    /\ UNCHANGED slotsFile

(* Mutant: the bootstrap has no EXIT trap.                                  *)
ExitUntrapped(p) ==
    /\ pc[p] \in {"shell", "run", "wrap", "waiting", "flock"}
    /\ Vanish(p, Orphaned)

(* A command finishes; a waiting gate (exit 143) or a blocked flock(1) is    *)
(* told to stop.                                                            *)
Exit(p) ==
    /\ pc[p] \in {"shell", "run", "wrap", "waiting", "flock"}
    /\ Vanish(p, NoProc)

Kill(p) ==
    /\ Kills
    /\ pc[p] # "free"
    /\ Vanish(p, Orphaned)

(* The operator changes the count; running gates keep the one they read.    *)
SetSlots(n) ==
    /\ n # slotsFile
    /\ slotsFile' = n
    /\ UNCHANGED <<pc, parent, held, stale, own, local, scope, marker>>

-----------------------------------------------------------------------------
(* The gate's own steps.                                                   *)

Goto(p, phase) == pc' = [pc EXCEPT ![p] = phase]

(* Slots file, then the marker of the current cgroup: work inside a scope   *)
(* the gate registered runs at once, in that scope.                         *)
Start(p) ==
    /\ pc[p] = "start"
    /\ IF InMarkedScope(p)
         THEN Goto(p, "run") /\ UNCHANGED local
         ELSE /\ Goto(p, "probe")
              /\ local' = [local EXCEPT ![p] =
                    [NoLocals EXCEPT !.pool = slotsFile, !.cursor = p,
                                     !.todo = Descriptors(p)]]
    /\ UNCHANGED <<slotsFile, parent, held, stale, own, scope, marker>>

(* The outcome of the ancestor walk: run under the slot found, or scan.     *)
EndWalk(p, found) ==
    /\ Goto(p, IF found THEN "admit" ELSE "take")
    /\ local' = [local EXCEPT ![p] =
          [@ EXCEPT !.cursor = Root, !.todo = {}, !.idx = 0]]

(* flock -n on a listed slot file fails: some description holds its lock.   *)
ProbeHeld(p, s) ==
    /\ pc[p] = "probe"
    /\ s \in local[p].todo
    /\ held[s] # {}
    /\ EndWalk(p, TRUE)
    /\ UNCHANGED <<slotsFile, parent, held, stale, own, scope, marker>>

(* It succeeds: the prober itself now holds the lock, until ProbeRelease.   *)
ProbeFree(p, s) ==
    /\ pc[p] = "probe"
    /\ s \in local[p].todo
    /\ held[s] = {}
    /\ held' = [held EXCEPT ![s] = {p}]
    /\ Goto(p, "probing")
    /\ local' = [local EXCEPT ![p].idx = s]
    /\ UNCHANGED <<slotsFile, parent, stale, own, scope, marker>>

ProbeRelease(p) ==
    /\ pc[p] = "probing"
    /\ held' = [held EXCEPT ![local[p].idx] = {}]
    /\ Goto(p, "probe")
    /\ local' = [local EXCEPT ![p] =
          [@ EXCEPT !.todo = local[p].todo \ {local[p].idx}, !.idx = 0]]
    /\ UNCHANGED <<slotsFile, parent, stale, own, scope, marker>>

(* Mutant: only the gate's own descriptors are probed.                      *)
ProbeParentNever(p) ==
    /\ pc[p] = "probe"
    /\ local[p].todo = {}
    /\ EndWalk(p, FALSE)
    /\ UNCHANGED <<slotsFile, parent, held, stale, own, scope, marker>>

(* Every descriptor of the cursor probed: read its PPid and list that one's *)
(* descriptors.  The walk ends at Root, or where /proc/<pid> has vanished.  *)
ProbeParent(p) ==
    LET c == local[p].cursor
    IN  /\ pc[p] = "probe"
        /\ local[p].todo = {}
        /\ IF c = Root \/ pc[c] = "free" \/ parent[c] = Root
             THEN EndWalk(p, FALSE)
             ELSE /\ local' = [local EXCEPT ![p] =
                        [@ EXCEPT !.cursor = parent[c], !.todo = Descriptors(parent[c])]]
                  /\ UNCHANGED pc
        /\ UNCHANGED <<slotsFile, parent, held, stale, own, scope, marker>>

(* Mutant: scan every slot file, not the first $slots of them.              *)
ScanningAll(p) == pc[p] \in {"take", "waiting"} /\ local[p].idx < MaxSlots

Scanning(p) == pc[p] \in {"take", "waiting"} /\ local[p].idx < local[p].pool

(* Mutant: the status of flock -n is ignored.                               *)
TakeSlotBlind(p) ==
    LET s == local[p].idx
    IN  /\ Scanning(p)
        /\ held' = [held EXCEPT ![s] = {p}]
        /\ own' = [own EXCEPT ![p] = s]
        /\ Goto(p, "admit")
        /\ local' = [local EXCEPT ![p] = [@ EXCEPT !.idx = 0, !.waited = 0]]
        /\ UNCHANGED <<slotsFile, parent, stale, scope, marker>>

(* try_take_slot, one index per step.                                       *)
TakeSlot(p) ==
    LET s == local[p].idx
    IN  /\ Scanning(p)
        /\ held[s] = {}
        /\ held' = [held EXCEPT ![s] = {p}]
        /\ own' = [own EXCEPT ![p] = s]
        /\ Goto(p, "admit")
        /\ local' = [local EXCEPT ![p] = [@ EXCEPT !.idx = 0, !.waited = 0]]
        /\ UNCHANGED <<slotsFile, parent, stale, scope, marker>>

NextSlot(p) ==
    /\ Scanning(p)
    /\ held[local[p].idx] # {}
    /\ local' = [local EXCEPT ![p].idx = local[p].idx + 1]
    /\ UNCHANGED <<slotsFile, pc, parent, held, stale, own, scope, marker>>

Exhausted(p, phase) == pc[p] = phase /\ local[p].idx = local[p].pool

BeginWait(p) ==
    /\ Exhausted(p, "take")
    /\ Goto(p, "waiting")
    /\ local' = [local EXCEPT ![p].idx = 0]
    /\ UNCHANGED <<slotsFile, parent, held, stale, own, scope, marker>>

TimeUp(p) == WaitTimeout > 0 /\ local[p].waited >= WaitTimeout

(* Mutant: wait_started is taken anew in every round.                       *)
PollRestart(p) ==
    /\ Exhausted(p, "waiting")
    /\ ~TimeUp(p)
    /\ local' = [local EXCEPT ![p].idx = 0]
    /\ UNCHANGED <<slotsFile, pc, parent, held, stale, own, scope, marker>>

(* A failed poll: sleep and scan again, or exit 75 when the time is up.     *)
Poll(p) ==
    /\ Exhausted(p, "waiting")
    /\ ~TimeUp(p)
    /\ local' = [local EXCEPT ![p] =
          [@ EXCEPT !.idx = 0,
                    !.waited = IF WaitTimeout > 0 THEN local[p].waited + 1
                                                  ELSE local[p].waited]]
    /\ UNCHANGED <<slotsFile, pc, parent, held, stale, own, scope, marker>>

TimeOut(p) ==
    /\ Exhausted(p, "waiting")
    /\ TimeUp(p)
    /\ Vanish(p, NoProc)

(* systemd-run --scope and the bootstrap's marker; p leaves its old cgroup. *)
(* No process is forked between the two, so they are one step.              *)
AdmitScoped(p, sc) ==
    /\ pc[p] = "admit"
    /\ Members(sc) = {}
    /\ Goto(p, "run")
    /\ scope' = [scope EXCEPT ![p] = sc]
    /\ marker' = MarkersAfter(scope', [marker EXCEPT ![sc] = p])
    /\ UNCHANGED <<slotsFile, parent, held, stale, own, local>>

(* No memory limit, no systemd-run or no reachable user manager: fail open. *)
AdmitUnscoped(p) ==
    /\ pc[p] = "admit"
    /\ Goto(p, "run")
    /\ UNCHANGED <<slotsFile, parent, held, stale, own, local, scope, marker>>

-----------------------------------------------------------------------------
(* Hand-written locking around the gate.                                   *)

(* flock(1) gets slot 0; until then it blocks.                              *)
FlockTake(p) ==
    /\ pc[p] = "flock"
    /\ held[0] = {}
    /\ held' = [held EXCEPT ![0] = {p}]
    /\ own' = [own EXCEPT ![p] = 0]
    /\ Goto(p, "wrap")
    /\ UNCHANGED <<slotsFile, parent, stale, local, scope, marker>>

(* `flock -u` in a script that keeps the descriptor and goes on.            *)
FlockUnlock(p) ==
    /\ KeepsFd
    /\ pc[p] = "wrap"
    /\ held' = [held EXCEPT ![0] = {}]
    /\ stale' = [stale EXCEPT ![0] = @ \cup held[0]]
    /\ own' = [own EXCEPT ![p] = NoSlot]
    /\ Goto(p, "shell")
    /\ UNCHANGED <<slotsFile, parent, local, scope, marker>>

GateStep(p) ==
    \/ Start(p)
    \/ \E s \in Slots : ProbeHeld(p, s) \/ ProbeFree(p, s)
    \/ ProbeRelease(p)
    \/ ProbeParent(p)
    \/ TakeSlot(p)
    \/ NextSlot(p)
    \/ BeginWait(p)
    \/ Poll(p)
    \/ TimeOut(p)
    \/ \E sc \in Scopes : AdmitScoped(p, sc)
    \/ AdmitUnscoped(p)

EnvStep(p) ==
    \/ \E q \in Procs, phase \in {"shell", "start", "flock"}, inherit \in BOOLEAN :
          Spawn(p, q, phase, inherit)
    \/ Exit(p)
    \/ Kill(p)
    \/ FlockTake(p)
    \/ FlockUnlock(p)

Next ==
    \/ \E q \in Procs, phase \in {"shell", "start", "flock"} :
          Spawn(Root, q, phase, FALSE)
    \/ \E p \in Procs : GateStep(p) \/ EnvStep(p)
    \/ \E n \in 1..MaxSlots : SetSlots(n)

Spec == Init /\ [][Next]_vars

(* The gate is an ordinary runnable process: a step it can take it takes.   *)
(* Nothing makes the other processes finish.                                *)
FairSpec == Spec /\ \A p \in Procs : WF_vars(GateStep(p))

-----------------------------------------------------------------------------
(* Properties.                                                             *)

(* The processes that locked a slot themselves and have not given it back. *)
Holder(p) == own[p] # NoSlot

(* A slot admits one job: whoever took it still shares its lock, and no     *)
(* one else took the same one - a gate's own job and a hand-written flock   *)
(* around the gate alike.  (try_take_slot and the slot-0 name.)             *)
SlotExclusive ==
    \A p, q \in Procs :
        Holder(p) => /\ p \in held[own[p]]
                     /\ Holder(q) /\ own[q] = own[p] => q = p

(* Jobs the gate admitted through the pool while the file listed at most n  *)
(* slots never number more than n, whatever it listed before or since.      *)
PooledJobsBounded ==
    \A n \in 1..MaxSlots :
        Cardinality({p \in Procs : /\ Holder(p)
                                   /\ pc[p] \in {"admit", "run"}
                                   /\ local[p].pool <= n}) <= n

(* Nested work never queues behind the job it belongs to: that would        *)
(* deadlock with one slot (comment above slot_held_by_ancestor).            *)
NoWaitOnOwnJob ==
    \A p \in Procs :
        pc[p] \in {"take", "waiting"} =>
            \A a \in Lineage(p), s \in Slots : a \notin held[s]

(* A command let through without a slot of its own is covered: the walk     *)
(* found the slot on an ancestor that does hold its lock (or that died      *)
(* during the walk), or the scope's marker was written by a job still       *)
(* running.  ("The probe proves the descriptor's lock is really held".)     *)
ProbeCovered ==
    [][\A p \in Procs :
          pc[p] = "probe" /\ pc'[p] = "admit" =>
              LET c == local[p].cursor
              IN  pc[c] = "free" \/ \E s \in local[p].todo : c \in held[s]]_vars

MarkerCovered ==
    [][\A p \in Procs :
          pc[p] = "start" /\ pc'[p] = "run" =>
              \E b \in Procs : b = marker[scope[p]] /\ pc[b] = "run"]_vars
(* Every gated command is decided - admitted, or refused with exit 75 - in  *)
(* finitely many of its own steps, whatever the running jobs do.            *)
GateDecides ==
    \A p \in Procs : pc[p] \in GatePhases ~> pc[p] \notin GatePhases

(* The gate implements the slot pool.  A probe's momentary lock is not a    *)
(* job.                                                                     *)
Jobs(s) ==
    IF \E p \in Procs : pc[p] = "probing" /\ local[p].idx = s THEN {} ELSE held[s]

Pool == INSTANCE SlotPool WITH jobs <- [s \in Slots |-> Jobs(s)]

PoolSpec == Pool!Spec
=============================================================================
