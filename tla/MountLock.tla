------------------------------ MODULE MountLock ------------------------------
(***************************************************************************)
(* clients/devbox/src/mount-lock.ts: the one lock file around every change *)
(* of bridges.json.  The file is created with O_EXCL and its owner written *)
(* into it a moment later; a lock whose owner is dead is deleted and the   *)
(* creation retried once.  Nothing ties the file that is deleted to the    *)
(* file that was read.                                                     *)
(*                                                                         *)
(* A Cli is a place where one `devbox` command at a time runs: the agent   *)
(* that launchd starts every 60 s, a terminal.                             *)
(***************************************************************************)
EXTENDS Integers, FiniteSets

CONSTANTS
    Clis,
    NoCli,
    Contend,      \* two commands may judge one stale lock at the same time
    MaxFaults     \* bound: crashes, unreadable evidence and failed steps

ASSUME CliAssumption == NoCli \notin Clis
ASSUME ContendAssumption == Contend \in BOOLEAN
ASSUME FaultsAssumption == MaxFaults \in Nat

VARIABLES
    lock,    \* the file: is it there, has it an owner, does the owner live
    pc,      \* pc[c]: where the command of c is
    tries,   \* tries[c]: stale locks it has deleted
    faults   \* faults so far

lockVars == <<lock, pc, tries, faults>>

(* An "empty" file is created and its owner not yet written; by is the      *)
(* command that created it.                                                 *)
Files == [is : {"none", "empty", "live", "dead"}, by : Clis \cup {NoCli}]

NoFile == [is |-> "none", by |-> NoCli]

LockPhases == {"idle", "create", "write", "judge", "break", "held", "release", "unlink"}

LockInit ==
    /\ lock = NoFile
    /\ pc = [c \in Clis |-> "idle"]
    /\ tries = [c \in Clis |-> 0]
    /\ faults = 0

(* The commands between acquireMountLock's return and the release.          *)
Holders == {c \in Clis : pc[c] \notin {"idle", "create", "write", "judge", "break", "unlink"}}

-----------------------------------------------------------------------------
Goto(c, phase) == pc' = [pc EXCEPT ![c] = phase]

Fault ==
    /\ faults < MaxFaults
    /\ faults' = faults + 1

(* openSync(path, "wx").                                                    *)
Create(c) ==
    /\ pc[c] = "create"
    /\ IF lock = NoFile
         THEN lock' = [is |-> "empty", by |-> c] /\ Goto(c, "write")
         ELSE lock' = lock /\ Goto(c, "judge")
    /\ UNCHANGED <<tries, faults>>

(* The owner goes to the open descriptor: to nobody's lock if the file has  *)
(* been deleted since.                                                      *)
Write(c) ==
    /\ pc[c] = "write"
    /\ lock' = IF lock = [is |-> "empty", by |-> c] THEN [lock EXCEPT !.is = "live"] ELSE lock
    /\ Goto(c, "held")
    /\ UNCHANGED <<tries, faults>>

(* Mutant: a lock file without an owner counts as stale.                    *)
JudgeDeadOrEmpty(c) ==
    /\ pc[c] = "judge"
    /\ lock.is \in {"dead", "empty"}
    /\ Contend \/ \A d \in Clis : pc[d] # "break"
    /\ Goto(c, "break")
    /\ UNCHANGED <<lock, tries, faults>>

(* EEXIST: only an owner that is proven gone lets the command go on.        *)
JudgeDead(c) ==
    /\ pc[c] = "judge"
    /\ lock.is = "dead"
    /\ Contend \/ \A d \in Clis : pc[d] # "break"
    /\ Goto(c, "break")
    /\ UNCHANGED <<lock, tries, faults>>

(* "already running", "ownership is unknown": the command fails.            *)
JudgeOther(c) ==
    /\ pc[c] = "judge"
    /\ lock.is # "dead"
    /\ Goto(c, "idle")
    /\ tries' = [tries EXCEPT ![c] = 0]
    /\ UNCHANGED <<lock, faults>>

(* ps does not answer, or another process has the owner's pid by now.       *)
JudgeUnsure(c) ==
    /\ Fault
    /\ pc[c] = "judge"
    /\ Goto(c, "idle")
    /\ tries' = [tries EXCEPT ![c] = 0]
    /\ UNCHANGED lock

(* unlinkSync of whatever has the name now, and at most one more attempt.   *)
Break(c) ==
    /\ pc[c] = "break"
    /\ lock' = NoFile
    /\ IF tries[c] = 0
         THEN Goto(c, "create") /\ tries' = [tries EXCEPT ![c] = 1]
         ELSE Goto(c, "idle") /\ tries' = [tries EXCEPT ![c] = 0]
    /\ UNCHANGED faults

(* release: reads the token,                                                *)
CheckToken(c) ==
    /\ pc[c] = "release"
    /\ IF lock = [is |-> "live", by |-> c]
         THEN Goto(c, "unlink") /\ tries' = tries
         ELSE Goto(c, "idle") /\ tries' = [tries EXCEPT ![c] = 0]
    /\ UNCHANGED <<lock, faults>>

(* and then deletes the name.                                               *)
Unlink(c) ==
    /\ pc[c] = "unlink"
    /\ lock' = NoFile
    /\ Goto(c, "idle")
    /\ tries' = [tries EXCEPT ![c] = 0]
    /\ UNCHANGED faults

(* The process of the command is gone without a release.  This is what a    *)
(* kill does, and what die does: process.exit skips `finally`.              *)
Gone(c) ==
    /\ lock' = IF lock = [is |-> "live", by |-> c] THEN [lock EXCEPT !.is = "dead"] ELSE lock
    /\ Goto(c, "idle")
    /\ tries' = [tries EXCEPT ![c] = 0]

LockStep(c) ==
    \/ Create(c)
    \/ Write(c)
    \/ JudgeDead(c)
    \/ JudgeOther(c)
    \/ Break(c)
    \/ CheckToken(c)
    \/ Unlink(c)

-----------------------------------------------------------------------------
(* "bridges.json is shared by every profile, so lifecycle/state mutation is *)
(* global" (mount-lock.ts:19): no two commands are inside at once.          *)
LockExcludes == \A c, d \in Holders : c = d
=============================================================================
