--------------------------- MODULE MountBridgeProofs --------------------------
(***************************************************************************)
(* Theorems about MountLock and the commands of MountBridge that run under *)
(* it, for any number of commands, labels, bridges and faults.             *)
(***************************************************************************)
EXTENDS MountBridge, TLAPS

(***************************************************************************)
(* Types.                                                                  *)
(***************************************************************************)
CommandType ==
    /\ lock \in Files
    /\ pc \in [Clis -> Phases]
    /\ tries \in [Clis -> 0..1]
    /\ cmd \in [Clis -> {"up", "down", "status", "recover"}]
    /\ scope \in [Clis -> SUBSET Labels]
    /\ victims \in [Clis -> SUBSET Nonces]
    /\ mine \in [Clis -> Nonces \cup {NoNonce}]
    /\ \A c \in Clis : (mine[c] # NoNonce) <=> pc[c] \in AtBridge

WorldType ==
    /\ faults \in 0..MaxFaults
    /\ bridges \subseteq Entries
    /\ rclone \in [Nonces -> {"none", "up", "term"}]
    /\ ssh \in [Nonces -> {"none", "up", "cut", "term"}]
    /\ fs \in [Labels -> Nonces \cup {NoNonce}]
    /\ busy \subseteq {l \in Labels : fs[l] # NoNonce}

LEMMA Types == TypeOK <=> CommandType /\ WorldType
  BY DEF TypeOK, CommandType, WorldType

LEMMA InitType == Init => TypeOK
  BY CliAssumption, FaultsAssumption
  DEF Init, LockInit, TypeOK, Files, NoFile, Phases, LockPhases, AtBridge, Entries

LEMMA LabelType == \A n \in Nonces : Label(n) \in Labels
  BY DEF Label, Nonces

LEMMA ContinueType ==
  ASSUME NEW c \in Clis, CommandType, NEW x \in Phases, Continue(c, x),
         x \in AtBridge <=> pc[c] \in AtBridge, UNCHANGED local
  PROVE  CommandType'
  BY DEF CommandType, Continue, Goto, local

LEMMA FinishType ==
  ASSUME NEW c \in Clis, CommandType, Finish(c)
  PROVE  CommandType'
  BY DEF CommandType, Finish, Forget, Goto, Phases, LockPhases, AtBridge

LEMMA DieType ==
  ASSUME NEW c \in Clis, CommandType, Die(c)
  PROVE  CommandType'
  BY DEF CommandType, Die, Gone, Forget, Goto, Phases, LockPhases, AtBridge, Files

LEMMA LockingType ==
  ASSUME NEW c \in Clis, CommandType, Locking(c)
  PROVE  CommandType'
<1> DEFINE Locks == lock' \in Files /\ tries' \in [Clis -> 0..1]
                    /\ \E x \in LockPhases : pc[c] \in LockPhases /\ Goto(c, x)
<1>1. ASSUME LockStep(c) PROVE Locks
  <2> USE DEF CommandType, Files, Goto, LockPhases
  <2>1. CASE Create(c)
    BY <2>1 DEF Create
  <2>2. CASE Write(c)
    BY <2>2 DEF Write
  <2>3. CASE JudgeDead(c)
    BY <2>3 DEF JudgeDead
  <2>4. CASE JudgeOther(c)
    BY <2>4 DEF JudgeOther
  <2>5. CASE Break(c)
    BY <2>5, CliAssumption DEF Break, NoFile
  <2>6. CASE CheckToken(c)
    BY <2>6 DEF CheckToken
  <2>7. CASE Unlink(c)
    BY <2>7, CliAssumption DEF Unlink, NoFile
  <2> QED BY <1>1, <2>1, <2>2, <2>3, <2>4, <2>5, <2>6, <2>7 DEF LockStep
<1>2. ASSUME JudgeUnsure(c) PROVE Locks
  BY <1>2 DEF JudgeUnsure, CommandType, LockPhases
<1>3. Locks
  BY <1>1, <1>2 DEF Locking
<1>4. PICK x \in LockPhases : Goto(c, x)
  BY <1>3
<1>5. pc' \in [Clis -> Phases] /\ pc'[c] \notin AtBridge /\ pc[c] \notin AtBridge
  BY <1>3, <1>4 DEF Goto, CommandType, Phases, LockPhases, AtBridge
<1>6. \A d \in Clis : d # c => pc'[d] = pc[d]
  BY <1>4 DEF Goto, CommandType
<1>7. Forget(c) \/ UNCHANGED local
  BY DEF Locking
<1> QED BY <1>3, <1>5, <1>6, <1>7 DEF Forget, local, CommandType

LEMMA StopType ==
  ASSUME WorldType, NEW N \in SUBSET Nonces, Stop(N)
  PROVE  /\ rclone' \in [Nonces -> {"none", "up", "term"}]
         /\ ssh' \in [Nonces -> {"none", "up", "cut", "term"}]
  BY DEF WorldType, Stop, Signalled

LEMMA FaultType == WorldType /\ Fault => faults' \in 0..MaxFaults
  BY FaultsAssumption DEF WorldType, Fault

LEMMA ReconcileType ==
  ASSUME WorldType, NEW unsure, NEW extra \in SUBSET Entries,
         Reconcile(unsure, extra), UNCHANGED remote
  PROVE  WorldType'
<1> DEFINE stale == {e \in bridges \ unsure : Stale(e)}
           alone == {e \in stale : rclone[e.id] # "none" \/ ssh[e.id] # "none"}
<1>1. /\ unsure # {} => Fault
      /\ unsure = {} => faults' = faults
      /\ bridges' = (bridges \ (stale \ alone)) \cup extra
      /\ Stop({e.id : e \in alone})
  BY DEF Reconcile
<1>2. {e.id : e \in alone} \in SUBSET Nonces
  BY DEF WorldType, Entries
<1>3. faults' \in 0..MaxFaults
  BY <1>1, FaultType DEF WorldType
<1>4. bridges' \subseteq Entries
  BY <1>1 DEF WorldType
<1>5. /\ rclone' \in [Nonces -> {"none", "up", "term"}]
      /\ ssh' \in [Nonces -> {"none", "up", "cut", "term"}]
  BY <1>1, <1>2, StopType
<1> QED BY <1>3, <1>4, <1>5 DEF WorldType, remote

LEMMA MineType ==
  ASSUME NEW c \in Clis, CommandType, pc[c] \in AtBridge
  PROVE  mine[c] \in Nonces /\ Label(mine[c]) \in Labels
  BY LabelType DEF CommandType

LEMMA BeginType ==
  ASSUME TypeOK, NEW c \in Clis, NEW k \in Commands \cup {"up"}, NEW L \in SUBSET Labels, Begin(c, k, L)
  PROVE  CommandType' /\ WorldType'
<1>1. CommandType'
  BY CommandsAssumption
  DEF Begin, Continue, Goto, TypeOK, CommandType, Phases, LockPhases, AtBridge
<1>2. WorldType'
  BY DEF Begin, TypeOK, WorldType, client, remote
<1> QED BY <1>1, <1>2

LEMMA EnterType ==
  ASSUME TypeOK, NEW c \in Clis, NEW unsure, Enter(c, unsure)
  PROVE  CommandType' /\ WorldType'
<1> USE Types
<1>1. WorldType'
  BY ReconcileType DEF Enter
<1>2. cmd[c] \in {"up", "down", "status", "recover"} /\ pc[c] = "held" /\ cmd[c] # "recover"
  BY DEF Enter, TypeOK
<1>3. CASE cmd[c] = "up"
  <2>1. Continue(c, "health") /\ UNCHANGED local
    BY <1>3 DEF Enter
  <2> QED BY <1>1, <1>2, <2>1, ContinueType DEF Phases, LockPhases, AtBridge
<1>4. CASE cmd[c] = "status"
  <2>1. Finish(c)
    BY <1>4 DEF Enter
  <2> QED BY <1>1, <2>1, FinishType
<1>5. CASE cmd[c] = "down"
  <2> DEFINE these == {e.id : e \in {x \in bridges' : Label(x.id) \in scope[c]}}
  <2>1. these \subseteq Nonces
    BY <1>1 DEF WorldType, Entries
  <2>2. {Label(n) : n \in these} \subseteq Labels
    BY <2>1, LabelType
  <2>3. CASE these = {}
    <3>1. Finish(c)
      BY <1>5, <2>3 DEF Enter
    <3> QED BY <1>1, <3>1, FinishType
  <2>4. CASE these # {}
    <3> HIDE DEF these
    <3>1. /\ Continue(c, "unmount")
          /\ scope' = [scope EXCEPT ![c] = {Label(n) : n \in these}]
          /\ victims' = [victims EXCEPT ![c] = these]
          /\ UNCHANGED <<cmd, mine>>
      BY <1>5, <2>4 DEF Enter, these
    <3>2. CommandType'
      BY <1>2, <2>1, <2>2, <3>1 DEF Continue, Goto, CommandType, Phases, LockPhases, AtBridge
    <3> QED BY <1>1, <3>2
  <2> QED BY <2>3, <2>4
<1> QED BY <1>2, <1>3, <1>4, <1>5

LEMMA HealthType ==
  ASSUME TypeOK, NEW c \in Clis, Health(c) \/ HealthUnknown(c)
  PROVE  CommandType' /\ WorldType'
<1> USE Types
<1>1. WorldType'
  BY FaultType DEF Health, HealthUnknown, WorldType, client, remote
<1>2. CASE Finish(c)
  BY <1>1, <1>2, FinishType
<1>3. CASE ~Finish(c)
  <2> DEFINE start == {l \in scope[c] : Of(l) = {} /\ fs[l] = NoNonce}
  <2>1. /\ pc[c] = "health"
        /\ Continue(c, "reserve")
        /\ scope' = [scope EXCEPT ![c] = start]
        /\ UNCHANGED <<cmd, victims, mine>>
    BY <1>3 DEF Health, HealthUnknown
  <2>2. start \subseteq Labels
    BY DEF CommandType
  <2> HIDE DEF start
  <2>3. CommandType'
    BY <2>1, <2>2 DEF Continue, Goto, CommandType, Phases, LockPhases, AtBridge
  <2> QED BY <1>1, <2>3
<1> QED BY <1>2, <1>3

LEMMA ReserveType ==
  ASSUME TypeOK, NEW c \in Clis, NEW n \in Nonces, NEW unsure, Reserve(c, n, unsure)
  PROVE  CommandType' /\ WorldType'
<1> USE Types
<1>1. {[id |-> n, pids |-> FALSE]} \in SUBSET Entries
  BY DEF Entries
<1>2. WorldType'
  BY <1>1, ReconcileType DEF Reserve, remote
<1>3. n # NoNonce
  BY NoncesAssumption DEF Nonces
<1>4. CommandType'
  BY <1>3 DEF Reserve, Continue, Goto, CommandType, Phases, LockPhases, AtBridge
<1> QED BY <1>2, <1>4

(* The steps of a start that go on with the same bridge.                    *)
LEMMA StartType ==
  ASSUME TypeOK, NEW c \in Clis,
         SpawnRclone(c) \/ SpawnSsh(c) \/ Commit(c) \/ CommitFails(c) \/ NotReady(c) \/ Cleanup(c) \/ StopStarted(c)
  PROVE  CommandType' /\ WorldType'
<1> USE Types
<1>1. pc[c] \in AtBridge /\ \E x \in AtBridge : Continue(c, x) /\ UNCHANGED local
  BY DEF SpawnRclone, SpawnSsh, Commit, CommitFails, NotReady, Cleanup, StopStarted, AtBridge
<1>2. CommandType'
  BY <1>1, ContinueType DEF AtBridge, Phases
<1>3. mine[c] \in Nonces /\ Label(mine[c]) \in Labels
  BY <1>1, MineType
<1>4. CASE SpawnRclone(c) \/ SpawnSsh(c)
  BY <1>2, <1>3, <1>4 DEF SpawnRclone, SpawnSsh, WorldType, remote
<1>5. CASE Commit(c)
  <2>1. [id |-> mine[c], pids |-> TRUE] \in Entries
    BY <1>3 DEF Entries
  <2> QED BY <1>2, <1>5, <2>1 DEF Commit, Without, WorldType, remote
<1>6. CASE CommitFails(c) \/ NotReady(c)
  BY <1>2, <1>6, FaultType DEF CommitFails, NotReady, WorldType, client, remote
<1>7. CASE Cleanup(c)
  <2>1. faults' \in 0..MaxFaults
    BY <1>7, FaultType DEF Cleanup, WorldType
  <2> QED BY <1>2, <1>3, <1>7, <2>1 DEF Cleanup, Unmounted, WorldType, remote
<1>8. CASE StopStarted(c)
  <2>1. {mine[c]} \in SUBSET Nonces
    BY <1>3
  <2> QED BY <1>2, <1>8, <2>1, StopType DEF StopStarted, WorldType, remote
<1> QED BY <1>4, <1>5, <1>6, <1>7, <1>8

(* The steps with which a command dies.                                     *)
LEMMA DeathType ==
  ASSUME TypeOK, NEW c \in Clis,
         ReserveFails(c) \/ ProofFails(c) \/ ProvenGone(c) \/ NotProven(c) \/ Crash(c)
  PROVE  CommandType' /\ WorldType'
<1> USE Types
<1>1. CommandType'
  BY DieType DEF ReserveFails, ProofFails, ProvenGone, NotProven, Crash
<1>2. CASE ReserveFails(c) \/ NotProven(c) \/ Crash(c)
  BY <1>1, <1>2, FaultType DEF ReserveFails, NotProven, Crash, WorldType, client, remote
<1>3. CASE ProvenGone(c)
  BY <1>1, <1>3 DEF ProvenGone, Without, WorldType, remote
<1>4. CASE ProofFails(c)
  <2>1. mine[c] \in Nonces
    BY <1>4, MineType DEF ProofFails, AtBridge
  <2>2. faults' \in 0..MaxFaults
    BY <1>4, FaultType DEF ProofFails, WorldType
  <2>3. bridges' \subseteq Entries
    BY <1>4 DEF ProofFails, Without, WorldType
  <2>4. /\ rclone' \in [Nonces -> {"none", "up", "term"}]
        /\ ssh' \in [Nonces -> {"none", "up", "cut", "term"}]
    BY <1>4, <2>1 DEF ProofFails, Signalled, WorldType
  <2> QED BY <1>1, <1>4, <2>2, <2>3, <2>4 DEF ProofFails, WorldType, remote
<1> QED BY <1>2, <1>3, <1>4

LEMMA ReadyType ==
  ASSUME TypeOK, NEW c \in Clis, Ready(c)
  PROVE  CommandType' /\ WorldType'
<1> USE Types
<1>1. WorldType'
  BY DEF Ready, WorldType, client, remote
<1>2. CommandType'
  BY DEF Ready, Continue, Goto, CommandType, Phases, LockPhases, AtBridge
<1> QED BY <1>1, <1>2

LEMMA EvidenceType ==
  ASSUME TypeOK, NEW c \in Clis, Evidence(c)
  PROVE  CommandType' /\ WorldType'
<1> USE Types
<1>1. WorldType'
  BY DEF Evidence, WorldType, client, remote
<1>2. CASE Finish(c)
  BY <1>1, <1>2, FinishType
<1>3. CASE /\ cmd' = [cmd EXCEPT ![c] = "up"]
           /\ Continue(c, "held")
           /\ UNCHANGED <<scope, victims, mine>>
  BY <1>1, <1>3 DEF Evidence, Continue, Goto, CommandType, Phases, LockPhases, AtBridge
<1>4. CASE /\ \E e \in bridges : victims' = [victims EXCEPT ![c] = {e.id}]
           /\ Continue(c, "unmount")
           /\ UNCHANGED <<cmd, scope, mine>>
  <2>1. \A e \in bridges : {e.id} \in SUBSET Nonces
    BY DEF WorldType, Entries
  <2> QED BY <1>1, <1>4, <2>1 DEF Evidence, Continue, Goto, CommandType, Phases, LockPhases, AtBridge
<1> QED BY <1>2, <1>3, <1>4 DEF Evidence, Of

LEMMA UnmountType ==
  ASSUME TypeOK, NEW c \in Clis, NEW e \in bridges, Unmount(c, e) \/ UnmountRefused(c, e)
  PROVE  CommandType' /\ WorldType'
<1> USE Types
<1>1. e.id \in Nonces /\ e.id # NoNonce /\ Label(e.id) \in Labels
  BY LabelType, NoncesAssumption DEF WorldType, Entries, Nonces
<1>2. CASE Unmount(c, e)
  <2>1. WorldType'
    BY <1>1, <1>2 DEF Unmount, Unmounted, WorldType
  <2>2. CommandType'
    BY <1>1, <1>2 DEF Unmount, Continue, Goto, CommandType, Phases, LockPhases, AtBridge
  <2> QED BY <2>1, <2>2
<1>3. CASE UnmountRefused(c, e)
  BY <1>3, DieType, FinishType, FaultType DEF UnmountRefused, Refuse, WorldType, client, remote
<1> QED BY <1>2, <1>3

LEMMA StopVictimType ==
  ASSUME TypeOK, NEW c \in Clis, StopVictim(c)
  PROVE  CommandType' /\ WorldType'
<1> USE Types
<1>1. mine[c] \in Nonces /\ pc[c] = "assess"
  BY MineType DEF StopVictim, AtBridge
<1>2. CASE rclone[mine[c]] # "none" /\ ssh[mine[c]] # "none"
  <2>1. {mine[c]} \in SUBSET Nonces /\ Stop({mine[c]})
    BY <1>1, <1>2 DEF StopVictim
  <2>2. WorldType'
    BY <2>1, StopType DEF StopVictim, WorldType, remote
  <2>3. CommandType'
    BY <1>1, <1>2 DEF StopVictim, Continue, Goto, CommandType, Phases, LockPhases, AtBridge
  <2> QED BY <2>2, <2>3
<1>3. CASE ~(rclone[mine[c]] # "none" /\ ssh[mine[c]] # "none")
  BY <1>3, DieType, FinishType DEF StopVictim, Refuse, WorldType, remote
<1> QED BY <1>2, <1>3

LEMMA DropType ==
  ASSUME TypeOK, NEW c \in Clis, Drop(c)
  PROVE  CommandType' /\ WorldType'
<1> USE Types
<1>1. WorldType'
  BY DEF Drop, WorldType, remote
<1>2. CASE Finish(c)
  BY <1>1, <1>2, FinishType
<1>3. CASE ~Finish(c)
  <2>1. {Label(n) : n \in victims[c]} \subseteq Labels
    BY LabelType DEF CommandType
  <2>2. CommandType'
    BY <1>3, <2>1 DEF Drop, Continue, Goto, CommandType, Phases, LockPhases, AtBridge
  <2> QED BY <1>1, <2>2
<1> QED BY <1>2, <1>3

LEMMA CliStepType ==
  ASSUME TypeOK, NEW c \in Clis, CliStep(c)
  PROVE  CommandType' /\ WorldType'
<1>1. CASE Locking(c)
  <2>1. CommandType'
    BY <1>1, Types, LockingType
  <2>2. faults' \in 0..MaxFaults
    BY <1>1, Types, FaultType
    DEF Locking, LockStep, Create, Write, JudgeDead, JudgeOther, Break, CheckToken, Unlink, JudgeUnsure, WorldType
  <2> QED BY <1>1, <2>1, <2>2, Types DEF Locking, WorldType, client, remote
<1> QED
  BY <1>1, EnterType, HealthType, ReserveType, StartType, DeathType, ReadyType, EvidenceType,
     UnmountType, StopVictimType, DropType DEF CliStep

(* The box, the connection, the processes.                                  *)
LEMMA WorldStepType ==
  ASSUME TypeOK,
         \/ \E n \in Nonces : Mounts(n) \/ Cut(n) \/ Exits(n) \/ Dies(n)
         \/ \E l \in Labels : SshfsEnds(l) \/ Opens(l) \/ Closes(l)
  PROVE  CommandType' /\ WorldType'
<1> USE Types
<1>1. CommandType'
  BY DEF Mounts, Cut, Exits, Dies, SshfsEnds, Opens, Closes, lockVars, local, CommandType
<1>2. ASSUME NEW n \in Nonces, Mounts(n) PROVE WorldType'
  BY <1>2, LabelType, NoncesAssumption DEF Mounts, WorldType, lockVars, Nonces
<1>3. ASSUME NEW n \in Nonces, Cut(n) \/ Exits(n) \/ Dies(n) PROVE WorldType'
  BY <1>3, FaultType DEF Cut, Exits, Dies, WorldType, lockVars, remote
<1>4. ASSUME NEW l \in Labels, SshfsEnds(l) PROVE WorldType'
  BY <1>4 DEF SshfsEnds, WorldType, lockVars
<1>5. ASSUME NEW l \in Labels, Opens(l) \/ Closes(l) PROVE WorldType'
  BY <1>5 DEF Opens, Closes, WorldType, lockVars, client
<1> QED BY <1>1, <1>2, <1>3, <1>4, <1>5

LEMMA NextType == TypeOK /\ [Next]_vars => TypeOK'
<1> SUFFICES ASSUME TypeOK, [Next]_vars PROVE CommandType' /\ WorldType'
  BY Types, PTL
<1>1. ASSUME NEW c \in Clis, NEW k \in Commands \cup {"up"}, NEW L \in SUBSET Labels \ {{}}, Begin(c, k, L)
      PROVE  CommandType' /\ WorldType'
  BY <1>1, BeginType
<1>2. ASSUME NEW c \in Clis, CliStep(c) \/ Crash(c) PROVE CommandType' /\ WorldType'
  BY <1>2, CliStepType, DeathType
<1>3. CASE UNCHANGED vars
  BY <1>3, Types DEF vars, lockVars, client, remote, local, CommandType, WorldType
<1> QED BY <1>1, <1>2, <1>3, WorldStepType DEF Next

(* Every variable keeps its type.                                           *)
THEOREM TypeCorrect == Spec => []TypeOK
  BY InitType, NextType, PTL DEF Spec

-----------------------------------------------------------------------------
(* Who has created the file with an owner in it and not yet deleted it.     *)
Inside == Phases \ {"idle", "create", "write", "judge", "break"}

LockTypes == lock \in Files /\ pc \in [Clis -> Phases]

(* The file names the command that is inside, or about to be,               *)
FileNamesOwner ==
    \A c \in Clis :
        /\ pc[c] \in Inside => lock = [is |-> "live", by |-> c]
        /\ pc[c] = "write" => lock = [is |-> "empty", by |-> c]

(* and only a dead owner's file is about to be deleted, by one command.     *)
BreaksDead ==
    \A c \in Clis : pc[c] = "break" =>
        /\ lock.is = "dead"
        /\ \A d \in Clis : pc[d] = "break" => d = c

LockInv == LockTypes /\ FileNamesOwner /\ BreaksDead

-----------------------------------------------------------------------------
LEMMA InitLockInv == Init => LockInv
  BY CliAssumption
  DEF Init, LockInit, LockInv, LockTypes, FileNamesOwner, BreaksDead, Files, NoFile, Phases, LockPhases, Inside

(* What the commands do to the lock besides LockStep: nothing, start,       *)
(* go on inside, go.                                                        *)
GoesOn(c) == pc[c] \in Inside /\ lock' = lock /\ \E x \in Inside : Goto(c, x)

Starts(c) == pc[c] = "idle" /\ lock' = lock /\ Goto(c, "create")

Leaves(c) ==
    /\ lock' = IF lock = [is |-> "live", by |-> c] THEN [lock EXCEPT !.is = "dead"] ELSE lock
    /\ Goto(c, "idle")

GivesUp(c) == pc[c] = "judge" /\ lock' = lock /\ Goto(c, "idle")

LEMMA QuietLockInv == LockInv /\ UNCHANGED <<lock, pc>> => LockInv'
  BY DEF LockInv, LockTypes, FileNamesOwner, BreaksDead

LEMMA GoesOnLockInv == ASSUME NEW c \in Clis, LockInv, GoesOn(c) PROVE LockInv'
  BY DEF LockInv, LockTypes, FileNamesOwner, BreaksDead, GoesOn, Goto, Inside, Phases, LockPhases

LEMMA StartsLockInv == ASSUME NEW c \in Clis, LockInv, Starts(c) PROVE LockInv'
  BY DEF LockInv, LockTypes, FileNamesOwner, BreaksDead, Starts, Goto, Inside, Phases, LockPhases

LEMMA GivesUpLockInv == ASSUME NEW c \in Clis, LockInv, GivesUp(c) PROVE LockInv'
  BY DEF LockInv, LockTypes, FileNamesOwner, BreaksDead, GivesUp, Goto, Inside, Phases, LockPhases

LEMMA LeavesLockInv == ASSUME NEW c \in Clis, LockInv, Leaves(c) PROVE LockInv'
<1>1. lock' \in Files
  BY DEF LockInv, LockTypes, Leaves, Files
<1>2. pc' = [pc EXCEPT ![c] = "idle"] /\ pc' \in [Clis -> Phases]
  BY DEF LockInv, LockTypes, Leaves, Goto, Phases, LockPhases
<1>3. \A d \in Clis : d # c => pc'[d] = pc[d]
  BY <1>2 DEF LockInv, LockTypes
<1>4. pc'[c] = "idle"
  BY <1>2 DEF LockInv, LockTypes
<1>5. CASE lock = [is |-> "live", by |-> c]
  <2>1. \A d \in Clis : d # c => pc[d] \notin Inside /\ pc[d] # "write" /\ pc[d] # "break"
    BY <1>5 DEF LockInv, FileNamesOwner, BreaksDead
  <2> QED BY <1>1, <1>2, <1>3, <1>4, <2>1 DEF LockInv, LockTypes, FileNamesOwner, BreaksDead, Inside
<1>6. CASE lock # [is |-> "live", by |-> c]
  BY <1>1, <1>2, <1>3, <1>4, <1>6 DEF LockInv, LockTypes, FileNamesOwner, BreaksDead, Inside, Leaves
<1> QED BY <1>5, <1>6

LEMMA LockStepLockInv ==
  ASSUME ~Contend, NEW c \in Clis, LockInv, LockStep(c)
  PROVE  LockInv'
<1> USE DEF LockInv, LockTypes, FileNamesOwner, BreaksDead, Files, Goto, Inside, Phases, LockPhases
<1>1. CASE Create(c)
  BY <1>1 DEF Create, NoFile
<1>2. CASE Write(c)
  BY <1>2 DEF Write
<1>3. CASE JudgeDead(c)
  BY <1>3 DEF JudgeDead
<1>4. CASE JudgeOther(c)
  BY <1>4 DEF JudgeOther
<1>5. CASE Break(c)
  BY <1>5, CliAssumption DEF Break, NoFile
<1>6. CASE CheckToken(c)
  BY <1>6 DEF CheckToken
<1>7. CASE Unlink(c)
  BY <1>7, CliAssumption DEF Unlink, NoFile
<1> QED BY <1>1, <1>2, <1>3, <1>4, <1>5, <1>6, <1>7 DEF LockStep

(* Every step of a command under the lock goes on inside, or goes.          *)
LEMMA CliStepMoves ==
  ASSUME TypeOK, NEW c \in Clis, LockInv, CliStep(c)
  PROVE  LockStep(c) \/ GivesUp(c) \/ GoesOn(c) \/ Leaves(c)
<1> USE DEF Inside, Phases, LockPhases, GoesOn, Leaves, Continue, Finish, Die, Gone
<1>1. CASE Locking(c)
  BY <1>1 DEF Locking, JudgeUnsure, GivesUp
<1>2. ASSUME NEW unsure \in Unsures, Enter(c, unsure) PROVE GoesOn(c)
  <2>1. pc[c] = "held" /\ cmd[c] \in {"up", "down", "status", "recover"}
    BY <1>2 DEF Enter, TypeOK
  <2>2. CASE cmd[c] = "up"
    BY <1>2, <2>1, <2>2 DEF Enter
  <2>3. CASE cmd[c] = "status"
    BY <1>2, <2>1, <2>3 DEF Enter
  <2>4. CASE cmd[c] = "down"
    BY <1>2, <2>1, <2>4 DEF Enter
  <2>5. cmd[c] # "recover"
    BY <1>2 DEF Enter
  <2> QED BY <2>1, <2>2, <2>3, <2>4, <2>5
<1>3. ASSUME NEW unsure \in Unsures, NEW n \in Nonces, Reserve(c, n, unsure) PROVE GoesOn(c)
  BY <1>3 DEF Reserve
<1>4. CASE Health(c)
  BY <1>4 DEF Health
<1>5. CASE HealthUnknown(c)
  BY <1>5 DEF HealthUnknown
<1>6. CASE ReserveFails(c)
  BY <1>6 DEF ReserveFails
<1>7. CASE SpawnRclone(c) \/ SpawnSsh(c)
  BY <1>7 DEF SpawnRclone, SpawnSsh
<1>8. CASE ProofFails(c)
  BY <1>8 DEF ProofFails
<1>9. CASE Commit(c) \/ CommitFails(c)
  BY <1>9 DEF Commit, CommitFails
<1>10. CASE Ready(c) \/ NotReady(c)
  BY <1>10 DEF Ready, NotReady
<1>11. CASE Cleanup(c) \/ StopStarted(c)
  BY <1>11 DEF Cleanup, StopStarted
<1>12. CASE ProvenGone(c) \/ NotProven(c)
  BY <1>12 DEF ProvenGone, NotProven
<1>13. CASE Evidence(c)
  BY <1>13 DEF Evidence
<1>14. ASSUME NEW e \in bridges, Unmount(c, e) \/ UnmountRefused(c, e) PROVE GoesOn(c) \/ Leaves(c)
  BY <1>14 DEF Unmount, UnmountRefused, Refuse
<1>15. CASE StopVictim(c)
  BY <1>15 DEF StopVictim, Refuse
<1>16. CASE Drop(c)
  BY <1>16 DEF Drop
<1> QED
  BY <1>1, <1>2, <1>3, <1>4, <1>5, <1>6, <1>7, <1>8, <1>9, <1>10, <1>11, <1>12, <1>13, <1>14, <1>15, <1>16
  DEF CliStep

LEMMA NextLockInv == ~Contend /\ TypeOK /\ LockInv /\ [Next]_vars => LockInv'
<1> SUFFICES ASSUME ~Contend, TypeOK, LockInv, [Next]_vars PROVE LockInv'
  OBVIOUS
<1>1. ASSUME NEW c \in Clis, NEW k, NEW L, Begin(c, k, L) PROVE LockInv'
  BY <1>1, StartsLockInv DEF Begin, Continue, Starts
<1>2. ASSUME NEW c \in Clis, CliStep(c) PROVE LockInv'
  BY <1>2, CliStepMoves, LockStepLockInv, GivesUpLockInv, GoesOnLockInv, LeavesLockInv
<1>3. ASSUME NEW c \in Clis, Crash(c) PROVE LockInv'
  BY <1>3, LeavesLockInv DEF Crash, Die, Gone, Leaves
<1>4. ASSUME NEW n \in Nonces, Mounts(n) \/ Cut(n) \/ Exits(n) \/ Dies(n) PROVE LockInv'
  BY <1>4, QuietLockInv DEF Mounts, Cut, Exits, Dies, lockVars
<1>5. ASSUME NEW l \in Labels, SshfsEnds(l) \/ Opens(l) \/ Closes(l) PROVE LockInv'
  BY <1>5, QuietLockInv DEF SshfsEnds, Opens, Closes, lockVars
<1>6. CASE UNCHANGED vars
  BY <1>6, QuietLockInv DEF vars, lockVars
<1> QED BY <1>1, <1>2, <1>3, <1>4, <1>5, <1>6 DEF Next

-----------------------------------------------------------------------------
(***************************************************************************)
(* One pair of processes per label.  bridges.json has at most one entry of *)
(* a label, because a command only reserves what it found to be absent     *)
(* while it kept everybody else out; and an entry is only removed when its *)
(* processes are gone or have been told to go.                             *)
(***************************************************************************)
Single == \A e, f \in bridges : Label(e.id) = Label(f.id) => e = f

Starting == {"spawn", "rclone", "commit", "ready"}

Removing == {"unmount", "assess", "drop"}

(* What a command relies on between its steps.                              *)
Relies(c) ==
    /\ pc[c] = "reserve" => \A l \in scope[c] : Of(l) = {}
    /\ pc[c] \in Starting => \A l \in scope[c] \ {Label(mine[c])} : Of(l) = {}
    /\ pc[c] \in {"spawn", "rclone"} => \E e \in bridges : e.id = mine[c]
    /\ pc[c] \in Removing =>
          /\ \A n, m \in victims[c] : Label(n) = Label(m) => n = m
          /\ \A n \in victims[c] : Label(n) \in scope[c] \/ ~Running(n)
    /\ pc[c] = "assess" => mine[c] \in victims[c]
    /\ pc[c] = "drop" => scope[c] = {}

PairInv == Tracked /\ Single /\ \A c \in Clis : Relies(c)

LEMMA InitPairInv == Init => PairInv
  BY DEF Init, LockInit, PairInv, Tracked, Single, Relies, Running, Starting, Removing

Working == {"reserve"} \cup Starting \cup Removing

LEMMA NotWorking == ASSUME NEW c \in Clis, pc[c] \notin Working PROVE Relies(c)
  BY DEF Relies, Working, Starting, Removing

(* Nobody else is inside while a command is; and what another command       *)
(* relies on is not touched by one that is outside.                         *)
LEMMA OneStep ==
  ASSUME TypeOK, LockInv, PairInv, NEW c \in Clis,
         \A d \in Clis : d # c =>
            pc'[d] = pc[d] /\ scope'[d] = scope[d] /\ victims'[d] = victims[d] /\ mine'[d] = mine[d],
         pc[c] \in Inside \/ UNCHANGED client,
         Tracked', Single', Relies(c)'
  PROVE  PairInv'
<1>1. ASSUME NEW d \in Clis, d # c, pc[c] \in Inside PROVE Relies(d)'
  <2>1. pc[d] \notin Inside
    BY <1>1 DEF LockInv, FileNamesOwner
  <2>2. pc'[d] \notin Working
    BY <1>1, <2>1 DEF TypeOK, Working, Starting, Removing, Inside, Phases, LockPhases
  <2> QED BY <2>2 DEF Relies, Working, Starting, Removing
<1>2. ASSUME NEW d \in Clis, d # c, UNCHANGED client PROVE Relies(d)'
  BY <1>2 DEF PairInv, Relies, client, Of, Running
<1> QED BY <1>1, <1>2 DEF PairInv

(* What changes nothing but the world, and starts nothing there.            *)
LEMMA NothingStarts ==
  ASSUME PairInv, bridges' = bridges, UNCHANGED local, pc' = pc,
         \A n \in Nonces : Running(n)' => Running(n), TypeOK
  PROVE  PairInv'
<1>1. Tracked'
  BY DEF PairInv, Tracked
<1>2. Single'
  BY DEF PairInv, Single
<1>3. ASSUME NEW c \in Clis PROVE Relies(c)'
  <2>1. victims[c] \subseteq Nonces
    BY DEF TypeOK
  <2> QED BY <2>1 DEF PairInv, Relies, local, Of
<1> QED BY <1>1, <1>2, <1>3 DEF PairInv

LEMMA StopStarts ==
  ASSUME TypeOK, NEW N \in SUBSET Nonces, Stop(N)
  PROVE  \A n \in Nonces : (Running(n)' => Running(n)) /\ (n \in N => ~Running(n)')
  BY DEF Stop, Signalled, Running, TypeOK

LEMMA ReconcileTracks ==
  ASSUME TypeOK, Tracked, NEW unsure, NEW extra \in SUBSET Entries, Reconcile(unsure, extra)
  PROVE  /\ Tracked'
         /\ bridges' \subseteq bridges \cup extra
         /\ extra \subseteq bridges'
         /\ \A n \in Nonces : Running(n)' => Running(n)
<1> DEFINE stale == {e \in bridges \ unsure : Stale(e)}
           alone == {e \in stale : rclone[e.id] # "none" \/ ssh[e.id] # "none"}
<1>1. /\ bridges' = (bridges \ (stale \ alone)) \cup extra
      /\ Stop({e.id : e \in alone})
  BY DEF Reconcile
<1>2. {e.id : e \in alone} \in SUBSET Nonces
  BY DEF TypeOK, Entries
<1>3. \A n \in Nonces : Running(n)' => Running(n)
  BY <1>1, <1>2, StopStarts
<1>4. ASSUME NEW n \in Nonces, Running(n)' PROVE \E e \in bridges' : e.id = n
  <2>1. Running(n)
    BY <1>3, <1>4
  <2>2. PICK e \in bridges : e.id = n
    BY <2>1 DEF Tracked
  <2>3. e \notin stale \ alone
    BY <2>1, <2>2 DEF Running
  <2> QED BY <1>1, <2>2, <2>3
<1>5. Tracked'
  BY <1>4 DEF Tracked
<1> QED BY <1>1, <1>3, <1>5

-----------------------------------------------------------------------------
(* The steps that leave bridges.json and the processes alone, or only end   *)
(* processes, and whose command no longer works on any.                     *)
LEMMA StopsWorking ==
  ASSUME TypeOK, LockInv, PairInv, NEW c \in Clis, NEW x \in Phases \ Working, Goto(c, x), 
         Forget(c) \/ UNCHANGED local,
         pc[c] \in Inside \/ UNCHANGED client,
         Tracked', bridges' \subseteq bridges
  PROVE  PairInv'
<1>1. pc'[c] \notin Working
  BY DEF Goto, TypeOK
<1>2. Relies(c)'
  BY <1>1 DEF Relies, Working, Starting, Removing
<1>3. Single'
  BY DEF PairInv, Single
<1>4. \A d \in Clis : d # c =>
            pc'[d] = pc[d] /\ scope'[d] = scope[d] /\ victims'[d] = victims[d] /\ mine'[d] = mine[d]
  BY DEF Goto, Forget, local, TypeOK
<1> QED BY <1>2, <1>3, <1>4, OneStep

LEMMA TrackedStays == Tracked /\ UNCHANGED client => Tracked'
  BY DEF Tracked, Running, client

LEMMA LockingPairInv ==
  ASSUME TypeOK, LockInv, PairInv, NEW c \in Clis, Locking(c)
  PROVE  PairInv'
<1>1. \E x \in Phases \ Working : Goto(c, x)
  BY DEF Locking, LockStep, Create, Write, JudgeDead, JudgeOther, Break, CheckToken, Unlink, JudgeUnsure,
         Phases, LockPhases, Working, Starting, Removing
<1>2. (Forget(c) \/ UNCHANGED local) /\ UNCHANGED client
  BY DEF Locking
<1>3. Tracked' /\ bridges' \subseteq bridges
  BY <1>2, TrackedStays DEF PairInv, client
<1> QED BY <1>1, <1>2, <1>3, StopsWorking

LEMMA BeginPairInv ==
  ASSUME TypeOK, LockInv, PairInv, NEW c \in Clis, NEW k, NEW L, Begin(c, k, L)
  PROVE  PairInv'
<1>1. pc' = [pc EXCEPT ![c] = "create"] /\ scope' = [scope EXCEPT ![c] = L]
      /\ UNCHANGED <<client, victims, mine>>
  BY DEF Begin, Continue, Goto
<1>2. Relies(c)'
  BY <1>1 DEF Relies, Working, Starting, Removing, TypeOK
<1>3. Tracked' /\ Single'
  BY <1>1, TrackedStays DEF PairInv, client, Single
<1> QED BY <1>1, <1>2, <1>3, OneStep DEF TypeOK

LEMMA EnterPairInv ==
  ASSUME TypeOK, LockInv, PairInv, NEW c \in Clis, NEW unsure, Enter(c, unsure), TypeOK'
  PROVE  PairInv'
<1>1. Tracked' /\ bridges' \subseteq bridges
  BY ReconcileTracks DEF Enter, PairInv
<1>2. cmd[c] \in {"up", "down", "status", "recover"} /\ pc[c] = "held" /\ cmd[c] # "recover"
  BY DEF Enter, TypeOK
<1>3. pc[c] \in Inside
  BY <1>2 DEF Inside, Phases, LockPhases
<1>4. CASE Finish(c)
  BY <1>1, <1>3, <1>4, StopsWorking DEF Finish, Phases, LockPhases, Working, Starting, Removing
<1>5. CASE Continue(c, "health") /\ UNCHANGED local
  BY <1>1, <1>3, <1>5, StopsWorking DEF Continue, Phases, LockPhases, Working, Starting, Removing
<1> DEFINE these == {e.id : e \in {x \in bridges' : Label(x.id) \in scope[c]}}
<1>6. CASE /\ Continue(c, "unmount")
           /\ scope' = [scope EXCEPT ![c] = {Label(n) : n \in these}]
           /\ victims' = [victims EXCEPT ![c] = these]
           /\ UNCHANGED <<cmd, mine>>
  <2>1. Single'
    BY <1>1 DEF PairInv, Single
  <2>2. \A n, m \in these : Label(n) = Label(m) => n = m
    BY <2>1 DEF Single
  <2>3. \A n \in these : Label(n) \in {Label(m) : m \in these}
    OBVIOUS
  <2> HIDE DEF these
  <2>4. pc'[c] = "unmount" /\ victims'[c] = these /\ scope'[c] = {Label(n) : n \in these}
    BY <1>6 DEF Continue, Goto, TypeOK
  <2>5. Relies(c)'
    BY <2>2, <2>3, <2>4 DEF Relies, Starting, Removing
  <2>6. \A d \in Clis : d # c =>
            pc'[d] = pc[d] /\ scope'[d] = scope[d] /\ victims'[d] = victims[d] /\ mine'[d] = mine[d]
    BY <1>6 DEF Continue, Goto, TypeOK
  <2> QED BY <1>1, <1>3, <2>1, <2>5, <2>6, OneStep
<1>7. CASE cmd[c] = "up"
  BY <1>5, <1>7 DEF Enter
<1>8. CASE cmd[c] = "status"
  BY <1>4, <1>8 DEF Enter
<1>9. CASE cmd[c] = "down"
  <2>1. CASE these = {}
    BY <1>4, <1>9, <2>1 DEF Enter
  <2>2. CASE these # {}
    BY <1>6, <1>9, <2>2 DEF Enter
  <2> QED BY <2>1, <2>2
<1> QED BY <1>2, <1>7, <1>8, <1>9

LEMMA HealthPairInv ==
  ASSUME TypeOK, LockInv, PairInv, NEW c \in Clis, Health(c) \/ HealthUnknown(c)
  PROVE  PairInv'
<1>1. UNCHANGED client /\ pc[c] = "health"
  BY DEF Health, HealthUnknown
<1>2. Tracked' /\ Single' /\ bridges' \subseteq bridges
  BY <1>1, TrackedStays DEF PairInv, client, Single
<1>3. CASE Finish(c)
  BY <1>1, <1>2, <1>3, StopsWorking DEF Finish, Phases, LockPhases, Working, Starting, Removing
<1> DEFINE start == {l \in scope[c] : Of(l) = {} /\ fs[l] = NoNonce}
<1>4. CASE ~Finish(c)
  <2>1. /\ Continue(c, "reserve")
        /\ scope' = [scope EXCEPT ![c] = start]
        /\ UNCHANGED <<cmd, victims, mine>>
    BY <1>4 DEF Health, HealthUnknown
  <2>2. pc'[c] = "reserve" /\ scope'[c] = start
    BY <2>1 DEF Continue, Goto, TypeOK
  <2>3. \A l \in start : Of(l)' = {}
    BY <1>1 DEF client, Of
  <2>4. Relies(c)'
    BY <2>2, <2>3 DEF Relies, Starting, Removing
  <2> HIDE DEF start
  <2>5. \A d \in Clis : d # c =>
            pc'[d] = pc[d] /\ scope'[d] = scope[d] /\ victims'[d] = victims[d] /\ mine'[d] = mine[d]
    BY <2>1 DEF Continue, Goto, TypeOK
  <2> QED BY <1>1, <1>2, <2>4, <2>5, OneStep
<1> QED BY <1>3, <1>4

LEMMA ReservePairInv ==
  ASSUME TypeOK, LockInv, PairInv, NEW c \in Clis, NEW n \in Nonces, NEW unsure, Reserve(c, n, unsure)
  PROVE  PairInv'
<1> DEFINE new == [id |-> n, pids |-> FALSE]
<1>1. {new} \in SUBSET Entries /\ new.id = n
  BY DEF Entries
<1>2. Reconcile(unsure, {new})
  BY DEF Reserve
<1>3. pc[c] = "reserve" /\ Label(n) \in scope[c] /\ \A l \in scope[c] : Of(l) = {}
  BY DEF Reserve, PairInv, Relies
<1> HIDE DEF new
<1>4. Tracked' /\ bridges' \subseteq bridges \cup {new} /\ new \in bridges'
  BY <1>1, <1>2, ReconcileTracks DEF PairInv
<1>5. \A e \in bridges : Label(e.id) \notin scope[c]
  BY <1>3 DEF Of
<1>6. Single'
  BY <1>1, <1>3, <1>4, <1>5 DEF PairInv, Single
<1>7. \A l \in scope[c] \ {Label(n)} : Of(l)' = {}
  BY <1>1, <1>4, <1>5 DEF Of
<1>8. /\ pc'[c] = "spawn" /\ mine'[c] = n /\ scope' = scope
      /\ \A d \in Clis : d # c =>
            pc'[d] = pc[d] /\ scope'[d] = scope[d] /\ victims'[d] = victims[d] /\ mine'[d] = mine[d]
  BY DEF Reserve, Continue, Goto, TypeOK
<1>9. Relies(c)'
  BY <1>1, <1>4, <1>7, <1>8 DEF Relies, Starting, Removing
<1>10. pc[c] \in Inside
  BY <1>3 DEF Inside, Phases, LockPhases
<1> QED BY <1>4, <1>6, <1>8, <1>9, <1>10, OneStep

(* A process is started only for a bridge that bridges.json has.            *)
LEMMA SpawnPairInv ==
  ASSUME TypeOK, LockInv, PairInv, NEW c \in Clis, SpawnRclone(c) \/ SpawnSsh(c)
  PROVE  PairInv'
<1>1. /\ pc[c] \in {"spawn", "rclone"} /\ bridges' = bridges /\ UNCHANGED local
      /\ \E x \in {"rclone", "commit"} : Goto(c, x)
      /\ pc[c] = "rclone" => Goto(c, "commit")
  BY DEF SpawnRclone, SpawnSsh, Continue
<1>2. mine[c] \in Nonces /\ \E e \in bridges : e.id = mine[c]
  BY <1>1, MineType, Types DEF PairInv, Relies, AtBridge
<1>3. \A n \in Nonces : n # mine[c] => (Running(n)' => Running(n))
  BY DEF SpawnRclone, SpawnSsh, Running, TypeOK
<1>4. Tracked' /\ Single'
  BY <1>1, <1>2, <1>3 DEF PairInv, Tracked, Single
<1>5. pc'[c] \in {"rclone", "commit"}
  BY <1>1 DEF Goto, TypeOK
<1>6. Relies(c)'
  BY <1>1, <1>2, <1>5 DEF PairInv, Relies, Starting, Removing, local, Of
<1>7. \A d \in Clis : d # c =>
            pc'[d] = pc[d] /\ scope'[d] = scope[d] /\ victims'[d] = victims[d] /\ mine'[d] = mine[d]
  BY <1>1 DEF Goto, local, TypeOK
<1>8. pc[c] \in Inside
  BY <1>1 DEF Inside, Phases, LockPhases
<1> QED BY <1>4, <1>6, <1>7, <1>8, OneStep

LEMMA CommitPairInv ==
  ASSUME TypeOK, LockInv, PairInv, NEW c \in Clis, Commit(c)
  PROVE  PairInv'
<1>1. pc[c] = "commit" /\ UNCHANGED local /\ UNCHANGED <<rclone, ssh>>
  BY DEF Commit
<1>2. pc[c] \in Inside /\ mine[c] \in Nonces
  BY <1>1, MineType, Types DEF Inside, Phases, LockPhases, AtBridge
<1>3. CASE Without(mine[c]) = bridges
  <2>1. Goto(c, "cleanup") /\ bridges' = bridges
    BY <1>3 DEF Commit, Continue
  <2>2. Tracked'
    BY <1>1, <2>1 DEF PairInv, Tracked, Running
  <2> QED BY <1>1, <1>2, <2>1, <2>2, StopsWorking DEF Phases, LockPhases, Working, Starting, Removing
<1>4. CASE Without(mine[c]) # bridges
  <2> DEFINE new == [id |-> mine[c], pids |-> TRUE]
  <2>1. Goto(c, "ready") /\ bridges' = Without(mine[c]) \cup {new} /\ new.id = mine[c]
    BY <1>4 DEF Commit, Continue
  <2> HIDE DEF new
  <2>2. PICK old \in bridges : old.id = mine[c]
    BY <1>4 DEF Without
  <2>3. Tracked'
    BY <1>1, <2>1 DEF PairInv, Tracked, Running, Without
  <2>4. Single'
    BY <2>1, <2>2 DEF PairInv, Single, Without
  <2>5. pc'[c] = "ready" /\ scope' = scope /\ mine' = mine /\ UNCHANGED victims
    BY <1>1, <2>1 DEF Goto, TypeOK, local
  <2>6. \A l \in scope[c] \ {Label(mine[c])} : Of(l) = {}
    BY <1>1 DEF PairInv, Relies, Starting
  <2>7. \A l \in scope[c] \ {Label(mine[c])} : Of(l)' = {}
    BY <2>1, <2>6 DEF Of, Without
  <2>8. Relies(c)'
    BY <2>5, <2>7 DEF Relies, Starting, Removing
  <2>9. \A d \in Clis : d # c =>
            pc'[d] = pc[d] /\ scope'[d] = scope[d] /\ victims'[d] = victims[d] /\ mine'[d] = mine[d]
    BY <1>1, <2>1 DEF Goto, local, TypeOK
  <2> QED BY <1>2, <2>3, <2>4, <2>8, <2>9, OneStep
<1> QED BY <1>3, <1>4

LEMMA ReadyPairInv ==
  ASSUME TypeOK, LockInv, PairInv, NEW c \in Clis, Ready(c)
  PROVE  PairInv'
<1>1. pc[c] = "ready" /\ UNCHANGED client /\ scope' = [scope EXCEPT ![c] = scope[c] \ {Label(mine[c])}]
      /\ mine' = [mine EXCEPT ![c] = NoNonce] /\ victims' = victims
      /\ \E x \in {"release", "reserve"} : Goto(c, x)
  BY DEF Ready, Continue
<1>2. Tracked' /\ Single'
  BY <1>1, TrackedStays DEF PairInv, Single, client
<1>3. \A l \in scope'[c] : Of(l)' = {}
  BY <1>1 DEF PairInv, Relies, Starting, Of, client, TypeOK
<1>4. pc'[c] \in {"release", "reserve"}
  BY <1>1 DEF Goto, TypeOK
<1>5. Relies(c)'
  BY <1>3, <1>4 DEF Relies, Starting, Removing
<1>6. \A d \in Clis : d # c =>
            pc'[d] = pc[d] /\ scope'[d] = scope[d] /\ victims'[d] = victims[d] /\ mine'[d] = mine[d]
  BY <1>1 DEF Goto, TypeOK
<1>7. pc[c] \in Inside
  BY <1>1 DEF Inside, Phases, LockPhases
<1> QED BY <1>2, <1>5, <1>6, <1>7, OneStep

(* The end of a start that failed.                                          *)
LEMMA FailedStartPairInv ==
  ASSUME TypeOK, LockInv, PairInv, NEW c \in Clis,
         CommitFails(c) \/ NotReady(c) \/ Cleanup(c) \/ StopStarted(c)
  PROVE  PairInv'
<1>1. pc[c] \in {"commit", "ready", "cleanup", "stop"} /\ bridges' = bridges /\ UNCHANGED local
      /\ \E x \in {"cleanup", "stop", "gone"} : Goto(c, x)
  BY DEF CommitFails, NotReady, Cleanup, StopStarted, Continue, client
<1>2. pc[c] \in Inside /\ mine[c] \in Nonces
  BY <1>1, MineType, Types DEF Inside, Phases, LockPhases, AtBridge
<1>3. \A n \in Nonces : Running(n)' => Running(n)
  <2>1. CASE CommitFails(c) \/ NotReady(c)
    BY <2>1 DEF CommitFails, NotReady, client, Running
  <2>2. CASE Cleanup(c)
    BY <2>2 DEF Cleanup, Unmounted, Running, TypeOK
  <2>3. CASE StopStarted(c)
    BY <1>2, <2>3, StopStarts DEF StopStarted
  <2> QED BY <2>1, <2>2, <2>3
<1>4. Tracked'
  BY <1>1, <1>3 DEF PairInv, Tracked
<1> QED BY <1>1, <1>2, <1>4, StopsWorking DEF Phases, LockPhases, Working, Starting, Removing

LEMMA DeathPairInv ==
  ASSUME TypeOK, LockInv, PairInv, NEW c \in Clis,
         ReserveFails(c) \/ ProofFails(c) \/ ProvenGone(c) \/ NotProven(c) \/ Crash(c)
  PROVE  PairInv'
<1>1. Goto(c, "idle") /\ Forget(c)
  BY DEF ReserveFails, ProofFails, ProvenGone, NotProven, Crash, Die, Gone
<1>2. CASE ReserveFails(c) \/ NotProven(c) \/ Crash(c)
  <2>1. UNCHANGED client
    BY <1>2 DEF ReserveFails, NotProven, Crash
  <2>2. Tracked' /\ bridges' \subseteq bridges
    BY <2>1, TrackedStays DEF PairInv, client
  <2> QED BY <1>1, <2>1, <2>2, StopsWorking DEF Phases, LockPhases, Working, Starting, Removing
<1>3. CASE ProvenGone(c)
  <2>1. Tracked' /\ bridges' \subseteq bridges /\ pc[c] = "gone"
    BY <1>3 DEF ProvenGone, Without, PairInv, Tracked, Running
  <2>2. pc[c] \in Inside
    BY <2>1 DEF Inside, Phases, LockPhases
  <2> QED BY <1>1, <2>1, <2>2, StopsWorking DEF Phases, LockPhases, Working, Starting, Removing
<1>4. CASE ProofFails(c)
  <2>1. pc[c] \in Inside /\ mine[c] \in Nonces
    BY <1>4, MineType, Types DEF ProofFails, Inside, Phases, LockPhases, AtBridge
  <2>2. CASE /\ rclone' = [rclone EXCEPT ![mine[c]] = "none"]
             /\ ssh' = [ssh EXCEPT ![mine[c]] = "none"]
             /\ bridges' = Without(mine[c])
    <3>1. Tracked' /\ bridges' \subseteq bridges
      BY <2>1, <2>2 DEF Without, PairInv, Tracked, Running, TypeOK
    <3> QED BY <1>1, <2>1, <3>1, StopsWorking DEF Phases, LockPhases, Working, Starting, Removing
  <2>3. CASE /\ rclone' \in {rclone, Signalled({mine[c]}, rclone)}
             /\ ssh' = Signalled({mine[c]}, ssh)
             /\ bridges' = bridges
    <3>1. \A n \in Nonces : Running(n)' => Running(n)
      BY <2>1, <2>3 DEF Running, Signalled, TypeOK
    <3>2. Tracked' /\ bridges' \subseteq bridges
      BY <2>3, <3>1 DEF PairInv, Tracked
    <3> QED BY <1>1, <2>1, <3>2, StopsWorking DEF Phases, LockPhases, Working, Starting, Removing
  <2> QED BY <1>4, <2>2, <2>3 DEF ProofFails
<1> QED BY <1>2, <1>3, <1>4

LEMMA EvidencePairInv ==
  ASSUME TypeOK, LockInv, PairInv, NEW c \in Clis, Evidence(c)
  PROVE  PairInv'
<1>1. UNCHANGED client /\ pc[c] = "held"
  BY DEF Evidence
<1>2. Tracked' /\ Single' /\ bridges' \subseteq bridges
  BY <1>1, TrackedStays DEF PairInv, client, Single
<1>3. pc[c] \in Inside
  BY <1>1 DEF Inside, Phases, LockPhases
<1>4. CASE Finish(c)
  BY <1>2, <1>3, <1>4, StopsWorking DEF Finish, Phases, LockPhases, Working, Starting, Removing
<1>5. CASE /\ cmd' = [cmd EXCEPT ![c] = "up"]
           /\ Continue(c, "held")
           /\ UNCHANGED <<scope, victims, mine>>
  <2>1. pc'[c] = "held"
    BY <1>5 DEF Continue, Goto, TypeOK
  <2>2. Relies(c)'
    BY <2>1 DEF Relies, Starting, Removing
  <2> QED BY <1>2, <1>3, <1>5, <2>2, OneStep DEF Continue, Goto, TypeOK
<1>6. ASSUME NEW l \in scope[c], NEW e \in Of(l),
             victims' = [victims EXCEPT ![c] = {e.id}], Continue(c, "unmount"), UNCHANGED <<cmd, scope, mine>>
      PROVE  PairInv'
  <2>1. pc'[c] = "unmount" /\ victims'[c] = {e.id} /\ scope'[c] = scope[c] /\ Label(e.id) = l
    BY <1>6 DEF Continue, Goto, TypeOK, Of
  <2>2. Relies(c)'
    BY <2>1 DEF Relies, Starting, Removing
  <2>3. \A d \in Clis : d # c =>
            pc'[d] = pc[d] /\ scope'[d] = scope[d] /\ victims'[d] = victims[d] /\ mine'[d] = mine[d]
    BY <1>6 DEF Continue, Goto, TypeOK
  <2> QED BY <1>2, <1>3, <2>2, <2>3, OneStep
<1> QED BY <1>4, <1>5, <1>6 DEF Evidence

LEMMA UnmountPairInv ==
  ASSUME TypeOK, LockInv, PairInv, NEW c \in Clis, NEW e \in bridges, Unmount(c, e) \/ UnmountRefused(c, e)
  PROVE  PairInv'
<1>1. pc[c] = "unmount" /\ e.id \in victims[c] /\ bridges' = bridges
  BY DEF Unmount, UnmountRefused, client
<1>2. pc[c] \in Inside /\ e.id \in Nonces
  BY <1>1 DEF Inside, Phases, LockPhases, TypeOK
<1>3. CASE Unmount(c, e)
  <2>1. \A n \in Nonces : Running(n)' => Running(n)
    BY <1>2, <1>3 DEF Unmount, Unmounted, Running, TypeOK
  <2>2. Tracked' /\ Single'
    BY <1>1, <2>1 DEF PairInv, Tracked, Single
  <2>3. /\ pc'[c] = "assess" /\ mine'[c] = e.id /\ UNCHANGED <<scope, victims>>
        /\ \A d \in Clis : d # c =>
            pc'[d] = pc[d] /\ scope'[d] = scope[d] /\ victims'[d] = victims[d] /\ mine'[d] = mine[d]
    BY <1>3 DEF Unmount, Continue, Goto, TypeOK
  <2>4. victims[c] \subseteq Nonces
    BY DEF TypeOK
  <2>5. Relies(c)'
    BY <1>1, <2>1, <2>3, <2>4 DEF PairInv, Relies, Starting, Removing
  <2> QED BY <1>2, <2>2, <2>3, <2>5, OneStep
<1>4. CASE UnmountRefused(c, e)
  <2>1. Tracked'
    BY <1>4, TrackedStays DEF UnmountRefused, PairInv
  <2>2. \E x \in {"idle", "release"} : Goto(c, x) /\ Forget(c)
    BY <1>4 DEF UnmountRefused, Refuse, Die, Gone, Finish
  <2> QED BY <1>1, <1>2, <2>1, <2>2, StopsWorking DEF Phases, LockPhases, Working, Starting, Removing
<1> QED BY <1>3, <1>4

LEMMA StopVictimPairInv ==
  ASSUME TypeOK, LockInv, PairInv, NEW c \in Clis, StopVictim(c)
  PROVE  PairInv'
<1>1. pc[c] = "assess" /\ bridges' = bridges
  BY DEF StopVictim
<1>2. /\ pc[c] \in Inside /\ mine[c] \in Nonces /\ mine[c] \in victims[c] /\ victims[c] \subseteq Nonces
      /\ \A n, m \in victims[c] : Label(n) = Label(m) => n = m
      /\ \A n \in victims[c] : Label(n) \in scope[c] \/ ~Running(n)
  BY <1>1, MineType, Types DEF Inside, Phases, LockPhases, AtBridge, PairInv, Relies, Removing, CommandType
<1>3. CASE rclone[mine[c]] # "none" /\ ssh[mine[c]] # "none"
  <2>1. /\ Stop({mine[c]})
        /\ scope' = [scope EXCEPT ![c] = scope[c] \ {Label(mine[c])}]
        /\ mine' = [mine EXCEPT ![c] = NoNonce]
        /\ Goto(c, IF scope[c] = {Label(mine[c])} THEN "drop" ELSE "unmount")
        /\ victims' = victims
    BY <1>3 DEF StopVictim, Continue
  <2>2. \A n \in Nonces : Running(n)' => Running(n)
    BY <1>2, <2>1, StopStarts
  <2>3. \A n \in Nonces : n = mine[c] => ~Running(n)'
    BY <1>2, <2>1, StopStarts
  <2>4. Tracked' /\ Single'
    BY <1>1, <2>2 DEF PairInv, Tracked, Single
  <2>5. /\ pc'[c] = IF scope[c] = {Label(mine[c])} THEN "drop" ELSE "unmount"
        /\ scope'[c] = scope[c] \ {Label(mine[c])}
        /\ victims'[c] = victims[c]
        /\ \A d \in Clis : d # c =>
            pc'[d] = pc[d] /\ scope'[d] = scope[d] /\ victims'[d] = victims[d] /\ mine'[d] = mine[d]
    BY <2>1 DEF Goto, TypeOK
  <2>6. \A n \in victims[c] : Label(n) \in scope'[c] \/ ~Running(n)'
    BY <1>2, <2>2, <2>3, <2>5
  <2>7. pc'[c] \in {"drop", "unmount"} /\ (pc'[c] = "drop" => scope'[c] = {})
    BY <2>5
  <2>8. \A n, m \in victims'[c] : Label(n) = Label(m) => n = m
    BY <1>2, <2>5
  <2>9. Relies(c)'
    BY <2>5, <2>6, <2>7, <2>8 DEF Relies, Starting, Removing
  <2> QED BY <1>2, <2>4, <2>5, <2>9, OneStep
<1>4. CASE ~(rclone[mine[c]] # "none" /\ ssh[mine[c]] # "none")
  <2>1. UNCHANGED client /\ \E x \in {"idle", "release"} : Goto(c, x) /\ Forget(c)
    BY <1>4 DEF StopVictim, Refuse, Die, Gone, Finish, client
  <2>2. Tracked'
    BY <2>1, TrackedStays DEF PairInv
  <2> QED BY <1>1, <1>2, <2>1, <2>2, StopsWorking DEF Phases, LockPhases, Working, Starting, Removing
<1> QED BY <1>3, <1>4

(* Every victim has been told to stop by now.                               *)
LEMMA DropPairInv ==
  ASSUME TypeOK, LockInv, PairInv, NEW c \in Clis, Drop(c)
  PROVE  PairInv'
<1>1. pc[c] = "drop" /\ bridges' = {e \in bridges : e.id \notin victims[c]} /\ UNCHANGED <<rclone, ssh>>
  BY DEF Drop
<1>2. pc[c] \in Inside /\ \A n \in victims[c] : ~Running(n)
  BY <1>1 DEF Inside, Phases, LockPhases, PairInv, Relies, Removing
<1>3. Tracked' /\ bridges' \subseteq bridges
  BY <1>1, <1>2 DEF PairInv, Tracked, Running
<1>4. CASE Finish(c)
  BY <1>2, <1>3, <1>4, StopsWorking DEF Finish, Phases, LockPhases, Working, Starting, Removing
<1>5. CASE ~Finish(c)
  <2>1. /\ Goto(c, "held")
        /\ scope' = [scope EXCEPT ![c] = {Label(n) : n \in victims[c]}]
        /\ victims' = [victims EXCEPT ![c] = {}]
        /\ mine' = mine
    BY <1>5 DEF Drop, Continue
  <2>2. /\ pc'[c] = "held"
        /\ \A d \in Clis : d # c =>
            pc'[d] = pc[d] /\ scope'[d] = scope[d] /\ victims'[d] = victims[d] /\ mine'[d] = mine[d]
    BY <2>1 DEF Goto, TypeOK
  <2>3. Relies(c)' /\ Single'
    BY <1>3, <2>2 DEF Relies, Starting, Removing, PairInv, Single
  <2> QED BY <1>2, <1>3, <2>2, <2>3, OneStep
<1> QED BY <1>4, <1>5

LEMMA WorldPairInv ==
  ASSUME TypeOK, PairInv,
         \/ \E n \in Nonces : Mounts(n) \/ Cut(n) \/ Exits(n) \/ Dies(n)
         \/ \E l \in Labels : SshfsEnds(l) \/ Opens(l) \/ Closes(l)
  PROVE  PairInv'
<1>1. bridges' = bridges /\ UNCHANGED local /\ pc' = pc
  BY DEF Mounts, Cut, Exits, Dies, SshfsEnds, Opens, Closes, lockVars, client
<1>2. \A m \in Nonces : Running(m)' => Running(m)
  <2>1. ASSUME NEW n \in Nonces, Mounts(n) \/ Cut(n) \/ Exits(n) \/ Dies(n) PROVE \A m \in Nonces : Running(m)' => Running(m)
    BY <2>1 DEF Mounts, Cut, Exits, Dies, Running, Reachable, TypeOK
  <2>2. ASSUME NEW l \in Labels, SshfsEnds(l) \/ Opens(l) \/ Closes(l) PROVE \A m \in Nonces : Running(m)' => Running(m)
    BY <2>2 DEF SshfsEnds, Opens, Closes, client, Running, TypeOK
  <2> QED BY <2>1, <2>2
<1> QED BY <1>1, <1>2, NothingStarts

LEMMA NextPairInv == TypeOK /\ TypeOK' /\ LockInv /\ PairInv /\ [Next]_vars => PairInv'
<1> SUFFICES ASSUME TypeOK, TypeOK', LockInv, PairInv, [Next]_vars PROVE PairInv'
  OBVIOUS
<1>1. ASSUME NEW c \in Clis, NEW k, NEW L, Begin(c, k, L) PROVE PairInv'
  BY <1>1, BeginPairInv
<1>2. ASSUME NEW c \in Clis, CliStep(c) PROVE PairInv'
  BY <1>2, LockingPairInv, EnterPairInv, HealthPairInv, ReservePairInv, SpawnPairInv, CommitPairInv,
     ReadyPairInv, FailedStartPairInv, DeathPairInv, EvidencePairInv, UnmountPairInv, StopVictimPairInv,
     DropPairInv DEF CliStep
<1>3. ASSUME NEW c \in Clis, Crash(c) PROVE PairInv'
  BY <1>3, DeathPairInv
<1>4. CASE UNCHANGED vars
  BY <1>4, NothingStarts DEF vars, lockVars, client, local, Running
<1> QED BY <1>1, <1>2, <1>3, <1>4, WorldPairInv DEF Next

IInv == TypeOK /\ LockInv /\ PairInv

LEMMA Inductive == ~Contend => (Spec => []IInv)
<1> SUFFICES ASSUME ~Contend PROVE Spec => []IInv
  OBVIOUS
<1>1. Init => IInv
  BY InitType, InitLockInv, InitPairInv DEF IInv
<1>2. IInv /\ [Next]_vars => IInv'
  BY NextType, NextLockInv, NextPairInv DEF IInv
<1> QED BY <1>1, <1>2, PTL DEF Spec

(* One command at a time changes bridges.json, whatever is killed between   *)
(* which two steps, as long as no two commands judge one dead owner's file  *)
(* at the same time (mount-lock.ts:43-58).                                  *)
THEOREM CommandsExclude == ~Contend => (Spec => []LockExcludes)
<1> SUFFICES ASSUME ~Contend PROVE Spec => []LockExcludes
  OBVIOUS
<1>1. IInv => LockExcludes
  BY DEF IInv, LockInv, LockTypes, FileNamesOwner, LockExcludes, Holders, Inside
<1> QED BY <1>1, Inductive, PTL

(* bridges.json accounts for every process that nobody has told to stop.    *)
THEOREM ProcessesAreTracked == ~Contend => (Spec => []Tracked)
<1> SUFFICES ASSUME ~Contend PROVE Spec => []Tracked
  OBVIOUS
<1>1. IInv => Tracked
  BY DEF IInv, PairInv
<1> QED BY <1>1, Inductive, PTL

(* No label ever has two pairs of running processes.                        *)
THEOREM PairsAreUnique == ~Contend => (Spec => []NoDuplicate)
<1> SUFFICES ASSUME ~Contend PROVE Spec => []NoDuplicate
  OBVIOUS
<1>1. IInv => NoDuplicate
  BY DEF IInv, PairInv, Tracked, Single, NoDuplicate
<1> QED BY <1>1, Inductive, PTL

-----------------------------------------------------------------------------
(* Mounts that are in use.  Nothing of this needs the lock.                *)

Launching == {"spawn", "rclone", "commit"}

(* What is mounted for a label is a bridge of that label.                   *)
OwnMounts == \A l \in Labels : fs[l] # NoNonce => Label(fs[l]) = l

(* A bridge that is being launched is no other command's, and not committed *)
(* yet: no command can take it for one to remove.                           *)
LaunchedAlone ==
    \A c \in Clis : pc[c] \in Launching =>
        /\ [id |-> mine[c], pids |-> TRUE] \notin bridges
        /\ \A d \in Clis \ {c} : mine[d] # mine[c]

(* A bridge that was unmounted does not get its connection back.            *)
UnmountedOff == \A c \in Clis : pc[c] = "assess" => ssh[mine[c]] # "up"

UseInv == TypeOK /\ OwnMounts /\ LaunchedAlone /\ UnmountedOff

LEMMA InitUseInv == Init => UseInv
  BY InitType DEF Init, LockInit, UseInv, OwnMounts, LaunchedAlone, UnmountedOff, Launching

(* Most steps launch nothing, connect nothing and mount nothing.            *)
LEMMA LesserUseInv ==
  ASSUME UseInv, TypeOK',
         \A l \in Labels : fs'[l] \in {fs[l], NoNonce},
         \A n \in Nonces : ssh'[n] = "up" => ssh[n] = "up",
         \A e \in bridges' : e.pids => e \in bridges,
         \A c \in Clis : /\ mine'[c] \in {mine[c], NoNonce}
                         /\ pc'[c] \in Launching => pc[c] \in Launching
                         /\ pc'[c] = "assess" => pc[c] = "assess"
  PROVE  UseInv'
<1>1. \A c \in Clis : pc'[c] \in Launching \cup {"assess"} => mine'[c] = mine[c] /\ mine[c] \in Nonces
  BY DEF UseInv, TypeOK, Launching, AtBridge
<1>2. OwnMounts'
  BY DEF UseInv, OwnMounts
<1>3. LaunchedAlone'
  <2> SUFFICES ASSUME NEW c \in Clis, pc'[c] \in Launching
               PROVE  /\ [id |-> mine[c], pids |-> TRUE] \notin bridges'
                      /\ \A d \in Clis \ {c} : mine'[d] # mine[c]
    BY <1>1 DEF LaunchedAlone
  <2>1. pc[c] \in Launching /\ mine[c] # NoNonce
    BY <1>1 DEF UseInv, TypeOK, Launching, AtBridge
  <2> QED BY <2>1 DEF UseInv, LaunchedAlone
<1>4. UnmountedOff'
  BY <1>1 DEF UseInv, UnmountedOff
<1> QED BY <1>2, <1>3, <1>4 DEF UseInv

(* A step of one command that goes to a phase of the start's or the         *)
(* removal's inner end, or gives up what it had.                            *)
LEMMA MovesUseInv ==
  ASSUME UseInv, TypeOK', NEW c \in Clis, NEW x \in Phases, Goto(c, x),
         x \in Launching => pc[c] \in Launching,
         x = "assess" => pc[c] = "assess",
         mine' = mine \/ mine' = [mine EXCEPT ![c] = NoNonce],
         \A l \in Labels : fs'[l] \in {fs[l], NoNonce},
         \A n \in Nonces : ssh'[n] = "up" => ssh[n] = "up",
         \A e \in bridges' : e.pids => e \in bridges
  PROVE  UseInv'
<1>1. \A d \in Clis : /\ mine'[d] \in {mine[d], NoNonce}
                      /\ pc'[d] \in Launching => pc[d] \in Launching
                      /\ pc'[d] = "assess" => pc[d] = "assess"
  BY DEF Goto, UseInv, TypeOK
<1> QED BY <1>1, LesserUseInv

LEMMA ReconcileConnects ==
  ASSUME TypeOK, NEW unsure, NEW extra \in SUBSET Entries, Reconcile(unsure, extra)
  PROVE  /\ \A n \in Nonces : ssh'[n] = "up" => ssh[n] = "up"
         /\ bridges' \subseteq bridges \cup extra
         /\ \A n \in Nonces : Reachable(n) => rclone'[n] # "term" /\ ssh'[n] # "term"
<1> DEFINE stale == {e \in bridges \ unsure : Stale(e)}
           alone == {e \in stale : rclone[e.id] # "none" \/ ssh[e.id] # "none"}
<1>1. Stop({e.id : e \in alone}) /\ bridges' = (bridges \ (stale \ alone)) \cup extra
  BY DEF Reconcile
<1>2. \A n \in {e.id : e \in alone} : ~Reachable(n)
  BY DEF Stale, Live, Reachable
<1> HIDE DEF stale, alone
<1> QED BY <1>1, <1>2 DEF Stop, Signalled, TypeOK, Reachable

(* The steps that leave the mounts and the processes alone.                 *)
LEMMA AsideUseInv ==
  ASSUME UseInv, TypeOK', NEW c \in Clis,
         \/ Locking(c) \/ Health(c) \/ HealthUnknown(c) \/ ReserveFails(c)
         \/ CommitFails(c) \/ Ready(c) \/ NotReady(c) \/ NotProven(c) \/ Crash(c)
         \/ Evidence(c) \/ Drop(c)
  PROVE  UseInv'
<1>1. UNCHANGED <<fs, ssh>> /\ (\A e \in bridges' : e \in bridges)
  BY DEF Locking, Health, HealthUnknown, ReserveFails, CommitFails, Ready, NotReady, NotProven,
         Crash, Evidence, Drop, client, remote
<1>2. mine' = mine \/ mine' = [mine EXCEPT ![c] = NoNonce]
  BY DEF Locking, Health, HealthUnknown, ReserveFails, CommitFails, Ready, NotReady, NotProven,
         Crash, Evidence, Drop, Finish, Die, Forget, local
<1>3. \E x \in Phases \ (Launching \cup {"assess"}) : Goto(c, x)
  BY DEF Locking, LockStep, Create, Write, JudgeDead, JudgeOther, Break, CheckToken, Unlink, JudgeUnsure,
         Health, HealthUnknown, ReserveFails, CommitFails, Ready, NotReady, NotProven,
         Crash, Evidence, Drop, Finish, Die, Gone, Continue, Phases, LockPhases, Launching
<1> QED BY <1>1, <1>2, <1>3, MovesUseInv

LEMMA BeginUseInv ==
  ASSUME UseInv, TypeOK', NEW c \in Clis, NEW k, NEW L, Begin(c, k, L)
  PROVE  UseInv'
<1>1. Goto(c, "create") /\ UNCHANGED <<fs, ssh, bridges, mine>>
  BY DEF Begin, Continue, client, remote
<1> QED BY <1>1, MovesUseInv DEF Phases, LockPhases, Launching

LEMMA EnterUseInv ==
  ASSUME UseInv, TypeOK', NEW c \in Clis, NEW unsure, Enter(c, unsure)
  PROVE  UseInv'
<1>1. Reconcile(unsure, {}) /\ fs' = fs /\ TypeOK /\ {} \in SUBSET Entries
  BY DEF Enter, remote, UseInv
<1>2. cmd[c] \in {"up", "down", "status", "recover"} /\ cmd[c] # "recover"
  BY DEF Enter, UseInv, TypeOK
<1>3. /\ mine' = mine \/ mine' = [mine EXCEPT ![c] = NoNonce]
      /\ \E x \in {"health", "release", "unmount"} : Goto(c, x)
  BY <1>2 DEF Enter, Finish, Continue, Forget, local
<1>4. \A n \in Nonces : ssh'[n] = "up" => ssh[n] = "up"
  BY <1>1, ReconcileConnects
<1>5. \A e \in bridges' : e \in bridges
  BY <1>1, ReconcileConnects
<1> QED BY <1>1, <1>3, <1>4, <1>5, MovesUseInv DEF Phases, LockPhases, Launching

LEMMA ReserveUseInv ==
  ASSUME UseInv, TypeOK', NEW c \in Clis, NEW n \in Nonces, NEW unsure, Reserve(c, n, unsure)
  PROVE  UseInv'
<1> DEFINE new == [id |-> n, pids |-> FALSE]
<1>1. Reconcile(unsure, {new}) /\ fs' = fs /\ TypeOK /\ {new} \in SUBSET Entries /\ Fresh(n)
  BY DEF Reserve, remote, UseInv, Entries
<1>2. \A m \in Nonces : ssh'[m] = "up" => ssh[m] = "up"
  BY <1>1, ReconcileConnects
<1>3. \A e \in bridges' : e.pids => e \in bridges
  <2>1. bridges' \subseteq bridges \cup {new} /\ ~new.pids
    BY <1>1, ReconcileConnects
  <2> QED BY <2>1
<1>4. pc' = [pc EXCEPT ![c] = "spawn"] /\ mine' = [mine EXCEPT ![c] = n]
  BY DEF Reserve, Continue, Goto
<1>5. pc'[c] = "spawn" /\ mine'[c] = n /\ \A d \in Clis \ {c} : pc'[d] = pc[d] /\ mine'[d] = mine[d]
  BY <1>4 DEF UseInv, TypeOK
<1>6. OwnMounts'
  BY <1>1 DEF UseInv, OwnMounts
<1>7. LaunchedAlone'
  <2> SUFFICES ASSUME NEW a \in Clis, pc'[a] \in Launching
               PROVE  /\ [id |-> mine'[a], pids |-> TRUE] \notin bridges'
                      /\ \A d \in Clis \ {a} : mine'[d] # mine'[a]
    BY DEF LaunchedAlone
  <2>1. CASE a = c
    BY <1>1, <1>3, <1>5, <2>1 DEF Fresh
  <2>2. CASE a # c
    BY <1>1, <1>3, <1>5, <2>2 DEF Fresh, UseInv, LaunchedAlone
  <2> QED BY <2>1, <2>2
<1>8. UnmountedOff'
  <2> SUFFICES ASSUME NEW d \in Clis, pc'[d] = "assess" PROVE ssh'[mine'[d]] # "up"
    BY DEF UnmountedOff
  <2>1. d # c /\ pc[d] = "assess" /\ mine'[d] = mine[d] /\ mine[d] \in Nonces
    BY <1>5 DEF UseInv, TypeOK, AtBridge
  <2> QED BY <1>2, <2>1 DEF UseInv, UnmountedOff
<1> QED BY <1>6, <1>7, <1>8 DEF UseInv

LEMMA LaunchUseInv ==
  ASSUME UseInv, TypeOK', NEW c \in Clis, SpawnRclone(c) \/ SpawnSsh(c)
  PROVE  UseInv'
<1>1. /\ UNCHANGED <<fs, bridges, mine>> /\ pc[c] \in Launching
      /\ \E x \in Launching : Goto(c, x)
      /\ \A n \in Nonces : n # mine[c] => ssh'[n] = ssh[n]
  BY DEF SpawnRclone, SpawnSsh, Continue, remote, local, Launching, UseInv, TypeOK
<1>2. \A d \in Clis : /\ pc'[d] \in Launching => pc[d] \in Launching
                      /\ pc'[d] = "assess" => pc[d] = "assess" /\ d # c
  BY <1>1 DEF Goto, UseInv, TypeOK, Launching
<1>3. OwnMounts' /\ LaunchedAlone'
  BY <1>1, <1>2 DEF UseInv, OwnMounts, LaunchedAlone
<1>4. UnmountedOff'
  <2> SUFFICES ASSUME NEW d \in Clis, pc'[d] = "assess" PROVE ssh'[mine[d]] # "up"
    BY <1>1 DEF UnmountedOff
  <2>1. mine[d] # mine[c] /\ mine[d] \in Nonces
    BY <1>1, <1>2 DEF UseInv, LaunchedAlone, TypeOK, AtBridge
  <2> QED BY <1>1, <1>2, <2>1 DEF UseInv, UnmountedOff
<1> QED BY <1>3, <1>4 DEF UseInv

LEMMA CommitUseInv ==
  ASSUME UseInv, TypeOK', NEW c \in Clis, Commit(c)
  PROVE  UseInv'
<1>1. UNCHANGED <<fs, ssh, mine>> /\ pc[c] \in Launching
      /\ \E x \in {"cleanup", "ready"} : Goto(c, x)
      /\ \A e \in bridges' : e \in bridges \/ e.id = mine[c]
  BY DEF Commit, Continue, remote, local, Launching, Without
<1>2. \A d \in Clis : /\ pc'[d] \in Launching => pc[d] \in Launching /\ d # c
                      /\ pc'[d] = "assess" => pc[d] = "assess"
  BY <1>1 DEF Goto, UseInv, TypeOK, Launching
<1>3. LaunchedAlone'
  <2> SUFFICES ASSUME NEW a \in Clis, pc'[a] \in Launching
               PROVE  /\ [id |-> mine[a], pids |-> TRUE] \notin bridges'
                      /\ \A d \in Clis \ {a} : mine[d] # mine[a]
    BY <1>1 DEF LaunchedAlone
  <2>1. mine[c] # mine[a]
    BY <1>2 DEF UseInv, LaunchedAlone
  <2> QED BY <1>1, <1>2, <2>1 DEF UseInv, LaunchedAlone
<1> QED BY <1>1, <1>2, <1>3 DEF UseInv, OwnMounts, UnmountedOff

(* What ends bridges: it disconnects, and mounts nothing.                   *)
LEMMA EndsUseInv ==
  ASSUME UseInv, TypeOK', NEW c \in Clis,
         \/ ProofFails(c) \/ Cleanup(c) \/ StopStarted(c) \/ ProvenGone(c) \/ StopVictim(c)
         \/ \E e \in bridges : UnmountRefused(c, e)
  PROVE  UseInv'
<1>1. mine' = mine \/ mine' = [mine EXCEPT ![c] = NoNonce]
  BY DEF ProofFails, Cleanup, StopStarted, ProvenGone, StopVictim, UnmountRefused, Refuse,
         Finish, Die, Forget, local
<1>2. \E x \in Phases \ (Launching \cup {"assess"}) : Goto(c, x)
  BY DEF ProofFails, Cleanup, StopStarted, ProvenGone, StopVictim, UnmountRefused, Refuse,
         Finish, Die, Gone, Continue, Phases, LockPhases, Launching
<1>3. \A e \in bridges' : e \in bridges
  BY DEF ProofFails, Cleanup, StopStarted, ProvenGone, StopVictim, UnmountRefused, Without, client
<1>4. \A l \in Labels : fs'[l] \in {fs[l], NoNonce}
  BY DEF ProofFails, Cleanup, StopStarted, ProvenGone, StopVictim, UnmountRefused, Unmounted, remote,
         UseInv, TypeOK
<1>5. \A n \in Nonces : ssh'[n] = "up" => ssh[n] = "up"
  BY DEF ProofFails, Cleanup, StopStarted, ProvenGone, StopVictim, UnmountRefused, Unmounted, client,
         Stop, Signalled, UseInv, TypeOK
<1> QED BY <1>1, <1>2, <1>3, <1>4, <1>5, MovesUseInv

LEMMA UnmountUseInv ==
  ASSUME UseInv, TypeOK', NEW c \in Clis, NEW e \in bridges, Unmount(c, e)
  PROVE  UseInv'
<1>1. /\ e.pids /\ e = [id |-> e.id, pids |-> TRUE] /\ e.id \in Nonces
      /\ bridges' = bridges /\ Unmounted(e.id)
  BY DEF Unmount, Live, UseInv, TypeOK, Entries
<1>2. /\ pc'[c] = "assess" /\ mine'[c] = e.id
      /\ \A d \in Clis \ {c} : pc'[d] = pc[d] /\ mine'[d] = mine[d]
  BY DEF Unmount, Continue, Goto, UseInv, TypeOK
<1>3. /\ \A l \in Labels : fs'[l] \in {fs[l], NoNonce}
      /\ \A n \in Nonces : ssh'[n] = "up" => ssh[n] = "up"
      /\ ssh'[e.id] # "up"
  BY <1>1 DEF Unmounted, UseInv, TypeOK
<1>4. OwnMounts'
  BY <1>3 DEF UseInv, OwnMounts
<1>5. LaunchedAlone'
  <2> SUFFICES ASSUME NEW a \in Clis, pc'[a] \in Launching
               PROVE  /\ [id |-> mine'[a], pids |-> TRUE] \notin bridges
                      /\ \A d \in Clis \ {a} : mine'[d] # mine'[a]
    BY <1>1 DEF LaunchedAlone
  <2>1. a # c
    BY <1>2 DEF Launching
  <2> QED BY <1>1, <1>2, <2>1 DEF UseInv, LaunchedAlone
<1>6. UnmountedOff'
  <2> SUFFICES ASSUME NEW d \in Clis, d # c, pc'[d] = "assess" PROVE ssh'[mine'[d]] # "up"
    BY <1>2, <1>3 DEF UnmountedOff
  <2>1. pc[d] = "assess" /\ mine'[d] = mine[d] /\ mine[d] \in Nonces
    BY <1>2 DEF UseInv, TypeOK, AtBridge
  <2> QED BY <1>3, <2>1 DEF UseInv, UnmountedOff
<1> QED BY <1>4, <1>5, <1>6 DEF UseInv

LEMMA WorldUseInv ==
  ASSUME UseInv, TypeOK',
         \/ \E n \in Nonces : Mounts(n) \/ Cut(n) \/ Exits(n) \/ Dies(n)
         \/ \E l \in Labels : SshfsEnds(l) \/ Opens(l) \/ Closes(l)
  PROVE  UseInv'
<1>1. UNCHANGED <<pc, bridges, mine>>
  BY DEF Mounts, Cut, Exits, Dies, SshfsEnds, Opens, Closes, lockVars, client, local
<1>2. \A n \in Nonces : ssh'[n] = "up" => ssh[n] = "up"
  BY DEF Mounts, Cut, Exits, Dies, SshfsEnds, Opens, Closes, client, UseInv, TypeOK
<1>3. OwnMounts'
  BY DEF Mounts, Cut, Exits, Dies, SshfsEnds, Opens, Closes, remote, UseInv, TypeOK, OwnMounts
<1>4. LaunchedAlone'
  BY <1>1 DEF UseInv, LaunchedAlone
<1>5. UnmountedOff'
  BY <1>1, <1>2 DEF UseInv, UnmountedOff, TypeOK, AtBridge
<1> QED BY <1>3, <1>4, <1>5 DEF UseInv

LEMMA NextUseInv == UseInv /\ [Next]_vars => UseInv'
<1> SUFFICES ASSUME UseInv, [Next]_vars PROVE UseInv'
  OBVIOUS
<1> TypeOK'
  BY NextType DEF UseInv
<1>1. ASSUME NEW c \in Clis, NEW k, NEW L, Begin(c, k, L) PROVE UseInv'
  BY <1>1, BeginUseInv
<1>2. ASSUME NEW c \in Clis, CliStep(c) \/ Crash(c) PROVE UseInv'
  BY <1>2, AsideUseInv, EnterUseInv, ReserveUseInv, LaunchUseInv, CommitUseInv, EndsUseInv, UnmountUseInv
  DEF CliStep
<1>3. CASE UNCHANGED vars
  BY <1>3 DEF vars, lockVars, client, remote, local, UseInv, OwnMounts, LaunchedAlone, UnmountedOff
<1> QED BY <1>1, <1>2, <1>3, WorldUseInv DEF Next

(* A mount that is in use, connected, and not in its start.                 *)
Safe(l) ==
    /\ fs[l] # NoNonce /\ Reachable(fs[l])
    /\ \A c \in Clis : mine[c] = fs[l] => pc[c] = "assess"

LEMMA CliStepSpares ==
  ASSUME UseInv, NEW c \in Clis, CliStep(c), NEW l \in busy, Safe(l)
  PROVE  fs'[l] = fs[l] /\ rclone'[fs[l]] # "term" /\ ssh'[fs[l]] # "term"
<1> USE DEF Safe, Reachable
<1>1. l \in Labels /\ fs[l] \in Nonces /\ rclone[fs[l]] = "up" /\ ssh[fs[l]] = "up" /\ Label(fs[l]) = l
  BY DEF UseInv, TypeOK, OwnMounts
<1>2. \A n \in Nonces : n # fs[l] =>
         /\ Unmounted(n) => fs'[l] = fs[l] /\ rclone' = rclone /\ ssh'[fs[l]] = ssh[fs[l]]
         /\ fs[l] \notin {n}
  BY <1>1 DEF Unmounted, UseInv, TypeOK
<1>3. CASE \/ Locking(c) \/ Health(c) \/ HealthUnknown(c) \/ ReserveFails(c)
           \/ CommitFails(c) \/ Ready(c) \/ NotReady(c) \/ NotProven(c)
           \/ Evidence(c) \/ Drop(c) \/ Commit(c) \/ ProvenGone(c)
           \/ \E e \in bridges : UnmountRefused(c, e)
  BY <1>1, <1>3
  DEF Locking, Health, HealthUnknown, ReserveFails, CommitFails, Ready, NotReady, NotProven,
      Evidence, Drop, Commit, ProvenGone, UnmountRefused, client, remote
<1>4. ASSUME NEW unsure, NEW n \in Nonces, Enter(c, unsure) \/ Reserve(c, n, unsure)
      PROVE  fs'[l] = fs[l] /\ rclone'[fs[l]] # "term" /\ ssh'[fs[l]] # "term"
  <2>1. fs' = fs
    BY <1>4 DEF Enter, Reserve, remote
  <2>2. fs' = fs /\ TypeOK /\ {} \in SUBSET Entries /\ {[id |-> n, pids |-> FALSE]} \in SUBSET Entries
    BY <2>1 DEF UseInv, Entries
  <2>3. Reconcile(unsure, {}) \/ Reconcile(unsure, {[id |-> n, pids |-> FALSE]})
    BY <1>4 DEF Enter, Reserve
  <2> QED BY <1>1, <2>2, <2>3, ReconcileConnects
<1>5. CASE SpawnRclone(c) \/ SpawnSsh(c)
  BY <1>1, <1>5 DEF SpawnRclone, SpawnSsh, remote, UseInv, TypeOK
<1>6. CASE ProofFails(c) \/ StopStarted(c) \/ StopVictim(c)
  <2>1. fs' = fs /\ mine[c] \in Nonces /\ mine[c] # fs[l]
    BY <1>1, <1>6
    DEF ProofFails, StopStarted, StopVictim, remote, UseInv, TypeOK, AtBridge, UnmountedOff
  <2> QED BY <1>1, <1>6, <2>1
      DEF ProofFails, StopStarted, StopVictim, Stop, Signalled, UseInv, TypeOK
<1>7. CASE Cleanup(c)
  <2>1. mine[c] \in Nonces /\ mine[c] # fs[l]
    BY <1>1, <1>7 DEF Cleanup, UseInv, TypeOK, AtBridge
  <2> QED BY <1>1, <1>2, <1>7, <2>1 DEF Cleanup, remote
<1>8. ASSUME NEW e \in bridges, Unmount(c, e)
      PROVE  fs'[l] = fs[l] /\ rclone'[fs[l]] # "term" /\ ssh'[fs[l]] # "term"
  <2>1. e.id \in Nonces /\ e.id # fs[l]
    BY <1>1, <1>8 DEF Unmount, Unmounted, UseInv, TypeOK, Entries
  <2> QED BY <1>1, <1>2, <1>8, <2>1 DEF Unmount
<1>9. Nonces # {}
  BY <1>1
<1> QED BY <1>3, <1>4, <1>5, <1>6, <1>7, <1>8, <1>9 DEF CliStep

LEMMA OtherStepSpares ==
  ASSUME UseInv, NEW l \in busy, Safe(l),
         \/ \E c \in Clis : Crash(c) \/ \E k, L : Begin(c, k, L)
         \/ \E n \in Nonces : Mounts(n) \/ Cut(n) \/ Exits(n) \/ Dies(n)
         \/ \E m \in Labels : SshfsEnds(m) \/ Opens(m) \/ Closes(m)
         \/ UNCHANGED vars
  PROVE  fs'[l] = fs[l] /\ rclone'[fs[l]] # "term" /\ ssh'[fs[l]] # "term"
<1> USE DEF Safe, Reachable
<1>1. l \in Labels /\ fs[l] \in Nonces /\ rclone[fs[l]] = "up" /\ ssh[fs[l]] = "up" /\ Label(fs[l]) = l
  BY DEF UseInv, TypeOK, OwnMounts
<1>2. ASSUME NEW c \in Clis, Crash(c) \/ \E k, L : Begin(c, k, L) PROVE UNCHANGED <<fs, rclone, ssh>>
  BY <1>2 DEF Crash, Begin, client, remote
<1>3. ASSUME NEW n \in Nonces, Mounts(n) \/ Cut(n) \/ Exits(n) \/ Dies(n)
      PROVE  fs'[l] = fs[l] /\ rclone'[fs[l]] # "term" /\ ssh'[fs[l]] # "term"
  BY <1>1, <1>3 DEF Mounts, Cut, Exits, Dies, remote, UseInv, TypeOK
<1>4. ASSUME NEW m \in Labels, SshfsEnds(m)
      PROVE  fs'[l] = fs[l] /\ rclone'[fs[l]] # "term" /\ ssh'[fs[l]] # "term"
  <2>1. m # l /\ fs[m] # fs[l] /\ fs[m] \in Nonces
    BY <1>1, <1>4 DEF SshfsEnds, UseInv, OwnMounts, TypeOK
  <2> QED BY <1>1, <1>4, <2>1 DEF SshfsEnds, UseInv, TypeOK
<1>5. ASSUME NEW m \in Labels, Opens(m) \/ Closes(m) PROVE UNCHANGED <<fs, rclone, ssh>>
  BY <1>5 DEF Opens, Closes, client
<1>6. CASE UNCHANGED <<fs, rclone, ssh>>
  BY <1>1, <1>6
<1> QED BY <1>2, <1>3, <1>4, <1>5, <1>6 DEF vars, client, remote

(* No command unmounts a connected mount that someone has a file open in,   *)
(* or tells its processes to stop, except one that is still starting it:    *)
(* whatever else runs, is killed or fails, and even when two commands have  *)
(* got into the lock (buildOwnedUnmountRemoteCmd; mount.ts:582).            *)
THEOREM BusyMountsAreKept == Spec => BusyKept
<1> DEFINE Spares == \A l \in busy :
              fs[l] # NoNonce /\ Reachable(fs[l]) /\ (\A c \in Clis : mine[c] = fs[l] => pc[c] = "assess")
              => fs'[l] = fs[l] /\ rclone'[fs[l]] # "term" /\ ssh'[fs[l]] # "term"
<1>1. UseInv /\ [Next]_vars => [Spares]_vars
  <2> SUFFICES ASSUME UseInv, Next PROVE Spares
    OBVIOUS
  <2>1. ASSUME NEW l \in busy, Safe(l)
        PROVE  fs'[l] = fs[l] /\ rclone'[fs[l]] # "term" /\ ssh'[fs[l]] # "term"
    BY <2>1, CliStepSpares, OtherStepSpares DEF Next
  <2> QED BY <2>1 DEF Safe
<1>2. Init => UseInv
  BY InitUseInv
<1>3. UseInv /\ [Next]_vars => UseInv'
  BY NextUseInv
<1> QED BY <1>1, <1>2, <1>3, PTL DEF Spec, BusyKept
=============================================================================
