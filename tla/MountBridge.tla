----------------------------- MODULE MountBridge -----------------------------
(***************************************************************************)
(* `devbox mount` and its share of `devbox recover`                        *)
(* (clients/devbox/src/mount.ts, bridge.ts): a folder of the client, shown *)
(* read-only on the box.  A bridge is an rclone server and an ssh with a   *)
(* reverse tunnel, both detached on the client, and the sshfs that ssh     *)
(* runs on the box; bridges.json remembers which of them are ours.  The    *)
(* commands run under MountLock, and can be killed between any two of      *)
(* their steps; the processes and the connection come and go on their own. *)
(***************************************************************************)
EXTENDS MountLock

CONSTANTS
    Labels,      \* the configured lazy mounts
    Agent,       \* the Cli that is the launchd job: it only ever runs `up`
    Commands,    \* what is run in the terminal
    MaxNonces,   \* bound: bridges of a label that exist at the same time
    NoNonce

ASSUME AgentAssumption == Agent \in Clis
ASSUME CommandsAssumption == Commands \subseteq {"up", "down", "status", "recover"}
ASSUME NoncesAssumption == MaxNonces \in Nat /\ NoNonce \notin Labels \X (1..MaxNonces)

VARIABLES
    bridges,   \* bridges.json
    rclone,    \* rclone[n]: the rclone of bridge n
    ssh,       \* ssh[n]: its ssh
    fs,        \* fs[l]: the bridge whose sshfs is mounted at ~/mnt/l on the box
    busy,      \* the mounts with open handles
    cmd,       \* cmd[c]: the command c runs
    scope,     \* scope[c]: the labels it has still to deal with
    victims,   \* victims[c]: the bridges `down` or `recover` removes
    mine       \* mine[c]: the bridge it starts

remote == <<fs, busy>>
client == <<bridges, rclone, ssh>>
local == <<cmd, scope, victims, mine>>
vars == <<lockVars, client, remote, local>>

(* A nonce stands for everything that is drawn once per bridge: mountNonce, *)
(* createdAt, and the birth identities of the two processes.                *)
Nonces == Labels \X (1..MaxNonces)

(* pids: the identities of both processes are recorded; a reservation has   *)
(* pid -1 and none.                                                         *)
Entries == [id : Nonces, pids : BOOLEAN]

Phases == LockPhases \cup
    {"health", "reserve", "spawn", "rclone", "commit", "ready", "cleanup",
     "stop", "gone", "unmount", "assess", "drop"}

(* The phases with one bridge at hand.                                      *)
AtBridge == {"spawn", "rclone", "commit", "ready", "cleanup", "stop", "gone", "assess"}

TypeOK ==
    /\ lock \in Files
    /\ pc \in [Clis -> Phases]
    /\ tries \in [Clis -> 0..1]
    /\ faults \in 0..MaxFaults
    /\ bridges \subseteq Entries
    /\ rclone \in [Nonces -> {"none", "up", "term"}]
    /\ ssh \in [Nonces -> {"none", "up", "cut", "term"}]
    /\ fs \in [Labels -> Nonces \cup {NoNonce}]
    /\ busy \subseteq {l \in Labels : fs[l] # NoNonce}
    /\ cmd \in [Clis -> {"up", "down", "status", "recover"}]
    /\ scope \in [Clis -> SUBSET Labels]
    /\ victims \in [Clis -> SUBSET Nonces]
    /\ mine \in [Clis -> Nonces \cup {NoNonce}]
    /\ \A c \in Clis : (mine[c] # NoNonce) <=> pc[c] \in AtBridge

Init ==
    /\ LockInit
    /\ bridges = {}
    /\ rclone = [n \in Nonces |-> "none"]
    /\ ssh = [n \in Nonces |-> "none"]
    /\ fs = [l \in Labels |-> NoNonce]
    /\ busy = {}
    /\ cmd = [c \in Clis |-> "up"]
    /\ scope = [c \in Clis |-> {}]
    /\ victims = [c \in Clis |-> {}]
    /\ mine = [c \in Clis |-> NoNonce]

-----------------------------------------------------------------------------
(* What is observed.                                                       *)

Label(n) == n[1]

Of(l) == {e \in bridges : Label(e.id) = l}

(* assessBridgeProcesses: both exact processes are there; "term" and "cut"  *)
(* are processes still.                                                     *)
Live(e) == e.pids /\ rclone[e.id] # "none" /\ ssh[e.id] # "none"

Stale(e) == e.pids /\ ~Live(e)

Reachable(n) == rclone[n] = "up" /\ ssh[n] = "up"

Running(n) == rclone[n] = "up" \/ ssh[n] \in {"up", "cut"}

Signalled(N, proc) == [n \in Nonces |-> IF n \in N /\ proc[n] # "none" THEN "term" ELSE proc[n]]

(* stopOwnedBridgeProcesses.                                                *)
Stop(N) == rclone' = Signalled(N, rclone) /\ ssh' = Signalled(N, ssh)

(* Mutant: an entry without identities is taken for a dead one.             *)
ReconcileReservations(unsure, extra) ==
    LET stale == {e \in bridges \ unsure : Stale(e) \/ ~e.pids}
        alone == {e \in stale : rclone[e.id] # "none" \/ ssh[e.id] # "none"}
    IN  /\ unsure # {} => Fault
        /\ unsure = {} => faults' = faults
        /\ bridges' = (bridges \ (stale \ {e \in alone : e.pids})) \cup extra
        /\ Stop({e.id : e \in {x \in alone : x.pids}})

(* Mutant: a bridge that lost one process is forgotten, the other not       *)
(* signalled.                                                               *)
ReconcileForgets(unsure, extra) ==
    /\ unsure # {} => Fault
    /\ unsure = {} => faults' = faults
    /\ bridges' = {e \in bridges : ~Stale(e) \/ e \in unsure} \cup extra
    /\ UNCHANGED <<rclone, ssh>>

(* reconcileBridges: entries of two dead processes go; a survivor whose     *)
(* peer died is signalled and its entry stays until a later pass; whatever  *)
(* ps leaves unsure stays.  extra is what the caller appends and writes.    *)
Reconcile(unsure, extra) ==
    LET stale == {e \in bridges \ unsure : Stale(e)}
        alone == {e \in stale : rclone[e.id] # "none" \/ ssh[e.id] # "none"}
    IN  /\ unsure # {} => Fault
        /\ unsure = {} => faults' = faults
        /\ bridges' = (bridges \ (stale \ alone)) \cup extra
        /\ Stop({e.id : e \in alone})

Unsures == {{}} \cup {{e} : e \in {x \in bridges : x.pids}}

-----------------------------------------------------------------------------
(* Running a command.                                                      *)

Forget(c) ==
    /\ scope' = [scope EXCEPT ![c] = {}]
    /\ victims' = [victims EXCEPT ![c] = {}]
    /\ mine' = [mine EXCEPT ![c] = NoNonce]
    /\ cmd' = [cmd EXCEPT ![c] = "up"]

(* The end of withMountLock's action.                                       *)
Finish(c) == Goto(c, "release") /\ UNCHANGED <<lock, tries>> /\ Forget(c)

Continue(c, phase) == Goto(c, phase) /\ UNCHANGED <<lock, tries>>

(* die: process.exit, no release.                                           *)
Die(c) == Gone(c) /\ Forget(c)

Begin(c, k, L) ==
    /\ pc[c] = "idle"
    /\ IF c = Agent THEN k = "up" /\ L = Labels ELSE k \in Commands
    /\ k = "recover" => Cardinality(L) = 1
    /\ Continue(c, "create")
    /\ cmd' = [cmd EXCEPT ![c] = k]
    /\ scope' = [scope EXCEPT ![c] = L]
    /\ UNCHANGED <<faults, client, remote, victims, mine>>

Enter(c, unsure) ==
    /\ pc[c] = "held"
    /\ cmd[c] # "recover"
    /\ Reconcile(unsure, {})
    /\ CASE cmd[c] = "up" -> Continue(c, "health") /\ UNCHANGED local
         [] cmd[c] = "status" -> Finish(c)
         [] cmd[c] = "down" ->
              LET these == {e.id : e \in {x \in bridges' : Label(x.id) \in scope[c]}}
              IN  IF these = {} THEN Finish(c)
                  ELSE /\ Continue(c, "unmount")
                       /\ scope' = [scope EXCEPT ![c] = {Label(n) : n \in these}]
                       /\ victims' = [victims EXCEPT ![c] = these]
                       /\ UNCHANGED <<cmd, mine>>
    /\ UNCHANGED remote

(* mount up.                                                               *)

(* Mutant: the box alone decides, not bridges.json.                         *)
HealthUnlisted(c) ==
    /\ pc[c] = "health"
    /\ LET start == {l \in scope[c] : fs[l] = NoNonce}
       IN  IF start = {} THEN Finish(c)
           ELSE /\ Continue(c, "reserve")
                /\ scope' = [scope EXCEPT ![c] = start]
                /\ UNCHANGED <<cmd, victims, mine>>
    /\ UNCHANGED <<faults, client, remote>>

(* collectMountHealth and decideMountStart, once for all labels: a label    *)
(* starts if bridges.json has nothing of it and nothing is mounted there.   *)
Health(c) ==
    /\ pc[c] = "health"
    /\ LET start == {l \in scope[c] : Of(l) = {} /\ fs[l] = NoNonce}
       IN  IF start = {} THEN Finish(c)
           ELSE /\ Continue(c, "reserve")
                /\ scope' = [scope EXCEPT ![c] = start]
                /\ UNCHANGED <<cmd, victims, mine>>
    /\ UNCHANGED <<faults, client, remote>>

(* The probe over ssh fails: no label is started.                           *)
HealthUnknown(c) ==
    /\ Fault
    /\ pc[c] = "health"
    /\ Finish(c)
    /\ UNCHANGED <<client, remote>>

Fresh(n) ==
    /\ rclone[n] = "none" /\ ssh[n] = "none" /\ fs[Label(n)] # n
    /\ \A e \in bridges : e.id # n
    /\ \A c \in Clis : mine[c] # n

Reserve(c, n, unsure) ==
    /\ pc[c] = "reserve"
    /\ Label(n) \in scope[c]
    /\ Fresh(n)
    /\ Reconcile(unsure, {[id |-> n, pids |-> FALSE]})
    /\ Continue(c, "spawn")
    /\ mine' = [mine EXCEPT ![c] = n]
    /\ UNCHANGED <<remote, cmd, scope, victims>>

(* The key cannot be made or shipped, or bridges.json not written.          *)
ReserveFails(c) ==
    /\ Fault
    /\ pc[c] = "reserve"
    /\ Die(c)
    /\ UNCHANGED <<client, remote>>

SpawnRclone(c) ==
    /\ pc[c] = "spawn"
    /\ rclone' = [rclone EXCEPT ![mine[c]] = "up"]
    /\ Continue(c, "rclone")
    /\ UNCHANGED <<faults, bridges, ssh, remote, local>>

(* Its identity is proven and it listens; ssh is started.                   *)
SpawnSsh(c) ==
    /\ pc[c] = "rclone"
    /\ rclone[mine[c]] = "up"
    /\ ssh' = [ssh EXCEPT ![mine[c]] = "up"]
    /\ Continue(c, "commit")
    /\ UNCHANGED <<faults, bridges, rclone, remote, local>>

Without(n) == {e \in bridges : e.id # n}

(* A process of the pair is not proven ours: what runs is killed, and only  *)
(* if both are then proven gone does the reservation go too.                *)
ProofFails(c) ==
    /\ pc[c] \in {"rclone", "commit"}
    /\ IF rclone[mine[c]] = "none" \/ (pc[c] = "commit" /\ ssh[mine[c]] = "none")
         THEN faults' = faults ELSE Fault
    /\ \/ /\ rclone' = [rclone EXCEPT ![mine[c]] = "none"]
          /\ ssh' = [ssh EXCEPT ![mine[c]] = "none"]
          /\ bridges' = Without(mine[c])
       \/ /\ rclone' \in {rclone, Signalled({mine[c]}, rclone)}
          /\ ssh' = Signalled({mine[c]}, ssh)
          /\ bridges' = bridges
    /\ Die(c)
    /\ UNCHANGED remote

(* replaceBridgeEntry: the exact identities, before the readiness poll.     *)
Commit(c) ==
    /\ pc[c] = "commit"
    /\ ssh[mine[c]] # "none"
    /\ IF Without(mine[c]) = bridges
         THEN bridges' = bridges /\ Continue(c, "cleanup")
         ELSE /\ bridges' = Without(mine[c]) \cup {[id |-> mine[c], pids |-> TRUE]}
              /\ Continue(c, "ready")
    /\ UNCHANGED <<faults, rclone, ssh, remote, local>>

CommitFails(c) ==
    /\ Fault
    /\ pc[c] = "commit"
    /\ ssh[mine[c]] # "none"
    /\ Continue(c, "cleanup")
    /\ UNCHANGED <<client, remote, local>>

(* waitForRemoteMount: mounted, reachable, and with this very nonce.        *)
Ready(c) ==
    /\ pc[c] = "ready"
    /\ fs[Label(mine[c])] = mine[c] /\ Reachable(mine[c])
    /\ Continue(c, IF scope[c] = {Label(mine[c])} THEN "release" ELSE "reserve")
    /\ scope' = [scope EXCEPT ![c] = scope[c] \ {Label(mine[c])}]
    /\ mine' = [mine EXCEPT ![c] = NoNonce]
    /\ UNCHANGED <<faults, client, remote, cmd, victims>>

(* 25 probes later.  Fault: the box did not answer them.                    *)
NotReady(c) ==
    /\ pc[c] = "ready"
    /\ IF Reachable(mine[c]) THEN Fault ELSE faults' = faults
    /\ Continue(c, "cleanup")
    /\ UNCHANGED <<client, remote, local>>

(* buildOwnedUnmountRemoteCmd: fusermount refuses a mount with open handles. *)
Unmounted(n) ==
    /\ fs[Label(n)] = n
    /\ Label(n) \notin busy
    /\ fs' = [fs EXCEPT ![Label(n)] = NoNonce]
    /\ busy' = busy
    /\ rclone' = rclone
    /\ ssh' = [ssh EXCEPT ![n] = IF ssh[n] = "up" THEN "term" ELSE ssh[n]]

(* The failed start is unmounted as far as that works: nobody looks at the  *)
(* result, and the ssh may fail,                                            *)
Cleanup(c) ==
    /\ pc[c] = "cleanup"
    /\ \/ /\ IF fs[Label(mine[c])] = mine[c] /\ Label(mine[c]) \notin busy
               THEN Unmounted(mine[c]) ELSE UNCHANGED <<remote, rclone, ssh>>
          /\ faults' = faults
       \/ Fault /\ UNCHANGED <<remote, rclone, ssh>>
    /\ Continue(c, "stop")
    /\ UNCHANGED <<bridges, local>>

(* its processes are signalled,                                             *)
StopStarted(c) ==
    /\ pc[c] = "stop"
    /\ Stop({mine[c]})
    /\ Continue(c, "gone")
    /\ UNCHANGED <<faults, bridges, remote, local>>

(* and the entry goes only when both are proven gone (waitForBridgeExit).   *)
ProvenGone(c) ==
    /\ pc[c] = "gone"
    /\ rclone[mine[c]] = "none" /\ ssh[mine[c]] = "none"
    /\ bridges' = Without(mine[c])
    /\ Die(c)
    /\ UNCHANGED <<faults, rclone, ssh, remote>>

NotProven(c) ==
    /\ Fault
    /\ pc[c] \in {"stop", "gone"}
    /\ Die(c)
    /\ UNCHANGED <<client, remote>>

(* mount down, recover.                                                    *)

(* recoverMountLive: the evidence that was planned for must still hold.     *)
Evidence(c) ==
    /\ pc[c] = "held"
    /\ cmd[c] = "recover"
    /\ \E l \in scope[c] :
          \/ /\ fs[l] = NoNonce
             /\ \A e \in Of(l) : Live(e)
             /\ cmd' = [cmd EXCEPT ![c] = "up"]
             /\ Continue(c, "held")
             /\ UNCHANGED <<scope, victims, mine>>
          \/ /\ l \notin busy
             /\ \E e \in Of(l) :
                   /\ Live(e) /\ fs[l] = e.id /\ ~Reachable(e.id)
                   /\ victims' = [victims EXCEPT ![c] = {e.id}]
             /\ Continue(c, "unmount")
             /\ UNCHANGED <<cmd, scope, mine>>
          \/ Finish(c)
    /\ UNCHANGED <<faults, client, remote>>

(* What a refusal does: `down` dies, `recover` returns "blocked".           *)
Refuse(c) == IF cmd[c] = "down" THEN Die(c) ELSE Finish(c)

(* Mutant: the processes are stopped without the unmount.                   *)
UnmountSkipped(c, e) ==
    /\ pc[c] = "unmount"
    /\ e.id \in victims[c] /\ Label(e.id) \in scope[c]
    /\ Live(e)
    /\ Continue(c, "assess")
    /\ mine' = [mine EXCEPT ![c] = e.id]
    /\ UNCHANGED <<faults, client, remote, cmd, scope, victims>>

Unmount(c, e) ==
    /\ pc[c] = "unmount"
    /\ e.id \in victims[c] /\ Label(e.id) \in scope[c]
    /\ Live(e)
    /\ Unmounted(e.id)
    /\ Continue(c, "assess")
    /\ mine' = [mine EXCEPT ![c] = e.id]
    /\ UNCHANGED <<faults, bridges, cmd, scope, victims>>

UnmountRefused(c, e) ==
    /\ pc[c] = "unmount"
    /\ e.id \in victims[c] /\ Label(e.id) \in scope[c]
    /\ IF Live(e) /\ fs[Label(e.id)] = e.id /\ Label(e.id) \notin busy
         THEN Fault ELSE faults' = faults
    /\ Refuse(c)
    /\ UNCHANGED <<client, remote>>

(* Assessed once more: unmounting ends sshfs, which ends ssh, and then      *)
(* there is no pair left to stop.                                           *)
StopVictim(c) ==
    /\ pc[c] = "assess"
    /\ IF rclone[mine[c]] # "none" /\ ssh[mine[c]] # "none"
         THEN /\ Stop({mine[c]})
              /\ scope' = [scope EXCEPT ![c] = scope[c] \ {Label(mine[c])}]
              /\ mine' = [mine EXCEPT ![c] = NoNonce]
              /\ Continue(c, IF scope[c] = {Label(mine[c])} THEN "drop" ELSE "unmount")
              /\ UNCHANGED <<cmd, victims>>
         ELSE Refuse(c) /\ UNCHANGED <<rclone, ssh>>
    /\ UNCHANGED <<faults, bridges, remote>>

(* The last writeBridges; recover goes on to `up`, for its label.           *)
Drop(c) ==
    /\ pc[c] = "drop"
    /\ bridges' = {e \in bridges : e.id \notin victims[c]}
    /\ IF cmd[c] = "down" THEN Finish(c)
       ELSE /\ Continue(c, "held")
            /\ cmd' = [cmd EXCEPT ![c] = "up"]
            /\ scope' = [scope EXCEPT ![c] = {Label(n) : n \in victims[c]}]
            /\ victims' = [victims EXCEPT ![c] = {}]
            /\ mine' = mine
    /\ UNCHANGED <<faults, rclone, ssh, remote>>

Crash(c) ==
    /\ Fault
    /\ pc[c] # "idle"
    /\ Die(c)
    /\ UNCHANGED <<client, remote>>

-----------------------------------------------------------------------------
(* The box, the connection, the processes.                                 *)

(* ssh runs sshfs on the box; it refuses a mountpoint that is mounted.      *)
Mounts(n) ==
    /\ Reachable(n)
    /\ fs[Label(n)] # n
    /\ IF fs[Label(n)] = NoNonce
         THEN fs' = [fs EXCEPT ![Label(n)] = n] /\ ssh' = ssh
         ELSE ssh' = [ssh EXCEPT ![n] = "term"] /\ fs' = fs
    /\ UNCHANGED <<lockVars, bridges, rclone, busy, local>>

(* The connection is lost (the client slept); ssh finds out when it does.   *)
Cut(n) ==
    /\ Fault
    /\ ssh[n] = "up"
    /\ ssh' = [ssh EXCEPT ![n] = "cut"]
    /\ UNCHANGED <<lock, pc, tries, bridges, rclone, remote, local>>

(* What was signalled, or has lost its connection or its remote command,    *)
(* exits.                                                                   *)
Exits(n) ==
    /\ \/ rclone[n] = "term" /\ rclone' = [rclone EXCEPT ![n] = "none"] /\ ssh' = ssh
       \/ ssh[n] \in {"term", "cut"} /\ ssh' = [ssh EXCEPT ![n] = "none"] /\ rclone' = rclone
    /\ UNCHANGED <<lockVars, bridges, remote, local>>

Dies(n) ==
    /\ Fault
    /\ \/ rclone[n] = "up" /\ rclone' = [rclone EXCEPT ![n] = "none"] /\ ssh' = ssh
       \/ ssh[n] = "up" /\ ssh' = [ssh EXCEPT ![n] = "none"] /\ rclone' = rclone
    /\ UNCHANGED <<lock, pc, tries, bridges, remote, local>>

(* An sshfs (-o reconnect) that lost its client may end, or stay mounted.   *)
SshfsEnds(l) ==
    /\ fs[l] # NoNonce
    /\ ~Reachable(fs[l])
    /\ fs' = [fs EXCEPT ![l] = NoNonce]
    /\ busy' = busy \ {l}
    /\ ssh' = [ssh EXCEPT ![fs[l]] = IF ssh[fs[l]] = "up" THEN "term" ELSE ssh[fs[l]]]
    /\ UNCHANGED <<lockVars, bridges, rclone, local>>

Opens(l) ==
    /\ fs[l] # NoNonce /\ Reachable(fs[l])
    /\ l \notin busy
    /\ busy' = busy \cup {l}
    /\ UNCHANGED <<lockVars, client, fs, local>>

Closes(l) ==
    /\ l \in busy
    /\ busy' = busy \ {l}
    /\ UNCHANGED <<lockVars, client, fs, local>>

-----------------------------------------------------------------------------
Locking(c) ==
    /\ LockStep(c) \/ JudgeUnsure(c)
    /\ IF pc'[c] = "idle" THEN Forget(c) ELSE UNCHANGED local
    /\ UNCHANGED <<client, remote>>

CliStep(c) ==
    \/ Locking(c)
    \/ \E unsure \in Unsures :
          \/ Enter(c, unsure)
          \/ \E n \in Nonces : Reserve(c, n, unsure)
    \/ Health(c) \/ HealthUnknown(c) \/ ReserveFails(c)
    \/ SpawnRclone(c) \/ SpawnSsh(c) \/ ProofFails(c)
    \/ Commit(c) \/ CommitFails(c) \/ Ready(c) \/ NotReady(c)
    \/ Cleanup(c) \/ StopStarted(c) \/ ProvenGone(c) \/ NotProven(c)
    \/ Evidence(c)
    \/ \E e \in bridges : Unmount(c, e) \/ UnmountRefused(c, e)
    \/ StopVictim(c) \/ Drop(c)

Next ==
    \/ \E c \in Clis :
          \/ \E k \in Commands \cup {"up"}, L \in SUBSET Labels \ {{}} : Begin(c, k, L)
          \/ CliStep(c)
          \/ Crash(c)
    \/ \E n \in Nonces : Mounts(n) \/ Cut(n) \/ Exits(n) \/ Dies(n)
    \/ \E l \in Labels : SshfsEnds(l) \/ Opens(l) \/ Closes(l)

Spec == Init /\ [][Next]_vars

(* launchd starts the agent's command every 60 s, whatever became of the    *)
(* last; commands, exits and mounts take their time but happen.             *)
FairSpec ==
    /\ Spec
    /\ WF_vars(Begin(Agent, "up", Labels))
    /\ \A c \in Clis : WF_vars(CliStep(c))
    /\ \A n \in Nonces : WF_vars(Mounts(n)) /\ WF_vars(Exits(n))

-----------------------------------------------------------------------------
(* Properties.                                                             *)

(* Every process of a bridge that nobody has told to stop is accounted for  *)
(* in bridges.json, committed or at least reserved: this is what keeps the  *)
(* next `mount up` from starting a second pair, whatever was killed when.   *)
Tracked == \A n \in Nonces : Running(n) => \E e \in bridges : e.id = n

(* A label never has two pairs of processes that nobody has told to stop.   *)
NoDuplicate == \A n, m \in Nonces : Running(n) /\ Running(m) /\ Label(n) = Label(m) => n = m

(* "it may be busy, so its processes were left running" (mount.ts:582): no  *)
(* command takes a working mount away from someone who has a file open in   *)
(* it, once its start is over.                                              *)
BusyKept ==
    [][\A l \in busy :
          fs[l] # NoNonce /\ Reachable(fs[l])
            /\ (\A c \in Clis : mine[c] = fs[l] => pc[c] = "assess")
          => fs'[l] = fs[l] /\ rclone'[fs[l]] # "term" /\ ssh'[fs[l]] # "term"]_vars

(* A bridge that lost its ssh does not leave its rclone behind for ever,    *)
(* unless a crash left a lock file without an owner, which nothing removes, *)
(* or the terminal never leaves the lock to the agent.                      *)
Orphaned(n) == [id |-> n, pids |-> TRUE] \in bridges /\ ssh[n] = "none" /\ rclone[n] = "up"

OrphanStopped ==
    \/ \A n \in Nonces : Orphaned(n) ~> rclone[n] # "up"
    \/ <>[](lock.is = "empty")
    \/ []<>(\E c \in Clis \ {Agent} : pc[c] # "idle")

(* "re-runs `devbox mount up` every 60s, so the `mnt` bridge survives sleep *)
(* and wake" (docs/connecting.md:280): a mount that lost its connection is  *)
(* there again later.                                                       *)
Lost(l) == \E e \in Of(l) : e.pids /\ ssh[e.id] \in {"cut", "none"}

MountReturns ==
    \A l \in Labels : Lost(l) ~> (fs[l] # NoNonce /\ Reachable(fs[l]))
=============================================================================
