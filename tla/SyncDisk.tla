------------------------------- MODULE SyncDisk -------------------------------
(* The sync disk of one profile on a Mac, with the Mutagen engine (sync.ts,  *)
(* sync/mutagen.ts), and its recovery (recovery.ts, health.ts): `devbox sync *)
(* up`, `down`, `pause`, `resume`, and `devbox recover`, which collects      *)
(* evidence, looks a second time, acts and probes again. The two commands of *)
(* several calls, up and recover, run beside each other and beside the       *)
(* user's other commands, and may be cut at any point.                       *)
(*                                                                           *)
(* External: Mutagen, whose daemon any subcommand starts, whose sessions     *)
(* outlive it and whose `daemon register` refuses while it runs; and launchd,*)
(* which keeps a loaded daemon running and loads its plist at login. What    *)
(* disturbs (a crash, a reboot, a refusal, a lost network, a conflict, a cut,*)
(* and the user's up, down, pause and resume) is bounded by MaxFaults.        *)
EXTENDS Naturals

CONSTANTS
    SlowStops,  \* a stopped daemon may take longer to end than all attempts to register
    MaxFaults

ASSUME SlowStopsAssumption == SlowStops \in BOOLEAN
ASSUME MaxFaultsAssumption == MaxFaults \in Nat

Procs == {"up", "recover"}
Ensuring == {"check", "stop", "register", "putback", "boot", "start"}

VARIABLES
    daemon,    \* Mutagen's daemon: down, own (a command started it), launchd, ending
    plist,     \* its registration for login is on disk
    loaded,    \* launchd has the job
    session,   \* devbox-<profile> in Mutagen's database: none, active, paused
    conn,      \* the session is connected to the box
    net,       \* the box can be reached
    conflict,  \* the session has conflicts
    at,        \* at[p]: the step of sync up and of recover
    why,       \* the reason recover found first
    faults,
    downBy,    \* history: why the daemon last went down: stop, or other
    late,      \* history: the user paused after recover's second look
    cut        \* history: a command was cut after it had stopped the daemon

mutagen == <<daemon, session, conn>>
world == <<net, conflict, faults>>
vars == <<daemon, plist, loaded, session, conn, net, conflict, at, why, faults, downBy, late, cut>>

Runs == daemon \in {"own", "launchd"}
\* Any subcommand starts a daemon unless there is one.
Wakes == daemon' = IF daemon = "down" THEN "own" ELSE daemon
Fault == faults < MaxFaults /\ faults' = faults + 1
Goto(p, step) == at' = [at EXCEPT ![p] = step]

\* ------------------------------------------------------------------- evidence

\* A row of `mutagen sync list`; an ending daemon answers nobody, and a paused
\* session has no conflict count.
HasEvidence == session # "none" /\ daemon # "ending"
ConflictsUnknown == session = "paused"

\* Mutant: a registration on disk counts as login autostart.
RegisteredOnDisk == plist
Registered == loaded

\* syncHealthFromStatus, collectSyncHealth; a daemon that has just been started has
\* not connected its sessions yet.
Health ==
    CASE ~HasEvidence -> "sync_session_missing"
      [] HasEvidence /\ ConflictsUnknown -> "sync_conflicts_unknown"
      [] session = "active" /\ daemon # "ending" /\ conflict -> "sync_conflicts"
      [] session = "active" /\ daemon # "ending" /\ ~conflict /\ ~(conn /\ Runs) -> "sync_disconnected"
      [] session = "active" /\ Runs /\ ~conflict /\ conn /\ ~Registered -> "sync_autostart_unregistered"
      [] OTHER -> "healthy"

\* decideRecovery: "unknown" and "blocked" refuse, and the registry lists the reasons.
\* (It lists sync_paused too, which no evidence ever gives.)
Recoverable(reason) == reason \in {"sync_disconnected", "sync_autostart_unregistered"}

\* ------------------------------------------------------- ensureDaemonAutostart

Back(p) == IF p = "up" THEN "list" ELSE "verify"

Check(p) ==
    /\ at[p] = "check"
    /\ Goto(p, IF loaded THEN Back(p) ELSE IF plist THEN "boot" ELSE "stop")
    /\ UNCHANGED <<mutagen, world, plist, loaded, why, downBy, late, cut>>

\* `daemon stop` returns when the shutdown is accepted.
StopDaemon(p) ==
    /\ at[p] = "stop"
    /\ daemon' = IF Runs THEN "ending" ELSE daemon
    /\ conn' = (conn /\ ~Runs)
    /\ Goto(p, "register")
    /\ UNCHANGED <<world, plist, loaded, session, why, downBy, late, cut>>

Register(p) ==
    /\ at[p] = "register"
    /\ daemon = "down"
    /\ plist' = TRUE
    /\ Goto(p, "boot")
    /\ UNCHANGED <<mutagen, world, loaded, why, downBy, late, cut>>

\* Thirty refusals: another command has started the daemon again, registering fails
\* for a reason of its own, or the daemon takes its time.
RegisterFails(p) ==
    /\ at[p] = "register"
    /\ daemon = "ending" => SlowStops
    /\ IF Runs THEN UNCHANGED faults ELSE Fault
    /\ Goto(p, "putback")
    /\ UNCHANGED <<mutagen, net, conflict, plist, loaded, why, downBy, late, cut>>

\* Mutant: what was stopped is not started again.
LeaveStopped(p) ==
    /\ at[p] = "putback"
    /\ Goto(p, Back(p))
    /\ UNCHANGED <<mutagen, world, plist, loaded, why, downBy, late, cut>>

PutBack(p) ==
    /\ at[p] = "putback"
    /\ Wakes
    /\ Goto(p, Back(p))
    /\ UNCHANGED <<world, plist, loaded, session, conn, why, downBy, late, cut>>

\* bootstrapAgent; a refusal is swallowed.
Boot(p) ==
    /\ at[p] = "boot"
    /\ \/ loaded' = TRUE /\ UNCHANGED faults
       \/ Fault /\ UNCHANGED loaded
    /\ Goto(p, "start")
    /\ UNCHANGED <<mutagen, net, conflict, plist, why, downBy, late, cut>>

StartDaemon(p) ==
    /\ at[p] = "start"
    /\ Wakes
    /\ Goto(p, Back(p))
    /\ UNCHANGED <<world, plist, loaded, session, conn, why, downBy, late, cut>>

EnsureDaemonAutostart(p) ==
    \/ Check(p) \/ StopDaemon(p) \/ Register(p) \/ RegisterFails(p) \/ PutBack(p)
    \/ Boot(p) \/ StartDaemon(p)

\* ------------------------------------------------------------------- sync up

RunSyncUp ==
    /\ at["up"] = "idle" /\ Fault
    /\ Goto("up", "check")
    /\ UNCHANGED <<mutagen, net, conflict, plist, loaded, why, downBy, late, cut>>

\* An existing session is left alone, paused or not.
ListSession ==
    /\ at["up"] = "list"
    /\ Wakes
    /\ Goto("up", IF HasEvidence THEN "idle" ELSE "create")
    /\ UNCHANGED <<world, plist, loaded, session, conn, why, downBy, late, cut>>

\* A create that meets an ending daemon fails, and the command dies.
CreateSession ==
    /\ at["up"] = "create"
    /\ Wakes
    /\ session' = IF daemon # "ending" /\ session = "none" THEN "active" ELSE session
    /\ Goto("up", "idle")
    /\ UNCHANGED <<world, plist, loaded, conn, why, downBy, late, cut>>

\* --------------------------------------------------- sync down, pause, resume

UserStep(to) ==
    /\ session # "none" /\ daemon # "ending" /\ session' = to
    /\ Wakes
    /\ conn' = (conn /\ to = "active")
    /\ UNCHANGED <<net, plist, loaded, at, why, downBy, cut>>

RunSyncDown == Fault /\ UserStep("none") /\ conflict' = FALSE /\ UNCHANGED late
RunSyncPause ==
    /\ Fault /\ UserStep("paused")
    /\ late' = (late \/ at["recover"] = "act")
    /\ UNCHANGED conflict
RunSyncResume == Fault /\ UserStep("active") /\ UNCHANGED <<conflict, late>>

\* --------------------------------------------------------------------- recover

RunRecover ==
    /\ at["recover"] = "idle"
    /\ Goto("recover", "collect")
    /\ UNCHANGED <<mutagen, world, plist, loaded, why, downBy, late, cut>>

\* collectDoctorHealth, once for all components; then this one's turn comes.
Collect ==
    /\ at["recover"] = "collect"
    /\ Wakes
    /\ why' = Health
    /\ Goto("recover", IF Recoverable(Health) THEN "look" ELSE "idle")
    /\ UNCHANGED <<world, plist, loaded, session, conn, downBy, late, cut>>

\* Mutant: recovery acts on the evidence collected first.
ActOnFirstLook ==
    /\ at["recover"] = "look"
    /\ Wakes
    /\ Goto("recover", "act")
    /\ late' = FALSE
    /\ UNCHANGED <<world, plist, loaded, session, conn, why, downBy, cut>>

\* recoverSyncLive looks again and acts only on the same reason.
SecondLook ==
    /\ at["recover"] = "look"
    /\ Wakes
    /\ Goto("recover", IF Health = why THEN "act" ELSE "idle")
    /\ late' = FALSE
    /\ UNCHANGED <<world, plist, loaded, session, conn, why, downBy, cut>>

\* Both decisions on a session's state end in `mutagen sync resume`.
ActResume ==
    /\ at["recover"] = "act" /\ why = "sync_disconnected"
    /\ Wakes
    /\ IF session # "none" /\ daemon # "ending"
       THEN session' = "active" /\ conn' = (net /\ Runs)
       ELSE UNCHANGED <<session, conn>>
    /\ Goto("recover", "post")
    /\ UNCHANGED <<world, plist, loaded, why, downBy, late, cut>>

ActAutostart ==
    /\ at["recover"] = "act" /\ why = "sync_autostart_unregistered"
    /\ Goto("recover", "check")
    /\ UNCHANGED <<mutagen, world, plist, loaded, why, downBy, late, cut>>

\* The outcome is the re-probe's, not the call's.
Verify ==
    /\ at["recover"] = "verify"
    /\ Goto("recover", IF Registered THEN "post" ELSE "idle")
    /\ UNCHANGED <<mutagen, world, plist, loaded, why, downBy, late, cut>>

\* The post-probe changes nothing but that it, too, starts the daemon.
PostProbe ==
    /\ at["recover"] = "post"
    /\ Wakes
    /\ Goto("recover", "idle")
    /\ UNCHANGED <<world, plist, loaded, session, conn, why, downBy, late, cut>>

\* ------------------------------------------------- Mutagen, launchd, the world

Env == UNCHANGED <<plist, at, why, late>>

DaemonEnds ==
    /\ daemon = "ending"
    /\ daemon' = "down" /\ downBy' = "stop"
    /\ UNCHANGED <<world, loaded, session, conn, cut>> /\ Env

LaunchdStarts ==
    /\ loaded /\ daemon = "down"
    /\ daemon' = "launchd"
    /\ UNCHANGED <<world, loaded, session, conn, downBy, cut>> /\ Env

Connects ==
    /\ Runs /\ session = "active" /\ net /\ ~conn
    /\ conn' = TRUE
    /\ UNCHANGED <<world, loaded, daemon, session, downBy, cut>> /\ Env

DaemonDies ==
    /\ Runs /\ Fault
    /\ daemon' = "down" /\ conn' = FALSE /\ downBy' = "other"
    /\ UNCHANGED <<net, conflict, loaded, session, cut>> /\ Env

NetDown ==
    /\ net /\ Fault
    /\ net' = FALSE /\ conn' = FALSE
    /\ UNCHANGED <<conflict, loaded, daemon, session, downBy, cut>> /\ Env
NetUp ==
    /\ ~net /\ net' = TRUE
    /\ UNCHANGED <<conflict, faults, loaded, mutagen, downBy, cut>> /\ Env

\* Two different edits meet; someone settles them by hand.
Conflicts ==
    /\ session = "active" /\ conn
    /\ \/ ~conflict /\ Fault /\ conflict' = TRUE
       \/ conflict /\ conflict' = FALSE /\ UNCHANGED faults
    /\ UNCHANGED <<net, loaded, mutagen, downBy, cut>> /\ Env

Cut(p) ==
    /\ at[p] # "idle" /\ Fault
    /\ Goto(p, "idle")
    /\ cut' = (cut \/ at[p] \in Ensuring \ {"check", "stop"})
    /\ UNCHANGED <<mutagen, net, conflict, plist, loaded, why, downBy, late>>

Reboot ==
    /\ Fault
    /\ daemon' = "down" /\ conn' = FALSE /\ downBy' = "other"
    /\ loaded' = plist
    /\ at' = [p \in Procs |-> "idle"]
    /\ UNCHANGED <<net, conflict, plist, session, why, late, cut>>

\* -------------------------------------------------------------- specification

\* A client on which Mutagen was never registered, with or without a session.
Init ==
    /\ daemon \in {"down", "own"} /\ session \in {"none", "active", "paused"}
    /\ plist = FALSE /\ loaded = FALSE /\ conn = FALSE
    /\ net = TRUE /\ conflict = FALSE
    /\ at = [p \in Procs |-> "idle"]
    /\ why = "none" /\ faults = 0
    /\ downBy = "other" /\ late = FALSE /\ cut = FALSE

RecoverStep ==
    \/ Collect \/ SecondLook \/ ActResume \/ ActAutostart \/ Verify \/ PostProbe
    \/ EnsureDaemonAutostart("recover")
UpStep == ListSession \/ CreateSession \/ EnsureDaemonAutostart("up")

Next ==
    \/ RunSyncUp \/ UpStep \/ RunSyncDown \/ RunSyncPause \/ RunSyncResume
    \/ RunRecover \/ RecoverStep
    \/ DaemonEnds \/ LaunchdStarts \/ Connects
    \/ DaemonDies \/ NetDown \/ NetUp \/ Conflicts \/ (\E p \in Procs : Cut(p)) \/ Reboot

\* A started command goes on, the user asks for recovery again and again, and Mutagen,
\* launchd and the network do their part.
Spec ==
    /\ Init /\ [][Next]_vars
    /\ WF_vars(RunRecover) /\ WF_vars(RecoverStep) /\ WF_vars(UpStep)
    /\ WF_vars(DaemonEnds) /\ WF_vars(LaunchdStarts) /\ WF_vars(Connects) /\ WF_vars(NetUp)

\* ----------------------------------------------------------------- properties

\* A session the user paused stays paused: recovery, however long after it collected
\* its evidence, resumes none that was paused when it looked the second time.
PauseHonoured ==
    [][at["recover"] = "act" /\ at'["recover"] = "post" /\ session = "paused" => late]_vars

\* Registering the daemon stops it, and leaves the client with a registered or a
\* running one: once nobody is at it any more, a daemon that was stopped is back, unless
\* the command that had stopped it was cut.
StoppedIsBack ==
    daemon = "down" /\ downBy = "stop" /\ ~loaded =>
        cut \/ \E p \in Procs : at[p] \in Ensuring

\* Recovery converges: when the faults are over, an active session without conflicts
\* ends up connected, under a daemon that survives the next reboot, although each
\* repair (a restart of the daemon, a reconnect) is evidence for the other.
RecoverHeals == <>[](session = "active" /\ ~conflict) => <>[](Runs /\ conn /\ loaded)
=============================================================================
