---------------------------- MODULE LaunchAgents ----------------------------
(* The client's launchd agents of one profile (agent.ts): the plists on      *)
(* disk, the jobs launchd runs from them, the supervisors of the port        *)
(* forwards with their ready markers, and the commands `devbox agent up`,    *)
(* `agent down`, `browser mode`, `browser bind`, `browser unbind` and        *)
(* `recover all`.                                                            *)
(*                                                                           *)
(* One command runs at a time and may be cut at any point. A command is a    *)
(* list of tasks; removing and installing an agent advance one system call   *)
(* per step. A plist is the revision of the configuration that rendered it,  *)
(* 0 when there is no file; a job is the revision launchd loaded, 0 when the *)
(* label is not loaded. The configuration is edited only between commands:   *)
(* a command reads it once. Dry runs, output and the lookup of executables   *)
(* are left out; so is the browser's own supervisor (BrowserSupervisor).     *)
EXTENDS Naturals, Sequences, FiniteSets, SequencesExt

CONSTANTS
    Ports,      \* project ports a forward may be bound for
    Contested,  \* local ports another program may take
    Configs     \* the configurations the profile may have

Conf == [agents : SUBSET {"desktop", "browser", "monitoring", "mount"},
         auto : SUBSET Ports, rev : Nat \ {0}]
ASSUME ConfigsAssumption == Configs \subseteq Conf
ASSUME PortsAssumption == Ports \subseteq Nat \ {0} /\ IsFiniteSet(Ports)

Desktop == <<"desktop", 0>>
Browser == <<"browser", 0>>
Monitoring == <<"monitoring", 0>>
Mount == <<"mount", 0>>
Legacy == <<"legacy", 0>>
Manual(p) == <<"manual", p>>
AutoBind(p) == <<"autobind", p>>
ManualLabels == {Manual(p) : p \in Ports}
AutoLabels == {AutoBind(p) : p \in Ports}
PortLabels == ManualLabels \cup AutoLabels
Labels == {Desktop, Browser, Monitoring, Mount, Legacy} \cup PortLabels

\* Everything of browser client mode: what server mode must stop.
BrowserSide == {Browser, Legacy} \cup PortLabels
\* A forward whose supervisor publishes a ready marker.
HasReady(l) == l = Monitoring \/ l \in PortLabels
Forwards == {Desktop, Monitoring} \cup PortLabels
\* The local port of a forward; the desktop's and the dashboard's are their own.
PortOf(l) == IF l \in PortLabels THEN <<"port", l[2]>> ELSE l
LocalPorts == {PortOf(l) : l \in Forwards}
ASSUME ContestedAssumption == Contested \subseteq LocalPorts
Free == <<"free", 0>>
Foreign == <<"foreign", 0>>
NoLabel == <<"none", 0>>

Modes == {"client", "server"}
Commands == {"up", "down", "client", "server", "bind", "unbind", "recover"}

VARIABLES
    conf,      \* devbox.yml's generated configuration
    mode,      \* the browser-mode file (missing reads as client)
    plist,     \* plist[l]: revision on disk, 0 = no file
    job,       \* job[l]: revision launchd runs, 0 = not loaded
    proc,      \* proc[l]: the forward's process: none, started, serving
    ready,     \* ready[l]: the ready marker exists
    listener,  \* listener[p]: who listens on a local port
    op,        \* the running command, or idle
    todo,      \* its tasks left, <<what, label>>
    cur,       \* the task it is in
    pc,        \* the step of that task
    proven,    \* history: the installed forward published its marker since its bootstrap
    done,      \* history: `agent up` completed, and nothing followed
    settled    \* history: the mode last completed, if no mode command was cut since

disk == <<conf, mode, plist>>
launchd == <<job, proc, ready, listener, proven>>
cli == <<op, todo, cur, pc>>
vars == <<conf, mode, plist, job, proc, ready, listener, op, todo, cur, pc, proven, done, settled>>

\* ---------------------------------------------------------------- configuration

Fixed == {Desktop, Browser, Monitoring, Mount}
HasBrowser == "browser" \in conf.agents
\* agentsFor, without the browser in server mode.
Specs == {l \in Fixed : l[1] \in conf.agents /\ (l = Browser => mode = "client")}
AutoBindSpecs == IF HasBrowser THEN {AutoBind(p) : p \in conf.auto} ELSE {}
Wanted == Specs \cup (IF mode = "client" THEN AutoBindSpecs ELSE {})

Installed == {l \in Labels : plist[l] # 0}
InstalledAgentLabels == Installed \cap {Desktop, Browser, Mount}
LegacyLabels == IF HasBrowser THEN {Legacy} ELSE {}

Each(what, labels) == LET s == SetToSeq(labels) IN [i \in 1..Len(s) |-> <<what, s[i]>>]
InOrder(what, labels) ==
    LET One(l) == IF l \in labels THEN <<<<what, l>>>> ELSE <<>>
    IN One(Desktop) \o One(Browser) \o One(Monitoring) \o One(Mount)
Do(what) == <<what, NoLabel>>

\* ------------------------------------------------------------------ commands

Idle == op = "idle"

Command(c, tasks) ==
    /\ Idle
    /\ op' = c /\ todo' = tasks /\ pc' = "next" /\ cur' = Do("none")
    /\ done' = FALSE
    /\ UNCHANGED <<disk, launchd>>

RunAgentUp ==
    /\ Command("up", Each("remove", LegacyLabels) \o <<Do("specs")>>)
    /\ UNCHANGED settled

RunAgentDown ==
    /\ Command("down", Each("remove", {l \in Fixed : l[1] \in conf.agents}
                \cup InstalledAgentLabels \cup (Installed \cap PortLabels) \cup LegacyLabels))
    /\ UNCHANGED settled

ServerLabels == {Browser} \cup LegacyLabels \cup (Installed \cap PortLabels)

RunBrowserMode(m) ==
    /\ HasBrowser
    /\ Command(m, IF m = "server"
                  THEN Each("remove", ServerLabels) \o <<Do("server")>>
                  ELSE Each("remove", LegacyLabels) \o
                       <<<<"install", Browser>>, Do("autobind"), Do("client")>>)
    /\ settled' = "none"

\* Mutant: bind does not ask for the mode.
BindInAnyMode(ports) ==
    /\ HasBrowser
    /\ Command("bind", Each("install", {Manual(p) : p \in ports}))
    /\ UNCHANGED settled

RunBrowserBind(ports) ==
    /\ mode = "client"
    /\ HasBrowser
    /\ Command("bind", Each("install", {Manual(p) : p \in ports}))
    /\ UNCHANGED settled

RunBrowserUnbind(ports) ==
    /\ HasBrowser
    /\ Command("unbind", Each("remove", {Manual(p) : p \in ports}))
    /\ UNCHANGED settled

\* configuredAgentSpecs: what health looks at and what recovery may act on.
ConfiguredAgentSpecs == Wanted \cup (Installed \cap PortLabels)

\* probeAgentHealth, as far as recovery tells it apart: not loaded, a listener that
\* is not the job's own, or neither (healthy, recovering, or a reason the registry
\* does not list).
ProbeAgentHealth(l) ==
    CASE job[l] = 0 -> "agent_not_loaded"
      [] l \in Forwards /\ (IF HasReady(l) THEN ready[l] /\ proc[l] # "none" ELSE proc[l] = "started")
             /\ listener[PortOf(l)] # l -> "listener_owner_mismatch"
      [] OTHER -> "fine"

\* The registry knows no pattern for the dashboard's agent.
Registered(l) == l # Monitoring

RunRecover ==
    /\ Command("recover", Each("recover",
          {l \in ConfiguredAgentSpecs : Registered(l) /\ ProbeAgentHealth(l) # "fine"}))
    /\ UNCHANGED settled

\* ------------------------------------------------- one task, one call at a time

Running(step) == op # "idle" /\ pc = step
Goto(step) == pc' = step /\ UNCHANGED <<op, todo, cur, done, settled>>
\* The task is over.
Pass == pc' = "next" /\ cur' = Do("none") /\ UNCHANGED <<op, todo, done, settled>>
\* die(): the process exits and leaves the rest of its tasks undone.
Die ==
    /\ op' = "idle" /\ todo' = <<>> /\ pc' = "next" /\ cur' = Do("none")
    /\ UNCHANGED <<done, settled>>
Expand(tasks) ==
    /\ todo' = tasks \o Tail(todo)
    /\ UNCHANGED <<op, cur, pc, done, settled>>

Task(what) == Running("next") /\ todo # <<>> /\ Head(todo)[1] = what

Begin ==
    /\ Task("remove") \/ Task("install")
    /\ cur' = Head(todo) /\ todo' = Tail(todo)
    /\ pc' = IF Head(todo)[1] = "remove" THEN "bootout" ELSE "check"
    /\ UNCHANGED <<disk, launchd, op, done, settled>>

\* runAgentUp reads the mode only after the legacy agents are gone.
ExpandSpecs ==
    /\ Task("specs")
    /\ Expand(InOrder("install", Specs)
              \o (IF HasBrowser /\ mode = "client" THEN <<Do("autobind")>> ELSE <<>>)
              \o <<Do("sweep")>>)
    /\ UNCHANGED <<disk, launchd>>

ReconcileAutoBindPorts ==
    /\ Task("autobind")
    /\ Expand(Each("remove", (Installed \cap AutoLabels) \ AutoBindSpecs) \o Each("install", AutoBindSpecs))
    /\ UNCHANGED <<disk, launchd>>

Unconfigured == InstalledAgentLabels \ Specs
Sweep ==
    /\ Task("sweep")
    /\ Expand(Each("remove", Unconfigured))
    /\ UNCHANGED <<disk, launchd>>

WriteBrowserMode ==
    /\ Task("client") \/ Task("server")
    /\ mode' = Head(todo)[1]
    /\ settled' = Head(todo)[1]
    /\ todo' = Tail(todo)
    /\ UNCHANGED <<conf, plist, launchd, op, cur, pc, done>>

Finish ==
    /\ Running("next") /\ todo = <<>>
    /\ op' = "idle" /\ done' = (op = "up")
    /\ UNCHANGED <<disk, launchd, todo, cur, pc, settled>>

It == cur[2]
\* Mutant: a loaded agent counts as current, whatever its plist says.
LoadedIsCurrent == job[It] # 0 /\ (HasReady(It) => ready[It])
Current == plist[It] = conf.rev /\ job[It] # 0 /\ (HasReady(It) => ready[It])
CheckCurrent ==
    /\ Running("check")
    /\ IF Current THEN Pass ELSE Goto("bootout")
    /\ UNCHANGED <<disk, launchd>>

\* The job's process is gone; its exit trap removes the marker unless it was killed hard.
Stop(l) ==
    /\ proc' = [proc EXCEPT ![l] = "none"]
    /\ listener' = [p \in LocalPorts |-> IF listener[p] = l THEN Free ELSE listener[p]]
    /\ \E kept \in {FALSE, ready[l]} : ready' = [ready EXCEPT ![l] = kept]

AfterBootout == IF cur[1] = "install" THEN "unready" ELSE "unlink"
Unloaded(l) == job' = [job EXCEPT ![l] = 0] /\ Stop(l) /\ UNCHANGED <<disk, proven>>

\* Mutant: a label is taken for gone although its bootout failed.
BootoutUnchecked ==
    /\ Running("bootout")
    /\ \/ Unloaded(It) /\ Goto(AfterBootout)
       \/ Goto(AfterBootout) /\ UNCHANGED <<disk, launchd>>

\* bootoutIfLoaded: returns once the label is gone, or dies: launchd refused, or
\* took longer than the polls (and is done with it only now).
Bootout ==
    /\ Running("bootout")
    /\ \/ job[It] = 0 /\ Goto(AfterBootout) /\ UNCHANGED <<disk, launchd>>
       \/ job[It] # 0 /\ Unloaded(It) /\ (Goto(AfterBootout) \/ Die)
       \/ job[It] # 0 /\ Die /\ UNCHANGED <<disk, launchd>>

Unlink ==
    /\ Running("unlink")
    /\ plist' = [plist EXCEPT ![It] = 0]
    /\ Goto("unready")
    /\ UNCHANGED <<conf, mode, launchd>>

\* Mutant: nobody removes the marker.
MarkerStays ==
    /\ Running("unready")
    /\ CASE cur[1] = "install" -> Goto("write")
         [] cur[1] = "remove" -> Pass
         [] cur[1] = "discard" -> Die
    /\ UNCHANGED <<disk, launchd>>

\* The last step of a removal (which die()s after a forward that was not ready),
\* and the step before an install's write.
Unready ==
    /\ Running("unready")
    /\ ready' = [ready EXCEPT ![It] = FALSE]
    /\ CASE cur[1] = "install" -> Goto("write")
         [] cur[1] = "remove" -> Pass
         [] cur[1] = "discard" -> Die
    /\ UNCHANGED <<disk, job, proc, listener, proven>>

Write ==
    /\ Running("write")
    /\ plist' = [plist EXCEPT ![It] = conf.rev]
    /\ Goto("bootstrap")
    /\ UNCHANGED <<conf, mode, launchd>>

\* bootstrapAgent: loads what is on disk, or gives up.
Bootstrap ==
    /\ Running("bootstrap")
    /\ \/ /\ job' = [job EXCEPT ![It] = plist[It]]
          /\ proven' = FALSE
          /\ IF HasReady(It) THEN Goto("await") ELSE Pass
          /\ UNCHANGED <<disk, proc, ready, listener>>
       \/ Die /\ UNCHANGED <<disk, launchd>>

AwaitReady ==
    /\ Running("await") /\ ready[It]
    /\ Pass
    /\ UNCHANGED <<disk, launchd>>
\* Thirty polls without a marker: the binding is not kept.
AwaitFails ==
    /\ Running("await") /\ ~ready[It]
    /\ cur' = <<"discard", It>> /\ pc' = "bootout"
    /\ UNCHANGED <<disk, launchd, op, todo, done, settled>>

\* --------------------------------------------------------------- recover all

\* Mutant: recovery trusts the evidence it collected.
NoSecondLook(l) == FALSE
\* Any listener counts, the agent's own too.
ForeignListener(l) == l \in Forwards /\ listener[PortOf(l)] # Free

\* recoverOwnedAgentLive: the specs, the plist, the job and the listener are looked
\* at again; only the health is the one collected at the start.
RecoverBlocked(l) ==
    \/ l \notin ConfiguredAgentSpecs
    \/ plist[l] \notin {0, conf.rev}
    \/ ForeignListener(l)

Recovers(l) ==
    /\ plist' = [plist EXCEPT ![l] = conf.rev]
    /\ proc' = [proc EXCEPT ![l] = "none"]
    /\ ready' = [ready EXCEPT ![l] = FALSE]
    /\ \E loads \in {0, conf.rev} : job' = [job EXCEPT ![l] = loads]
    /\ UNCHANGED <<conf, mode, listener, proven>>

RecoverOwnedAgent ==
    /\ Task("recover")
    /\ LET l == Head(todo)[2] IN
       \/ /\ todo' = Tail(todo)
          /\ UNCHANGED <<op, cur, pc, done, settled>>
          /\ \/ RecoverBlocked(l) /\ UNCHANGED <<disk, launchd>>
             \/ ~RecoverBlocked(l) /\ Recovers(l)
       \* the bootout of a loaded agent fails: die() ends the whole recovery
       \/ ~RecoverBlocked(l) /\ job[l] # 0 /\ Die /\ UNCHANGED <<disk, launchd>>

\* ------------------------------------------------- launchd and the supervisors

CliStays == UNCHANGED <<disk, cli, job, done, settled>>

\* launchd keeps a loaded forward running; its supervisor first drops the marker.
Start(l) ==
    /\ job[l] # 0 /\ proc[l] = "none"
    /\ proc' = [proc EXCEPT ![l] = "started"]
    /\ ready' = [ready EXCEPT ![l] = FALSE]
    /\ UNCHANGED <<listener, proven>> /\ CliStays

\* The ssh child listens; a port that is taken makes it exit (Fail).
Listen(l) ==
    /\ proc[l] = "started" /\ listener[PortOf(l)] = Free
    /\ proc' = [proc EXCEPT ![l] = "serving"]
    /\ listener' = [listener EXCEPT ![PortOf(l)] = l]
    /\ UNCHANGED <<ready, proven>> /\ CliStays

Publish(l) ==
    /\ HasReady(l) /\ proc[l] = "serving" /\ ~ready[l]
    /\ ready' = [ready EXCEPT ![l] = TRUE]
    /\ proven' = (proven \/ l = It)
    /\ UNCHANGED <<proc, listener>> /\ CliStays

Fail(l) ==
    /\ proc[l] # "none"
    /\ Stop(l)
    /\ UNCHANGED proven /\ CliStays

ForeignComesOrGoes(p) ==
    /\ listener[p] \in {Free, Foreign}
    /\ listener' = [listener EXCEPT ![p] = IF @ = Free THEN Foreign ELSE Free]
    /\ UNCHANGED <<proc, ready, proven>> /\ CliStays

\* The command is killed (Ctrl-C, a closed terminal).
Cut ==
    /\ ~Idle
    /\ Die
    /\ UNCHANGED <<disk, launchd>>

\* The user logs out and in: the command and every process are gone, and launchd
\* loads every plist it finds. Markers of hard-killed supervisors stay.
Login ==
    /\ Die
    /\ job' = plist
    /\ proc' = [l \in Labels |-> "none"]
    /\ listener' = [p \in LocalPorts |-> Free]
    /\ UNCHANGED <<disk, ready, proven>>

EditConfig(c) ==
    /\ Idle
    /\ conf' = c
    /\ done' = FALSE
    /\ UNCHANGED <<mode, plist, launchd, cli, settled>>

\* -------------------------------------------------------------- specification

Init ==
    /\ conf \in Configs
    /\ mode = "client"
    /\ \E legacy \in {0, conf.rev} :
         /\ plist = [l \in Labels |-> IF l = Legacy THEN legacy ELSE 0]
         /\ job = plist
    /\ proc = [l \in Labels |-> "none"]
    /\ ready = [l \in Labels |-> FALSE]
    /\ listener = [p \in LocalPorts |-> Free]
    /\ op = "idle" /\ todo = <<>> /\ cur = Do("none") /\ pc = "next"
    /\ proven = FALSE /\ done = FALSE /\ settled = "none"

Run ==
    \/ RunAgentUp \/ RunAgentDown \/ RunRecover
    \/ \E m \in Modes : RunBrowserMode(m)
    \/ \E ports \in SUBSET Ports \ {{}} : RunBrowserBind(ports) \/ RunBrowserUnbind(ports)

Work ==
    \/ Begin \/ ExpandSpecs \/ ReconcileAutoBindPorts \/ Sweep \/ WriteBrowserMode \/ Finish
    \/ CheckCurrent \/ Bootout \/ Unlink \/ Unready \/ Write \/ Bootstrap
    \/ AwaitReady \/ AwaitFails \/ RecoverOwnedAgent

Environment ==
    \/ \E l \in Forwards : Start(l) \/ Listen(l) \/ Publish(l) \/ Fail(l)
    \/ \E p \in Contested : ForeignComesOrGoes(p)
    \/ Cut \/ Login
    \/ \E c \in Configs : EditConfig(c)

Next == Run \/ Work \/ Environment
Spec == Init /\ [][Next]_vars

\* ----------------------------------------------------------------- properties

\* Every variable a command or launchd writes stays in its range.
TypeOK ==
    /\ conf \in Configs /\ mode \in Modes
    /\ plist \in [Labels -> Nat] /\ job \in [Labels -> Nat]
    /\ proc \in [Labels -> {"none", "started", "serving"}]
    /\ ready \in [Labels -> BOOLEAN] /\ proven \in BOOLEAN /\ done \in BOOLEAN
    /\ listener \in [LocalPorts -> {Free, Foreign} \cup Forwards]
    /\ op \in Commands \cup {"idle"} /\ settled \in Modes \cup {"none"}

\* What launchd runs is what its plist on disk says: no command, cut anywhere, leaves
\* a job whose file was rewritten or deleted under it (bootoutIfLoaded's contract), so
\* that `agent down` and the next login find every job.
JobMatchesDisk == \A l \in Labels : job[l] # 0 => job[l] = plist[l]

\* Server mode, once its command completed and until the next mode command starts,
\* has no agent of the client's browser side on disk or running: no `agent up`, `bind`,
\* recovery, edit or login brings one back.
ServerStops == settled = "server" => \A l \in BrowserSide : plist[l] = 0 /\ job[l] = 0

\* A completed `agent up` leaves every agent the configuration and the mode ask for
\* installed from the current configuration and loaded, no desktop, browser or mount
\* agent they do not ask for, and in client mode exactly the configured autobinds.
UpSettles ==
    done =>
        /\ \A l \in Wanted : plist[l] = conf.rev /\ job[l] # 0
        /\ InstalledAgentLabels \subseteq Wanted
        /\ HasBrowser => plist[Legacy] = 0
        /\ HasBrowser /\ mode = "client" => Installed \cap AutoLabels = AutoBindSpecs

\* An install that accepts a ready marker accepts one this bootstrap's supervisor
\* wrote, never the leftover of a supervisor that was killed.
MarkerIsProof == [][pc = "await" /\ pc' = "next" /\ op' # "idle" => proven]_vars

\* Recovery never takes a forward down that serves when it acts, however old the
\* evidence is on which it acts.
RecoverSpares ==
    [][op = "recover" /\ op' = "recover" /\ todo' # todo =>
        \A l \in Forwards : proc[l] = "serving" => proc'[l] = "serving" /\ job'[l] # 0]_vars
=============================================================================
