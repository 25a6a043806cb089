-------------------------- MODULE BrowserSupervisor --------------------------
(* The shell supervisor of the client's managed Chrome (the script           *)
(* renderBrowserSupervisor in agent.ts renders): it takes the Chrome profile *)
(* back from whoever holds it, launches Chrome, waits for its CDP port,      *)
(* keeps a reverse tunnel from the box to that port and ends when the        *)
(* browser does. launchd starts it again whenever it ends.                   *)
(*                                                                           *)
(* Chrome, ssh, the box's sshd and launchd are the environment: a Chrome     *)
(* that finds the profile held hands its window to the holder and exits; one *)
(* that finds a stale lock may re-exec itself under another pid. Times are   *)
(* abstract: running into a deadline while the browser still makes progress  *)
(* is a fault, and so are a crash, a kill and a lost connection; MaxFaults   *)
(* bounds their number. The tunnel's backoff is only the delay of a retry.   *)
EXTENDS Naturals

CONSTANTS
    Pids,        \* pids a Chrome may get
    Stranger,    \* pid of a process that has nothing to do with the profile
    None,        \* no pid
    MaxFaults    \* crashes, kills, lost connections and missed deadlines

ASSUME PidsAssumption == Stranger \notin Pids /\ None \notin Pids \cup {Stranger}
ASSUME BoundsAssumption == MaxFaults \in Nat

VARIABLES
    chrome,    \* chrome[p]: none, young (no lock yet), holding (the profile), serving (CDP too)
    lock,      \* SingletonLock: the pid it names, which may be dead or a stranger's
    marker,    \* DevToolsActivePort: the Chrome whose port it names
    sup,       \* the supervisor: down, claim, unlock, start, marker, cdp, monitor
    my,        \* chrome_pid
    port,      \* cdp_port: the Chrome that had it when it was read
    tunnel,    \* none, trying, up, down
    remote,    \* the tunnel's port on the box: free, mine, ghost (an old session's sshd)
    stranger,  \* whether the stranger lives
    faults

supervisorVars == <<chrome, lock, marker, sup, my, port, tunnel, remote, stranger, faults>>

\* --------------------------------------------------------------- the profile

Holds(p) == chrome[p] \in {"holding", "serving"}
\* Mutant: any live process with the lock's pid counts as the owner.
AnyLivePid ==
    {p \in Pids : lock = p /\ chrome[p] # "none"} \cup (IF lock = Stranger THEN {Stranger} ELSE {})
\* profile_owner_pid: the lock's pid, if it is alive and was started for this profile.
Owners == {p \in Pids : lock = p /\ chrome[p] # "none"}

Unused(p) == chrome[p] = "none" /\ p \notin {lock, my, port, marker}

\* p ends; a Chrome that exits in order gives its lock back.
Ends(p) ==
    /\ chrome' = [q \in Pids |-> IF q = p THEN "none" ELSE chrome[q]]
    /\ lock' \in {lock, IF lock = p THEN None ELSE lock}
    /\ stranger' = (stranger /\ p # Stranger)

Fault == faults < MaxFaults /\ faults' = faults + 1
NoFault == UNCHANGED faults

\* ------------------------------------------------------------ the supervisor

\* launchd's KeepAlive.
Launch ==
    /\ sup = "down"
    /\ sup' = "claim"
    /\ UNCHANGED <<chrome, lock, marker, my, port, tunnel, remote, stranger, faults>>

\* claim_profile: a holder is asked to end, then killed; without one the lock goes at once.
Claim ==
    /\ sup = "claim"
    /\ IF Owners = {}
       THEN lock' = None /\ sup' = "start" /\ UNCHANGED <<chrome, stranger>>
       ELSE sup' = "unlock" /\ \E held \in Owners : Ends(held)
    /\ UNCHANGED <<marker, my, port, tunnel, remote, faults>>

\* The wait for the holder's end leaves another Chrome time to take the profile.
Unlock ==
    /\ sup = "unlock"
    /\ lock' = None
    /\ sup' = "start"
    /\ UNCHANGED <<chrome, marker, my, port, tunnel, remote, stranger, faults>>

\* Mutant: the port file of an earlier Chrome is left for the wait to find.
StartOnOldMarker ==
    /\ sup = "start"
    /\ \E p \in Pids :
         /\ Unused(p)
         /\ chrome' = [chrome EXCEPT ![p] = "young"]
         /\ my' = p
    /\ sup' = "marker"
    /\ UNCHANGED <<lock, marker, port, tunnel, remote, stranger, faults>>

StartChrome ==
    /\ sup = "start"
    /\ \E p \in Pids :
         /\ Unused(p)
         /\ chrome' = [chrome EXCEPT ![p] = "young"]
         /\ my' = p
    /\ marker' = None
    /\ sup' = "marker"
    /\ UNCHANGED <<lock, port, tunnel, remote, stranger, faults>>

Awake == sup \in {"marker", "cdp", "monitor"}
\* browser_alive's first test. A step that needs it is written with it as a guard.
MineAlive == my # None /\ chrome[my] # "none"

\* browser_alive: the forked pid is gone, but the profile has another owner.
Adopt ==
    /\ Awake /\ ~MineAlive
    /\ \E p \in Owners \ {my} : my' = p
    /\ UNCHANGED <<chrome, lock, marker, sup, port, tunnel, remote, stranger, faults>>

\* The script ends: its exit trap kills the tunnel and the browser it knows.
Cleanup ==
    /\ sup' = "down" /\ tunnel' = "none"
    /\ my' = None /\ port' = None
    /\ remote' \in (IF remote = "mine" THEN {"free", "ghost"} ELSE {remote})
    /\ IF MineAlive THEN Ends(my) ELSE UNCHANGED <<chrome, lock, stranger>>
    /\ UNCHANGED marker

\* No owner appeared within the grace; too early if one is still on its way.
BrowserGone ==
    /\ Awake /\ ~MineAlive /\ Owners \subseteq {my}
    /\ Cleanup
    /\ IF \E p \in Pids : chrome[p] = "young" THEN Fault ELSE NoFault

ReadMarker ==
    /\ sup = "marker" /\ MineAlive
    /\ marker # None
    /\ port' = marker
    /\ sup' = "cdp"
    /\ UNCHANGED <<chrome, lock, marker, my, tunnel, remote, stranger, faults>>

CdpReady ==
    /\ sup = "cdp" /\ MineAlive
    /\ chrome[port] = "serving"
    /\ sup' = "monitor"
    /\ tunnel' = "trying"
    /\ UNCHANGED <<chrome, lock, marker, my, port, remote, stranger, faults>>

\* The browser still makes progress towards the state the script waits for.
Progresses ==
    \/ sup = "marker" /\ (marker # None \/ \E p \in Pids : chrome[p] \in {"young", "holding"})
    \/ sup = "cdp" /\ chrome[port] = "serving"

Deadline ==
    /\ sup \in {"marker", "cdp"}
    /\ Cleanup
    /\ IF Progresses THEN Fault ELSE NoFault

\* Only the browser's death ends the script; a dead tunnel is tried again.
RetryTunnel ==
    /\ sup = "monitor" /\ MineAlive
    /\ tunnel = "down"
    /\ tunnel' = "trying"
    /\ UNCHANGED <<chrome, lock, marker, sup, my, port, remote, stranger, faults>>

\* ---------------------------------------------------------- ssh and the box

TunnelEnv == UNCHANGED <<chrome, lock, marker, sup, my, port, stranger>>

Connect ==
    /\ tunnel = "trying"
    /\ IF remote = "free" THEN tunnel' = "up" /\ remote' = "mine"
                          ELSE tunnel' = "down" /\ UNCHANGED remote
    /\ TunnelEnv /\ NoFault

Disconnect ==
    /\ tunnel = "up"
    /\ tunnel' = "down"
    /\ remote' \in {"free", "ghost"}
    /\ TunnelEnv /\ Fault

\* The box's sshd notices that the old client is gone.
GhostEnds ==
    /\ remote = "ghost"
    /\ remote' = "free"
    /\ UNCHANGED tunnel /\ TunnelEnv /\ NoFault

\* --------------------------------------------------------------------- Chrome

ChromeEnv == UNCHANGED <<sup, my, port, tunnel, remote, stranger>>

TakeProfile(p) ==
    /\ chrome[p] = "young" /\ Owners = {}
    /\ chrome' = [chrome EXCEPT ![p] = "holding"]
    /\ lock' = p
    /\ UNCHANGED marker /\ ChromeEnv /\ NoFault

\* Stale-lock recovery: another process goes on in p's place.
ReExec(p, q) ==
    /\ chrome[p] = "young" /\ lock # None /\ Owners = {}
    /\ Unused(q)
    /\ chrome' = [chrome EXCEPT ![p] = "none", ![q] = "young"]
    /\ lock' = None
    /\ UNCHANGED marker /\ ChromeEnv /\ NoFault

HandOver(p) ==
    /\ chrome[p] = "young" /\ Owners # {}
    /\ chrome' = [chrome EXCEPT ![p] = "none"]
    /\ UNCHANGED <<lock, marker>> /\ ChromeEnv /\ NoFault

Serve(p) ==
    /\ chrome[p] = "holding"
    /\ chrome' = [chrome EXCEPT ![p] = "serving"]
    /\ marker' = p
    /\ UNCHANGED lock /\ ChromeEnv /\ NoFault

Crash(p) ==
    /\ chrome[p] # "none"
    /\ Ends(p)
    /\ UNCHANGED <<marker, sup, my, port, tunnel, remote>> /\ Fault

\* A running Chrome restarts itself, for an update or because the user asks it to.
Relaunch(p, q) ==
    /\ chrome[p] = "serving" /\ Unused(q)
    /\ chrome' = [chrome EXCEPT ![p] = "none", ![q] = "young"]
    /\ lock' = None
    /\ UNCHANGED marker /\ ChromeEnv /\ Fault

\* launchd or the user ends the supervisor; hard, its exit trap does not run and
\* the browser may outlive it.
Stopped ==
    /\ sup # "down"
    /\ \/ Cleanup
       \/ /\ sup' = "down" /\ tunnel' = "none" /\ my' = None /\ port' = None
          /\ remote' \in (IF remote = "mine" THEN {"free", "ghost"} ELSE {remote})
          /\ UNCHANGED <<chrome, lock, marker, stranger>>
    /\ Fault

\* -------------------------------------------------------------- specification

\* What an earlier life of the machine left: any lock, a Chrome that outlived its
\* supervisor, an old session on the box.
SupervisorInit ==
    /\ chrome \in {[p \in Pids |-> IF p = o THEN "serving" ELSE "none"] : o \in Pids \cup {None}}
    /\ lock \in Pids \cup {None, Stranger}
    /\ \A p \in Pids : chrome[p] # "none" => lock = p
    /\ marker \in {None, lock} \ {Stranger}
    /\ sup = "down" /\ my = None /\ port = None
    /\ tunnel = "none" /\ remote \in {"free", "ghost"}
    /\ stranger = TRUE /\ faults = 0

Script ==
    \/ Launch \/ Claim \/ Unlock \/ StartChrome \/ Adopt \/ ReadMarker \/ CdpReady \/ RetryTunnel
    \/ BrowserGone \/ Deadline

ChromeStep ==
    \E p \in Pids : TakeProfile(p) \/ HandOver(p) \/ Serve(p) \/ (\E q \in Pids : ReExec(p, q))

SupervisorNext ==
    \/ Script \/ ChromeStep \/ Connect \/ GhostEnds
    \/ Disconnect \/ Stopped
    \/ \E p \in Pids : Crash(p) \/ (\E q \in Pids : Relaunch(p, q))

\* The script runs on, Chrome goes on starting, ssh answers, sshd drops dead sessions.
SupervisorSpec ==
    /\ SupervisorInit /\ [][SupervisorNext]_supervisorVars
    /\ WF_supervisorVars(Script) /\ WF_supervisorVars(ChromeStep)
    /\ WF_supervisorVars(Connect) /\ WF_supervisorVars(GhostEnds)

\* ----------------------------------------------------------------- properties

\* The box reaches the browser that owns the profile: once the supervisor watches a
\* Chrome that holds the profile, the port it forwards is that Chrome's.
TunnelToOwnChrome == sup = "monitor" /\ MineAlive /\ Holds(my) => port = my

\* Taking the profile back kills the browser that holds it, never a process that
\* merely has the pid a stale lock names.
SparesStrangers == stranger

\* When the faults are over, the managed browser comes up and stays up, and the box
\* reaches it: no stale lock, no browser that outlived its supervisor and no old
\* session on the box makes the agent launch one window after the other for ever.
Served == sup = "monitor" /\ MineAlive /\ Holds(my) /\ tunnel = "up"
BrowserRecovers == <>[]Served
=============================================================================
