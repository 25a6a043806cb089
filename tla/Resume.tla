-------------------------------- MODULE Resume -------------------------------
(***************************************************************************)
(* Remote control and its recovery (scripts/agent-rc-...): for each        *)
(* project a systemd unit whose monitor watches a tmux server and, every   *)
(* 30 s, notes which claude.ai card each of its sessions has.  When the    *)
(* server is gone the unit restarts, and triggers a resume cycle that      *)
(* brings every recent conversation with a worktree back, on its own card, *)
(* at most MaxAttempts times an hour.  The units of one user share         *)
(* attempts.json, which a cycle reads and later writes back whole.         *)
(***************************************************************************)
EXTENDS Integers

CONSTANTS
    Units,        \* remote-control units of one user
    Sessions,     \* conversations
    UnitOf,       \* UnitOf[s]: the project whose worktree s has
    MaxAttempts,  \* RC_RESUME_MAX_ATTEMPTS
    Hour,         \* 3600 s, in ticks
    MaxFaults,    \* bound: crashes of units and of cycles
    Torn,         \* a cycle can be killed while it writes attempts.json
    Joins         \* a cycle can meet sessions that the server itself runs

ASSUME UnitAssumption == UnitOf \in [Sessions -> Units]
ASSUME NumberAssumption ==
    /\ MaxAttempts \in Nat \ {0}
    /\ Hour \in Nat \ {0}
    /\ MaxFaults \in Nat
ASSUME ResumeSwitchAssumption == {Torn, Joins} \subseteq BOOLEAN

VARIABLES
    tmux,       \* tmux[u]: the unit's tmux server lives
    worktree,   \* the conversations that have a worktree
    fresh,      \* those with a transcript of the last RC_RESUME_LOOKBACK_H hours
    proc,       \* proc[s]: who runs s: nobody, the server, a resume, or two
    card,       \* card[s]: the claude.ai card s has; 0: none
    bmap,       \* bmap[s]: its entry in bridge-map-<unit>.json; 0: none
    pointer,    \* pointer[s]: the <uuid>.bridge file its launch will read; 0: none
    attempts,   \* attempts.json
    cycle,      \* cycle[u]: where the resume service of u is
    mem,        \* mem[u]: the attempts it has read and counted up
    todo,       \* todo[u]: its launch list
    faults,     \* faults so far
    recent,     \* history: recent[s]: the ages of the last resumes of s
    known       \* history: the conversations whose card was noted in time

files == <<bmap, pointer, attempts>>
service == <<cycle, mem, todo>>
disk == <<worktree, fresh>>
history == <<recent, known>>
vars == <<tmux, disk, proc, card, files, service, faults, history>>

Old == Hour + 1    \* more than an hour ago

Records == [count : 0..MaxAttempts, age : 0..Old]

NoRecord == [count |-> 0, age |-> Old]

NoRecords == [s \in Sessions |-> NoRecord]

(* Cards are told apart from the one before only.                           *)
Cards == 0..2

FreshCard(c) == IF c = 1 THEN 2 ELSE 1

Of(u) == {s \in Sessions : UnitOf[s] = u}

TypeOK ==
    /\ tmux \in [Units -> BOOLEAN]
    /\ {worktree, fresh, known} \subseteq SUBSET Sessions
    /\ proc \in [Sessions -> {"none", "spawned", "resumed", "both"}]
    /\ {card, bmap, pointer} \subseteq [Sessions -> Cards]
    /\ attempts \in [Sessions -> Records]
    /\ mem \in [Units -> [Sessions -> Records]]
    /\ cycle \in [Units -> {"off", "wait", "save", "launch"}]
    /\ todo \in [Units -> SUBSET Sessions]
    /\ faults \in 0..MaxFaults
    /\ recent \in [Sessions -> [1..MaxAttempts + 1 -> 0..Old]]

Init ==
    /\ tmux = [u \in Units |-> FALSE]
    /\ worktree = {} /\ fresh = {} /\ known = {}
    /\ proc = [s \in Sessions |-> "none"]
    /\ card = [s \in Sessions |-> 0]
    /\ bmap = card /\ pointer = card
    /\ attempts = NoRecords
    /\ cycle = [u \in Units |-> "off"]
    /\ mem = [u \in Units |-> NoRecords]
    /\ todo = [u \in Units |-> {}]
    /\ faults = 0
    /\ recent = [s \in Sessions |-> [i \in 1..MaxAttempts + 1 |-> Old]]

-----------------------------------------------------------------------------
(* The unit, its server and its sessions.                                  *)

Fault ==
    /\ faults < MaxFaults
    /\ faults' = faults + 1

(* Mutant: the cycle is only pulled in by a clean start, not by Restart=.   *)
UnitStartsQuietly(u) ==
    /\ ~tmux[u]
    /\ tmux' = [tmux EXCEPT ![u] = TRUE]
    /\ UNCHANGED <<disk, proc, card, files, service, faults, history>>

(* The wrapper creates the server, and systemd is asked for a cycle; one    *)
(* that still runs absorbs the request.                                     *)
UnitStarts(u) ==
    /\ ~tmux[u]
    /\ tmux' = [tmux EXCEPT ![u] = TRUE]
    /\ cycle' = [cycle EXCEPT ![u] = IF @ = "off" THEN "wait" ELSE @]
    /\ UNCHANGED <<disk, proc, card, files, mem, todo, faults, history>>

(* Somebody starts the companion: "it skips sessions already running".      *)
CycleAsked(u) ==
    /\ cycle[u] = "off"
    /\ Joins \/ \A s \in Of(u) : proc[s] # "spawned"
    /\ cycle' = [cycle EXCEPT ![u] = "wait"]
    /\ UNCHANGED <<tmux, disk, proc, card, files, mem, todo, faults, history>>

(* The server goes, and every session with it (OOM, reboot, `stop`).        *)
UnitDies(u) ==
    /\ Fault
    /\ tmux[u]
    /\ tmux' = [tmux EXCEPT ![u] = FALSE]
    /\ proc' = [s \in Sessions |-> IF s \in Of(u) THEN "none" ELSE proc[s]]
    /\ UNCHANGED <<disk, card, files, service, history>>

(* The server opens a conversation, in a worktree of its own and on a card  *)
(* of its own.                                                              *)
Opens(s) ==
    /\ tmux[UnitOf[s]]
    /\ Joins \/ cycle[UnitOf[s]] = "off"
    /\ proc[s] = "none" /\ card[s] = 0
    /\ worktree' = worktree \cup {s}
    /\ fresh' = fresh \cup {s}
    /\ proc' = [proc EXCEPT ![s] = "spawned"]
    /\ card' = [card EXCEPT ![s] = FreshCard(@)]
    /\ UNCHANGED <<tmux, files, service, faults, history>>

(* It ends for good, its worktree with it.                                  *)
Closes(s) ==
    /\ proc[s] # "none"
    /\ worktree' = worktree \ {s}
    /\ proc' = [proc EXCEPT ![s] = "none"]
    /\ UNCHANGED <<tmux, fresh, card, files, service, faults, history>>

(* Its transcript is out of the lookback, and in again when it is used.     *)
Idles(s) ==
    /\ fresh' = fresh \ {s}
    /\ UNCHANGED <<tmux, worktree, proc, card, files, service, faults, history>>

Speaks(s) ==
    /\ proc[s] # "none"
    /\ fresh' = fresh \cup {s}
    /\ UNCHANGED <<tmux, worktree, proc, card, files, service, faults, history>>

(* A session exits or is killed, and leaves its worktree.                   *)
SessionEnds(s) ==
    /\ proc[s] # "none"
    /\ proc' = [proc EXCEPT ![s] = "none"]
    /\ UNCHANGED <<tmux, disk, card, files, service, faults, history>>

-----------------------------------------------------------------------------
(* agent-rc-bridge-snapshot, under the unit's monitor.                     *)

Noted(u, seen, gone) ==
    /\ tmux[u]
    /\ bmap' = [s \in Sessions |-> IF s \in seen THEN card[s]
                                    ELSE IF s \in gone THEN 0 ELSE bmap[s]]
    /\ known' = known \cup (seen \ todo[u])
    /\ UNCHANGED <<tmux, disk, proc, card, pointer, attempts, service, faults, recent>>

Running(u) == {s \in Of(u) : proc[s] # "none"}

(* Mutant: an entry lives as long as its session.                           *)
SnapshotLiveOnly(u) ==
    \E seen \in SUBSET Running(u) : Noted(u, seen, Of(u) \ seen)

(* Sessions that have registered are noted, and what does not run is kept,  *)
(* until it is two weeks old.                                               *)
Snapshot(u) ==
    \E seen \in SUBSET Running(u), gone \in SUBSET (Of(u) \ (fresh \cup Running(u) \cup todo[u])) :
        Noted(u, seen, gone)

-----------------------------------------------------------------------------
(* The resume cycle.                                                       *)

(* The RC tmux did not come up within two minutes.                          *)
GivesUp(u) ==
    /\ cycle[u] = "wait"
    /\ ~tmux[u]
    /\ cycle' = [cycle EXCEPT ![u] = "off"]
    /\ UNCHANGED <<tmux, disk, proc, card, files, mem, todo, faults, history>>

(* Mutant: the hour is over a moment early.                                 *)
CountedEarly(r) == IF r.age >= Hour THEN 0 ELSE r.count

(* "reset the counter if the last attempt was long ago".                    *)
Counted(r) == IF r.age > Hour THEN 0 ELSE r.count

Quarantined(r) == Counted(r) >= MaxAttempts

Attempted(r) == [count |-> Counted(r) + 1, age |-> 0]

(* Scan and plan: every conversation that it finds is counted, unless it is *)
(* quarantined, and gets the pointer that the map has for it.               *)
Plan(u) ==
    LET list == {s \in Of(u) \cap worktree \cap fresh : ~Quarantined(attempts[s])}
    IN  /\ cycle[u] = "wait"
        /\ tmux[u]
        /\ mem' = [mem EXCEPT ![u] =
               [s \in Sessions |-> IF s \in list THEN Attempted(attempts[s]) ELSE attempts[s]]]
        /\ todo' = [todo EXCEPT ![u] = list]
        /\ pointer' = [s \in Sessions |-> IF s \in list THEN bmap[s] ELSE pointer[s]]
        /\ cycle' = [cycle EXCEPT ![u] = "save"]
        /\ UNCHANGED <<tmux, disk, proc, card, bmap, attempts, faults, history>>

Save(u) ==
    /\ cycle[u] = "save"
    /\ attempts' = mem[u]
    /\ mem' = [mem EXCEPT ![u] = NoRecords]
    /\ cycle' = [cycle EXCEPT ![u] = IF todo[u] = {} THEN "off" ELSE "launch"]
    /\ UNCHANGED <<tmux, disk, proc, card, bmap, pointer, todo, faults, history>>

Taken(u, s) ==
    /\ cycle[u] = "launch"
    /\ todo' = [todo EXCEPT ![u] = @ \ {s}]
    /\ cycle' = [cycle EXCEPT ![u] = IF todo[u] = {s} THEN "off" ELSE "launch"]
    /\ pointer' = [pointer EXCEPT ![s] = 0]
    /\ UNCHANGED <<tmux, disk, bmap, attempts, mem, faults, known>>

(* pgrep -f 'claude --resume <uuid>'; a window in a server, or a worktree,  *)
(* that is gone.                                                            *)
Skip(u, s) ==
    /\ proc[s] \in {"resumed", "both"} \/ ~tmux[u] \/ s \notin worktree
    /\ Taken(u, s)
    /\ UNCHANGED <<proc, card, recent>>

(* agent-rc-resume-exec: with a pointer the card comes back, without one a  *)
(* new card is minted.                                                      *)
Window(u, s) ==
    /\ tmux[u] /\ s \in worktree
    /\ proc' = [proc EXCEPT ![s] = IF @ = "none" THEN "resumed" ELSE "both"]
    /\ card' = [card EXCEPT ![s] = IF pointer[s] = 0 THEN FreshCard(@) ELSE pointer[s]]
    /\ recent' = [recent EXCEPT ![s] =
           [i \in DOMAIN @ |-> IF i = 1 THEN 0 ELSE @[i - 1]]]
    /\ Taken(u, s)

(* Mutant: no look at what runs.                                            *)
LaunchBlind(u, s) == Window(u, s)

Launch(u, s) == proc[s] \in {"none", "spawned"} /\ Window(u, s)

(* TimeoutStartSec, the OOM killer.  A file that is half written is read as *)
(* no file.                                                                 *)
CycleDies(u) ==
    /\ Fault
    /\ cycle[u] # "off"
    /\ cycle' = [cycle EXCEPT ![u] = "off"]
    /\ todo' = [todo EXCEPT ![u] = {}]
    /\ pointer' = [s \in Sessions |-> IF s \in todo[u] THEN 0 ELSE pointer[s]]
    /\ mem' = [mem EXCEPT ![u] = NoRecords]
    /\ attempts' \in {attempts} \cup IF Torn /\ cycle[u] = "save" THEN {NoRecords} ELSE {}
    /\ UNCHANGED <<tmux, disk, proc, card, bmap, history>>

Later(age) == IF age = Old THEN age ELSE age + 1

Older(r) == [r EXCEPT !.age = Later(@)]

(* What a cycle has counted it launches within a tick.                      *)
Tick ==
    /\ \A u \in Units : cycle[u] \in {"off", "wait"}
    /\ attempts' = [s \in Sessions |-> Older(attempts[s])]
    /\ recent' = [s \in Sessions |-> [i \in DOMAIN recent[s] |-> Later(recent[s][i])]]
    /\ UNCHANGED <<tmux, disk, proc, card, bmap, pointer, service, faults, known>>

-----------------------------------------------------------------------------
CycleStep(u) ==
    \/ GivesUp(u) \/ Plan(u) \/ Save(u)
    \/ \E s \in todo[u] : Skip(u, s) \/ Launch(u, s)

Next ==
    \/ \E u \in Units : \/ UnitStarts(u) \/ CycleAsked(u) \/ UnitDies(u)
                        \/ Snapshot(u) \/ CycleStep(u) \/ CycleDies(u)
    \/ \E s \in Sessions : Opens(s) \/ Closes(s) \/ Idles(s) \/ Speaks(s) \/ SessionEnds(s)
    \/ Tick

Spec == Init /\ [][Next]_vars

(* Restart=on-failure brings the unit back; a cycle is an ordinary process. *)
FairSpec == Spec /\ \A u \in Units : WF_vars(UnitStarts(u)) /\ WF_vars(CycleStep(u))

-----------------------------------------------------------------------------
(* "a session that keeps crashing the box is skipped after                  *)
(* RC_RESUME_MAX_ATTEMPTS within an hour" (agent-rc-resume.sh:13-14): no    *)
(* conversation is started more often, whatever units, sessions and cycles  *)
(* die in between: the start before the last MaxAttempts is over an hour    *)
(* ago.                                                                     *)
QuarantineHolds == \A s \in Sessions : recent[s][MaxAttempts + 1] > Hour

(* "never double-resume a session that is already running"                  *)
(* (agent-rc-resume.sh:178), cycles that somebody starts included.          *)
OneProcess == \A s \in Sessions : proc[s] # "both"

(* "Hand back the card this conversation already owns, when its identity    *)
(* was captured before the crash" (agent-rc-resume.sh:147): whatever dies   *)
(* and however long it is down, a card that was noted is never replaced     *)
(* (unless the note came between the plan and the launch of one cycle).     *)
CardKept == [][\A s \in known : card'[s] = card[s]]_vars

(* "companion auto-resumes interrupted sessions" (docs/mobile.md:52).       *)
Interrupted(s) ==
    /\ s \in worktree \cap fresh /\ proc[s] = "none"
    /\ ~tmux[UnitOf[s]] /\ cycle[UnitOf[s]] = "off"

(* A conversation that is interrupted by the death of its unit runs again,  *)
(* unless it is quarantined, falls out of the lookback, or something else   *)
(* dies first.                                                              *)
Returns ==
    \A s \in Sessions, n \in 0..MaxFaults :
        Interrupted(s) /\ faults = n ~>
            \/ proc[s] # "none"
            \/ s \notin worktree \cap fresh
            \/ Quarantined(attempts[s])
            \/ faults # n
=============================================================================
