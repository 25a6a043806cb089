----------------------------- MODULE ResumeProofs ----------------------------
(***************************************************************************)
(* Theorems about Resume, for any units, conversations, attempts, hour and *)
(* number of faults.                                                       *)
(***************************************************************************)
EXTENDS Resume, TLAPS

(* ------------------------------------------------------------- types       *)

(* A launch list is of conversations of the unit, and of a cycle that is    *)
(* at it.                                                                   *)
ListsOwn ==
    \A u \in Units :
        /\ todo[u] \subseteq Of(u)
        /\ cycle[u] \in {"off", "wait"} => todo[u] = {}

IInv == TypeOK /\ ListsOwn

Slots == 1..MaxAttempts + 1

LEMMA InitHolds == Init => IInv
<1> SUFFICES ASSUME Init PROVE IInv
    OBVIOUS
<1>1. NoRecord \in Records
    BY NumberAssumption DEF NoRecord, Records, Old
<1>2. recent \in [Sessions -> [1..MaxAttempts + 1 -> 0..Old]]
    BY NumberAssumption DEF Init, Old
<1>3. 0 \in 0..MaxFaults
    BY NumberAssumption
<1> QED
    BY <1>1, <1>2, <1>3 DEF Init, IInv, TypeOK, ListsOwn, NoRecords, Cards

LEMMA AgeType == \A age \in 0..Old : Later(age) \in 0..Old /\ Later(age) >= age
BY NumberAssumption DEF Later, Old

LEMMA AttemptType ==
    ASSUME NEW r \in Records
    PROVE  /\ Counted(r) \in 0..MaxAttempts
           /\ ~Quarantined(r) => Attempted(r) \in Records
           /\ Older(r) \in Records /\ Older(r).count = r.count /\ Older(r).age = Later(r.age)
<1>1. r.count \in 0..MaxAttempts /\ r.age \in 0..Old /\ r = [count |-> r.count, age |-> r.age]
    BY DEF Records
<1>2. Counted(r) \in 0..MaxAttempts
    BY <1>1, NumberAssumption DEF Counted
<1>3. ~Quarantined(r) => Attempted(r) \in Records
    BY <1>2, NumberAssumption DEF Quarantined, Attempted, Records, Old
<1>4. Older(r) = [r EXCEPT !.age = Later(r.age)]
    BY DEF Older
<1>5. Later(r.age) \in 0..Old
    BY <1>1, AgeType
<1> QED
    BY <1>1, <1>2, <1>3, <1>4, <1>5 DEF Records

(* What most steps leave alone.                                             *)
LEMMA UnitsMove ==
    ASSUME IInv, UNCHANGED <<files, mem, todo, card, recent>>,
           tmux' \in [Units -> BOOLEAN],
           {worktree', fresh', known'} \subseteq SUBSET Sessions,
           proc' \in [Sessions -> {"none", "spawned", "resumed", "both"}],
           cycle' \in [Units -> {"off", "wait", "save", "launch"}],
           \A u \in Units : cycle'[u] \in {"off", "wait"} => cycle[u] \in {"off", "wait"},
           faults' \in 0..MaxFaults
    PROVE  IInv'
BY DEF IInv, TypeOK, ListsOwn, files

LEMMA UnitTypes ==
    ASSUME IInv, NEW u \in Units, UnitStarts(u) \/ CycleAsked(u) \/ UnitDies(u) \/ GivesUp(u)
    PROVE  IInv'
<1>1. CASE UnitStarts(u)
    BY <1>1, UnitsMove DEF UnitStarts, IInv, TypeOK, disk, files, history
<1>2. CASE CycleAsked(u)
    BY <1>2, UnitsMove DEF CycleAsked, IInv, TypeOK, disk, files, history
<1>3. CASE UnitDies(u)
    <2>1. proc' \in [Sessions -> {"none", "spawned", "resumed", "both"}]
        BY <1>3 DEF UnitDies, IInv, TypeOK
    <2>2. faults' \in 0..MaxFaults
        BY <1>3, NumberAssumption DEF UnitDies, Fault, IInv, TypeOK
    <2> QED
        BY <1>3, <2>1, <2>2, UnitsMove DEF UnitDies, IInv, TypeOK, disk, files, service, history
<1>4. CASE GivesUp(u)
    BY <1>4, UnitsMove DEF GivesUp, IInv, TypeOK, disk, files, history
<1> QED
    BY <1>1, <1>2, <1>3, <1>4

LEMMA SessionTypes ==
    ASSUME IInv, NEW s \in Sessions,
           Opens(s) \/ Closes(s) \/ Idles(s) \/ Speaks(s) \/ SessionEnds(s)
    PROVE  IInv'
<1>1. CASE Opens(s)
    <2>1. card' \in [Sessions -> Cards]
        BY <1>1 DEF Opens, IInv, TypeOK, FreshCard, Cards
    <2> QED
        BY <1>1, <2>1 DEF Opens, IInv, TypeOK, ListsOwn, files, service, history
<1>2. CASE Closes(s) \/ Idles(s) \/ Speaks(s) \/ SessionEnds(s)
    BY <1>2, UnitsMove
    DEF Closes, Idles, Speaks, SessionEnds, IInv, TypeOK, disk, files, service, history
<1> QED
    BY <1>1, <1>2

LEMMA SnapshotTypes == ASSUME IInv, NEW u \in Units, Snapshot(u) PROVE IInv'
<1>1. PICK seen \in SUBSET Running(u), gone \in SUBSET (Of(u) \ (fresh \cup Running(u) \cup todo[u])) :
          Noted(u, seen, gone)
    BY DEF Snapshot
<1>2. seen \subseteq Sessions
    BY DEF Running, Of
<1>3. bmap' \in [Sessions -> Cards]
    BY <1>1 DEF Noted, IInv, TypeOK, Cards
<1> QED
    BY <1>1, <1>2, <1>3 DEF Noted, IInv, TypeOK, ListsOwn, disk, service

PlanList(u) == {s \in Of(u) \cap worktree \cap fresh : ~Quarantined(attempts[s])}

LEMMA PlanFacts ==
    ASSUME IInv, NEW u \in Units, Plan(u)
    PROVE  /\ cycle[u] = "wait" /\ tmux[u]
           /\ mem' = [mem EXCEPT ![u] = [s \in Sessions |-> IF s \in PlanList(u)
                                             THEN Attempted(attempts[s]) ELSE attempts[s]]]
           /\ todo' = [todo EXCEPT ![u] = PlanList(u)]
           /\ pointer' = [s \in Sessions |-> IF s \in PlanList(u) THEN bmap[s] ELSE pointer[s]]
           /\ cycle' = [cycle EXCEPT ![u] = "save"]
           /\ UNCHANGED <<tmux, disk, proc, card, bmap, attempts, faults, history>>
BY DEF Plan, PlanList

LEMMA PlanTypes == ASSUME IInv, NEW u \in Units, Plan(u) PROVE IInv'
<1> DEFINE counted == [s \in Sessions |-> IF s \in PlanList(u) THEN Attempted(attempts[s]) ELSE attempts[s]]
<1>1. attempts \in [Sessions -> Records] /\ mem \in [Units -> [Sessions -> Records]]
    BY DEF IInv, TypeOK
<1>2. \A s \in PlanList(u) : ~Quarantined(attempts[s])
    BY DEF PlanList
<1>3. counted \in [Sessions -> Records]
    BY <1>1, <1>2, AttemptType
<1> HIDE DEF counted
<1>4. mem' = [mem EXCEPT ![u] = counted]
    BY PlanFacts DEF counted
<1>5. mem' \in [Units -> [Sessions -> Records]]
    BY <1>1, <1>3, <1>4
<1>6. pointer' \in [Sessions -> Cards]
    BY PlanFacts DEF IInv, TypeOK
<1>7. PlanList(u) \subseteq Of(u) /\ PlanList(u) \subseteq Sessions
    BY DEF PlanList, Of
<1>8. /\ todo' \in [Units -> SUBSET Sessions] /\ todo'[u] = PlanList(u)
      /\ \A v \in Units \ {u} : todo'[v] = todo[v]
    <2> DEFINE list == PlanList(u)
    <2>1. todo \in [Units -> SUBSET Sessions] /\ todo' = [todo EXCEPT ![u] = list]
        BY PlanFacts DEF IInv, TypeOK
    <2>2. list \in SUBSET Sessions
        BY <1>7
    <2> HIDE DEF list
    <2>3. /\ todo' \in [Units -> SUBSET Sessions] /\ todo'[u] = list
          /\ \A v \in Units \ {u} : todo'[v] = todo[v]
        BY <2>1, <2>2
    <2> QED
        BY <2>3 DEF list
<1>9. /\ cycle' \in [Units -> {"off", "wait", "save", "launch"}] /\ cycle'[u] = "save"
       /\ \A v \in Units \ {u} : cycle'[v] = cycle[v]
    <2>1. cycle \in [Units -> {"off", "wait", "save", "launch"}] /\ cycle' = [cycle EXCEPT ![u] = "save"]
        BY PlanFacts DEF IInv, TypeOK
    <2> QED
        BY <2>1
<1>10. TypeOK'
    BY <1>5, <1>6, <1>8, <1>9, PlanFacts DEF IInv, TypeOK, disk, history
<1>11. ListsOwn'
    <2> SUFFICES ASSUME NEW v \in Units
                 PROVE  /\ todo'[v] \subseteq Of(v)
                        /\ cycle'[v] \in {"off", "wait"} => todo'[v] = {}
        BY DEF ListsOwn, Of
    <2>1. CASE v = u
        BY <2>1, <1>7, <1>8, <1>9
    <2>2. CASE v # u
        BY <2>2, <1>8, <1>9 DEF IInv, ListsOwn
    <2> QED
        BY <2>1, <2>2
<1> QED
    BY <1>10, <1>11 DEF IInv

LEMMA SaveTypes == ASSUME IInv, NEW u \in Units, Save(u) PROVE IInv'
<1>1. NoRecords \in [Sessions -> Records]
    BY NumberAssumption DEF NoRecords, NoRecord, Records, Old
<1>2. mem' \in [Units -> [Sessions -> Records]] /\ attempts' \in [Sessions -> Records]
    BY <1>1 DEF Save, IInv, TypeOK
<1> QED
    BY <1>2 DEF Save, IInv, TypeOK, ListsOwn, disk, history

(* The next one of a launch list.                                           *)
LEMMA TakenFacts ==
    ASSUME IInv, NEW u \in Units, NEW s \in todo[u], Taken(u, s)
    PROVE  /\ s \in Sessions /\ UnitOf[s] = u /\ cycle[u] = "launch"
           /\ todo'[u] = todo[u] \ {s} /\ \A v \in Units \ {u} : todo'[v] = todo[v]
           /\ cycle'[u] \in {"off", "launch"} /\ (cycle'[u] = "off" => todo'[u] = {})
           /\ \A v \in Units \ {u} : cycle'[v] = cycle[v]
           /\ pointer'[s] = 0 /\ \A r \in Sessions \ {s} : pointer'[r] = pointer[r]
           /\ UNCHANGED <<tmux, disk, bmap, attempts, mem, faults, known>>
           /\ todo' \in [Units -> SUBSET Sessions]
           /\ cycle' \in [Units -> {"off", "wait", "save", "launch"}]
           /\ pointer' \in [Sessions -> Cards]
<1>1. s \in Sessions /\ UnitOf[s] = u
    BY DEF IInv, ListsOwn, Of
<1> QED
    BY <1>1 DEF Taken, IInv, TypeOK, Cards

LEMMA TakenTypes ==
    ASSUME IInv, NEW u \in Units, NEW s \in todo[u], Taken(u, s),
           proc' \in [Sessions -> {"none", "spawned", "resumed", "both"}],
           card' \in [Sessions -> Cards],
           recent' \in [Sessions -> [Slots -> 0..Old]]
    PROVE  IInv'
<1>1. TypeOK'
    BY TakenFacts DEF IInv, TypeOK, disk, Slots
<1>2. ListsOwn'
    BY TakenFacts DEF IInv, ListsOwn
<1> QED
    BY <1>1, <1>2 DEF IInv

Shifted(ages) == [i \in Slots |-> IF i = 1 THEN 0 ELSE ages[i - 1]]

LEMMA ShiftedType ==
    ASSUME NEW ages \in [Slots -> 0..Old]
    PROVE  /\ Shifted(ages) \in [Slots -> 0..Old]
           /\ Shifted(ages)[1] = 0
           /\ \A i \in Slots : i > 1 => i - 1 \in Slots /\ Shifted(ages)[i] = ages[i - 1]
BY NumberAssumption DEF Shifted, Slots, Old

LEMMA WindowFacts ==
    ASSUME IInv, NEW u \in Units, NEW s \in todo[u], Window(u, s)
    PROVE  /\ s \in Sessions /\ Taken(u, s) /\ tmux[u] /\ s \in worktree
           /\ proc'[s] = IF proc[s] = "none" THEN "resumed" ELSE "both"
           /\ card'[s] = IF pointer[s] = 0 THEN FreshCard(card[s]) ELSE pointer[s]
           /\ recent' = [recent EXCEPT ![s] = Shifted(recent[s])]
           /\ \A r \in Sessions \ {s} : proc'[r] = proc[r] /\ card'[r] = card[r] /\ recent'[r] = recent[r]
           /\ proc' \in [Sessions -> {"none", "spawned", "resumed", "both"}]
           /\ card' \in [Sessions -> Cards]
           /\ recent' \in [Sessions -> [Slots -> 0..Old]]
<1>1. s \in Sessions /\ recent[s] \in [Slots -> 0..Old] /\ DOMAIN recent[s] = Slots
    BY DEF IInv, ListsOwn, Of, TypeOK, Slots
<1>2. recent' = [recent EXCEPT ![s] = [i \in DOMAIN recent[s] |-> IF i = 1 THEN 0 ELSE recent[s][i - 1]]]
    BY DEF Window
<1>3. recent' = [recent EXCEPT ![s] = Shifted(recent[s])]
    BY <1>1, <1>2 DEF Shifted
<1>4. Shifted(recent[s]) \in [Slots -> 0..Old]
    BY <1>1, ShiftedType
<1>5. recent' \in [Sessions -> [Slots -> 0..Old]] /\ \A r \in Sessions \ {s} : recent'[r] = recent[r]
    BY <1>1, <1>3, <1>4 DEF IInv, TypeOK, Slots
<1>6. card' \in [Sessions -> Cards]
    BY <1>1 DEF Window, IInv, TypeOK, Cards, FreshCard
<1>7. proc' \in [Sessions -> {"none", "spawned", "resumed", "both"}]
    BY <1>1 DEF Window, IInv, TypeOK
<1> QED
    BY <1>1, <1>3, <1>5, <1>6, <1>7 DEF Window, IInv, TypeOK

LEMMA LaunchTypes ==
    ASSUME IInv, NEW u \in Units, NEW s \in todo[u], Skip(u, s) \/ Launch(u, s) PROVE IInv'
<1>1. CASE Skip(u, s)
    BY <1>1, TakenTypes DEF Skip, IInv, TypeOK, Slots
<1>2. CASE Launch(u, s)
    BY <1>2, WindowFacts, TakenTypes DEF Launch
<1> QED
    BY <1>1, <1>2

LEMMA DeathTypes == ASSUME IInv, NEW u \in Units, CycleDies(u) PROVE IInv'
<1>1. NoRecords \in [Sessions -> Records]
    BY NumberAssumption DEF NoRecords, NoRecord, Records, Old
<1>2. mem' \in [Units -> [Sessions -> Records]] /\ attempts' \in [Sessions -> Records]
    BY <1>1 DEF CycleDies, IInv, TypeOK
<1>3. faults' \in 0..MaxFaults
    BY NumberAssumption DEF CycleDies, Fault, IInv, TypeOK
<1>4. pointer' \in [Sessions -> Cards]
    BY DEF CycleDies, IInv, TypeOK, Cards
<1> QED
    BY <1>2, <1>3, <1>4 DEF CycleDies, IInv, TypeOK, ListsOwn, disk, history

LEMMA TickTypes == ASSUME IInv, Tick PROVE IInv'
<1>1. attempts' \in [Sessions -> Records]
    BY AttemptType DEF Tick, IInv, TypeOK
<1>2. recent' \in [Sessions -> [Slots -> 0..Old]]
    BY AgeType DEF Tick, IInv, TypeOK, Slots
<1> QED
    BY <1>1, <1>2 DEF Tick, IInv, TypeOK, ListsOwn, disk, service, Slots

LEMMA NextHolds == IInv /\ [Next]_vars => IInv'
<1> SUFFICES ASSUME IInv, [Next]_vars PROVE IInv'
    OBVIOUS
<1>1. ASSUME NEW u \in Units,
             UnitStarts(u) \/ CycleAsked(u) \/ UnitDies(u) \/ Snapshot(u) \/ CycleStep(u) \/ CycleDies(u)
      PROVE  IInv'
    BY <1>1, UnitTypes, SnapshotTypes, PlanTypes, SaveTypes, LaunchTypes, DeathTypes DEF CycleStep
<1>2. CASE UNCHANGED vars
    BY <1>2 DEF vars, IInv, TypeOK, ListsOwn, disk, files, service, history
<1> QED
    BY <1>1, <1>2, SessionTypes, TickTypes DEF Next

(* Every unit, conversation, card and count of the resume machinery stays   *)
(* in its range.                                                            *)
THEOREM TypeCorrect == Spec => []TypeOK
<1>1. IInv => TypeOK
    BY DEF IInv
<1> QED
    BY <1>1, InitHolds, NextHolds, PTL DEF Spec

(* ----------------------------------------------------- one process each   *)

(* Where cycles and the server's own sessions do not meet: what runs, runs  *)
(* under a server, a cycle never sees a session of the server, and none is  *)
(* run twice.                                                               *)
SoloInv ==
    /\ \A s \in Sessions : proc[s] # "none" => tmux[UnitOf[s]]
    /\ \A s \in Sessions : cycle[UnitOf[s]] # "off" => proc[s] # "spawned"
    /\ OneProcess

LEMMA SoloUnits ==
    ASSUME ~Joins, IInv, SoloInv, NEW u \in Units,
           UnitStarts(u) \/ CycleAsked(u) \/ UnitDies(u)
    PROVE  SoloInv'
<1>1. CASE UnitStarts(u)
    BY <1>1, UnitAssumption DEF UnitStarts, IInv, TypeOK, SoloInv, OneProcess
<1>2. CASE CycleAsked(u)
    BY <1>2, UnitAssumption DEF CycleAsked, IInv, TypeOK, SoloInv, OneProcess, Of
<1>3. CASE UnitDies(u)
    BY <1>3, UnitAssumption DEF UnitDies, service, IInv, TypeOK, SoloInv, OneProcess, Of
<1> QED
    BY <1>1, <1>2, <1>3

LEMMA SoloSessions ==
    ASSUME ~Joins, IInv, SoloInv, NEW s \in Sessions,
           Opens(s) \/ Closes(s) \/ Idles(s) \/ Speaks(s) \/ SessionEnds(s)
    PROVE  SoloInv'
<1>1. CASE Opens(s)
    BY <1>1, UnitAssumption DEF Opens, service, IInv, TypeOK, SoloInv, OneProcess
<1>2. CASE Idles(s) \/ Speaks(s)
    BY <1>2 DEF Idles, Speaks, service, SoloInv, OneProcess
<1>3. CASE Closes(s) \/ SessionEnds(s)
    BY <1>3 DEF Closes, SessionEnds, service, IInv, TypeOK, SoloInv, OneProcess
<1> QED
    BY <1>1, <1>2, <1>3

LEMMA SoloCycle ==
    ASSUME ~Joins, IInv, SoloInv, NEW u \in Units, CycleStep(u) \/ CycleDies(u) \/ Snapshot(u)
    PROVE  SoloInv'
<1>1. CASE GivesUp(u) \/ Plan(u) \/ Save(u) \/ CycleDies(u)
    BY <1>1, UnitAssumption
    DEF GivesUp, Plan, Save, CycleDies, IInv, TypeOK, SoloInv, OneProcess
<1>2. ASSUME NEW s \in todo[u], Skip(u, s)
      PROVE  SoloInv'
    BY <1>2, TakenFacts, UnitAssumption DEF Skip, SoloInv, OneProcess
<1>3. ASSUME NEW s \in todo[u], Launch(u, s)
      PROVE  SoloInv'
    <2>1. Window(u, s) /\ proc[s] \in {"none", "spawned"}
        BY <1>3 DEF Launch
    <2>2. Taken(u, s) /\ tmux[u]
        BY <2>1, WindowFacts
    <2>3. s \in Sessions /\ UnitOf[s] = u /\ cycle[u] = "launch" /\ tmux' = tmux
        BY <2>2, TakenFacts
    <2>4. proc[s] = "none"
        BY <2>1, <2>3 DEF SoloInv
    <2>5. proc'[s] = "resumed" /\ \A r \in Sessions \ {s} : proc'[r] = proc[r]
        BY <2>1, <2>4, WindowFacts
    <2>6. \A v \in Units : cycle'[v] # "off" => cycle[v] # "off"
        BY <2>2, <2>3, TakenFacts
    <2> QED
        BY <2>2, <2>3, <2>5, <2>6, UnitAssumption DEF SoloInv, OneProcess
<1>4. CASE Snapshot(u)
    BY <1>4 DEF Snapshot, Noted, service, SoloInv, OneProcess
<1> QED
    BY <1>1, <1>2, <1>3, <1>4 DEF CycleStep

(* No conversation is run twice at once: where a cycle is only asked for    *)
(* while the server runs nothing of its own, and the server opens nothing   *)
(* while a cycle runs, no death of a server, of a session or of a cycle     *)
(* makes a cycle resume what runs already.                                  *)
THEOREM NoDoubleResume == ASSUME ~Joins PROVE Spec => []OneProcess
<1>1. Init => SoloInv
    BY DEF Init, SoloInv, OneProcess
<1>2. IInv /\ SoloInv /\ [Next]_vars => SoloInv'
    <2> SUFFICES ASSUME IInv, SoloInv, [Next]_vars PROVE SoloInv'
        OBVIOUS
    <2>1. CASE Tick \/ UNCHANGED vars
        BY <2>1 DEF Tick, vars, service, SoloInv, OneProcess
    <2> QED
        BY <2>1, SoloUnits, SoloSessions, SoloCycle DEF Next
<1>3. SoloInv => OneProcess
    BY DEF SoloInv
<1> QED
    BY <1>1, <1>2, <1>3, InitHolds, NextHolds, PTL DEF Spec

(* -------------------------------------------------------- the card kept   *)

(* What runs has a card.  The card of a conversation that was noted in time *)
(* is in the map, unless it is out of every cycle's reach; and a launch     *)
(* that is planned for it reads that card.                                  *)
CardInv ==
    \A s \in Sessions :
        /\ proc[s] # "none" => card[s] # 0
        /\ s \in known => card[s] # 0
        /\ s \in known => \/ bmap[s] = card[s]
                          \/ s \notin fresh /\ proc[s] = "none" /\ s \notin todo[UnitOf[s]]
        /\ s \in known /\ s \in todo[UnitOf[s]] => pointer[s] = card[s]

LEMMA CardUnits ==
    ASSUME IInv, CardInv, NEW u \in Units,
           UnitStarts(u) \/ CycleAsked(u) \/ UnitDies(u) \/ GivesUp(u) \/ Save(u)
    PROVE  CardInv'
<1>1. UNCHANGED <<card, bmap, pointer, known, fresh, todo>>
    BY DEF UnitStarts, CycleAsked, UnitDies, GivesUp, Save, disk, files, service, history
<1>2. \A s \in Sessions : proc'[s] \in {"none", proc[s]}
    BY DEF UnitStarts, CycleAsked, UnitDies, GivesUp, Save, IInv, TypeOK
<1> QED
    BY <1>1, <1>2 DEF CardInv

LEMMA CardSessions ==
    ASSUME IInv, CardInv, NEW s \in Sessions,
           Opens(s) \/ Closes(s) \/ Idles(s) \/ Speaks(s) \/ SessionEnds(s)
    PROVE  CardInv'
<1>1. CASE Opens(s)
    <2>1. s \notin known /\ card'[s] # 0
        BY <1>1 DEF Opens, CardInv, FreshCard, IInv, TypeOK
    <2> QED
        BY <1>1, <2>1 DEF Opens, files, service, history, CardInv, IInv, TypeOK
<1>2. CASE Closes(s) \/ SessionEnds(s)
    BY <1>2 DEF Closes, SessionEnds, disk, files, service, history, CardInv, IInv, TypeOK
<1>3. CASE Idles(s) \/ Speaks(s)
    BY <1>3 DEF Idles, Speaks, files, service, history, CardInv, IInv, TypeOK
<1> QED
    BY <1>1, <1>2, <1>3

LEMMA CardSnapshot == ASSUME IInv, CardInv, NEW u \in Units, Snapshot(u) PROVE CardInv'
<1>1. PICK seen \in SUBSET Running(u), gone \in SUBSET (Of(u) \ (fresh \cup Running(u) \cup todo[u])) :
          Noted(u, seen, gone)
    BY DEF Snapshot
<1>2. \A s \in seen : s \in Sessions /\ UnitOf[s] = u /\ proc[s] # "none"
    BY DEF Running, Of
<1>3. \A s \in gone : UnitOf[s] = u /\ s \notin fresh /\ proc[s] = "none" /\ s \notin todo[u]
    BY DEF Running, Of
<1>4. UNCHANGED <<fresh, proc, card, pointer, todo>>
    BY <1>1 DEF Noted, disk, service
<1>5. known' = known \cup (seen \ todo[u])
    BY <1>1 DEF Noted
<1>6. \A s \in Sessions : bmap'[s] = IF s \in seen THEN card[s] ELSE IF s \in gone THEN 0 ELSE bmap[s]
    BY <1>1 DEF Noted
<1> QED
    BY <1>2, <1>3, <1>4, <1>5, <1>6 DEF CardInv

LEMMA CardPlan == ASSUME IInv, CardInv, NEW u \in Units, Plan(u) PROVE CardInv'
<1>1. UNCHANGED <<fresh, proc, card, bmap, known>>
    BY PlanFacts DEF disk, history
<1>2. \A s \in PlanList(u) : UnitOf[s] = u /\ s \in fresh
    BY DEF PlanList, Of
<1>3. \A s \in Sessions : pointer'[s] = IF s \in PlanList(u) THEN bmap[s] ELSE pointer[s]
    BY PlanFacts
<1>4. todo \in [Units -> SUBSET Sessions] /\ todo' = [todo EXCEPT ![u] = PlanList(u)]
    BY PlanFacts DEF IInv, TypeOK
<1>5. todo'[u] = PlanList(u) /\ \A v \in Units \ {u} : todo'[v] = todo[v]
    BY <1>4
<1> QED
    BY <1>1, <1>2, <1>3, <1>5, UnitAssumption DEF CardInv

LEMMA CardLaunch ==
    ASSUME IInv, CardInv, NEW u \in Units, NEW s \in todo[u], Skip(u, s) \/ Launch(u, s)
    PROVE  CardInv' /\ \A r \in known : card'[r] = card[r]
<1>1. Taken(u, s)
    BY DEF Skip, Launch, Window
<1>2. /\ s \in Sessions /\ UnitOf[s] = u /\ todo'[u] = todo[u] \ {s}
      /\ \A v \in Units \ {u} : todo'[v] = todo[v]
      /\ \A r \in Sessions \ {s} : pointer'[r] = pointer[r]
      /\ UNCHANGED <<fresh, bmap, known>>
    BY <1>1, TakenFacts DEF disk
<1>3. \A r \in Sessions : r \in todo'[UnitOf[r]] => r # s /\ r \in todo[UnitOf[r]]
    BY <1>2, UnitAssumption
<1>4. known \subseteq Sessions
    BY DEF IInv, TypeOK
<1>5. CASE Skip(u, s)
    BY <1>2, <1>3, <1>4, <1>5 DEF Skip, CardInv
<1>6. CASE Launch(u, s)
    <2>1. /\ card'[s] = IF pointer[s] = 0 THEN FreshCard(card[s]) ELSE pointer[s]
          /\ \A r \in Sessions \ {s} : proc'[r] = proc[r] /\ card'[r] = card[r]
        BY <1>6, WindowFacts DEF Launch
    <2>2. card'[s] # 0
        BY <2>1 DEF FreshCard
    <2>3. s \in known => card'[s] = card[s] /\ bmap[s] = card[s]
        BY <1>2, <2>1 DEF CardInv
    <2> QED
        BY <1>2, <1>3, <1>4, <2>1, <2>2, <2>3 DEF CardInv
<1> QED
    BY <1>5, <1>6

LEMMA CardDeath == ASSUME IInv, CardInv, NEW u \in Units, CycleDies(u) PROVE CardInv'
<1>1. UNCHANGED <<fresh, proc, card, bmap, known>>
    BY DEF CycleDies, disk, history
<1>2. todo'[u] = {} /\ \A v \in Units \ {u} : todo'[v] = todo[v]
    BY DEF CycleDies, IInv, TypeOK
<1>3. \A s \in Sessions : s \notin todo[u] => pointer'[s] = pointer[s]
    BY DEF CycleDies
<1>4. \A s \in Sessions : s \in todo'[UnitOf[s]] => s \in todo[UnitOf[s]] /\ UnitOf[s] # u
    BY <1>2, UnitAssumption
<1>5. \A s \in todo[u] : UnitOf[s] = u
    BY DEF IInv, ListsOwn, Of
<1> QED
    BY <1>1, <1>3, <1>4, <1>5 DEF CardInv

LEMMA CardStep == IInv /\ CardInv /\ [Next]_vars => CardInv' /\ [\A s \in known : card'[s] = card[s]]_vars
<1> SUFFICES ASSUME IInv, CardInv, [Next]_vars
             PROVE  CardInv' /\ \A s \in known : card'[s] = card[s]
    OBVIOUS
<1>1. CASE Tick \/ UNCHANGED vars
    BY <1>1 DEF Tick, vars, disk, files, service, history, CardInv
<1>2. ASSUME NEW u \in Units,
             UnitStarts(u) \/ CycleAsked(u) \/ UnitDies(u) \/ Snapshot(u) \/ CycleStep(u) \/ CycleDies(u)
      PROVE  CardInv' /\ \A s \in known : card'[s] = card[s]
    <2>1. CASE \E s \in todo[u] : Skip(u, s) \/ Launch(u, s)
        BY <2>1, CardLaunch
    <2>2. CASE UnitStarts(u) \/ CycleAsked(u) \/ UnitDies(u) \/ GivesUp(u) \/ Save(u)
        BY <2>2, CardUnits
        DEF UnitStarts, CycleAsked, UnitDies, GivesUp, Save
    <2>3. CASE Plan(u) \/ CycleDies(u) \/ Snapshot(u)
        BY <2>3, CardPlan, CardDeath, CardSnapshot DEF Plan, CycleDies, Snapshot, Noted
    <2> QED
        BY <1>2, <2>1, <2>2, <2>3 DEF CycleStep
<1>3. ASSUME NEW s \in Sessions, Opens(s) \/ Closes(s) \/ Idles(s) \/ Speaks(s) \/ SessionEnds(s)
      PROVE  CardInv' /\ \A r \in known : card'[r] = card[r]
    <2>1. CASE Opens(s)
        <3>1. s \notin known /\ known \subseteq Sessions
            BY <2>1 DEF Opens, CardInv, IInv, TypeOK
        <3>2. \A r \in Sessions \ {s} : card'[r] = card[r]
            BY <2>1 DEF Opens, IInv, TypeOK
        <3> QED
            BY <2>1, <3>1, <3>2, CardSessions
    <2>2. CASE Closes(s) \/ Idles(s) \/ Speaks(s) \/ SessionEnds(s)
        BY <2>2, CardSessions DEF Closes, Idles, Speaks, SessionEnds
    <2> QED
        BY <1>3, <2>1, <2>2
<1> QED
    BY <1>1, <1>2, <1>3 DEF Next

(* A conversation whose card was noted keeps it: any deaths of servers,     *)
(* sessions and cycles, half-written attempts and meetings of cycles with   *)
(* the server's own sessions included.                                      *)
THEOREM NotedCardReturns == Spec => CardKept
<1>1. Init => CardInv
    BY DEF Init, CardInv
<1> QED
    BY <1>1, CardStep, InitHolds, NextHolds, PTL DEF Spec, CardKept

(* -------------------------------------------------------- the quarantine  *)

(* Counted and not started yet.                                             *)
Launching(s) == cycle[UnitOf[s]] = "launch" /\ s \in todo[UnitOf[s]]

(* No start is more recent than the last one in attempts.json, and those    *)
(* that it does not count are over an hour ago; a conversation on a launch  *)
(* list has been counted already, and one start more is over an hour ago.   *)
CountInv ==
    \A s \in Sessions :
        /\ \A i \in Slots : recent[s][i] >= attempts[s].age
        /\ \A i \in Slots : i > Counted(attempts[s]) => recent[s][i] > Hour
        /\ Launching(s) => /\ attempts[s].age = 0 /\ attempts[s].count > 0
                           /\ \A i \in Slots : i > Counted(attempts[s]) - 1 => recent[s][i] > Hour
        /\ cycle[UnitOf[s]] = "save" =>
               mem[UnitOf[s]][s] = IF s \in todo[UnitOf[s]] THEN Attempted(attempts[s]) ELSE attempts[s]

(* Steps that start nothing and leave the counts alone.                     *)
LEMMA CountStays ==
    ASSUME IInv, CountInv, UNCHANGED <<attempts, recent>>,
           \A s \in Sessions : Launching(s)' => Launching(s),
           \A s \in Sessions : cycle'[UnitOf[s]] = "save" =>
               /\ cycle[UnitOf[s]] = "save"
               /\ mem'[UnitOf[s]][s] = mem[UnitOf[s]][s]
               /\ (s \in todo'[UnitOf[s]]) = (s \in todo[UnitOf[s]])
    PROVE  CountInv'
BY DEF CountInv

LEMMA CountUnits ==
    ASSUME IInv, CountInv, NEW u \in Units,
           UnitStarts(u) \/ CycleAsked(u) \/ UnitDies(u) \/ GivesUp(u) \/ Snapshot(u)
    PROVE  CountInv'
<1>1. UNCHANGED <<attempts, recent, mem, todo>>
    BY DEF UnitStarts, CycleAsked, UnitDies, GivesUp, Snapshot, Noted, files, service, history
<1>2. \A v \in Units : cycle'[v] \in {"save", "launch"} => cycle'[v] = cycle[v]
    BY DEF UnitStarts, CycleAsked, UnitDies, GivesUp, Snapshot, Noted, service, IInv, TypeOK
<1> QED
    BY <1>1, <1>2, CountStays, UnitAssumption DEF Launching

LEMMA CountSessions ==
    ASSUME IInv, CountInv, NEW s \in Sessions,
           Opens(s) \/ Closes(s) \/ Idles(s) \/ Speaks(s) \/ SessionEnds(s)
    PROVE  CountInv'
<1>1. UNCHANGED <<attempts, recent, mem, todo, cycle>>
    BY DEF Opens, Closes, Idles, Speaks, SessionEnds, files, service, history
<1> QED
    BY <1>1, CountStays DEF Launching

LEMMA CountPlan ==
    ASSUME IInv, CountInv, \A v, w \in Units : v = w, NEW u \in Units, Plan(u)
    PROVE  CountInv'
<1>1. UNCHANGED <<attempts, recent>>
    BY PlanFacts DEF history
<1>2. \A s \in Sessions : UnitOf[s] = u
    BY UnitAssumption
<1>3. cycle'[u] = "save"
    BY PlanFacts DEF IInv, TypeOK
<1>4. todo'[u] = PlanList(u)
    BY PlanFacts DEF IInv, TypeOK
<1>5. \A s \in Sessions : mem'[u][s] = IF s \in PlanList(u) THEN Attempted(attempts[s]) ELSE attempts[s]
    BY PlanFacts DEF IInv, TypeOK
<1> QED
    BY <1>1, <1>2, <1>3, <1>4, <1>5 DEF CountInv, Launching

LEMMA CountSave ==
    ASSUME IInv, CountInv, \A v, w \in Units : v = w, NEW u \in Units, Save(u)
    PROVE  CountInv'
<1>1. recent' = recent /\ todo' = todo /\ attempts' = mem[u] /\ cycle[u] = "save" /\ cycle'[u] # "save"
    BY DEF Save, history, IInv, TypeOK
<1>2. \A s \in Sessions : UnitOf[s] = u
    BY UnitAssumption
<1> SUFFICES ASSUME NEW s \in Sessions
             PROVE  /\ \A i \in Slots : recent[s][i] >= attempts'[s].age
                    /\ \A i \in Slots : i > Counted(attempts'[s]) => recent[s][i] > Hour
                    /\ s \in todo[u] =>
                           /\ attempts'[s].age = 0 /\ attempts'[s].count > 0
                           /\ \A i \in Slots : i > Counted(attempts'[s]) - 1 => recent[s][i] > Hour
    BY <1>1, <1>2 DEF CountInv, Launching
<1>3. attempts'[s] = IF s \in todo[u] THEN Attempted(attempts[s]) ELSE attempts[s]
    BY <1>1, <1>2 DEF CountInv
<1>4. \A i \in Slots : /\ recent[s][i] \in 0..Old /\ recent[s][i] >= attempts[s].age
                       /\ i > Counted(attempts[s]) => recent[s][i] > Hour
    BY DEF CountInv, IInv, TypeOK, Slots
<1>5. CASE s \notin todo[u]
    BY <1>3, <1>4, <1>5
<1>6. CASE s \in todo[u]
    <2>1. attempts'[s].age = 0 /\ attempts'[s].count = Counted(attempts[s]) + 1
        BY <1>3, <1>6 DEF Attempted
    <2>2. Counted(attempts'[s]) = Counted(attempts[s]) + 1
        BY <2>1, NumberAssumption DEF Counted
    <2>3. Counted(attempts[s]) \in 0..MaxAttempts
        BY AttemptType DEF IInv, TypeOK
    <2> QED
        BY <1>4, <2>1, <2>2, <2>3, NumberAssumption DEF Slots, Old
<1> QED
    BY <1>5, <1>6

LEMMA CountLaunch ==
    ASSUME IInv, CountInv, \A v, w \in Units : v = w, NEW u \in Units, NEW s \in todo[u],
           Skip(u, s) \/ Launch(u, s)
    PROVE  CountInv'
<1>1. Taken(u, s)
    BY DEF Skip, Launch, Window
<1>2. /\ s \in Sessions /\ cycle[u] = "launch" /\ todo'[u] = todo[u] \ {s}
      /\ cycle'[u] \in {"off", "launch"} /\ attempts' = attempts
    BY <1>1, TakenFacts
<1>3. \A r \in Sessions : UnitOf[r] = u
    BY UnitAssumption
<1>4. \A r \in Sessions : Launching(r)' => Launching(r)
    BY <1>2, <1>3 DEF Launching
<1>5. CASE Skip(u, s)
    BY <1>2, <1>3, <1>4, <1>5, CountStays DEF Skip
<1>6. CASE Launch(u, s)
    <2>1. recent' = [recent EXCEPT ![s] = Shifted(recent[s])]
          /\ \A r \in Sessions \ {s} : recent'[r] = recent[r]
        BY <1>6, WindowFacts DEF Launch
    <2>2. recent'[s] = Shifted(recent[s]) /\ recent[s] \in [Slots -> 0..Old]
        BY <1>2, <2>1 DEF IInv, TypeOK, Slots
    <2>3. attempts[s].age = 0 /\ \A i \in Slots : i > Counted(attempts[s]) - 1 => recent[s][i] > Hour
        BY <1>2, <1>3 DEF CountInv, Launching
    <2>4. Counted(attempts[s]) \in 0..MaxAttempts /\ Counted(attempts[s]) = attempts[s].count
        BY <1>2, <2>3, AttemptType, NumberAssumption DEF IInv, TypeOK, Counted
    <2>5. ~Launching(s)'
        BY <1>2, <1>3 DEF Launching
    <2>6. \A i \in Slots : i > Counted(attempts[s]) => recent'[s][i] > Hour
        <3> SUFFICES ASSUME NEW i \in Slots, i > Counted(attempts[s]) PROVE recent'[s][i] > Hour
            OBVIOUS
        <3>1. CASE i = 1
            <4>1. Counted(attempts[s]) = 0
                BY <2>4, <3>1, NumberAssumption DEF Slots
            <4>2. attempts[s].count > 0
                BY <1>2, <1>3 DEF CountInv, Launching
            <4> QED
                BY <4>1, <4>2, <2>4
        <3>2. CASE i # 1
            <4>1. i > 1
                BY <3>2, NumberAssumption DEF Slots
            <4>2. i - 1 \in Slots /\ recent'[s][i] = recent[s][i - 1]
                BY <4>1, <2>2, ShiftedType
            <4>3. i - 1 > Counted(attempts[s]) - 1
                BY <2>4, NumberAssumption DEF Slots
            <4> QED
                BY <4>2, <4>3, <2>3
        <3> QED
            BY <3>1, <3>2
    <2>7. \A i \in Slots : recent'[s][i] >= 0
        BY <2>2, ShiftedType, NumberAssumption DEF Old
    <2>8. attempts' = attempts /\ cycle'[u] # "save"
        BY <1>2
    <2> QED
        BY <1>2, <1>3, <1>4, <2>1, <2>3, <2>5, <2>6, <2>7, <2>8 DEF CountInv
<1> QED
    BY <1>5, <1>6

LEMMA CountDeath ==
    ASSUME ~Torn, IInv, CountInv, NEW u \in Units, CycleDies(u)
    PROVE  CountInv'
<1>1. UNCHANGED <<attempts, recent>>
    BY DEF CycleDies, history
<1>2. /\ cycle'[u] = "off" /\ todo'[u] = {}
      /\ \A v \in Units \ {u} : cycle'[v] = cycle[v] /\ todo'[v] = todo[v] /\ mem'[v] = mem[v]
    BY DEF CycleDies, IInv, TypeOK
<1> QED
    BY <1>1, <1>2, CountStays, UnitAssumption DEF Launching

LEMMA CountTick == ASSUME IInv, CountInv, Tick PROVE CountInv'
<1>1. \A s \in Sessions : cycle'[UnitOf[s]] \in {"off", "wait"}
    BY UnitAssumption DEF Tick, service
<1>2. \A s \in Sessions : ~Launching(s)'
    BY <1>1 DEF Launching
<1> SUFFICES ASSUME NEW s \in Sessions, NEW i \in Slots
             PROVE  /\ recent'[s][i] >= attempts'[s].age
                    /\ i > Counted(attempts'[s]) => recent'[s][i] > Hour
    BY <1>1, <1>2 DEF CountInv
<1>3. attempts[s] \in Records /\ recent[s] \in [Slots -> 0..Old]
    BY DEF IInv, TypeOK, Slots
<1>4. attempts'[s].age = Later(attempts[s].age) /\ attempts'[s].count = attempts[s].count
    BY <1>3, AttemptType DEF Tick
<1>5. recent'[s][i] = Later(recent[s][i])
    BY <1>3 DEF Tick
<1>6. recent[s][i] \in 0..Old /\ attempts[s].age \in 0..Old /\ attempts[s].count \in 0..MaxAttempts
    BY <1>3 DEF Records
<1>7. recent[s][i] >= attempts[s].age /\ (i > Counted(attempts[s]) => recent[s][i] > Hour)
    BY DEF CountInv
<1> QED
    BY <1>4, <1>5, <1>6, <1>7, NumberAssumption DEF Later, Counted, Old, Slots

(* "A session that keeps crashing the box is skipped after                  *)
(* RC_RESUME_MAX_ATTEMPTS within an hour": for one unit that writes         *)
(* attempts.json whole, whatever dies and whatever the server runs, any     *)
(* number of attempts and any hour.                                         *)
THEOREM QuarantineIsKept ==
    ASSUME ~Torn, \A u, v \in Units : u = v
    PROVE  Spec => []QuarantineHolds
<1>1. Init => CountInv
    <2> SUFFICES ASSUME Init PROVE CountInv
        OBVIOUS
    <2>1. \A s \in Sessions : /\ attempts[s] = NoRecord /\ ~Launching(s) /\ cycle[UnitOf[s]] = "off"
                              /\ \A i \in Slots : recent[s][i] = Old
        BY UnitAssumption DEF Init, NoRecords, Launching, Slots
    <2> QED
        BY <2>1, NumberAssumption DEF CountInv, NoRecord, Old
<1>2. IInv /\ CountInv /\ [Next]_vars => CountInv'
    <2> SUFFICES ASSUME IInv, CountInv, [Next]_vars PROVE CountInv'
        OBVIOUS
    <2>1. CASE UNCHANGED vars
        BY <2>1, CountStays DEF vars, files, service, history, Launching
    <2>2. ASSUME NEW u \in Units,
                 UnitStarts(u) \/ CycleAsked(u) \/ UnitDies(u) \/ Snapshot(u) \/ CycleStep(u) \/ CycleDies(u)
          PROVE  CountInv'
        BY <2>2, CountUnits, CountPlan, CountSave, CountLaunch, CountDeath DEF CycleStep
    <2> QED
        BY <2>1, <2>2, CountSessions, CountTick DEF Next
<1>3. IInv /\ CountInv => QuarantineHolds
    <2> SUFFICES ASSUME IInv, CountInv, NEW s \in Sessions PROVE recent[s][MaxAttempts + 1] > Hour
        BY DEF QuarantineHolds
    <2>1. Counted(attempts[s]) \in 0..MaxAttempts
        BY AttemptType DEF IInv, TypeOK
    <2> QED
        BY <2>1, NumberAssumption DEF CountInv, Slots
<1> QED
    BY <1>1, <1>2, <1>3, InitHolds, NextHolds, PTL DEF Spec
=============================================================================
