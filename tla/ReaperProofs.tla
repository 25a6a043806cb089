----------------------------- MODULE ReaperProofs ----------------------------
(***************************************************************************)
(* Theorems about Reaper, for any number of processes and profiles, any    *)
(* grace period and any number of clock steps and failed passes.           *)
(***************************************************************************)
EXTENDS Reaper, TLAPS

(* The clock is not stepped under the guard, whose identities would not     *)
(* move with it; and a pass that could not save is not held against the     *)
(* reaper (Strict).                                                         *)
Trusted == ~Strict /\ "runaway" \notin Stepped

Ledgers == {file, fresh}

(* No sighting is of a process, or of a time, that is still to come.        *)
NoneAhead ==
    \A L \in Ledgers : \A k \in DOMAIN L :
        /\ k.born <= proc[k.pid].born
        /\ script # "runaway" => k.epoch <= epoch

(* A sighting of the process that has the pid now is no older than the time *)
(* that process has been a candidate.  (Others may claim any age, as they   *)
(* do after a clock step.)                                                  *)
AgesEarned ==
    \A L \in Ledgers : \A k \in DOMAIN L :
        k = Key(k.pid) => L[k] <= sighted[k.pid]

IInv == TypeOK /\ NoneAhead /\ AgesEarned /\ GraceHeld

-----------------------------------------------------------------------------
(* Types.                                                                  *)

LEMMA ScansType == TypeOK => \A orphans \in Scans : orphans \subseteq {p \in Pids : Candidate(p)}
<1> SUFFICES ASSUME TypeOK PROVE \A orphans \in Scans : orphans \subseteq {p \in Pids : Candidate(p)}
  OBVIOUS
<1>1. script = "browser" \/ script = "worktree" \/ script = "runaway"
  BY ScriptsAssumption DEF TypeOK
<1>2. CASE script = "browser"
  BY <1>2 DEF Scans, BrowserScans
<1>3. CASE script = "worktree"
  BY <1>3 DEF Scans, WorktreeScans
<1>4. CASE script = "runaway"
  BY <1>4 DEF Scans, RunawayScans
<1> QED BY <1>1, <1>2, <1>3, <1>4

LEMMA KeyType == TypeOK => \A p \in Pids : Key(p) \in Keys
  BY BoundsAssumption DEF TypeOK, Processes, Keys, Key

LEMMA ReconcileType ==
  ASSUME TypeOK, NEW orphans \in SUBSET Pids
  PROVE  IsLedger(Reconcile(orphans))
  BY KeyType, GraceAssumption DEF TypeOK, IsLedger, Reconcile

LEMMA InitType == Init => TypeOK
  BY GraceAssumption, BoundsAssumption
  DEF Init, TypeOK, NoProcess, Processes, NoSightings, IsLedger, Unsighted, Phases

LEMMA SweepType ==
  ASSUME TypeOK, NEW orphans \in Scans, Sweep(orphans)
  PROVE  TypeOK'
<1> orphans \subseteq Pids
  BY ScansType
<1>1. IsLedger(fresh')
  BY ReconcileType DEF Sweep
<1>2. due' \subseteq DOMAIN fresh'
  BY DEF Sweep, PastGrace
<1>3. sighted' \in [Pids -> Unsighted..Grace]
  BY GraceAssumption DEF Sweep, TypeOK, Unsighted
<1>4. seen' \in [Pids -> Profiles \cup {NoProfile}]
  BY DEF Sweep, TypeOK, Processes
<1>5. pc' \in Phases /\ hit' = {} /\ todo' = {}
  BY DEF Sweep, Phases
<1> QED BY <1>1, <1>2, <1>3, <1>4, <1>5 DEF TypeOK, Sweep, world

LEMMA EndPassType ==
  EndPass => /\ pc' \in Phases /\ IsLedger(fresh')
             /\ {due', hit', todo'} \subseteq SUBSET DOMAIN fresh'
             /\ seen' \in [Pids -> Profiles \cup {NoProfile}]
  BY DEF EndPass, Phases, IsLedger, NoSightings

LEMMA AfterSaveType ==
  ASSUME TypeOK, AfterSave
  PROVE  /\ pc' \in Phases /\ IsLedger(fresh')
         /\ {due', hit', todo'} \subseteq SUBSET DOMAIN fresh'
         /\ seen' \in [Pids -> Profiles \cup {NoProfile}]
<1>1. CASE script = "browser" /\ hit # {}
  BY <1>1 DEF AfterSave, TypeOK, Phases, IsLedger
<1>2. CASE ~(script = "browser" /\ hit # {})
  BY <1>2, EndPassType DEF AfterSave
<1> QED BY <1>1, <1>2

LEMMA PassStepType == TypeOK /\ PassStep => TypeOK'
<1> SUFFICES ASSUME TypeOK, PassStep PROVE TypeOK'
  OBVIOUS
<1>1. ASSUME NEW orphans \in Scans, Sweep(orphans) PROVE TypeOK'
  BY <1>1, SweepType
<1>2. ASSUME NEW k \in due, Term(k) PROVE TypeOK'
  <2>1. {due', hit', todo'} \subseteq SUBSET DOMAIN fresh
    BY <1>2 DEF TypeOK, Term
  <2>2. pc' \in Phases
    BY <1>2 DEF Term, Phases
  <2> QED BY <1>2, <2>1, <2>2 DEF TypeOK, Term, world, IsLedger
<1>3. ASSUME NEW k \in todo, Kill(k) PROVE TypeOK'
  <2>1. proc' \in [Pids -> Processes]
    BY <1>3 DEF TypeOK, Kill, Processes
  <2>2. pc' \in Phases /\ todo' \subseteq DOMAIN fresh
    BY <1>3 DEF TypeOK, Kill, Phases
  <2> QED BY <1>3, <2>1, <2>2 DEF TypeOK, Kill, IsLedger
<1>4. CASE Save
  <2>1. IsLedger(file')
    BY <1>4 DEF Save, TypeOK, IsLedger
  <2>2. sighted' \in [Pids -> Unsighted..Grace]
    BY <1>4, GraceAssumption DEF Save, TypeOK, Unsighted
  <2> QED BY <1>4, <2>1, <2>2, AfterSaveType DEF Save, TypeOK, world
<1>5. CASE Purge
  BY <1>5, EndPassType DEF Purge, TypeOK, IsLedger
<1> QED BY <1>1, <1>2, <1>3, <1>4, <1>5 DEF PassStep

LEMMA NextType == TypeOK /\ [Next]_vars => TypeOK'
<1> SUFFICES ASSUME TypeOK, [Next]_vars PROVE TypeOK'
  OBVIOUS
<1>1. CASE PassStep
  BY <1>1, PassStepType
<1>2. CASE SaveFails
  BY <1>2, AfterSaveType, BoundsAssumption DEF SaveFails, TypeOK, world, IsLedger
<1>3. CASE PassKilled
  BY <1>3, EndPassType, BoundsAssumption DEF PassKilled, TypeOK, world, IsLedger
<1>4. ASSUME NEW p \in Pids, NEW owned \in BOOLEAN, NEW f \in Profiles \cup {NoProfile}, Start(p, owned, f)
      PROVE TypeOK'
  <2>1. proc' \in [Pids -> Processes]
    <3>1. proc[p].born + 1 \in 0..MaxBorn
      BY <1>4, BoundsAssumption DEF Start, TypeOK, Processes
    <3> QED BY <1>4, <3>1 DEF Start, TypeOK, Processes
  <2>2. sighted' \in [Pids -> Unsighted..Grace]
    BY <1>4, GraceAssumption DEF Start, TypeOK, Unsighted
  <2>3. dirs' \subseteq Profiles
    BY <1>4 DEF Start, TypeOK
  <2> QED BY <1>4, <2>1, <2>2, <2>3 DEF Start, TypeOK, pass, IsLedger
<1>5. ASSUME NEW p \in Pids, Exit(p) \/ OwnerEnds(p) \/ Changes(p) PROVE TypeOK'
  <2>1. proc' \in [Pids -> Processes]
    <3>1. CASE Exit(p)
      BY <3>1 DEF Exit, TypeOK, Processes
    <3>2. CASE OwnerEnds(p)
      BY <3>2 DEF OwnerEnds, TypeOK, Processes
    <3>3. CASE Changes(p)
      <4>1. proc[p] \in Processes /\ (~proc[p].quiet) \in BOOLEAN
        BY DEF TypeOK
      <4>2. [proc[p] EXCEPT !.quiet = ~proc[p].quiet] \in Processes
        BY <4>1 DEF Processes
      <4> QED BY <3>3, <4>2 DEF Changes, TypeOK
    <3> QED BY <1>5, <3>1, <3>2, <3>3
  <2> QED BY <1>5, <2>1 DEF Exit, OwnerEnds, Changes, TypeOK, pass, IsLedger
<1>6. ASSUME NEW b \in BOOLEAN, SetStalled(b) PROVE TypeOK'
  BY <1>6 DEF SetStalled, TypeOK, pass, IsLedger
<1>7. CASE Tick
  <2>1. \A n \in 0..Grace : Older(n) \in 0..Grace
    BY GraceAssumption DEF Older, Unsighted
  <2>2. \A n \in Unsighted..Grace : Older(n) \in Unsighted..Grace
    BY GraceAssumption DEF Older, Unsighted
  <2>3. IsLedger(file') /\ IsLedger(fresh') /\ DOMAIN fresh' = DOMAIN fresh
    BY <1>7, <2>1 DEF Tick, TypeOK, IsLedger
  <2>4. sighted' \in [Pids -> Unsighted..Grace]
    BY <1>7, <2>2 DEF Tick, TypeOK
  <2> QED BY <1>7, <2>3, <2>4 DEF Tick, TypeOK, world
<1>8. CASE ClockStep
  <2>1. IsLedger(file') /\ IsLedger(fresh') /\ DOMAIN fresh' = DOMAIN fresh
    BY <1>8, GraceAssumption DEF ClockStep, TypeOK, IsLedger
  <2>2. epoch' \in 0..MaxSteps
    BY <1>8, BoundsAssumption DEF ClockStep, TypeOK
  <2> QED BY <1>8, <2>1, <2>2 DEF ClockStep, TypeOK
<1>9. CASE UNCHANGED vars
  BY <1>9 DEF vars, world, pass, TypeOK, IsLedger
<1> QED BY <1>1, <1>2, <1>3, <1>4, <1>5, <1>6, <1>7, <1>8, <1>9 DEF Next

(* Every variable of a reaper and of the box keeps its type; in particular  *)
(* a pass only ever signals identities it has a sighting of (the fresh and  *)
(* due of reconcile).                                                       *)
THEOREM TypeCorrect == Spec => []TypeOK
  BY InitType, NextType, PTL DEF Spec

-----------------------------------------------------------------------------
(* The grace period.                                                       *)

LEMMA InitInv == Init => IInv
  BY InitType DEF Init, IInv, NoneAhead, AgesEarned, GraceHeld, Ledgers, NoSightings

(* What an identity of the present stands for does not change unless its    *)
(* process, or the clock, does.                                             *)
LEMMA SameKey ==
  ASSUME UNCHANGED <<script, epoch>>, NEW p, proc'[p].born = proc[p].born
  PROVE  Key(p)' = Key(p)
  BY DEF Key

(* A step that leaves the ledgers, the clock and the births alone, and no   *)
(* sighting out of count.                                                   *)
LEMMA FrameInv ==
  ASSUME IInv, TypeOK', UNCHANGED <<script, epoch>>,
         \A L \in Ledgers' : \E M \in Ledgers :
             DOMAIN L \subseteq DOMAIN M /\ \A k \in DOMAIN L : L[k] = M[k],
         \A p \in Pids : proc'[p].born = proc[p].born,
         \A L \in Ledgers' : \A k \in DOMAIN L : sighted'[k.pid] = sighted[k.pid],
         due' \cup hit' \subseteq due \cup hit,
         \A k \in due' \cup hit' : sighted'[k.pid] = sighted[k.pid]
  PROVE  IInv'
<1>1. \A L \in Ledgers' : \A k \in DOMAIN L : k \in Keys /\ k.pid \in Pids
  BY DEF TypeOK, IsLedger, Keys, Ledgers
<1>2. \A L \in Ledgers' : \A k \in DOMAIN L : Key(k.pid)' = Key(k.pid)
  BY <1>1, SameKey
<1>3. NoneAhead'
  BY <1>1 DEF NoneAhead, IInv
<1>4. AgesEarned'
  BY <1>1, <1>2 DEF AgesEarned, IInv
<1>5. GraceHeld'
  BY DEF GraceHeld, IInv
<1> QED BY <1>3, <1>4, <1>5 DEF IInv

LEMMA SweepInv ==
  ASSUME Trusted, IInv, TypeOK', NEW orphans \in Scans, Sweep(orphans)
  PROVE  IInv'
<1> orphans \subseteq Pids
  BY ScansType DEF IInv
<1>1. UNCHANGED <<script, epoch, file, proc>> /\ \A p : Key(p)' = Key(p)
  BY DEF Sweep, world, Key
<1>2. \A p \in Pids : /\ sighted[p] <= sighted'[p]
                      /\ p \in orphans => 0 <= sighted'[p]
  BY GraceAssumption DEF Sweep, Trusted, IInv, TypeOK, Unsighted
<1>3. \A k \in DOMAIN fresh' : /\ k.pid \in orphans /\ k = Key(k.pid)
                               /\ fresh'[k] = IF k \in DOMAIN file THEN file[k] ELSE 0
  BY DEF Sweep, Reconcile, Key
<1>4. \A k \in DOMAIN file : k \in Keys /\ k.pid \in Pids /\ file[k] \in 0..Grace
  BY DEF IInv, TypeOK, IsLedger, Keys
<1>5. NoneAhead'
  <2>1. \A k \in DOMAIN fresh' : k.born <= proc[k.pid].born /\ (script # "runaway" => k.epoch <= epoch)
    BY <1>3, BoundsAssumption DEF Key, IInv, TypeOK, Processes
  <2> QED BY <1>1, <2>1 DEF NoneAhead, IInv, Ledgers
<1>6. \A k \in DOMAIN fresh' : fresh'[k] <= sighted'[k.pid]
  <2> SUFFICES ASSUME NEW k \in DOMAIN fresh' PROVE fresh'[k] <= sighted'[k.pid]
    OBVIOUS
  <2>1. CASE k \in DOMAIN file
    <3>1. file[k] <= sighted[k.pid]
      BY <1>3, <2>1 DEF IInv, AgesEarned, Ledgers
    <3>2. sighted[k.pid] \in Int /\ sighted'[k.pid] \in Int /\ file[k] \in Int
      BY <1>4, <2>1 DEF IInv, TypeOK, Unsighted
    <3> QED BY <1>2, <1>3, <1>4, <2>1, <3>1, <3>2
  <2>2. CASE k \notin DOMAIN file
    BY <1>2, <1>3, <2>2
  <2> QED BY <2>1, <2>2
<1>7. AgesEarned'
  <2> SUFFICES ASSUME NEW k \in DOMAIN file, k = Key(k.pid) PROVE file[k] <= sighted'[k.pid]
    BY <1>1, <1>6 DEF AgesEarned, Ledgers
  <2>1. file[k] <= sighted[k.pid]
    BY DEF IInv, AgesEarned, Ledgers
  <2>2. sighted[k.pid] \in Int /\ sighted'[k.pid] \in Int /\ file[k] \in Int
    BY <1>4 DEF IInv, TypeOK, Unsighted
  <2> QED BY <1>2, <1>4, <2>1, <2>2
<1>8. GraceHeld'
  <2> SUFFICES ASSUME NEW k \in DOMAIN fresh', fresh'[k] >= Grace PROVE sighted'[k.pid] = Grace
    BY DEF GraceHeld, Sweep, PastGrace
  <2>1. sighted'[k.pid] \in Unsighted..Grace /\ fresh'[k] \in Int
    BY <1>3, <1>4 DEF TypeOK, IsLedger
  <2> QED BY <1>6, <2>1, GraceAssumption DEF Unsighted
<1> QED BY <1>5, <1>7, <1>8 DEF IInv

LEMMA SaveInv ==
  ASSUME IInv, TypeOK', Save
  PROVE  IInv'
<1>1. /\ UNCHANGED <<script, epoch, proc>>
      /\ DOMAIN file' \subseteq DOMAIN fresh
      /\ \A k \in DOMAIN file' : file'[k] = fresh[k]
  BY DEF Save, world
<1>2. DOMAIN fresh' \subseteq DOMAIN fresh /\ \A k \in DOMAIN fresh' : fresh'[k] = fresh[k]
  BY DEF Save, AfterSave, EndPass, NoSightings
<1>3. due' \cup hit' \subseteq due \cup hit /\ due \cup hit \subseteq DOMAIN fresh
  BY DEF Save, AfterSave, EndPass, IInv, TypeOK
<1>4. \A k \in DOMAIN fresh : sighted'[k.pid] = sighted[k.pid]
  BY DEF Save, IInv, TypeOK, IsLedger, Keys
<1>5. \A L \in Ledgers' : DOMAIN L \subseteq DOMAIN fresh /\ \A k \in DOMAIN L : L[k] = fresh[k]
  BY <1>1, <1>2 DEF Ledgers
<1>6. \A p \in Pids : proc'[p].born = proc[p].born
  BY <1>1
<1> HIDE DEF IInv
<1> QED BY <1>1, <1>3, <1>4, <1>5, <1>6, FrameInv DEF Ledgers

(* The passes' other steps, the ends of processes and what changes about    *)
(* them give no process a sighting and take none from it.                   *)
LEMMA QuietInv ==
  ASSUME IInv, TypeOK', UNCHANGED <<script, epoch, file, sighted>>,
         \A p \in Pids : proc'[p].born = proc[p].born,
         fresh' = fresh \/ fresh' = NoSightings,
         due' \cup hit' \subseteq due \cup hit
  PROVE  IInv'
<1>1. \A L \in Ledgers' : \E M \in Ledgers :
          DOMAIN L \subseteq DOMAIN M /\ \A k \in DOMAIN L : L[k] = M[k]
  BY DEF Ledgers, NoSightings
<1> QED BY <1>1, FrameInv

LEMMA StartInv ==
  ASSUME IInv, TypeOK', NEW p \in Pids, NEW owned \in BOOLEAN,
         NEW f \in Profiles \cup {NoProfile}, Start(p, owned, f)
  PROVE  IInv'
<1>1. UNCHANGED <<script, epoch, file, fresh, due, hit>>
  BY DEF Start, pass
<1>2. proc[p].born \in Int /\ proc'[p].born = proc[p].born + 1
  BY DEF Start, IInv, TypeOK, Processes
<1>3. \A q \in Pids : q # p => proc'[q] = proc[q] /\ sighted'[q] = sighted[q] /\ Key(q)' = Key(q)
  BY DEF Start, IInv, TypeOK, Key
<1>4. \A L \in Ledgers : \A k \in DOMAIN L : k \in Keys /\ k.pid \in Pids /\ k.born \in Int
  BY DEF IInv, TypeOK, IsLedger, Keys, Ledgers
<1>5. \A L \in Ledgers : \A k \in DOMAIN L : k.pid = p => k.born < proc'[p].born
  BY <1>2, <1>4 DEF IInv, NoneAhead
<1>6. NoneAhead'
  BY <1>1, <1>2, <1>3, <1>4, <1>5 DEF IInv, NoneAhead, Ledgers
<1>7. AgesEarned'
  <2> SUFFICES ASSUME NEW L \in Ledgers, NEW k \in DOMAIN L, k = Key(k.pid)'
               PROVE  L[k] <= sighted'[k.pid]
    BY <1>1 DEF AgesEarned, Ledgers
  <2>1. k.pid # p
    BY <1>2, <1>4, <1>5 DEF Key
  <2> QED BY <1>3, <1>4, <2>1 DEF IInv, AgesEarned
<1>8. GraceHeld'
  <2>1. due \cup hit \subseteq DOMAIN fresh
    BY DEF IInv, TypeOK
  <2>2. \A k \in due \cup hit : k.pid # p /\ k.pid \in Pids
    BY <1>4, <2>1 DEF Start, Reusable, Ledgers
  <2> QED BY <1>1, <1>3, <2>2 DEF IInv, GraceHeld
<1> QED BY <1>6, <1>7, <1>8 DEF IInv

LEMMA TickInv ==
  ASSUME IInv, TypeOK', Tick
  PROVE  IInv'
<1>1. UNCHANGED <<script, epoch, proc, due, hit>> /\ \A p : Key(p)' = Key(p)
  BY DEF Tick, world, Key
<1>2. DOMAIN file' = DOMAIN file /\ DOMAIN fresh' = DOMAIN fresh
  BY DEF Tick
<1>3. \A L \in Ledgers : \A k \in DOMAIN L : k.pid \in Pids /\ L[k] \in 0..Grace
  BY DEF IInv, TypeOK, IsLedger, Keys, Ledgers
<1>4. \A m \in 0..Grace, n \in Unsighted..Grace : m <= n => Older(m) <= Older(n)
  BY GraceAssumption DEF Older, Unsighted
<1>5. Older(Grace) = Grace
  BY DEF Older
<1>6. \A p \in Pids : sighted[p] \in Unsighted..Grace /\ sighted'[p] = Older(sighted[p])
  BY DEF Tick, IInv, TypeOK
<1>7. NoneAhead'
  BY <1>1, <1>2 DEF IInv, NoneAhead, Ledgers
<1>8. AgesEarned'
  <2>1. \A k \in DOMAIN file : k = Key(k.pid) => Older(file[k]) <= sighted'[k.pid]
    BY <1>3, <1>4, <1>6 DEF IInv, AgesEarned, Ledgers
  <2>2. \A k \in DOMAIN fresh : k = Key(k.pid) => Older(fresh[k]) <= sighted'[k.pid]
    BY <1>3, <1>4, <1>6 DEF IInv, AgesEarned, Ledgers
  <2>3. /\ \A k \in DOMAIN file : file'[k] = Older(file[k])
        /\ \A k \in DOMAIN fresh : fresh'[k] = Older(fresh[k])
    BY DEF Tick
  <2> QED BY <1>1, <1>2, <2>1, <2>2, <2>3 DEF AgesEarned, Ledgers
<1>9. GraceHeld'
  <2>1. \A k \in due \cup hit : k.pid \in Pids
    BY <1>3 DEF IInv, TypeOK, Ledgers
  <2> QED BY <1>1, <1>5, <1>6, <2>1 DEF IInv, GraceHeld
<1> QED BY <1>7, <1>8, <1>9 DEF IInv

(* A clock step makes every sighting look old, and every identity foreign.  *)
LEMMA ClockStepInv ==
  ASSUME Trusted, IInv, TypeOK', ClockStep
  PROVE  IInv'
<1>1. script # "runaway" /\ UNCHANGED <<script, proc, due, hit, sighted>>
  BY DEF ClockStep, Trusted
<1>2. epoch \in Int /\ epoch' = epoch + 1
  BY DEF ClockStep, IInv, TypeOK
<1>3. DOMAIN file' = DOMAIN file /\ DOMAIN fresh' = DOMAIN fresh
  BY DEF ClockStep
<1>4. \A L \in Ledgers : \A k \in DOMAIN L : k.epoch \in Int /\ k.epoch < epoch'
  BY <1>1, <1>2 DEF IInv, NoneAhead, TypeOK, IsLedger, Keys, Ledgers
<1>5. \A p : Key(p)'.epoch = epoch'
  BY <1>1 DEF Key
<1>6. NoneAhead'
  BY <1>1, <1>2, <1>3, <1>4 DEF IInv, NoneAhead, Ledgers
<1>7. \A k \in DOMAIN file' \cup DOMAIN fresh' : k # Key(k.pid)'
  BY <1>2, <1>3, <1>4, <1>5 DEF Ledgers
<1>8. AgesEarned'
  BY <1>7 DEF AgesEarned, Ledgers
<1>9. GraceHeld'
  BY <1>1 DEF IInv, GraceHeld
<1> QED BY <1>6, <1>8, <1>9 DEF IInv

LEMMA NextInv == Trusted /\ IInv /\ [Next]_vars => IInv'
<1> SUFFICES ASSUME Trusted, IInv, [Next]_vars PROVE IInv'
  OBVIOUS
<1> TypeOK'
  BY NextType DEF IInv
<1>1. ASSUME NEW orphans \in Scans, Sweep(orphans) PROVE IInv'
  BY <1>1, SweepInv
<1>2. ASSUME NEW k \in due, Term(k) PROVE IInv'
  BY <1>2, QuietInv DEF Term, world
<1>3. ASSUME NEW k \in todo, Kill(k) PROVE IInv'
  <2>1. \A p \in Pids : proc'[p].born = proc[p].born
    BY <1>3 DEF Kill, IInv, TypeOK, Processes
  <2> QED BY <1>3, <2>1, QuietInv DEF Kill
<1>4. CASE Save
  BY <1>4, SaveInv
<1>5. CASE Purge \/ PassKilled
  BY <1>5, QuietInv DEF Purge, PassKilled, EndPass, world
<1>6. CASE SaveFails
  BY <1>6, QuietInv DEF SaveFails, AfterSave, EndPass, world
<1>7. ASSUME NEW p \in Pids, NEW owned \in BOOLEAN, NEW f \in Profiles \cup {NoProfile}, Start(p, owned, f)
      PROVE IInv'
  BY <1>7, StartInv
<1>8. ASSUME NEW p \in Pids, Exit(p) \/ OwnerEnds(p) \/ Changes(p) PROVE IInv'
  <2>1. \A q \in Pids : proc'[q].born = proc[q].born
    BY <1>8 DEF Exit, OwnerEnds, Changes, IInv, TypeOK, Processes
  <2> QED BY <1>8, <2>1, QuietInv DEF Exit, OwnerEnds, Changes, pass
<1>9. ASSUME NEW b \in BOOLEAN, SetStalled(b) PROVE IInv'
  BY <1>9, QuietInv DEF SetStalled, pass
<1>10. CASE Tick
  BY <1>10, TickInv
<1>11. CASE ClockStep
  BY <1>11, ClockStepInv
<1>12. CASE UNCHANGED vars
  BY <1>12, QuietInv DEF vars, world, pass
<1> QED
  BY <1>1, <1>2, <1>3, <1>4, <1>5, <1>6, <1>7, <1>8, <1>9, <1>10, <1>11, <1>12 DEF Next, PassStep

(* Whatever a reaper signals it has found a candidate at every completed    *)
(* pass for the grace period, as the same process: pids that are recycled,  *)
(* passes that die, and clock steps that the identities move with, never    *)
(* shorten it.                                                              *)
THEOREM GraceIsHeld == Trusted => (Spec => []GraceHeld)
<1> SUFFICES ASSUME Trusted PROVE Spec => []GraceHeld
  OBVIOUS
<1>1. Init => IInv
  BY InitInv
<1>2. IInv /\ [Next]_vars => IInv'
  BY NextInv
<1>3. IInv => GraceHeld
  BY DEF IInv
<1> QED BY <1>1, <1>2, <1>3, PTL DEF Spec

-----------------------------------------------------------------------------
(* Profiles.                                                               *)

Marked == {k.pid : k \in due \cup hit}

(* The order of a pass: nothing is left to be signalled once it kills, and  *)
(* what it hit and has not killed is still to be killed.                    *)
Orderly ==
    /\ pc \in {"kill", "save", "purge"} => due = {}
    /\ pc = "term" => todo = hit
    /\ pc \in {"save", "purge"} => todo = {}
    /\ pc = "purge" => script = "browser"

(* No live session comes to own what a pass signals, and what it has dealt  *)
(* with is dead.                                                            *)
MarkedOrphans ==
    \A k \in due \cup hit :
        proc[k.pid].up => /\ ~proc[k.pid].owned
                          /\ pc \in {"kill", "save", "purge"} => k \in todo

(* The profiles in use, and those the pass has seen in use, are on disk.    *)
InUse(f) == f \in dirs \cup {NoProfile}

ProfilesExist ==
    /\ \A p \in Pids : proc[p].up => InUse(proc[p].profile)
    /\ pc # "idle" => \A p \in Pids : InUse(seen[p])

(* What runs uses a profile that a browser beside the marked ones was seen  *)
(* to use, or that none was, unless it is marked itself.                    *)
Spared(f) == (\E q \in Pids \ Marked : seen[q] = f) \/ (\A q \in Pids : seen[q] # f)

UsersSpared ==
    pc # "idle" =>
        \A p \in Pids \ Marked :
            proc[p].up /\ proc[p].profile \in Profiles => Spared(proc[p].profile)

ProfileInv == TypeOK /\ Orderly /\ MarkedOrphans /\ ProfilesExist /\ UsersSpared

LEMMA MarkedType == TypeOK => /\ Marked \subseteq Pids
                              /\ \A k \in due \cup hit \cup todo : k.pid \in Pids /\ k \in Keys
  BY DEF TypeOK, IsLedger, Keys, Marked

LEMMA InitProfileInv == Init => ProfileInv
  BY InitType DEF Init, ProfileInv, Orderly, MarkedOrphans, ProfilesExist, UsersSpared, NoProcess

LEMMA EndProfileInv ==
  ASSUME ProfileInv, TypeOK', EndPass, UNCHANGED proc,
         \A p \in Pids : proc[p].up => InUse(proc[p].profile)'
  PROVE  ProfileInv'
  BY DEF EndPass, ProfileInv, Orderly, MarkedOrphans, ProfilesExist, UsersSpared

(* A step that takes nothing up, gives nothing an owner or a profile, and   *)
(* leaves the pass alone.                                                   *)
LEMMA LesserProfileInv ==
  ASSUME ProfileInv, TypeOK', UNCHANGED <<script, pc, due, hit, todo, seen, dirs>>,
         \A p \in Pids : proc'[p].up => /\ proc[p].up /\ proc'[p].profile = proc[p].profile
                                        /\ proc'[p].owned => proc[p].owned
  PROVE  ProfileInv'
<1>1. Orderly'
  BY DEF ProfileInv, Orderly
<1>2. MarkedOrphans'
  BY MarkedType DEF ProfileInv, MarkedOrphans
<1>3. ProfilesExist'
  BY DEF ProfileInv, ProfilesExist, InUse
<1>4. UsersSpared'
  BY DEF ProfileInv, UsersSpared, Spared, Marked
<1> QED BY <1>1, <1>2, <1>3, <1>4 DEF ProfileInv

LEMMA SweepProfileInv ==
  ASSUME ProfileInv, TypeOK', NEW orphans \in Scans, Sweep(orphans)
  PROVE  ProfileInv'
<1>1. orphans \subseteq {p \in Pids : Candidate(p)}
  BY ScansType DEF ProfileInv
<1>2. UNCHANGED <<script, proc, dirs>> /\ hit' = {} /\ todo' = {} /\ pc' \in {"save", "term"}
      /\ (pc' = "save" => due' = {})
  BY DEF Sweep, world
<1>3. \A p \in Pids : seen'[p] = IF proc[p].up THEN proc[p].profile ELSE NoProfile
  BY DEF Sweep
<1>4. \A k \in due' : k.pid \in orphans
  BY DEF Sweep, PastGrace, Reconcile, Key
<1>5. Orderly'
  BY <1>2 DEF Orderly
<1>6. MarkedOrphans'
  BY <1>1, <1>2, <1>4 DEF MarkedOrphans, Candidate
<1>7. ProfilesExist'
  BY <1>2, <1>3 DEF ProfileInv, ProfilesExist, InUse
<1>8. UsersSpared'
  BY <1>2, <1>3 DEF UsersSpared, Spared, Marked
<1> QED BY <1>5, <1>6, <1>7, <1>8 DEF ProfileInv

LEMMA TermProfileInv ==
  ASSUME ProfileInv, TypeOK', NEW k \in due, Term(k)
  PROVE  ProfileInv'
<1>1. UNCHANGED <<script, proc, dirs, seen>> /\ todo' = hit' /\ due' = due \ {k}
      /\ hit' = IF proc[k.pid].up THEN hit \cup {k} ELSE hit
  BY DEF Term, world
<1>2. pc' \in {"term", "kill", "save"} /\ (pc' # "term" => due' = {}) /\ (pc' = "save" => hit' = {})
  BY DEF Term
<1>3. Orderly'
  BY <1>1, <1>2 DEF Orderly
<1>4. MarkedOrphans'
  BY <1>1, <1>2 DEF ProfileInv, MarkedOrphans
<1>5. ProfilesExist'
  BY <1>1 DEF ProfileInv, ProfilesExist, InUse, Term
<1>6. Marked' \subseteq Marked /\ \A p \in Marked \ Marked' : ~proc[p].up
  BY <1>1 DEF Marked
<1>7. UsersSpared'
  <2>1. pc # "idle"
    BY DEF Term
  <2> QED BY <1>1, <1>6, <2>1 DEF ProfileInv, UsersSpared, Spared
<1> QED BY <1>3, <1>4, <1>5, <1>7 DEF ProfileInv

LEMMA KillProfileInv ==
  ASSUME ProfileInv, TypeOK', NEW k \in todo, Kill(k)
  PROVE  ProfileInv'
<1>1. UNCHANGED <<script, dirs, seen, due, hit>> /\ todo' = todo \ {k} /\ pc = "kill"
      /\ pc' = IF todo' = {} THEN "save" ELSE "kill"
  BY DEF Kill
<1>2. k.pid \in Pids
  BY MarkedType DEF ProfileInv
<1>3. ~proc'[k.pid].up
  BY <1>2 DEF Kill, ProfileInv, TypeOK, Processes
<1>4. \A p \in Pids \ {k.pid} : proc'[p] = proc[p]
  BY DEF Kill, ProfileInv, TypeOK
<1>5. Orderly'
  BY <1>1 DEF ProfileInv, Orderly
<1>6. MarkedOrphans'
  BY <1>1, <1>3, <1>4, MarkedType DEF ProfileInv, MarkedOrphans
<1>7. ProfilesExist'
  BY <1>1, <1>3, <1>4 DEF ProfileInv, ProfilesExist, InUse
<1>8. UsersSpared'
  BY <1>1, <1>3, <1>4 DEF ProfileInv, UsersSpared, Spared, Marked
<1> QED BY <1>5, <1>6, <1>7, <1>8 DEF ProfileInv

LEMMA AfterSaveProfileInv ==
  ASSUME ProfileInv, TypeOK', pc = "save", AfterSave, UNCHANGED <<script, world>>
  PROVE  ProfileInv'
<1>1. CASE script = "browser" /\ hit # {}
  <2>1. pc' = "purge" /\ UNCHANGED <<script, proc, dirs, due, hit, todo, seen>>
    BY <1>1 DEF AfterSave, world
  <2> QED
    BY <1>1, <2>1
    DEF ProfileInv, Orderly, MarkedOrphans, ProfilesExist, UsersSpared, Spared, Marked, InUse
<1>2. CASE ~(script = "browser" /\ hit # {})
  BY <1>2, EndProfileInv DEF AfterSave, ProfileInv, ProfilesExist, InUse, world
<1> QED BY <1>1, <1>2

LEMMA StartProfileInv ==
  ASSUME ProfileInv, TypeOK', NEW p \in Pids, NEW owned \in BOOLEAN,
         NEW f \in Profiles \cup {NoProfile}, Start(p, owned, f)
  PROVE  ProfileInv'
<1>1. UNCHANGED <<script, pc, due, hit, todo, seen>> /\ dirs' = dirs \cup ({f} \cap Profiles)
  BY DEF Start, pass
<1>2. /\ \A q \in Pids \ {p} : proc'[q] = proc[q]
      /\ proc'[p].profile = f
  BY DEF Start, ProfileInv, TypeOK, Processes
<1>3. \A k \in due \cup hit : k.pid \in Pids \ {p}
  BY MarkedType DEF Start, Reusable, ProfileInv
<1>4. Orderly'
  BY <1>1 DEF ProfileInv, Orderly
<1>5. MarkedOrphans'
  BY <1>1, <1>2, <1>3 DEF ProfileInv, MarkedOrphans
<1>6. ProfilesExist'
  BY <1>1, <1>2 DEF ProfileInv, ProfilesExist, InUse
<1>7. UsersSpared'
  <2>1. ASSUME pc # "idle", f \in Profiles PROVE Spared(f)
    <3>1. CASE f \notin dirs
      BY <2>1, <3>1, ScriptsAssumption DEF ProfileInv, ProfilesExist, InUse, Spared
    <3>2. CASE \E q \in Pids : proc[q].up /\ proc[q].owned /\ proc[q].profile = f
      <4>1. PICK q \in Pids : proc[q].up /\ proc[q].owned /\ proc[q].profile = f
        BY <3>2
      <4>2. q \notin Marked
        BY <4>1 DEF Marked, ProfileInv, MarkedOrphans
      <4> QED BY <2>1, <4>1, <4>2 DEF ProfileInv, UsersSpared
    <3> QED BY <2>1, <3>1, <3>2, ScriptsAssumption DEF Start, ProfileFor
  <2> QED BY <1>1, <1>2, <2>1 DEF ProfileInv, UsersSpared, Spared, Marked
<1> QED BY <1>4, <1>5, <1>6, <1>7 DEF ProfileInv

(* Purging takes no profile that is in use.                                 *)
LEMMA PurgeIsCareful ==
  ASSUME ProfileInv, Purge, NEW f \in dirs \ dirs', NEW p \in Pids, proc[p].up
  PROVE  proc[p].profile # f
<1> SUFFICES ASSUME proc[p].profile = f PROVE FALSE
  OBVIOUS
<1>1. pc = "purge" /\ due = {} /\ todo = {}
  BY DEF Purge, ProfileInv, Orderly
<1>2. PICK k \in hit : seen[k.pid] = f /\ f \notin Survivors
  BY DEF Purge
<1>3. k.pid \in Pids /\ f \in Profiles
  BY MarkedType DEF ProfileInv, TypeOK
<1>4. p \notin Marked
  BY <1>1 DEF Marked, ProfileInv, MarkedOrphans
<1>5. Spared(f)
  BY <1>1, <1>3, <1>4 DEF ProfileInv, UsersSpared
<1>6. \A q \in Pids \ Marked : seen[q] # f
  BY <1>2 DEF Survivors, Marked
<1> QED BY <1>2, <1>3, <1>5, <1>6 DEF Spared

LEMMA NextProfileInv == ProfileInv /\ [Next]_vars => ProfileInv'
<1> SUFFICES ASSUME ProfileInv, [Next]_vars PROVE ProfileInv'
  OBVIOUS
<1> TypeOK'
  BY NextType DEF ProfileInv
<1>1. ASSUME NEW orphans \in Scans, Sweep(orphans) PROVE ProfileInv'
  BY <1>1, SweepProfileInv
<1>2. ASSUME NEW k \in due, Term(k) PROVE ProfileInv'
  BY <1>2, TermProfileInv
<1>3. ASSUME NEW k \in todo, Kill(k) PROVE ProfileInv'
  BY <1>3, KillProfileInv
<1>4. CASE Save \/ SaveFails
  BY <1>4, AfterSaveProfileInv DEF Save, SaveFails
<1>5. CASE Purge
  <2>1. \A p \in Pids : proc[p].up => InUse(proc[p].profile)'
    BY <1>5, PurgeIsCareful DEF ProfileInv, ProfilesExist, InUse, Purge
  <2> QED BY <1>5, <2>1, EndProfileInv DEF Purge
<1>6. CASE PassKilled
  BY <1>6, EndProfileInv DEF PassKilled, world, ProfileInv, ProfilesExist, InUse
<1>7. ASSUME NEW p \in Pids, NEW owned \in BOOLEAN, NEW f \in Profiles \cup {NoProfile}, Start(p, owned, f)
      PROVE ProfileInv'
  BY <1>7, StartProfileInv
<1>8. ASSUME NEW p \in Pids, Exit(p) \/ OwnerEnds(p) \/ Changes(p) PROVE ProfileInv'
  <2>1. \A q \in Pids : proc'[q].up => /\ proc[q].up /\ proc'[q].profile = proc[q].profile
                                       /\ proc'[q].owned => proc[q].owned
    BY <1>8 DEF Exit, OwnerEnds, Changes, ProfileInv, TypeOK, Processes
  <2> QED BY <1>8, <2>1, LesserProfileInv DEF Exit, OwnerEnds, Changes, pass
<1>9. CASE (\E b \in BOOLEAN : SetStalled(b)) \/ Tick \/ ClockStep \/ UNCHANGED vars
  BY <1>9, LesserProfileInv DEF SetStalled, Tick, ClockStep, pass, world, vars
<1> QED
  BY <1>1, <1>2, <1>3, <1>4, <1>5, <1>6, <1>7, <1>8, <1>9 DEF Next, PassStep

(* No profile directory is deleted under a running browser, whichever       *)
(* browsers share it, join it, start or exit while the pass runs, and       *)
(* whatever fails (purge_profiles and its survivors).                       *)
THEOREM ProfilesAreSpared == Spec => PurgeSpares
<1> DEFINE Spares == \A f \in dirs \ dirs' : \A p \in Pids : ~(proc[p].up /\ proc[p].profile = f)
<1>1. ProfileInv /\ [Next]_vars => [Spares]_vars
  <2> SUFFICES ASSUME ProfileInv, Next PROVE Spares
    BY DEF vars
  <2>1. CASE Purge
    BY <2>1, PurgeIsCareful
  <2>2. CASE ~Purge
    <3>1. dirs \subseteq dirs'
      BY <2>2 DEF Next, PassStep, Sweep, Term, Kill, Save, SaveFails, PassKilled, Start, Exit,
                  OwnerEnds, Changes, SetStalled, Tick, ClockStep, world
    <3> QED BY <3>1
  <2> QED BY <2>1, <2>2
<1>2. Init => ProfileInv
  BY InitProfileInv
<1>3. ProfileInv /\ [Next]_vars => ProfileInv'
  BY NextProfileInv
<1> QED BY <1>1, <1>2, <1>3, PTL DEF Spec, PurgeSpares
=============================================================================
