-------------------------- MODULE HeavyGateProofs ---------------------------
(***************************************************************************)
(* What TLAPS proves of the heavy-command gate for every number of         *)
(* processes, slots and scopes: its type invariant, the exclusiveness of a *)
(* slot, the bound on pooled jobs, that it implements SlotPool, that       *)
(* nested work never queues behind its own job, and what covers a command  *)
(* that is let through without a slot of its own.                          *)
(***************************************************************************)
EXTENDS HeavyGate, FiniteSetTheorems, TLAPS

USE DEF Slots

(* A process that locked a slot is past the gate, or a wrapper; it still    *)
(* shares the lock it took, and a pooled job took a slot below its count.   *)
HoldersHold ==
    \A p \in Procs : Holder(p) =>
        /\ p \in held[own[p]]
        /\ pc[p] \in {"admit", "run", "wrap"}
        /\ pc[p] \in {"admit", "run"} => own[p] < local[p].pool

HoldersApart ==
    \A p, q \in Procs : Holder(p) /\ Holder(q) /\ own[p] = own[q] => p = q

(* The momentary lock of a probe is shared with nobody.                     *)
ProbesAlone ==
    \A p \in Procs : pc[p] = "probing" =>
        /\ local[p].idx \in Slots
        /\ held[local[p].idx] = {p}

WrapsOwnZero == \A p \in Procs : pc[p] = "wrap" => own[p] = 0

(* SlotExclusive is not inductive: ProbeRelease and FlockUnlock empty a     *)
(* slot's lock, so one must know that nobody else is inside.                *)
IInv == TypeOK /\ HoldersHold /\ HoldersApart /\ ProbesAlone /\ WrapsOwnZero

-----------------------------------------------------------------------------
(* Type correctness.                                                       *)

LEMMA NoLocalsType == NoLocals \in Locals
  BY MaxSlotsAssumption, WaitTimeoutAssumption DEF NoLocals, Locals

(* Whatever a dead process leaves behind is well typed.                     *)
LEMMA VanishType ==
  ASSUME TypeOK, NEW p \in Procs, NEW left \in {NoProc, Orphaned}, Vanish(p, left)
  PROVE  TypeOK'
<1>1. parent' \in [Procs -> Procs \cup {Root}]
  BY DEF TypeOK, Vanish
<1>2. /\ held' \in [0..(MaxSlots - 1) -> SUBSET Procs]
      /\ stale' \in [0..(MaxSlots - 1) -> SUBSET Procs]
  BY DEF TypeOK, Vanish
<1>3. local' \in [Procs -> Locals]
  BY NoLocalsType DEF TypeOK, Vanish
<1>4. marker' \in [Scopes -> Procs \cup {NoProc, Orphaned}]
  BY DEF TypeOK, Vanish, MarkersAfter
<1>5. /\ pc' \in [Procs -> Phases]
      /\ own' \in [Procs -> 0..(MaxSlots - 1) \cup {NoSlot}]
      /\ scope' \in [Procs -> Scopes \cup {NoScope}]
      /\ slotsFile' \in 1..MaxSlots
  BY DEF TypeOK, Vanish, Phases
<1> QED BY <1>1, <1>2, <1>3, <1>4, <1>5 DEF TypeOK

(* The record updates the gate makes of its shell variables.                *)
LEMMA LocalsUpdate ==
  ASSUME NEW r \in Locals
  PROVE  /\ \A i \in 0..MaxSlots : [r EXCEPT !.idx = i] \in Locals
         /\ \A i \in 0..MaxSlots, t \in SUBSET Slots, c \in Procs \cup {Root} :
               [r EXCEPT !.cursor = c, !.todo = t, !.idx = i] \in Locals
         /\ \A t \in SUBSET Slots, c \in Procs \cup {Root} :
               [r EXCEPT !.cursor = c, !.todo = t] \in Locals
         /\ \A i \in 0..MaxSlots, t \in SUBSET Slots :
               [r EXCEPT !.todo = t, !.idx = i] \in Locals
         /\ \A i \in 0..MaxSlots, w \in 0..WaitTimeout :
               [r EXCEPT !.idx = i, !.waited = w] \in Locals
  BY DEF Locals

LEMMA StartLocals ==
  ASSUME NEW n \in 1..MaxSlots, NEW t \in SUBSET Slots, NEW c \in Procs
  PROVE  [NoLocals EXCEPT !.pool = n, !.cursor = c, !.todo = t] \in Locals
<1>1. \A r \in Locals : [r EXCEPT !.pool = n, !.cursor = c, !.todo = t] \in Locals
  BY DEF Locals
<1> QED BY <1>1, NoLocalsType

LEMMA LocalsFields ==
  ASSUME NEW r \in Locals
  PROVE  /\ r.pool \in 1..MaxSlots
         /\ r.idx \in 0..MaxSlots
         /\ r.cursor \in Procs \cup {Root}
         /\ r.todo \in SUBSET Slots
         /\ r.waited \in 0..WaitTimeout
  BY DEF Locals

(* A step of the gate keeps every variable in its type.                     *)
LEMMA GateStepLocals ==
  ASSUME TypeOK, NEW p \in Procs, GateStep(p)
  PROVE  local' \in [Procs -> Locals]
<1> DEFINE r == local[p]
<1> USE MaxSlotsAssumption, WaitTimeoutAssumption
<1>0. /\ local \in [Procs -> Locals]
      /\ r \in Locals
  BY DEF TypeOK
<1>f. /\ r.pool \in 1..MaxSlots
      /\ r.idx \in 0..MaxSlots
      /\ r.todo \in SUBSET Slots
      /\ r.waited \in 0..WaitTimeout
  BY <1>0, LocalsFields
<1>d. \A c : Descriptors(c) \in SUBSET Slots
  BY DEF Descriptors
<1>u. \A x \in Locals : [local EXCEPT ![p] = x] \in [Procs -> Locals]
  BY <1>0
<1>n. 0 \in 0..MaxSlots /\ {} \in SUBSET Slots /\ 0 \in 0..WaitTimeout
  OBVIOUS
<1>e. [r EXCEPT !.cursor = Root, !.todo = {}, !.idx = 0] \in Locals
  BY <1>0, <1>n, LocalsUpdate
<1> HIDE DEF r
<1>1. CASE Start(p)
  <2>1. [NoLocals EXCEPT !.pool = slotsFile, !.cursor = p, !.todo = Descriptors(p)]
           \in Locals
    BY <1>d, StartLocals DEF TypeOK
  <2> QED BY <1>1, <2>1, <1>u, <1>0 DEF Start
<1>2. ASSUME NEW s \in Slots, ProbeHeld(p, s) \/ ProbeFree(p, s)
      PROVE  local' \in [Procs -> Locals]
  <2>0. s \in 0..MaxSlots
    OBVIOUS
  <2>1. [r EXCEPT !.idx = s] \in Locals
    BY <1>0, <2>0, LocalsUpdate
  <2> QED BY <1>2, <1>e, <1>u, <2>1 DEF ProbeHeld, ProbeFree, EndWalk, r
<1>3. CASE ProbeRelease(p)
  <2>1. [r EXCEPT !.todo = r.todo \ {r.idx}, !.idx = 0] \in Locals
    BY <1>0, <1>n, <1>f, LocalsUpdate
  <2> QED BY <1>3, <1>u, <2>1 DEF ProbeRelease, r
<1>4. CASE ProbeParent(p)
  <2> DEFINE c == r.cursor
  <2>1. CASE EndWalk(p, FALSE)
    BY <2>1, <1>e, <1>u DEF EndWalk, r
  <2>2. CASE ~EndWalk(p, FALSE)
    <3>1. c \in Procs \cup {Root} /\ c # Root
      BY <1>0, <1>4, <2>2, LocalsFields DEF ProbeParent, r
    <3>2. parent[c] \in Procs \cup {Root}
      BY <3>1 DEF TypeOK
    <3>3. [r EXCEPT !.cursor = parent[c], !.todo = Descriptors(parent[c])] \in Locals
      BY <1>0, <1>d, <1>n, <3>2, LocalsUpdate
    <3> QED BY <1>4, <2>2, <3>3, <1>u DEF ProbeParent, r
  <2> QED BY <2>1, <2>2
<1>5. CASE TakeSlot(p)
  <2>1. [r EXCEPT !.idx = 0, !.waited = 0] \in Locals
    BY <1>0, <1>n, LocalsUpdate
  <2> QED BY <1>5, <1>u, <2>1 DEF TakeSlot, r
<1>6. CASE NextSlot(p) \/ BeginWait(p)
  <2>1. NextSlot(p) => r.idx + 1 \in 0..MaxSlots
    BY <1>f DEF NextSlot, Scanning, r
  <2>2. NextSlot(p) => [r EXCEPT !.idx = r.idx + 1] \in Locals
    BY <1>0, <2>1, LocalsUpdate
  <2>3. [r EXCEPT !.idx = 0] \in Locals
    BY <1>0, <1>n, LocalsUpdate
  <2> QED BY <1>6, <1>u, <2>2, <2>3 DEF NextSlot, BeginWait, r
<1>7. CASE Poll(p)
  <2> DEFINE w == IF WaitTimeout > 0 THEN r.waited + 1 ELSE r.waited
  <2>1. w \in 0..WaitTimeout
    BY <1>7, <1>f DEF Poll, TimeUp, r
  <2> HIDE DEF w
  <2>2. [r EXCEPT !.idx = 0, !.waited = w] \in Locals
    BY <1>0, <1>n, <2>1, LocalsUpdate
  <2> QED BY <1>7, <1>u, <2>2 DEF Poll, r, w
<1>8. CASE TimeOut(p)
  BY <1>8, <1>0, NoLocalsType DEF TimeOut, Vanish
<1>9. CASE UNCHANGED local
  BY <1>9, <1>0
<1> QED
  BY <1>1, <1>2, <1>3, <1>4, <1>5, <1>6, <1>7, <1>8, <1>9
  DEF GateStep, AdmitScoped, AdmitUnscoped

LEMMA GateStepType ==
  ASSUME TypeOK, NEW p \in Procs, GateStep(p)
  PROVE  TypeOK'
<1> USE MaxSlotsAssumption
<1>0. local' \in [Procs -> Locals]
  BY GateStepLocals
<1>1. CASE TimeOut(p)
  BY <1>1, VanishType DEF TimeOut
<1>2. ASSUME ~TimeOut(p) PROVE pc' \in [Procs -> Phases]
  BY <1>2 DEF TypeOK, GateStep, Start, ProbeHeld, ProbeFree, ProbeRelease, ProbeParent,
     TakeSlot, NextSlot, BeginWait, Poll, AdmitScoped, AdmitUnscoped, EndWalk, Goto, Phases
<1>3. ASSUME ~TimeOut(p) PROVE held' \in [Slots -> SUBSET Procs]
  <2>1. CASE TakeSlot(p)
    BY <2>1 DEF TypeOK, TakeSlot
  <2>2. CASE ProbeRelease(p)
    BY <2>2 DEF TypeOK, ProbeRelease
  <2>3. ASSUME NEW s \in Slots, ProbeFree(p, s) PROVE held' \in [Slots -> SUBSET Procs]
    BY <2>3 DEF TypeOK, ProbeFree
  <2>4. CASE UNCHANGED held
    BY <2>4 DEF TypeOK
  <2> QED
    BY <1>3, <2>1, <2>2, <2>3, <2>4 DEF GateStep, Start, ProbeHeld, ProbeParent,
       NextSlot, BeginWait, Poll, AdmitScoped, AdmitUnscoped
<1>4. ASSUME ~TimeOut(p) PROVE own' \in [Procs -> Slots \cup {NoSlot}]
  <2>1. TakeSlot(p) => local[p].idx \in Slots
    <3>1. local[p].pool \in 1..MaxSlots /\ local[p].idx \in 0..MaxSlots
      BY LocalsFields DEF TypeOK
    <3> QED BY <3>1 DEF TakeSlot, Scanning
  <2> QED
    BY <1>4, <2>1 DEF TypeOK, GateStep, Start, ProbeHeld, ProbeFree, ProbeRelease,
       ProbeParent, TakeSlot, NextSlot, BeginWait, Poll, AdmitScoped, AdmitUnscoped
<1>5. ASSUME ~TimeOut(p)
      PROVE  /\ scope' \in [Procs -> Scopes \cup {NoScope}]
             /\ marker' \in [Scopes -> Procs \cup {NoProc, Orphaned}]
  <2>1. ASSUME NEW sc \in Scopes, AdmitScoped(p, sc)
        PROVE  /\ scope' \in [Procs -> Scopes \cup {NoScope}]
               /\ marker' \in [Scopes -> Procs \cup {NoProc, Orphaned}]
    BY <2>1 DEF TypeOK, AdmitScoped, MarkersAfter
  <2>2. CASE UNCHANGED <<scope, marker>>
    BY <2>2 DEF TypeOK
  <2> QED
    BY <1>5, <2>1, <2>2 DEF GateStep, Start, ProbeHeld, ProbeFree, ProbeRelease,
       ProbeParent, TakeSlot, NextSlot, BeginWait, Poll, AdmitUnscoped
<1>6. ASSUME ~TimeOut(p) PROVE UNCHANGED <<slotsFile, parent, stale>>
  BY <1>6 DEF GateStep, Start, ProbeHeld, ProbeFree, ProbeRelease, ProbeParent,
     TakeSlot, NextSlot, BeginWait, Poll, AdmitScoped, AdmitUnscoped
<1> QED
  BY <1>0, <1>1, <1>2, <1>3, <1>4, <1>5, <1>6 DEF TypeOK

LEMMA SpawnType ==
  ASSUME TypeOK, NEW p \in Procs \cup {Root}, NEW q \in Procs,
         NEW phase \in {"shell", "start", "flock"}, NEW inherit \in BOOLEAN,
         Spawn(p, q, phase, inherit)
  PROVE  TypeOK'
<1>1. scope' \in [Procs -> Scopes \cup {NoScope}]
  BY SentinelAssumption DEF TypeOK, Spawn
<1> QED BY <1>1 DEF TypeOK, Spawn, Phases

LEMMA EnvStepType ==
  ASSUME TypeOK, NEW p \in Procs, EnvStep(p)
  PROVE  TypeOK'
<1>1. ASSUME NEW q \in Procs, NEW phase \in {"shell", "start", "flock"},
             NEW inherit \in BOOLEAN, Spawn(p, q, phase, inherit)
      PROVE TypeOK'
  BY <1>1, SpawnType
<1>2. CASE Exit(p)
  BY <1>2, VanishType DEF Exit
<1>3. CASE Kill(p)
  BY <1>3, VanishType DEF Kill
<1>4. CASE FlockTake(p)
  BY <1>4, MaxSlotsAssumption DEF TypeOK, FlockTake, Goto, Phases
<1>5. CASE FlockUnlock(p)
  BY <1>5 DEF TypeOK, FlockUnlock, Goto, Phases
<1> QED BY <1>1, <1>2, <1>3, <1>4, <1>5 DEF EnvStep

LEMMA InitType == Init => TypeOK
  BY NoLocalsType DEF Init, TypeOK, Phases

LEMMA NextType == TypeOK /\ [Next]_vars => TypeOK'
<1> SUFFICES ASSUME TypeOK, [Next]_vars PROVE TypeOK'
  OBVIOUS
<1>1. ASSUME NEW q \in Procs, NEW phase \in {"shell", "start", "flock"},
             Spawn(Root, q, phase, FALSE)
      PROVE TypeOK'
  BY <1>1, SpawnType
<1>2. ASSUME NEW p \in Procs, GateStep(p) PROVE TypeOK'
  BY <1>2, GateStepType
<1>3. ASSUME NEW p \in Procs, EnvStep(p) PROVE TypeOK'
  BY <1>3, EnvStepType
<1>4. ASSUME NEW n \in 1..MaxSlots, SetSlots(n) PROVE TypeOK'
  BY <1>4 DEF TypeOK, SetSlots
<1>5. CASE UNCHANGED vars
  BY <1>5 DEF TypeOK, vars
<1> QED BY <1>1, <1>2, <1>3, <1>4, <1>5 DEF Next

(* Every variable keeps the type TypeOK gives it, for every pool size.      *)
THEOREM TypeCorrect == Spec => []TypeOK
  BY InitType, NextType, PTL DEF Spec

-----------------------------------------------------------------------------
(* The inductive invariant.                                                *)

LEMMA InitInv == Init => IInv
<1> SUFFICES ASSUME Init PROVE IInv
  OBVIOUS
<1>1. TypeOK
  BY InitType
<1>2. \A p \in Procs : pc[p] = "free" /\ ~Holder(p)
  BY DEF Init, Holder
<1> QED
  BY <1>1, <1>2 DEF IInv, HoldersHold, HoldersApart, ProbesAlone, WrapsOwnZero

(* A step of p that locks and unlocks nothing.                              *)
LEMMA FrameInv ==
  ASSUME IInv, TypeOK', NEW p \in Procs,
         UNCHANGED <<held, own>>,
         \A q \in Procs \ {p} : pc'[q] = pc[q] /\ local'[q] = local[q],
         pc'[p] \notin {"probing", "wrap"},
         Holder(p) => pc'[p] \in {"admit", "run"} /\ own[p] < local'[p].pool
  PROVE  IInv'
<1> USE DEF IInv
<1>1. \A q \in Procs : Holder(q)' <=> Holder(q)
  BY DEF Holder
<1>2. HoldersHold'
  BY <1>1 DEF HoldersHold
<1>3. HoldersApart'
  BY <1>1 DEF HoldersApart
<1>4. ProbesAlone'
  BY DEF ProbesAlone
<1>5. WrapsOwnZero'
  BY DEF WrapsOwnZero
<1> QED BY <1>2, <1>3, <1>4, <1>5

(* An unheld slot is nobody's: neither a holder's nor a prober's.           *)
LEMMA UnheldSlot ==
  ASSUME IInv, NEW s \in Slots, held[s] = {}, NEW q \in Procs
  PROVE  /\ Holder(q) => own[q] # s
         /\ pc[q] = "probing" => local[q].idx # s
  BY DEF IInv, HoldersHold, ProbesAlone

(* A process locks an unheld slot for itself.                               *)
LEMMA LockInv ==
  ASSUME IInv, TypeOK', NEW p \in Procs, NEW s \in Slots,
         held[s] = {}, ~Holder(p),
         held' = [held EXCEPT ![s] = {p}],
         own' = [own EXCEPT ![p] = s],
         \A q \in Procs \ {p} : pc'[q] = pc[q] /\ local'[q] = local[q],
         \/ pc'[p] = "admit" /\ s < local'[p].pool
         \/ pc'[p] = "wrap" /\ s = 0
  PROVE  IInv'
<1> USE DEF IInv
<1>0. /\ own \in [Procs -> Slots \cup {NoSlot}]
      /\ held \in [Slots -> SUBSET Procs]
  BY DEF TypeOK
<1>1. \A q \in Procs \ {p} : /\ Holder(q)' <=> Holder(q)
                             /\ own'[q] = own[q]
                             /\ Holder(q) => own[q] \in Slots /\ own[q] # s
  BY <1>0, UnheldSlot DEF Holder
<1>2. Holder(p)' /\ own'[p] = s
  BY <1>0, SentinelAssumption DEF Holder
<1>3. HoldersHold'
  BY <1>0, <1>1, <1>2 DEF HoldersHold
<1>4. HoldersApart'
  BY <1>1, <1>2 DEF HoldersApart
<1>5. ProbesAlone'
  BY <1>0, UnheldSlot DEF ProbesAlone
<1>6. WrapsOwnZero'
  BY <1>1, <1>2 DEF WrapsOwnZero
<1> QED BY <1>3, <1>4, <1>5, <1>6

LEMMA ProbeFreeInv ==
  ASSUME IInv, TypeOK', NEW p \in Procs, NEW s \in Slots, ProbeFree(p, s)
  PROVE  IInv'
<1> USE DEF IInv
<1>0. /\ own \in [Procs -> Slots \cup {NoSlot}]
      /\ held \in [Slots -> SUBSET Procs]
      /\ pc \in [Procs -> Phases]
      /\ local \in [Procs -> Locals]
  BY DEF TypeOK
<1>1. /\ held' = [held EXCEPT ![s] = {p}] /\ own' = own
      /\ pc' = [pc EXCEPT ![p] = "probing"]
      /\ local' = [local EXCEPT ![p].idx = s]
      /\ pc[p] = "probe" /\ held[s] = {}
  BY DEF ProbeFree, Goto
<1>2. local'[p].idx = s
  BY <1>0, <1>1 DEF Locals
<1>3. \A q \in Procs \ {p} : local'[q] = local[q] /\ pc'[q] = pc[q]
  BY <1>0, <1>1
<1>4. ~Holder(p) /\ \A q \in Procs : Holder(q)' <=> Holder(q)
  BY <1>1 DEF HoldersHold, Holder
<1>5. HoldersHold'
  BY <1>0, <1>1, <1>3, <1>4, UnheldSlot DEF HoldersHold, Holder
<1>6. HoldersApart'
  BY <1>1, <1>4 DEF HoldersApart
<1>7. ProbesAlone'
  BY <1>0, <1>1, <1>2, <1>3, UnheldSlot DEF ProbesAlone
<1>8. WrapsOwnZero'
  BY <1>0, <1>1 DEF WrapsOwnZero
<1> QED BY <1>5, <1>6, <1>7, <1>8

LEMMA ProbeReleaseInv ==
  ASSUME IInv, TypeOK', NEW p \in Procs, ProbeRelease(p)
  PROVE  IInv'
<1> USE DEF IInv
<1> DEFINE s == local[p].idx
<1>0. /\ own \in [Procs -> Slots \cup {NoSlot}]
      /\ held \in [Slots -> SUBSET Procs]
      /\ pc \in [Procs -> Phases]
      /\ local \in [Procs -> Locals]
  BY DEF TypeOK
<1>1. /\ held' = [held EXCEPT ![s] = {}] /\ own' = own
      /\ pc' = [pc EXCEPT ![p] = "probe"]
      /\ pc[p] = "probing"
  BY DEF ProbeRelease, Goto
<1>2. s \in Slots /\ held[s] = {p}
  BY <1>1 DEF ProbesAlone
<1>3. \A q \in Procs \ {p} : local'[q] = local[q] /\ pc'[q] = pc[q]
  BY <1>0, <1>1 DEF ProbeRelease
<1>4. ~Holder(p) /\ \A q \in Procs : Holder(q)' <=> Holder(q)
  BY <1>1 DEF HoldersHold, Holder
<1>5. \A q \in Procs \ {p} : /\ Holder(q) => own[q] # s
                             /\ pc[q] = "probing" => local[q].idx # s
  BY <1>2 DEF HoldersHold, ProbesAlone
<1>6. HoldersHold'
  BY <1>0, <1>1, <1>3, <1>4, <1>5 DEF HoldersHold, Holder
<1>7. HoldersApart'
  BY <1>1, <1>4 DEF HoldersApart
<1>8. ProbesAlone'
  BY <1>0, <1>1, <1>3, <1>5 DEF ProbesAlone
<1>9. WrapsOwnZero'
  BY <1>0, <1>1 DEF WrapsOwnZero
<1> QED BY <1>6, <1>7, <1>8, <1>9

LEMMA VanishInv ==
  ASSUME IInv, TypeOK', NEW p \in Procs, NEW left \in {NoProc, Orphaned}, Vanish(p, left)
  PROVE  IInv'
<1> USE DEF IInv
<1>0. /\ own \in [Procs -> Slots \cup {NoSlot}]
      /\ held \in [Slots -> SUBSET Procs]
      /\ pc \in [Procs -> Phases]
      /\ local \in [Procs -> Locals]
  BY DEF TypeOK
<1>1. /\ held' = [s \in Slots |-> held[s] \ {p}]
      /\ own' = [own EXCEPT ![p] = NoSlot]
      /\ pc' = [pc EXCEPT ![p] = "free"]
      /\ local' = [local EXCEPT ![p] = NoLocals]
  BY DEF Vanish
<1>2. \A q \in Procs \ {p} : /\ local'[q] = local[q] /\ pc'[q] = pc[q]
                             /\ own'[q] = own[q]
                             /\ Holder(q)' <=> Holder(q)
  BY <1>0, <1>1 DEF Holder
<1>3. ~Holder(p)' /\ pc'[p] = "free"
  BY <1>0, <1>1 DEF Holder
<1>4. \A q \in Procs : Holder(q) => own[q] \in Slots
  BY <1>0 DEF Holder
<1>5. HoldersHold'
  BY <1>0, <1>1, <1>2, <1>3, <1>4 DEF HoldersHold
<1>6. HoldersApart'
  BY <1>2, <1>3 DEF HoldersApart
<1>7. ProbesAlone'
  BY <1>0, <1>1, <1>2, <1>3 DEF ProbesAlone
<1>8. WrapsOwnZero'
  BY <1>2, <1>3 DEF WrapsOwnZero
<1> QED BY <1>5, <1>6, <1>7, <1>8

LEMMA SpawnInv ==
  ASSUME IInv, TypeOK', NEW p \in Procs \cup {Root}, NEW q \in Procs,
         NEW phase \in {"shell", "start", "flock"}, NEW inherit \in BOOLEAN,
         Spawn(p, q, phase, inherit)
  PROVE  IInv'
<1> USE DEF IInv
<1>0. /\ held \in [Slots -> SUBSET Procs]
      /\ held' \in [Slots -> SUBSET Procs]
      /\ pc \in [Procs -> Phases]
      /\ own \in [Procs -> Slots \cup {NoSlot}]
  BY DEF TypeOK
<1>1. /\ own' = own /\ local' = local
      /\ pc' = [pc EXCEPT ![q] = phase]
      /\ pc[q] = "free"
      /\ p # Root => CanFork(p)
  BY DEF Spawn
<1>2. \A s \in Slots : held[s] \subseteq held'[s]
  BY <1>0 DEF Spawn
<1>3. \A s \in Slots : p \notin held[s] => held'[s] = held[s]
  BY <1>0 DEF Spawn
<1>4. ~Holder(q) /\ \A r \in Procs : Holder(r)' <=> Holder(r)
  BY <1>1 DEF HoldersHold, Holder
<1>5. \A r \in Procs : Holder(r) => own[r] \in Slots
  BY <1>0 DEF Holder
<1>6. HoldersHold'
  BY <1>0, <1>1, <1>2, <1>4, <1>5 DEF HoldersHold
<1>7. HoldersApart'
  BY <1>1, <1>4 DEF HoldersApart
<1>8. ASSUME NEW r \in Procs, pc[r] = "probing" PROVE p \notin held[local[r].idx]
  BY <1>1, <1>8, SentinelAssumption DEF ProbesAlone, CanFork
<1>9. ProbesAlone'
  BY <1>0, <1>1, <1>3, <1>8 DEF ProbesAlone
<1>10. WrapsOwnZero'
  BY <1>0, <1>1 DEF WrapsOwnZero
<1> QED BY <1>6, <1>7, <1>9, <1>10

LEMMA FlockUnlockInv ==
  ASSUME IInv, TypeOK', NEW p \in Procs, FlockUnlock(p)
  PROVE  IInv'
<1> USE DEF IInv
<1>0. /\ own \in [Procs -> Slots \cup {NoSlot}]
      /\ held \in [Slots -> SUBSET Procs]
      /\ pc \in [Procs -> Phases]
      /\ 0 \in Slots
  BY MaxSlotsAssumption DEF TypeOK
<1>1. /\ held' = [held EXCEPT ![0] = {}]
      /\ own' = [own EXCEPT ![p] = NoSlot]
      /\ pc' = [pc EXCEPT ![p] = "shell"]
      /\ local' = local
      /\ pc[p] = "wrap"
  BY DEF FlockUnlock, Goto
<1>2. own[p] = 0 /\ Holder(p) /\ p \in held[0]
  BY <1>0, <1>1, SentinelAssumption DEF WrapsOwnZero, Holder, HoldersHold
<1>3. \A q \in Procs \ {p} : /\ pc'[q] = pc[q] /\ own'[q] = own[q]
                             /\ Holder(q)' <=> Holder(q)
                             /\ Holder(q) => own[q] \in Slots /\ own[q] # 0
                             /\ pc[q] = "probing" => local[q].idx # 0
  BY <1>0, <1>1, <1>2 DEF Holder, HoldersApart, ProbesAlone
<1>4. ~Holder(p)' /\ pc'[p] = "shell"
  BY <1>0, <1>1 DEF Holder
<1>5. HoldersHold'
  BY <1>0, <1>1, <1>3, <1>4 DEF HoldersHold
<1>6. HoldersApart'
  BY <1>3, <1>4 DEF HoldersApart
<1>7. ProbesAlone'
  BY <1>0, <1>1, <1>3, <1>4 DEF ProbesAlone
<1>8. WrapsOwnZero'
  BY <1>3, <1>4 DEF WrapsOwnZero
<1> QED BY <1>5, <1>6, <1>7, <1>8

LEMMA GateStepInv ==
  ASSUME IInv, TypeOK', NEW p \in Procs, GateStep(p)
  PROVE  IInv'
<1>0. /\ own \in [Procs -> Slots \cup {NoSlot}]
      /\ pc \in [Procs -> Phases]
      /\ local \in [Procs -> Locals]
  BY DEF IInv, TypeOK
<1>h. Holder(p) => /\ pc[p] \in {"admit", "run", "wrap"}
                   /\ pc[p] \in {"admit", "run"} => own[p] < local[p].pool
  BY DEF IInv, HoldersHold
<1>1. CASE Start(p)
  BY <1>0, <1>1, <1>h, FrameInv DEF Start, Goto
<1>2. ASSUME NEW s \in Slots, ProbeHeld(p, s) PROVE IInv'
  BY <1>0, <1>2, <1>h, FrameInv DEF ProbeHeld, EndWalk, Goto
<1>3. ASSUME NEW s \in Slots, ProbeFree(p, s) PROVE IInv'
  BY <1>3, ProbeFreeInv
<1>4. CASE ProbeRelease(p)
  BY <1>4, ProbeReleaseInv
<1>5. CASE ProbeParent(p)
  BY <1>0, <1>5, <1>h, FrameInv DEF ProbeParent, EndWalk, Goto
<1>6. CASE TakeSlot(p)
  <2> DEFINE s == local[p].idx
  <2>1. local[p].pool \in 1..MaxSlots /\ s \in 0..MaxSlots
    BY <1>0, LocalsFields
  <2>2. s \in Slots /\ s < local[p].pool /\ held[s] = {} /\ ~Holder(p)
    BY <1>6, <1>h, <2>1, MaxSlotsAssumption DEF TakeSlot, Scanning
  <2>3. /\ held' = [held EXCEPT ![s] = {p}]
        /\ own' = [own EXCEPT ![p] = s]
        /\ pc'[p] = "admit"
        /\ \A q \in Procs \ {p} : pc'[q] = pc[q] /\ local'[q] = local[q]
    BY <1>0, <1>6 DEF TakeSlot, Goto
  <2>4. local'[p].pool = local[p].pool
    BY <1>0, <1>6 DEF TakeSlot, Locals
  <2> HIDE DEF s
  <2> QED BY <2>2, <2>3, <2>4, LockInv
<1>7. CASE NextSlot(p)
  BY <1>0, <1>7, <1>h, FrameInv DEF NextSlot, Scanning
<1>8. CASE BeginWait(p)
  BY <1>0, <1>8, <1>h, FrameInv DEF BeginWait, Exhausted, Goto
<1>9. CASE Poll(p)
  BY <1>0, <1>9, <1>h, FrameInv DEF Poll, Exhausted
<1>10. CASE TimeOut(p)
  BY <1>10, VanishInv DEF TimeOut
<1>11. ASSUME NEW sc \in Scopes, AdmitScoped(p, sc) PROVE IInv'
  BY <1>0, <1>11, <1>h, FrameInv DEF AdmitScoped, Goto
<1>12. CASE AdmitUnscoped(p)
  BY <1>0, <1>12, <1>h, FrameInv DEF AdmitUnscoped, Goto
<1> QED
  BY <1>1, <1>2, <1>3, <1>4, <1>5, <1>6, <1>7, <1>8, <1>9, <1>10, <1>11, <1>12
  DEF GateStep

LEMMA EnvStepInv ==
  ASSUME IInv, TypeOK', NEW p \in Procs, EnvStep(p)
  PROVE  IInv'
<1>1. ASSUME NEW q \in Procs, NEW phase \in {"shell", "start", "flock"},
             NEW inherit \in BOOLEAN, Spawn(p, q, phase, inherit)
      PROVE IInv'
  BY <1>1, SpawnInv
<1>2. CASE Exit(p)
  BY <1>2, VanishInv DEF Exit
<1>3. CASE Kill(p)
  BY <1>3, VanishInv DEF Kill
<1>4. CASE FlockTake(p)
  <2>1. /\ pc \in [Procs -> Phases]
        /\ 0 \in Slots
    BY MaxSlotsAssumption DEF IInv, TypeOK
  <2>2. ~Holder(p) /\ held[0] = {}
    BY <1>4 DEF IInv, HoldersHold, FlockTake
  <2>3. /\ held' = [held EXCEPT ![0] = {p}]
        /\ own' = [own EXCEPT ![p] = 0]
        /\ pc'[p] = "wrap"
        /\ \A q \in Procs \ {p} : pc'[q] = pc[q] /\ local'[q] = local[q]
    BY <1>4, <2>1 DEF FlockTake, Goto
  <2> QED BY <2>1, <2>2, <2>3, LockInv
<1>5. CASE FlockUnlock(p)
  BY <1>5, FlockUnlockInv
<1> QED BY <1>1, <1>2, <1>3, <1>4, <1>5 DEF EnvStep

LEMMA NextInv == IInv /\ [Next]_vars => IInv'
<1> SUFFICES ASSUME IInv, [Next]_vars PROVE IInv'
  OBVIOUS
<1>0. TypeOK'
  BY NextType DEF IInv
<1>1. ASSUME NEW q \in Procs, NEW phase \in {"shell", "start", "flock"},
             Spawn(Root, q, phase, FALSE)
      PROVE IInv'
  BY <1>0, <1>1, SpawnInv
<1>2. ASSUME NEW p \in Procs, GateStep(p) PROVE IInv'
  BY <1>0, <1>2, GateStepInv
<1>3. ASSUME NEW p \in Procs, EnvStep(p) PROVE IInv'
  BY <1>0, <1>3, EnvStepInv
<1>4. CASE UNCHANGED <<pc, held, own, local>>
  BY <1>0, <1>4 DEF IInv, HoldersHold, HoldersApart, ProbesAlone, WrapsOwnZero, Holder
<1>5. ASSUME NEW n \in 1..MaxSlots, SetSlots(n) PROVE IInv'
  BY <1>4, <1>5 DEF SetSlots
<1> QED BY <1>1, <1>2, <1>3, <1>4, <1>5 DEF Next, vars

THEOREM InductiveInvariant == Spec => []IInv
  BY InitInv, NextInv, PTL DEF Spec

(* A slot admits one job at a time.                                         *)
THEOREM SlotsAreExclusive == Spec => []SlotExclusive
<1>1. IInv => SlotExclusive
  BY DEF IInv, HoldersHold, HoldersApart, SlotExclusive
<1> QED BY <1>1, InductiveInvariant, PTL

(* At most n pooled jobs run that were admitted under a count of n or less: *)
(* the slot each one owns is its own and lies below n.                      *)
THEOREM PooledJobsAreBounded == Spec => []PooledJobsBounded
<1>1. IInv => PooledJobsBounded
  <2> SUFFICES ASSUME IInv, NEW n \in 1..MaxSlots
               PROVE  Cardinality({p \in Procs : /\ Holder(p)
                                                 /\ pc[p] \in {"admit", "run"}
                                                 /\ local[p].pool <= n}) <= n
    BY DEF PooledJobsBounded
  <2> DEFINE J == {p \in Procs : /\ Holder(p)
                                 /\ pc[p] \in {"admit", "run"}
                                 /\ local[p].pool <= n}
             f == [p \in J |-> own[p]]
  <2>1. \A p \in J : own[p] \in 0..(n - 1)
    <3> SUFFICES ASSUME NEW p \in J PROVE own[p] \in 0..(n - 1)
      OBVIOUS
    <3>1. own[p] \in Slots /\ own[p] < local[p].pool
      BY DEF IInv, TypeOK, HoldersHold, Holder
    <3>2. local[p].pool \in 1..MaxSlots /\ local[p].pool <= n
      BY LocalsFields DEF IInv, TypeOK
    <3> QED BY <3>1, <3>2
  <2>2. f \in Injection(J, 0..(n - 1))
    BY <2>1 DEF Injection, IsInjective, IInv, HoldersApart
  <2>3. IsFiniteSet(0..(n - 1)) /\ Cardinality(0..(n - 1)) = n
    BY FS_Interval
  <2>4. Cardinality(J) <= Cardinality(0..(n - 1))
    <3> HIDE DEF J, f
    <3> QED BY <2>2, <2>3, FS_Injection
  <2> QED BY <2>3, <2>4
<1> QED BY <1>1, InductiveInvariant, PTL

-----------------------------------------------------------------------------
(* The gate implements the slot pool.                                      *)

jobsNow == [s \in Slots |-> Jobs(s)]

Probed(s) == \E p \in Procs : pc[p] = "probing" /\ local[p].idx = s

(* A step that changes no lock and starts or ends no probe is invisible.    *)
LEMMA StutterStep ==
  ASSUME UNCHANGED held, \A s \in Slots : Probed(s)' <=> Probed(s)
  PROVE  jobsNow' = jobsNow
  BY DEF jobsNow, Jobs, Probed

(* The same for a step of one process that is outside its probe before and  *)
(* after, which is every step of the gate but the locking ones.             *)
LEMMA QuietStep ==
  ASSUME IInv, NEW p \in Procs, UNCHANGED held,
         \A q \in Procs \ {p} : pc'[q] = pc[q] /\ local'[q] = local[q],
         pc[p] # "probing", pc'[p] # "probing"
  PROVE  jobsNow' = jobsNow
<1>1. \A s \in Slots : Probed(s)' <=> Probed(s)
  BY DEF Probed
<1> QED BY <1>1, StutterStep

(* Locking an unheld slot admits a job to an empty one.                     *)
LEMMA LockAdmits ==
  ASSUME IInv, NEW p \in Procs, NEW s \in Slots,
         held[s] = {},
         held' = [held EXCEPT ![s] = {p}],
         \A q \in Procs \ {p} : pc'[q] = pc[q] /\ local'[q] = local[q],
         pc[p] # "probing", pc'[p] # "probing"
  PROVE  Pool!Admit(s, p)
<1>1. \A t \in Slots : Probed(t)' <=> Probed(t)
  BY DEF Probed
<1>2. ~Probed(s)
  BY UnheldSlot DEF Probed
<1>3. held \in [Slots -> SUBSET Procs]
  BY DEF IInv, TypeOK
<1>4. jobsNow[s] = {}
  BY DEF jobsNow, Jobs
<1>5. ASSUME NEW t \in Slots PROVE jobsNow'[t] = IF t = s THEN {p} ELSE jobsNow[t]
  BY <1>1, <1>2, <1>3 DEF jobsNow, Jobs, Probed
<1>6. jobsNow' = [jobsNow EXCEPT ![s] = {p}]
  BY <1>5 DEF jobsNow
<1> QED BY <1>4, <1>6 DEF Pool!Admit, jobsNow

LEMMA VanishLeaves ==
  ASSUME IInv, NEW p \in Procs, NEW left \in {NoProc, Orphaned}, Vanish(p, left)
  PROVE  Pool!Leave(p)
<1>0. /\ held \in [Slots -> SUBSET Procs]
      /\ pc \in [Procs -> Phases]
      /\ local \in [Procs -> Locals]
  BY DEF IInv, TypeOK
<1>1. /\ held' = [s \in Slots |-> held[s] \ {p}]
      /\ pc' = [pc EXCEPT ![p] = "free"]
      /\ \A q \in Procs \ {p} : local'[q] = local[q]
  BY <1>0 DEF Vanish
<1>2. ASSUME NEW s \in Slots PROVE jobsNow'[s] = jobsNow[s] \ {p}
  <2>1. CASE \E q \in Procs \ {p} : pc[q] = "probing" /\ local[q].idx = s
    <3>1. Probed(s) /\ Probed(s)'
      BY <1>0, <1>1, <2>1 DEF Probed
    <3> QED BY <3>1 DEF jobsNow, Jobs, Probed
  <2>2. CASE ~\E q \in Procs \ {p} : pc[q] = "probing" /\ local[q].idx = s
    <3>1. ~Probed(s)'
      BY <1>0, <1>1, <2>2 DEF Probed
    <3>2. Probed(s) => held[s] = {p}
      BY <2>2 DEF Probed, IInv, ProbesAlone
    <3> QED BY <1>0, <1>1, <3>1, <3>2 DEF jobsNow, Jobs, Probed
  <2> QED BY <2>1, <2>2
<1>3. jobsNow' = [s \in Slots |-> jobsNow[s] \ {p}]
  BY <1>2 DEF jobsNow
<1> QED BY <1>3 DEF Pool!Leave, jobsNow

LEMMA SpawnJoins ==
  ASSUME IInv, NEW p \in Procs \cup {Root}, NEW q \in Procs,
         NEW phase \in {"shell", "start", "flock"}, NEW inherit \in BOOLEAN,
         Spawn(p, q, phase, inherit)
  PROVE  Pool!Join(p, q) \/ jobsNow' = jobsNow
<1>0. /\ held \in [Slots -> SUBSET Procs]
      /\ pc \in [Procs -> Phases]
  BY DEF IInv, TypeOK
<1>1. \A s \in Slots : Probed(s)' <=> Probed(s)
  BY <1>0 DEF Spawn, Probed
<1>2. CASE ~inherit
  BY <1>1, <1>2, StutterStep DEF Spawn
<1>3. CASE inherit
  <2>1. \A s \in Slots : Probed(s) => p \notin held[s]
    BY SentinelAssumption DEF Probed, IInv, ProbesAlone, Spawn, CanFork
  <2>2. \A s \in Slots : held'[s] = IF p \in held[s] THEN held[s] \cup {q} ELSE held[s]
    BY <1>0, <1>3 DEF Spawn
  <2>3. \A s \in Slots : jobsNow'[s] = IF p \in jobsNow[s] THEN jobsNow[s] \cup {q}
                                                          ELSE jobsNow[s]
    BY <1>1, <2>1, <2>2 DEF jobsNow, Jobs, Probed
  <2> QED BY <2>3 DEF Pool!Join, jobsNow
<1> QED BY <1>2, <1>3

LEMMA GateStepRefines ==
  ASSUME IInv, NEW p \in Procs, GateStep(p)
  PROVE  Pool!Next \/ jobsNow' = jobsNow
<1>0. /\ held \in [Slots -> SUBSET Procs]
      /\ pc \in [Procs -> Phases]
      /\ local \in [Procs -> Locals]
  BY DEF IInv, TypeOK
<1>1. CASE Start(p)
  BY <1>0, <1>1, QuietStep DEF Start, Goto
<1>2. ASSUME NEW s \in Slots, ProbeHeld(p, s) PROVE jobsNow' = jobsNow
  BY <1>0, <1>2, QuietStep DEF ProbeHeld, EndWalk, Goto
<1>3. ASSUME NEW s \in Slots, ProbeFree(p, s) PROVE jobsNow' = jobsNow
  <2>1. /\ held' = [held EXCEPT ![s] = {p}] /\ held[s] = {}
        /\ pc[p] = "probe" /\ pc'[p] = "probing"
        /\ local'[p].idx = s
        /\ \A q \in Procs \ {p} : pc'[q] = pc[q] /\ local'[q] = local[q]
    BY <1>0, <1>3 DEF ProbeFree, Goto, Locals
  <2>2. \A t \in Slots : Probed(t)' <=> (Probed(t) \/ t = s)
    BY <2>1 DEF Probed
  <2>3. ASSUME NEW t \in Slots PROVE jobsNow'[t] = jobsNow[t]
    BY <1>0, <2>1, <2>2 DEF jobsNow, Jobs, Probed
  <2> QED BY <2>3 DEF jobsNow
<1>4. CASE ProbeRelease(p)
  <2> DEFINE s == local[p].idx
  <2>1. /\ held' = [held EXCEPT ![s] = {}]
        /\ pc[p] = "probing" /\ pc'[p] = "probe"
        /\ \A q \in Procs \ {p} : pc'[q] = pc[q] /\ local'[q] = local[q]
    BY <1>0, <1>4 DEF ProbeRelease, Goto
  <2>2. s \in Slots /\ Probed(s) /\ \A q \in Procs \ {p} : pc[q] = "probing" => local[q].idx # s
    BY <2>1 DEF Probed, IInv, ProbesAlone
  <2>3. \A t \in Slots : Probed(t)' <=> (Probed(t) /\ t # s)
    BY <2>1, <2>2 DEF Probed
  <2>4. ASSUME NEW t \in Slots PROVE jobsNow'[t] = jobsNow[t]
    BY <1>0, <2>1, <2>2, <2>3 DEF jobsNow, Jobs, Probed
  <2> QED BY <2>4 DEF jobsNow
<1>5. CASE ProbeParent(p)
  BY <1>0, <1>5, QuietStep DEF ProbeParent, EndWalk, Goto
<1>6. CASE TakeSlot(p)
  <2> DEFINE s == local[p].idx
  <2>1. s \in Slots
    BY <1>0, <1>6, LocalsFields, MaxSlotsAssumption DEF TakeSlot, Scanning
  <2>2. /\ held[s] = {} /\ held' = [held EXCEPT ![s] = {p}]
        /\ pc[p] # "probing" /\ pc'[p] # "probing"
        /\ \A q \in Procs \ {p} : pc'[q] = pc[q] /\ local'[q] = local[q]
    BY <1>0, <1>6 DEF TakeSlot, Scanning, Goto
  <2>3. Pool!Admit(s, p)
    <3> HIDE DEF s
    <3> QED BY <2>1, <2>2, LockAdmits
  <2> QED BY <2>1, <2>3 DEF Pool!Next
<1>7. CASE NextSlot(p)
  BY <1>0, <1>7, QuietStep DEF NextSlot, Scanning
<1>8. CASE BeginWait(p)
  BY <1>0, <1>8, QuietStep DEF BeginWait, Exhausted, Goto
<1>9. CASE Poll(p)
  BY <1>0, <1>9, QuietStep DEF Poll, Exhausted
<1>10. CASE TimeOut(p)
  BY <1>10, VanishLeaves DEF TimeOut, Pool!Next
<1>11. ASSUME NEW sc \in Scopes, AdmitScoped(p, sc) PROVE jobsNow' = jobsNow
  BY <1>0, <1>11, QuietStep DEF AdmitScoped, Goto
<1>12. CASE AdmitUnscoped(p)
  BY <1>0, <1>12, QuietStep DEF AdmitUnscoped, Goto
<1> QED
  BY <1>1, <1>2, <1>3, <1>4, <1>5, <1>6, <1>7, <1>8, <1>9, <1>10, <1>11, <1>12
  DEF GateStep

LEMMA FlockUnlockRefines ==
  ASSUME IInv, NEW p \in Procs, FlockUnlock(p)
  PROVE  Pool!GiveBack(0)
<1>0. /\ held \in [Slots -> SUBSET Procs]
      /\ pc \in [Procs -> Phases]
      /\ 0 \in Slots
  BY MaxSlotsAssumption DEF IInv, TypeOK
<1>1. /\ held' = [held EXCEPT ![0] = {}]
      /\ pc' = [pc EXCEPT ![p] = "shell"] /\ local' = local
      /\ pc[p] = "wrap"
  BY DEF FlockUnlock, Goto
<1>2. \A s \in Slots : Probed(s)' <=> Probed(s)
  BY <1>0, <1>1 DEF Probed
<1>3. ASSUME NEW t \in Slots PROVE jobsNow'[t] = IF t = 0 THEN {} ELSE jobsNow[t]
  BY <1>0, <1>1, <1>2 DEF jobsNow, Jobs, Probed
<1>4. jobsNow' = [jobsNow EXCEPT ![0] = {}]
  BY <1>3 DEF jobsNow
<1> QED BY <1>4 DEF Pool!GiveBack, jobsNow

LEMMA EnvStepRefines ==
  ASSUME IInv, NEW p \in Procs, EnvStep(p)
  PROVE  Pool!Next \/ jobsNow' = jobsNow
<1>0. pc \in [Procs -> Phases] /\ 0 \in Slots
  BY MaxSlotsAssumption DEF IInv, TypeOK
<1>1. ASSUME NEW q \in Procs, NEW phase \in {"shell", "start", "flock"},
             NEW inherit \in BOOLEAN, Spawn(p, q, phase, inherit)
      PROVE  Pool!Next \/ jobsNow' = jobsNow
  BY <1>1, SpawnJoins DEF Pool!Next
<1>2. CASE Exit(p)
  BY <1>2, VanishLeaves DEF Exit, Pool!Next
<1>3. CASE Kill(p)
  BY <1>3, VanishLeaves DEF Kill, Pool!Next
<1>4. CASE FlockTake(p)
  <2>1. /\ held[0] = {} /\ held' = [held EXCEPT ![0] = {p}]
        /\ pc[p] # "probing" /\ pc'[p] # "probing"
        /\ \A q \in Procs \ {p} : pc'[q] = pc[q] /\ local'[q] = local[q]
    BY <1>0, <1>4 DEF FlockTake, Goto
  <2> QED BY <1>0, <2>1, LockAdmits DEF Pool!Next
<1>5. CASE FlockUnlock(p)
  BY <1>0, <1>5, FlockUnlockRefines DEF Pool!Next
<1> QED BY <1>1, <1>2, <1>3, <1>4, <1>5 DEF EnvStep

(* Every behaviour of the gate is one of the slot pool: a job enters only   *)
(* an empty slot, grows only from inside and leaves it process by process.  *)
THEOREM GateImplementsPool == Spec => PoolSpec
<1>1. Init => Pool!Init
  BY DEF Init, Pool!Init, Jobs
<1>2. IInv /\ [Next]_vars => [Pool!Next]_jobsNow
  <2> SUFFICES ASSUME IInv, [Next]_vars PROVE Pool!Next \/ jobsNow' = jobsNow
    OBVIOUS
  <2>1. ASSUME NEW q \in Procs, NEW phase \in {"shell", "start", "flock"},
               Spawn(Root, q, phase, FALSE)
        PROVE  Pool!Next \/ jobsNow' = jobsNow
    <3>1. pc' = [pc EXCEPT ![q] = phase] /\ pc[q] = "free" /\ local' = local
      BY <2>1 DEF Spawn
    <3>2. pc \in [Procs -> Phases]
      BY DEF IInv, TypeOK
    <3>3. \A s \in Slots : Probed(s)' <=> Probed(s)
      BY <3>1, <3>2 DEF Probed
    <3> QED BY <2>1, <3>3, StutterStep DEF Spawn
  <2>2. ASSUME NEW p \in Procs, GateStep(p) PROVE Pool!Next \/ jobsNow' = jobsNow
    BY <2>2, GateStepRefines
  <2>3. ASSUME NEW p \in Procs, EnvStep(p) PROVE Pool!Next \/ jobsNow' = jobsNow
    BY <2>3, EnvStepRefines
  <2>4. ASSUME UNCHANGED <<pc, held, local>> PROVE jobsNow' = jobsNow
    BY <2>4, StutterStep DEF Probed
  <2>5. ASSUME NEW n \in 1..MaxSlots, SetSlots(n) PROVE jobsNow' = jobsNow
    BY <2>4, <2>5 DEF SetSlots
  <2> QED BY <2>1, <2>2, <2>3, <2>4, <2>5 DEF Next, vars
<1>3. [Pool!Next]_jobsNow => [Pool!Next]_([s \in Slots |-> Jobs(s)])
  BY DEF jobsNow
<1> QED BY <1>1, <1>2, <1>3, InductiveInvariant, PTL DEF Spec, PoolSpec, Pool!Spec

HIDE DEF Slots

-----------------------------------------------------------------------------
(* Ancestors.  Only a process that runs something other than a gate or a    *)
(* flock has children, and it never locks a slot any more: what the walk    *)
(* has found free of locks stays free of them.                              *)

Childless == \A q \in Procs : ~CanFork(q) => \A r \in Procs : parent[r] # q

(* S is the part of p's lineage below `top`, and none of it holds a slot,   *)
(* but for the lock of p's own probe.                                       *)
Path(p, S, top) ==
    /\ \A q \in S : q = p \/ CanFork(q)
    /\ \A q \in S : parent[q] \in S \cup {Root, top}
    /\ \A q \in S, s \in Slots :
          q \in held[s] => q = p /\ pc[p] = "probing" /\ s = local[p].idx

(* The walk stands on p itself, on an ancestor or on a pid that was one.    *)
Cursor(p) == local[p].cursor
OnTheWay(p) ==
    /\ Cursor(p) \in Procs
    /\ Cursor(p) = p \/ CanFork(Cursor(p)) \/ pc[Cursor(p)] = "free"
    /\ \A s \in Slots :
          Cursor(p) \in held[s] =>
             s \in local[p].todo \/ (Cursor(p) = p /\ pc[p] = "probing" /\ s = local[p].idx)

Walks(p) == pc[p] \in {"probe", "probing"}
Queues(p) == pc[p] \in {"take", "waiting"}

WalkInv ==
    /\ Childless
    /\ \A p \in Procs : Walks(p) =>
          /\ OnTheWay(p)
          /\ \E S \in SUBSET Procs : (p \in S \/ Cursor(p) = p) /\ Path(p, S, Cursor(p))
    /\ \A p \in Procs : Queues(p) =>
          \E S \in SUBSET Procs : p \in S /\ Path(p, S, Root)

(* A process that moves, and neither comes nor goes, takes locks only while *)
(* it cannot have children, and only for itself.                            *)
Moves(x) ==
    /\ UNCHANGED parent
    /\ \A q \in Procs \ {x} : pc'[q] = pc[q] /\ local'[q] = local[q]
    /\ \A q \in Procs, s \in Slots : q \in held'[s] => q \in held[s] \/ (q = x /\ ~CanFork(x))
    /\ CanFork(x) => CanFork(x)'
    /\ pc[x] # "free"

LEMMA GateMoves ==
  ASSUME TypeOK, NEW x \in Procs, GateStep(x), ~TimeOut(x)
  PROVE  Moves(x)
<1>0. /\ pc \in [Procs -> Phases] /\ held \in [Slots -> SUBSET Procs]
      /\ local \in [Procs -> Locals]
  BY DEF TypeOK
<1>1. pc[x] \in GatePhases
  BY DEF GateStep, Start, ProbeHeld, ProbeFree, ProbeRelease, ProbeParent, TakeSlot, NextSlot,
     BeginWait, Poll, AdmitScoped, AdmitUnscoped, Scanning, Exhausted, GatePhases
<1>2. ~CanFork(x) /\ pc[x] # "free"
  BY <1>1 DEF CanFork, GatePhases
<1>3. UNCHANGED parent
  BY DEF GateStep, Start, ProbeHeld, ProbeFree, ProbeRelease, ProbeParent, TakeSlot, NextSlot,
     BeginWait, Poll, AdmitScoped, AdmitUnscoped
<1>4. \A q \in Procs \ {x} : pc'[q] = pc[q]
  BY <1>0 DEF GateStep, Start, ProbeHeld, ProbeFree, ProbeRelease, ProbeParent, TakeSlot, NextSlot,
     BeginWait, Poll, AdmitScoped, AdmitUnscoped, EndWalk, Goto
<1>5. \A q \in Procs \ {x} : local'[q] = local[q]
  BY <1>0 DEF GateStep, Start, ProbeHeld, ProbeFree, ProbeRelease, ProbeParent, TakeSlot, NextSlot,
     BeginWait, Poll, AdmitScoped, AdmitUnscoped, EndWalk
<1>6. \A q \in Procs, s \in Slots : q \in held'[s] => q \in held[s] \/ q = x
  <2>1. CASE UNCHANGED held
    BY <2>1
  <2>2. CASE \E s \in Slots : ProbeFree(x, s)
    BY <1>0, <2>2 DEF ProbeFree
  <2>3. CASE ProbeRelease(x)
    BY <1>0, <2>3 DEF ProbeRelease
  <2>4. CASE TakeSlot(x)
    BY <1>0, <2>4 DEF TakeSlot
  <2> QED
    BY <2>1, <2>2, <2>3, <2>4 DEF GateStep, Start, ProbeHeld, ProbeParent, NextSlot,
       BeginWait, Poll, AdmitScoped, AdmitUnscoped
<1> QED
  BY <1>2, <1>3, <1>4, <1>5, <1>6 DEF Moves

LEMMA FlockMoves ==
  ASSUME TypeOK, NEW x \in Procs, FlockTake(x) \/ FlockUnlock(x)
  PROVE  Moves(x)
<1>0. /\ pc \in [Procs -> Phases] /\ held \in [Slots -> SUBSET Procs]
      /\ UNCHANGED <<parent, local>>
  BY DEF TypeOK, FlockTake, FlockUnlock
<1>1. CASE FlockTake(x)
  BY <1>0, <1>1 DEF FlockTake, Goto, Moves, CanFork
<1>2. CASE FlockUnlock(x)
  <2>1. /\ \A q \in Procs \ {x} : pc'[q] = pc[q]
        /\ pc[x] = "wrap" /\ pc'[x] = "shell"
    BY <1>0, <1>2 DEF FlockUnlock, Goto
  <2>2. \A s \in Slots : held'[s] \subseteq held[s]
    BY <1>0, <1>2 DEF FlockUnlock
  <2> QED BY <1>0, <2>1, <2>2 DEF Moves, CanFork
<1> QED BY <1>1, <1>2

(* What another process does leaves p's walk where it is.                   *)
LEMMA OthersMove ==
  ASSUME TypeOK, WalkInv, NEW x \in Procs, Moves(x), NEW p \in Procs, p # x
  PROVE  /\ Walks(p)' <=> Walks(p)
         /\ Queues(p)' <=> Queues(p)
         /\ Cursor(p)' = Cursor(p)
         /\ Walks(p) => OnTheWay(p)'
         /\ \A S \in SUBSET Procs : \A top : Path(p, S, top) => Path(p, S, top)'
<1>1. /\ pc'[p] = pc[p] /\ local'[p] = local[p]
      /\ UNCHANGED parent
      /\ \A q \in Procs, s \in Slots : q \in held'[s] => q \in held[s] \/ (q = x /\ ~CanFork(x))
      /\ \A q \in Procs : CanFork(q) => CanFork(q)'
      /\ \A q \in Procs : pc[q] = "free" => pc'[q] = "free"
  BY DEF Moves, CanFork
<1>2. /\ Walks(p)' <=> Walks(p)
      /\ Queues(p)' <=> Queues(p)
      /\ Cursor(p)' = Cursor(p)
  BY <1>1 DEF Walks, Queues, Cursor
<1>3. ASSUME Walks(p) PROVE OnTheWay(p)'
  <2>1. OnTheWay(p) /\ Cursor(p) \in Procs /\ pc[x] # "free"
    BY <1>3 DEF WalkInv, OnTheWay, Moves
  <2>2. Cursor(p) # x \/ CanFork(x)
    BY <2>1 DEF OnTheWay
  <2> QED
    BY <1>1, <1>2, <2>1, <2>2 DEF OnTheWay
<1>4. ASSUME NEW S \in SUBSET Procs, NEW top, Path(p, S, top) PROVE Path(p, S, top)'
  BY <1>1, <1>4 DEF Path
<1> QED BY <1>2, <1>3, <1>4

(* The steps of the walk itself.                                            *)
LEMMA WalkBegins ==
  ASSUME TypeOK, WalkInv, NEW p \in Procs, Start(p), Walks(p)'
  PROVE  OnTheWay(p)' /\ \E S \in SUBSET Procs : (p \in S \/ Cursor(p)' = p) /\ Path(p, S, Cursor(p))'
<1>0. /\ pc \in [Procs -> Phases] /\ held \in [Slots -> SUBSET Procs]
      /\ local \in [Procs -> Locals]
  BY DEF TypeOK
<1>1. /\ pc'[p] = "probe" /\ UNCHANGED held
      /\ local' = [local EXCEPT ![p] =
            [NoLocals EXCEPT !.pool = slotsFile, !.cursor = p, !.todo = Descriptors(p)]]
  BY <1>0 DEF Start, Goto, Walks
<1>2. local'[p].cursor = p /\ local'[p].todo = Descriptors(p)
  BY <1>0, <1>1 DEF NoLocals
<1>3. OnTheWay(p)'
  BY <1>1, <1>2 DEF OnTheWay, Cursor, Descriptors
<1>4. Path(p, {}, Cursor(p))'
  BY DEF Path
<1> QED BY <1>2, <1>3, <1>4 DEF Cursor

(* A probe that got the lock found a slot nobody holds, and gives it back.  *)
LEMMA WalkProbes ==
  ASSUME TypeOK, WalkInv, NEW p \in Procs,
         ProbeRelease(p) \/ \E s \in Slots : ProbeFree(p, s)
  PROVE  OnTheWay(p)' /\ \E S \in SUBSET Procs : (p \in S \/ Cursor(p)' = p) /\ Path(p, S, Cursor(p))'
<1>0. /\ pc \in [Procs -> Phases] /\ held \in [Slots -> SUBSET Procs]
      /\ local \in [Procs -> Locals] /\ UNCHANGED parent
      /\ local[p] \in Locals
  BY DEF TypeOK, ProbeRelease, ProbeFree
<1>1. Walks(p)
  BY DEF Walks, ProbeRelease, ProbeFree
<1>2. OnTheWay(p)
  BY <1>1 DEF WalkInv
<1>3. PICK S \in SUBSET Procs : (p \in S \/ Cursor(p) = p) /\ Path(p, S, Cursor(p))
  BY <1>1 DEF WalkInv
<1>4. ASSUME NEW s \in Slots, ProbeFree(p, s)
      PROVE  OnTheWay(p)' /\ Cursor(p)' = Cursor(p) /\ Path(p, S, Cursor(p))'
  <2>1. /\ pc[p] = "probe" /\ held' = [held EXCEPT ![s] = {p}]
        /\ pc' = [pc EXCEPT ![p] = "probing"]
        /\ local' = [local EXCEPT ![p].idx = s]
    BY <1>4 DEF ProbeFree, Goto
  <2>2. local'[p].cursor = local[p].cursor /\ local'[p].todo = local[p].todo /\ local'[p].idx = s
    BY <1>0, <2>1 DEF Locals
  <2>3. /\ \A q \in Procs \ {p} : pc'[q] = pc[q]
        /\ pc'[p] = "probing" /\ held'[s] = {p}
        /\ \A t \in Slots : t # s => held'[t] = held[t]
    BY <1>0, <2>1
  <2>4. OnTheWay(p)'
    BY <1>2, <2>1, <2>2, <2>3 DEF OnTheWay, Cursor, CanFork
  <2>5. Path(p, S, Cursor(p))'
    BY <1>0, <1>3, <2>1, <2>2, <2>3 DEF Path, Cursor, CanFork
  <2> QED BY <2>2, <2>4, <2>5 DEF Cursor
<1>5. CASE ProbeRelease(p)
  <2> DEFINE i == local[p].idx
  <2>1. /\ pc[p] = "probing" /\ held' = [held EXCEPT ![i] = {}]
        /\ pc' = [pc EXCEPT ![p] = "probe"]
        /\ local' = [local EXCEPT ![p] = [@ EXCEPT !.todo = local[p].todo \ {i}, !.idx = 0]]
    BY <1>5 DEF ProbeRelease, Goto
  <2>2. local'[p].cursor = local[p].cursor /\ local'[p].todo = local[p].todo \ {i}
    BY <1>0, <2>1 DEF Locals
  <2>3. /\ \A q \in Procs \ {p} : pc'[q] = pc[q]
        /\ pc'[p] = "probe"
        /\ \A t \in Slots, q \in Procs : q \in held'[t] => t # i /\ q \in held[t]
    BY <1>0, <2>1
  <2>4. OnTheWay(p)'
    BY <1>2, <2>1, <2>2, <2>3 DEF OnTheWay, Cursor, CanFork
  <2>5. Path(p, S, Cursor(p))'
    BY <1>0, <1>3, <2>1, <2>2, <2>3 DEF Path, Cursor, CanFork
  <2> QED BY <1>3, <2>2, <2>4, <2>5 DEF Cursor
<1> QED BY <1>3, <1>4, <1>5

(* Every descriptor of the cursor probed: it holds nothing, and the walk    *)
(* goes on from its parent or has seen the whole lineage.                   *)
LEMMA WalkClimbs ==
  ASSUME TypeOK, WalkInv, NEW p \in Procs, ProbeParent(p)
  PROVE  /\ Walks(p)' => /\ OnTheWay(p)'
                         /\ \E S \in SUBSET Procs : (p \in S \/ Cursor(p)' = p) /\ Path(p, S, Cursor(p))'
         /\ Queues(p)' => \E S \in SUBSET Procs : p \in S /\ Path(p, S, Root)'
<1>0. /\ pc \in [Procs -> Phases] /\ held \in [Slots -> SUBSET Procs]
      /\ local \in [Procs -> Locals] /\ UNCHANGED <<parent, held>>
      /\ local[p] \in Locals /\ pc[p] = "probe" /\ local[p].todo = {} /\ Root \notin Procs
  BY SentinelAssumption DEF TypeOK, ProbeParent
<1>1. Walks(p)
  BY <1>0 DEF Walks
<1>7. PICK c \in Procs : c = Cursor(p) /\ c = local[p].cursor
  BY <1>1 DEF WalkInv, OnTheWay, Cursor
<1>2. /\ (c = p \/ CanFork(c) \/ pc[c] = "free")
      /\ \A s \in Slots : c \notin held[s]
      /\ Childless
  <2>1. OnTheWay(p) /\ Childless
    BY <1>1 DEF WalkInv
  <2>2. Cursor(p) = c
    BY <1>7
  <2>3. c = p \/ CanFork(c) \/ pc[c] = "free"
    BY <2>1, <2>2 DEF OnTheWay
  <2>4. \A s \in Slots : c \notin held[s]
    BY <1>0, <2>1, <2>2 DEF OnTheWay
  <2> QED BY <2>1, <2>3, <2>4
<1>3. PICK S \in SUBSET Procs : (p \in S \/ c = p) /\ Path(p, S, c)
  <2>1. PICK S \in SUBSET Procs : (p \in S \/ Cursor(p) = p) /\ Path(p, S, Cursor(p))
    BY <1>1 DEF WalkInv
  <2> QED BY <1>7, <2>1
<1>4. \A q \in S : parent[q] \in S \cup {Root, c} /\ \A s \in Slots : q \notin held[s]
  BY <1>0, <1>3 DEF Path
<1>5. CASE EndWalk(p, FALSE) /\ (pc[c] = "free" \/ parent[c] = Root)
  <2>1. pc'[p] = "take" /\ \A q \in Procs \ {p} : pc'[q] = pc[q]
    BY <1>0, <1>5 DEF EndWalk, Goto
  <2>2. ~Walks(p)'
    BY <2>1 DEF Walks
  <2>3. CASE pc[c] = "free"
    <3>1. c # p /\ p \in S /\ ~CanFork(c)
      BY <1>0, <1>3, <2>3 DEF CanFork
    <3>2. \A q \in S : parent[q] \in S \cup {Root}
      BY <1>2, <1>4, <3>1 DEF Childless
    <3>3. Path(p, S, Root)'
      BY <1>0, <1>3, <1>4, <2>1, <3>2 DEF Path, CanFork
    <3> QED BY <2>2, <3>1, <3>3
  <2>4. CASE pc[c] # "free"
    <3>1. parent[c] = Root
      BY <1>5, <2>4
    <3>2. \A q \in S \cup {c} : q = p \/ CanFork(q)
      BY <1>2, <1>3, <2>4 DEF Path
    <3>3. Path(p, S \cup {c}, Root)'
      BY <1>0, <1>2, <1>4, <2>1, <3>1, <3>2 DEF Path, CanFork
    <3> QED BY <1>2, <1>3, <2>2, <3>3
  <2> QED BY <2>3, <2>4
<1>6. CASE /\ ~(c = Root \/ pc[c] = "free" \/ parent[c] = Root)
           /\ local' = [local EXCEPT ![p] =
                 [@ EXCEPT !.cursor = parent[c], !.todo = Descriptors(parent[c])]]
           /\ UNCHANGED pc
  <2>1. local'[p].cursor = parent[c] /\ local'[p].todo = Descriptors(parent[c])
    BY <1>0, <1>6 DEF Locals
  <2>2. parent[c] \in Procs /\ CanFork(parent[c])
    BY <1>2, <1>6 DEF TypeOK, Childless
  <2>3. OnTheWay(p)'
    BY <1>0, <1>6, <2>1, <2>2 DEF OnTheWay, Cursor, Descriptors, CanFork
  <2>4. \A q \in S \cup {c} : q = p \/ CanFork(q)
    BY <1>2, <1>3, <1>6 DEF Path
  <2>5. Path(p, S \cup {c}, Cursor(p))'
    BY <1>0, <1>2, <1>4, <1>6, <2>1, <2>4 DEF Path, Cursor, CanFork
  <2>6. ~Queues(p)'
    BY <1>0, <1>6 DEF Queues
  <2> QED BY <1>2, <1>3, <2>3, <2>5, <2>6
<1> QED BY <1>2, <1>5, <1>6, <1>7, <1>0 DEF ProbeParent

(* While it queues it only counts.                                          *)
LEMMA QueueCounts ==
  ASSUME TypeOK, WalkInv, NEW p \in Procs, NextSlot(p) \/ BeginWait(p) \/ Poll(p)
  PROVE  Queues(p)' /\ \E S \in SUBSET Procs : p \in S /\ Path(p, S, Root)'
<1>1. /\ Queues(p) /\ Queues(p)' /\ UNCHANGED <<parent, held>> /\ pc'[p] # "probing"
      /\ \A q \in Procs \ {p} : pc'[q] = pc[q]
  BY DEF TypeOK, Queues, NextSlot, BeginWait, Poll, Scanning, Exhausted, Goto
<1>2. PICK S \in SUBSET Procs : p \in S /\ Path(p, S, Root)
  BY <1>1 DEF WalkInv
<1>3. Path(p, S, Root)'
  BY <1>1, <1>2 DEF Path, CanFork, Queues
<1> QED BY <1>1, <1>2, <1>3

LEMMA OwnStep ==
  ASSUME TypeOK, WalkInv, NEW p \in Procs, GateStep(p), ~TimeOut(p)
  PROVE  /\ Walks(p)' => /\ OnTheWay(p)'
                         /\ \E S \in SUBSET Procs : (p \in S \/ Cursor(p)' = p) /\ Path(p, S, Cursor(p))'
         /\ Queues(p)' => \E S \in SUBSET Procs : p \in S /\ Path(p, S, Root)'
<1>0. pc \in [Procs -> Phases]
  BY DEF TypeOK
<1>1. CASE Start(p)
  <2>1. ~Queues(p)'
    BY <1>0, <1>1 DEF Start, Goto, Queues
  <2> QED BY <1>1, <2>1, WalkBegins
<1>2. CASE ProbeRelease(p) \/ \E s \in Slots : ProbeFree(p, s)
  <2>1. ~Queues(p)'
    BY <1>0, <1>2 DEF ProbeRelease, ProbeFree, Goto, Queues
  <2> QED BY <1>2, <2>1, WalkProbes
<1>3. CASE ProbeParent(p)
  BY <1>3, WalkClimbs
<1>4. CASE NextSlot(p) \/ BeginWait(p) \/ Poll(p)
  <2>1. Queues(p)' => ~Walks(p)'
    BY DEF Queues, Walks
  <2> QED BY <1>4, <2>1, QueueCounts
<1>5. CASE \/ \E s \in Slots : ProbeHeld(p, s)
           \/ TakeSlot(p) \/ AdmitUnscoped(p) \/ \E sc \in Scopes : AdmitScoped(p, sc)
  <2>1. pc'[p] \in {"admit", "run"}
    BY <1>0, <1>5 DEF ProbeHeld, TakeSlot, AdmitUnscoped, AdmitScoped, EndWalk, Goto
  <2> QED BY <2>1 DEF Walks, Queues
<1> QED BY <1>1, <1>2, <1>3, <1>4, <1>5 DEF GateStep

LEMMA MovesKeep ==
  ASSUME TypeOK, WalkInv, NEW x \in Procs, Moves(x),
         Walks(x)' => /\ OnTheWay(x)'
                      /\ \E S \in SUBSET Procs : (x \in S \/ Cursor(x)' = x) /\ Path(x, S, Cursor(x))',
         Queues(x)' => \E S \in SUBSET Procs : x \in S /\ Path(x, S, Root)'
  PROVE  WalkInv'
<1>1. Childless'
  BY DEF WalkInv, Childless, Moves, CanFork
<1>2. ASSUME NEW p \in Procs, p # x, Walks(p)'
      PROVE  OnTheWay(p)' /\ \E S \in SUBSET Procs : (p \in S \/ Cursor(p)' = p) /\ Path(p, S, Cursor(p))'
  <2>1. Walks(p) /\ OnTheWay(p)' /\ Cursor(p)' = Cursor(p)
    BY <1>2, OthersMove
  <2>2. PICK S \in SUBSET Procs : (p \in S \/ Cursor(p) = p) /\ Path(p, S, Cursor(p))
    BY <2>1 DEF WalkInv
  <2>3. \A top : Path(p, S, top) => Path(p, S, top)'
    BY <1>2, OthersMove
  <2>4. Path(p, S, Cursor(p))'
    BY <2>1, <2>2, <2>3 DEF Path
  <2> QED BY <2>1, <2>2, <2>4
<1>3. ASSUME NEW p \in Procs, p # x, Queues(p)'
      PROVE  \E S \in SUBSET Procs : p \in S /\ Path(p, S, Root)'
  <2>1. Queues(p)
    BY <1>3, OthersMove
  <2>2. PICK S \in SUBSET Procs : p \in S /\ Path(p, S, Root)
    BY <2>1 DEF WalkInv
  <2> QED BY <1>3, <2>2, OthersMove
<1> QED BY <1>1, <1>2, <1>3 DEF WalkInv

(* Whoever dies leaves the lineages it was in: its children are Root's.     *)
LEMMA VanishKeeps ==
  ASSUME TypeOK, WalkInv, NEW x \in Procs, NEW left, Vanish(x, left)
  PROVE  WalkInv'
<1>0. /\ pc \in [Procs -> Phases] /\ held \in [Slots -> SUBSET Procs]
      /\ local \in [Procs -> Locals] /\ Root \notin Procs
  BY SentinelAssumption DEF TypeOK
<1>1. /\ pc'[x] = "free"
      /\ \A q \in Procs \ {x} : pc'[q] = pc[q] /\ local'[q] = local[q]
      /\ \A q \in Procs : parent'[q] # x /\ parent'[q] \in {Root, parent[q]}
      /\ \A q \in Procs, s \in Slots : q \in held'[s] => q # x /\ q \in held[s]
  BY <1>0 DEF Vanish
<1>2. Childless'
  BY <1>0, <1>1 DEF WalkInv, Childless, CanFork
<1>3. ASSUME NEW p \in Procs, p # x, NEW S \in SUBSET Procs, NEW top, Path(p, S, top)
      PROVE  Path(p, S \ {x}, top)'
  <2>1. \A q \in S \ {x} : (q = p \/ CanFork(q))'
    BY <1>1, <1>3 DEF Path, CanFork
  <2>2. \A q \in S \ {x} : parent'[q] \in (S \ {x}) \cup {Root, top}
    BY <1>1, <1>3 DEF Path
  <2>3. \A q \in S \ {x}, s \in Slots :
            q \in held'[s] => q = p /\ pc'[p] = "probing" /\ s = local'[p].idx
    BY <1>1, <1>3 DEF Path
  <2> QED BY <2>1, <2>2, <2>3 DEF Path
<1>4. ASSUME NEW p \in Procs, Walks(p)'
      PROVE  OnTheWay(p)' /\ \E S \in SUBSET Procs : (p \in S \/ Cursor(p)' = p) /\ Path(p, S, Cursor(p))'
  <2>1. p # x /\ Walks(p) /\ Cursor(p)' = Cursor(p)
    BY <1>1, <1>4 DEF Walks, Cursor
  <2>2. OnTheWay(p)
    BY <2>1 DEF WalkInv
  <2>3. PICK S \in SUBSET Procs : (p \in S \/ Cursor(p) = p) /\ Path(p, S, Cursor(p))
    BY <2>1 DEF WalkInv
  <2>4. OnTheWay(p)'
    BY <1>1, <2>1, <2>2 DEF OnTheWay, CanFork
  <2>5. Path(p, S \ {x}, Cursor(p))'
    BY <1>3, <2>1, <2>3 DEF Path
  <2> QED BY <2>1, <2>3, <2>4, <2>5
<1>5. ASSUME NEW p \in Procs, Queues(p)'
      PROVE  \E S \in SUBSET Procs : p \in S /\ Path(p, S, Root)'
  <2>1. p # x /\ Queues(p)
    BY <1>1, <1>5 DEF Queues
  <2>2. PICK S \in SUBSET Procs : p \in S /\ Path(p, S, Root)
    BY <2>1 DEF WalkInv
  <2> QED BY <1>3, <2>1, <2>2
<1> QED BY <1>2, <1>4, <1>5 DEF WalkInv

(* A new process has no children and is nobody's ancestor, and no walk      *)
(* stands on its pid.                                                       *)
LEMMA SpawnKeeps ==
  ASSUME TypeOK, WalkInv, NEW r \in Procs \cup {Root}, NEW x \in Procs,
         NEW phase \in {"shell", "start", "flock"}, NEW inherit \in BOOLEAN,
         Spawn(r, x, phase, inherit)
  PROVE  WalkInv'
<1>0. /\ pc \in [Procs -> Phases] /\ held \in [Slots -> SUBSET Procs]
      /\ parent \in [Procs -> Procs \cup {Root}] /\ Root \notin Procs
  BY SentinelAssumption DEF TypeOK
<1>1. /\ pc[x] = "free" /\ ~CanFork(x) /\ (r # Root => CanFork(r)) /\ UNCHANGED local
      /\ pc'[x] = phase /\ parent'[x] = r
      /\ \A q \in Procs \ {x} : pc'[q] = pc[q] /\ parent'[q] = parent[q]
      /\ \A p \in Procs : Cursor(p) # x
  BY <1>0 DEF Spawn, CanFork, Cursor
<1>2. \A q \in Procs \ {x}, s \in Slots : q \in held'[s] => q \in held[s]
  BY <1>0 DEF Spawn
<1>3. Childless'
  BY <1>0, <1>1 DEF WalkInv, Childless, CanFork
<1>4. ASSUME NEW p \in Procs, p # x, NEW S \in SUBSET Procs, NEW top, Path(p, S, top)
      PROVE  Path(p, S, top)'
  <2>1. x \notin S
    BY <1>1, <1>4 DEF Path
  <2> QED BY <1>1, <1>2, <1>4, <2>1 DEF Path, CanFork
<1>5. ASSUME NEW p \in Procs, Walks(p)'
      PROVE  OnTheWay(p)' /\ \E S \in SUBSET Procs : (p \in S \/ Cursor(p)' = p) /\ Path(p, S, Cursor(p))'
  <2>1. p # x /\ Walks(p) /\ Cursor(p)' = Cursor(p) /\ Cursor(p) # x
    BY <1>1, <1>5 DEF Walks, Cursor
  <2>2. OnTheWay(p)
    BY <2>1 DEF WalkInv
  <2>3. PICK S \in SUBSET Procs : (p \in S \/ Cursor(p) = p) /\ Path(p, S, Cursor(p))
    BY <2>1 DEF WalkInv
  <2>4. OnTheWay(p)'
    BY <1>1, <1>2, <2>1, <2>2 DEF OnTheWay, CanFork
  <2>5. Path(p, S, Cursor(p))'
    BY <1>4, <2>1, <2>3 DEF Path
  <2> QED BY <2>1, <2>3, <2>4, <2>5
<1>6. ASSUME NEW p \in Procs, Queues(p)'
      PROVE  \E S \in SUBSET Procs : p \in S /\ Path(p, S, Root)'
  <2>1. p # x /\ Queues(p)
    BY <1>1, <1>6 DEF Queues
  <2>2. PICK S \in SUBSET Procs : p \in S /\ Path(p, S, Root)
    BY <2>1 DEF WalkInv
  <2> QED BY <1>4, <2>1, <2>2
<1> QED BY <1>3, <1>5, <1>6 DEF WalkInv

LEMMA NextWalks == TypeOK /\ WalkInv /\ [Next]_vars => WalkInv'
<1> SUFFICES ASSUME TypeOK, WalkInv, [Next]_vars PROVE WalkInv'
  OBVIOUS
<1>1. ASSUME NEW r \in Procs \cup {Root}, NEW x \in Procs, NEW phase \in {"shell", "start", "flock"},
             NEW inherit \in BOOLEAN, Spawn(r, x, phase, inherit)
      PROVE WalkInv'
  BY <1>1, SpawnKeeps
<1>2. ASSUME NEW x \in Procs, GateStep(x) PROVE WalkInv'
  <2>1. CASE TimeOut(x)
    BY <2>1, VanishKeeps DEF TimeOut
  <2>2. CASE ~TimeOut(x)
    BY <1>2, <2>2, GateMoves, OwnStep, MovesKeep
  <2> QED BY <2>1, <2>2
<1>3. ASSUME NEW x \in Procs, EnvStep(x) PROVE WalkInv'
  <2>1. CASE Exit(x) \/ Kill(x)
    BY <2>1, VanishKeeps DEF Exit, Kill
  <2>2. CASE FlockTake(x) \/ FlockUnlock(x)
    <3>1. pc'[x] \in {"wrap", "shell"}
      BY <2>2 DEF TypeOK, FlockTake, FlockUnlock, Goto
    <3>2. ~Walks(x)' /\ ~Queues(x)'
      BY <3>1 DEF Walks, Queues
    <3> QED BY <2>2, <3>2, FlockMoves, MovesKeep
  <2> QED BY <1>1, <1>3, <2>1, <2>2 DEF EnvStep
<1>4. CASE UNCHANGED <<pc, parent, held, local>>
  BY <1>4 DEF WalkInv, Childless, Path, OnTheWay, Walks, Queues, Cursor, CanFork
<1>5. ASSUME NEW n \in 1..MaxSlots, SetSlots(n) PROVE WalkInv'
  BY <1>4, <1>5 DEF SetSlots
<1> QED BY <1>1, <1>2, <1>3, <1>4, <1>5 DEF Next, vars

LEMMA WalksStart == Init => WalkInv
  BY SentinelAssumption DEF Init, WalkInv, Childless, Walks, Queues

LEMMA WalkAlways == Spec => [](IInv /\ WalkInv)
<1>1. IInv => TypeOK
  BY DEF IInv
<1> QED BY <1>1, WalksStart, NextWalks, InductiveInvariant, PTL DEF Spec

(* A gate that queues for a slot belongs to no job that holds one, so that  *)
(* nested work never waits for itself: however the tree of processes        *)
(* changes while slot_held_by_ancestor climbs it.                           *)
THEOREM NestedWorkNeverQueues == Spec => []NoWaitOnOwnJob
<1>1. WalkInv => NoWaitOnOwnJob
  <2> SUFFICES ASSUME WalkInv, NEW p \in Procs, Queues(p), NEW a \in Lineage(p), NEW s \in Slots
               PROVE  a \notin held[s]
    BY DEF NoWaitOnOwnJob, Queues
  <2>1. PICK S \in SUBSET Procs : p \in S /\ Path(p, S, Root)
    BY DEF WalkInv
  <2>2. \A q \in S : parent[q] \in S \cup {Root}
    BY <2>1 DEF Path
  <2>3. a \in S
    BY <2>1, <2>2 DEF Lineage
  <2> QED BY <2>1, <2>3 DEF Path, Queues
<1> QED BY <1>1, WalkAlways, PTL

-----------------------------------------------------------------------------
(* What lets a command through without a slot of its own.                   *)

(* Where no script keeps an unlocked descriptor, what the walk has listed   *)
(* of a live ancestor is locked, and the probe's own lock shows a dead one. *)
CoverInv ==
    /\ \A s \in Slots : stale[s] = {}
    /\ \A p \in Procs : Walks(p) =>
          \/ pc[Cursor(p)] = "free"
          \/ pc[p] = "probe" /\ \A s \in local[p].todo : Cursor(p) \in held[s]

LEMMA GateTakesNothing ==
  ASSUME IInv, NEW x \in Procs, (GateStep(x) /\ ~TimeOut(x)) \/ FlockTake(x)
  PROVE  /\ UNCHANGED stale /\ ~CanFork(x)
         /\ \A q \in Procs \ {x}, s \in Slots : q \in held[s] => q \in held'[s]
<1>0. /\ pc \in [Procs -> Phases] /\ held \in [Slots -> SUBSET Procs]
  BY DEF IInv, TypeOK
<1>1. UNCHANGED stale
  BY DEF GateStep, Start, ProbeHeld, ProbeFree, ProbeRelease, ProbeParent, TakeSlot, NextSlot,
     BeginWait, Poll, AdmitScoped, AdmitUnscoped, FlockTake
<1>2. ~CanFork(x)
  BY DEF CanFork, GateStep, Start, ProbeHeld, ProbeFree, ProbeRelease, ProbeParent, TakeSlot, NextSlot,
     BeginWait, Poll, AdmitScoped, AdmitUnscoped, Scanning, Exhausted, FlockTake
<1>3. CASE UNCHANGED held
  BY <1>1, <1>2, <1>3
<1>4. CASE ProbeRelease(x)
  <2>1. held[local[x].idx] = {x} /\ held' = [held EXCEPT ![local[x].idx] = {}]
    BY <1>4 DEF IInv, ProbesAlone, ProbeRelease
  <2> QED BY <1>0, <1>1, <1>2, <2>1
<1>5. CASE TakeSlot(x) \/ FlockTake(x) \/ \E s \in Slots : ProbeFree(x, s)
  <2>1. \E s : held[s] = {} /\ held' = [held EXCEPT ![s] = {x}]
    BY <1>5 DEF TakeSlot, FlockTake, ProbeFree
  <2> QED BY <1>0, <1>1, <1>2, <2>1
<1> QED BY <1>3, <1>4, <1>5 DEF GateStep, Start, ProbeHeld, ProbeParent, NextSlot,
       BeginWait, Poll, AdmitScoped, AdmitUnscoped

LEMMA OthersCovered ==
  ASSUME IInv, WalkInv, CoverInv, NEW x \in Procs, Moves(x), (GateStep(x) /\ ~TimeOut(x)) \/ FlockTake(x),
         NEW p \in Procs, p # x, Walks(p)'
  PROVE  \/ pc'[Cursor(p)'] = "free"
         \/ pc'[p] = "probe" /\ \A s \in local'[p].todo : Cursor(p)' \in held'[s]
<1>1. /\ pc'[p] = pc[p] /\ local'[p] = local[p] /\ Cursor(p)' = Cursor(p) /\ Walks(p)
  BY DEF Moves, Walks, Cursor
<1>2. OnTheWay(p) /\ local[p].todo \subseteq Slots
  BY <1>1, LocalsFields DEF WalkInv, IInv, TypeOK
<1>3. CASE pc[Cursor(p)] = "free"
  <2>1. Cursor(p) # x
    BY <1>3 DEF Moves
  <2> QED BY <1>1, <1>2, <1>3, <2>1 DEF Moves, OnTheWay
<1>4. CASE pc[Cursor(p)] # "free"
  <2>1. Cursor(p) \in Procs /\ Cursor(p) # x
    BY <1>2, <1>4, GateTakesNothing DEF OnTheWay
  <2>2. pc[p] = "probe" /\ \A s \in local[p].todo : Cursor(p) \in held[s]
    BY <1>1, <1>4 DEF CoverInv
  <2> QED BY <1>1, <1>2, <2>1, <2>2, GateTakesNothing
<1> QED BY <1>3, <1>4

LEMMA OwnCovered ==
  ASSUME IInv, WalkInv, CoverInv, NEW p \in Procs, GateStep(p), ~TimeOut(p), Walks(p)'
  PROVE  \/ pc'[Cursor(p)'] = "free"
         \/ pc'[p] = "probe" /\ \A s \in local'[p].todo : Cursor(p)' \in held'[s]
<1>0. /\ pc \in [Procs -> Phases] /\ held \in [Slots -> SUBSET Procs]
      /\ local \in [Procs -> Locals] /\ local[p] \in Locals
  BY DEF IInv, TypeOK
<1>1. \A q \in Procs : \A s \in Descriptors(q) : q \in held[s]
  BY DEF CoverInv, Descriptors
<1>2. CASE Start(p)
  <2>1. /\ pc'[p] = "probe" /\ UNCHANGED held
        /\ local' = [local EXCEPT ![p] =
              [NoLocals EXCEPT !.pool = slotsFile, !.cursor = p, !.todo = Descriptors(p)]]
    BY <1>0, <1>2 DEF Start, Goto, Walks
  <2>2. local'[p].cursor = p /\ local'[p].todo = Descriptors(p)
    BY <1>0, <2>1 DEF NoLocals
  <2> QED BY <1>1, <2>1, <2>2 DEF Cursor
<1>3. CASE ProbeRelease(p) \/ \E s \in Slots : ProbeFree(p, s)
  <2>1. Walks(p) /\ pc[p] # "free" /\ \A q \in Procs \ {p} : pc'[q] = pc[q]
    BY <1>0, <1>3 DEF Walks, ProbeRelease, ProbeFree, Goto
  <2>2. OnTheWay(p)
    BY <2>1 DEF WalkInv
  <2>3. pc[Cursor(p)] = "free"
    BY <1>3, <2>1 DEF CoverInv, ProbeRelease, ProbeFree
  <2>4. Cursor(p)' = Cursor(p)
    <3>1. CASE ProbeRelease(p)
      BY <1>0, <3>1 DEF ProbeRelease, Cursor, Locals
    <3>2. ASSUME NEW s \in Slots, ProbeFree(p, s) PROVE local'[p].cursor = local[p].cursor
      BY <1>0, <3>2 DEF ProbeFree, Locals
    <3> QED BY <1>3, <3>1, <3>2 DEF Cursor
  <2> QED BY <2>1, <2>2, <2>3, <2>4 DEF OnTheWay
<1>4. CASE ProbeParent(p)
  <2>1. pc[p] = "probe" /\ UNCHANGED held
    BY <1>4 DEF ProbeParent
  <2>2. ~EndWalk(p, FALSE)
    BY <1>0 DEF EndWalk, Goto, Walks
  <2> DEFINE d == parent[local[p].cursor]
  <2>3. /\ ~(local[p].cursor = Root \/ d = Root) /\ UNCHANGED pc
        /\ local' = [local EXCEPT ![p] = [@ EXCEPT !.cursor = d, !.todo = Descriptors(d)]]
    BY <1>4, <2>2 DEF ProbeParent
  <2>4. local'[p].cursor = d /\ local'[p].todo = Descriptors(d)
    BY <1>0, <2>3 DEF Locals
  <2>5. d \in Procs
    BY <1>0, <2>3, LocalsFields DEF IInv, TypeOK
  <2> HIDE DEF d
  <2> QED BY <1>1, <2>1, <2>3, <2>4, <2>5 DEF Cursor
<1>5. CASE \/ \E s \in Slots : ProbeHeld(p, s)
           \/ TakeSlot(p) \/ NextSlot(p) \/ BeginWait(p) \/ Poll(p)
           \/ AdmitUnscoped(p) \/ \E sc \in Scopes : AdmitScoped(p, sc)
  <2>1. pc'[p] \notin {"probe", "probing"}
    BY <1>0, <1>5 DEF ProbeHeld, TakeSlot, NextSlot, BeginWait, Poll, Scanning, Exhausted,
       AdmitUnscoped, AdmitScoped, EndWalk, Goto
  <2> QED BY <2>1 DEF Walks
<1> QED BY <1>2, <1>3, <1>4, <1>5 DEF GateStep

LEMMA CoverStep ==
  ASSUME IInv, WalkInv, CoverInv, ~KeepsFd, [Next]_vars
  PROVE  CoverInv'
<1>0. /\ pc \in [Procs -> Phases] /\ held \in [Slots -> SUBSET Procs]
      /\ local \in [Procs -> Locals] /\ TypeOK
  BY DEF IInv, TypeOK
<1>1. ASSUME NEW x \in Procs, (GateStep(x) /\ ~TimeOut(x)) \/ FlockTake(x) PROVE CoverInv'
  <2>1. Moves(x)
    BY <1>0, <1>1, GateMoves, FlockMoves
  <2>2. \A s \in Slots : stale'[s] = {}
    BY <1>1, GateTakesNothing DEF CoverInv
  <2>3. FlockTake(x) => ~Walks(x)'
    BY <1>0 DEF FlockTake, Goto, Walks
  <2> QED BY <1>1, <2>1, <2>2, <2>3, OthersCovered, OwnCovered DEF CoverInv
<1>2. ASSUME NEW x \in Procs, NEW left, Vanish(x, left) PROVE CoverInv'
  <2>1. /\ pc'[x] = "free"
        /\ \A q \in Procs \ {x} : pc'[q] = pc[q] /\ local'[q] = local[q]
        /\ \A q \in Procs \ {x}, s \in Slots : q \in held[s] => q \in held'[s]
        /\ \A s \in Slots : stale'[s] = {}
    BY <1>0, <1>2 DEF Vanish, CoverInv
  <2>2. ASSUME NEW p \in Procs, Walks(p)'
        PROVE  \/ pc'[Cursor(p)'] = "free"
               \/ pc'[p] = "probe" /\ \A s \in local'[p].todo : Cursor(p)' \in held'[s]
    <3>1. p # x /\ Walks(p) /\ Cursor(p)' = Cursor(p) /\ local'[p] = local[p] /\ pc'[p] = pc[p]
      BY <2>1, <2>2 DEF Walks, Cursor
    <3>2. Cursor(p) \in Procs /\ local[p].todo \subseteq Slots
      BY <1>0, <3>1, LocalsFields DEF WalkInv, OnTheWay
    <3>3. pc[Cursor(p)] = "free" \/ (pc[p] = "probe" /\ \A s \in local[p].todo : Cursor(p) \in held[s])
      BY <3>1 DEF CoverInv
    <3> QED BY <2>1, <3>1, <3>2, <3>3
  <2> QED BY <2>1, <2>2 DEF CoverInv
<1>3. ASSUME NEW r \in Procs \cup {Root}, NEW x \in Procs, NEW phase \in {"shell", "start", "flock"},
             NEW inherit \in BOOLEAN, Spawn(r, x, phase, inherit)
      PROVE CoverInv'
  <2>1. /\ pc'[x] = phase /\ UNCHANGED local
        /\ \A q \in Procs \ {x} : pc'[q] = pc[q]
        /\ \A q \in Procs, s \in Slots : q \in held[s] => q \in held'[s]
        /\ \A p \in Procs : Cursor(p) # x
    BY <1>0, <1>3 DEF Spawn, Cursor
  <2>2. \A s \in Slots : stale'[s] = {}
    BY <1>3 DEF Spawn, CoverInv
  <2>3. ASSUME NEW p \in Procs, Walks(p)'
        PROVE  \/ pc'[Cursor(p)'] = "free"
               \/ pc'[p] = "probe" /\ \A s \in local'[p].todo : Cursor(p)' \in held'[s]
    <3>1. p # x /\ Walks(p) /\ Cursor(p)' = Cursor(p) /\ pc'[p] = pc[p] /\ Cursor(p) # x
      BY <2>1, <2>3 DEF Walks, Cursor
    <3>2. Cursor(p) \in Procs /\ local[p].todo \subseteq Slots
      BY <1>0, <3>1, LocalsFields DEF WalkInv, OnTheWay
    <3>3. pc[Cursor(p)] = "free" \/ (pc[p] = "probe" /\ \A s \in local[p].todo : Cursor(p) \in held[s])
      BY <3>1 DEF CoverInv
    <3> QED BY <2>1, <3>1, <3>2, <3>3
  <2> QED BY <2>2, <2>3 DEF CoverInv
<1>4. CASE UNCHANGED <<pc, held, stale, local>>
  BY <1>4 DEF CoverInv, Walks, Cursor
<1>5. ASSUME NEW x \in Procs, GateStep(x) PROVE CoverInv'
  BY <1>1, <1>2, <1>5 DEF TimeOut
<1>6. ASSUME NEW x \in Procs, EnvStep(x) PROVE CoverInv'
  <2>1. ~FlockUnlock(x)
    BY DEF FlockUnlock
  <2>2. CASE Exit(x) \/ Kill(x)
    BY <1>2, <2>2 DEF Exit, Kill
  <2> QED BY <1>1, <1>3, <1>6, <2>1, <2>2 DEF EnvStep
<1>7. ASSUME NEW n \in 1..MaxSlots, SetSlots(n) PROVE CoverInv'
  BY <1>4, <1>7 DEF SetSlots
<1> QED BY <1>3, <1>4, <1>5, <1>6, <1>7 DEF Next, vars

(* What lets a process run that was at the gate is a step of its own gate.  *)
LEMMA OwnDecision ==
  ASSUME TypeOK, [Next]_vars, NEW p \in Procs, pc[p] \in {"start", "probe"}, pc'[p] \in {"admit", "run"}
  PROVE  GateStep(p) /\ ~TimeOut(p)
<1>0. pc \in [Procs -> Phases]
  BY DEF TypeOK
<1>1. ASSUME NEW r, NEW q \in Procs, NEW phase \in {"shell", "start", "flock"}, NEW inherit,
             Spawn(r, q, phase, inherit)
      PROVE FALSE
  BY <1>0, <1>1 DEF Spawn
<1>2. ASSUME NEW x \in Procs, NEW left, Vanish(x, left) PROVE FALSE
  BY <1>0, <1>2 DEF Vanish
<1>3. ASSUME NEW x \in Procs, FlockTake(x) \/ FlockUnlock(x) PROVE FALSE
  BY <1>0, <1>3 DEF FlockTake, FlockUnlock, Goto
<1>4. ASSUME NEW x \in Procs, EnvStep(x) PROVE FALSE
  BY <1>1, <1>2, <1>3, <1>4 DEF EnvStep, Exit, Kill
<1>5. ASSUME NEW n \in 1..MaxSlots, SetSlots(n) PROVE FALSE
  BY <1>5 DEF SetSlots
<1>6. PICK x \in Procs : GateStep(x)
  BY <1>1, <1>4, <1>5 DEF Next, vars
<1>7. ~TimeOut(x)
  BY <1>2 DEF TimeOut
<1>8. x = p
  BY <1>6, <1>7, GateMoves DEF Moves
<1> QED BY <1>6, <1>7, <1>8

(* A command that slot_held_by_ancestor lets through is covered by a lock   *)
(* its ancestor holds, or held until it died under the walk: as long as no  *)
(* script keeps a slot's descriptor open after `flock -u`.                  *)
THEOREM ProbesAreCovered == ASSUME ~KeepsFd PROVE Spec => ProbeCovered
<1>1. Init => CoverInv
  BY DEF Init, CoverInv, Walks
<1>2. IInv /\ WalkInv /\ CoverInv /\ [Next]_vars => CoverInv'
  BY CoverStep
<1>3. ASSUME IInv, CoverInv, [Next]_vars, NEW p \in Procs, pc[p] = "probe", pc'[p] = "admit"
      PROVE  pc[Cursor(p)] = "free" \/ \E s \in local[p].todo : Cursor(p) \in held[s]
  <2>0. pc \in [Procs -> Phases]
    BY <1>3 DEF IInv, TypeOK
  <2>1. GateStep(p) /\ ~TimeOut(p)
    BY <1>3, OwnDecision DEF IInv
  <2>2. \E s \in Slots : ProbeHeld(p, s)
    BY <1>3, <2>0, <2>1 DEF GateStep, Start, ProbeFree, ProbeRelease, ProbeParent, TakeSlot, NextSlot,
       BeginWait, Poll, AdmitScoped, AdmitUnscoped, Scanning, Exhausted, EndWalk, Goto
  <2> QED BY <1>3, <2>2 DEF CoverInv, Walks, ProbeHeld
<1>4. IInv /\ CoverInv /\ [Next]_vars =>
        [\A p \in Procs : pc[p] = "probe" /\ pc'[p] = "admit" =>
            LET c == local[p].cursor
            IN  pc[c] = "free" \/ \E s \in local[p].todo : c \in held[s]]_vars
  BY <1>3 DEF Cursor
<1> QED BY <1>1, <1>2, <1>4, WalkAlways, PTL DEF Spec, ProbeCovered

(* The scope's marker names a job that runs, as long as nobody kills the    *)
(* bootstrap before its trap.                                               *)
MarkerInv == \A sc \in Scopes : marker[sc] = NoProc \/ (marker[sc] \in Procs /\ pc[marker[sc]] = "run")

LEMMA MarkerStep ==
  ASSUME TypeOK, MarkerInv, ~Kills, [Next]_vars
  PROVE  MarkerInv'
<1>0. /\ pc \in [Procs -> Phases] /\ marker \in [Scopes -> Procs \cup {NoProc, Orphaned}]
      /\ NoProc \notin Procs
  BY SentinelAssumption DEF TypeOK
<1>1. ASSUME NEW x \in Procs, Vanish(x, NoProc) PROVE MarkerInv'
  <2>1. /\ \A q \in Procs \ {x} : pc'[q] = pc[q]
        /\ \A sc \in Scopes : marker'[sc] = NoProc \/ (marker[sc] # x /\ marker'[sc] = marker[sc])
    BY <1>0, <1>1 DEF Vanish, MarkersAfter
  <2> QED BY <2>1 DEF MarkerInv
<1>2. ASSUME NEW r, NEW x \in Procs, NEW phase, NEW inherit, Spawn(r, x, phase, inherit) PROVE MarkerInv'
  <2>1. /\ pc[x] = "free" /\ UNCHANGED marker /\ \A q \in Procs \ {x} : pc'[q] = pc[q]
    BY <1>0, <1>2 DEF Spawn
  <2> QED BY <2>1 DEF MarkerInv
<1>3. ASSUME NEW x \in Procs, NEW sc \in Scopes, AdmitScoped(x, sc) PROVE MarkerInv'
  <2>1. /\ pc[x] = "admit" /\ pc'[x] = "run" /\ \A q \in Procs \ {x} : pc'[q] = pc[q]
        /\ \A c \in Scopes : marker'[c] \in {NoProc, x, marker[c]}
    BY <1>0, <1>3 DEF AdmitScoped, Goto, MarkersAfter
  <2> QED BY <2>1 DEF MarkerInv
<1>4. ASSUME NEW x \in Procs, pc[x] # "run", UNCHANGED marker, \A q \in Procs \ {x} : pc'[q] = pc[q]
      PROVE  MarkerInv'
  BY <1>4 DEF MarkerInv
<1>5. ASSUME NEW x \in Procs, GateStep(x) PROVE MarkerInv'
  <2>1. CASE TimeOut(x)
    BY <1>1, <2>1 DEF TimeOut
  <2>2. CASE ~TimeOut(x) /\ ~\E sc \in Scopes : AdmitScoped(x, sc)
    <3>1. UNCHANGED marker /\ pc[x] # "run"
      BY <1>5, <2>2 DEF GateStep, Start, ProbeHeld, ProbeFree, ProbeRelease, ProbeParent, TakeSlot, NextSlot,
         BeginWait, Poll, AdmitUnscoped, Scanning, Exhausted
    <3>2. \A q \in Procs \ {x} : pc'[q] = pc[q]
      BY <1>5, <2>2, GateMoves DEF Moves
    <3> QED BY <1>4, <3>1, <3>2
  <2> QED BY <1>3, <2>1, <2>2
<1>6. ASSUME NEW x \in Procs, EnvStep(x) PROVE MarkerInv'
  <2>1. ~Kill(x)
    BY DEF Kill
  <2>2. CASE FlockTake(x) \/ FlockUnlock(x)
    <3>1. pc[x] # "run" /\ UNCHANGED marker /\ \A q \in Procs \ {x} : pc'[q] = pc[q]
      BY <1>0, <2>2 DEF FlockTake, FlockUnlock, Goto
    <3> QED BY <1>4, <3>1
  <2>3. CASE Exit(x)
    BY <1>1, <2>3 DEF Exit
  <2> QED BY <1>2, <1>6, <2>1, <2>2, <2>3 DEF EnvStep
<1>7. CASE UNCHANGED <<pc, marker>>
  BY <1>7 DEF MarkerInv
<1>8. ASSUME NEW n \in 1..MaxSlots, SetSlots(n) PROVE MarkerInv'
  BY <1>7, <1>8 DEF SetSlots
<1> QED BY <1>2, <1>5, <1>6, <1>7, <1>8 DEF Next, vars

(* Work that the gate lets run at once, inside a scope it registered, runs  *)
(* under a job that is still running: unless a bootstrap was killed.        *)
THEOREM MarkersAreCovered == ASSUME ~Kills PROVE Spec => MarkerCovered
<1>1. Init => MarkerInv
  BY DEF Init, MarkerInv
<1>2. TypeOK /\ MarkerInv /\ [Next]_vars => MarkerInv'
  BY MarkerStep
<1>3. ASSUME TypeOK, MarkerInv, [Next]_vars, NEW p \in Procs, pc[p] = "start", pc'[p] = "run"
      PROVE  \E b \in Procs : b = marker[scope[p]] /\ pc[b] = "run"
  <2>0. pc \in [Procs -> Phases]
    BY <1>3 DEF TypeOK
  <2>1. GateStep(p) /\ ~TimeOut(p)
    BY <1>3, OwnDecision
  <2>2. Start(p) /\ InMarkedScope(p)
    BY <1>3, <2>0, <2>1 DEF GateStep, Start, ProbeHeld, ProbeFree, ProbeRelease, ProbeParent, TakeSlot,
       NextSlot, BeginWait, Poll, AdmitScoped, AdmitUnscoped, Scanning, Exhausted, EndWalk, Goto
  <2> QED BY <1>3, <2>2 DEF TypeOK, MarkerInv, InMarkedScope
<1>4. TypeOK /\ MarkerInv /\ [Next]_vars =>
        [\A p \in Procs : pc[p] = "start" /\ pc'[p] = "run" =>
            \E b \in Procs : b = marker[scope[p]] /\ pc[b] = "run"]_vars
  BY <1>3
<1> QED BY <1>1, <1>2, <1>4, TypeCorrect, PTL DEF Spec, MarkerCovered
=============================================================================
