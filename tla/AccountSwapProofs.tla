------------------------- MODULE AccountSwapProofs --------------------------
(***************************************************************************)
(* Theorems about AccountSwap, for any labels, accounts, backups kept and  *)
(* tokens issued.                                                          *)
(*                                                                         *)
(* For any number of invocations, killed anywhere: the types, and that the *)
(* lock excludes.  For any number of them that are not killed: a parked    *)
(* pair is of one account.  For one invocation at a time, killed anywhere  *)
(* and beside any session: labels keep their account up to the first       *)
(* account slip; a swap lands and no login is lost up to the first slip.   *)
(***************************************************************************)
EXTENDS AccountSwap, SequenceTheorems, TLAPS

(* ------------------------------------------------------------- types       *)

Phases(verb) ==
    CASE verb = "use" -> {"early", "lock", "capture", "save", "verify", "commitId", "commitCred",
                          "snapshot", "apply", "load", "activate"}
      [] verb = "add" -> {"lock", "capture", "save", "verify", "commitId", "commitCred", "register"}
      [] verb = "rm"  -> {"lock", "remove", "forget"}

Capturing(p) == job[p].pc \in {"save", "verify", "commitId", "commitCred"}

(* An invocation works on a label, and captures into one.                   *)
Aimed(p) ==
    ~At(p, "idle") =>
        /\ job[p].label \in Labels
        /\ job[p].pc \in Phases(job[p].verb)
        /\ Capturing(p) => Target(p) \in Labels
        /\ At(p, "snapshot") => job[p].active \in Labels

IInv == TypeOK /\ (\A p \in Procs : Aimed(p)) /\ LockExcludes

LEMMA NewestType ==
    ASSUME NEW S, NEW s \in Seq(S), NEW n \in Nat
    PROVE  Newest(s, n) \in Seq(S) /\ Len(Newest(s, n)) <= n
<1>1. CASE Len(s) <= n
    BY <1>1 DEF Newest
<1>2. CASE Len(s) > n
    <2> DEFINE first == Len(s) - n + 1
    <2>1. Len(s) \in Nat /\ first \in Int /\ \A i \in first..Len(s) : s[i] \in S
        BY <1>2
    <2>2. SubSeq(s, first, Len(s)) \in Seq(S)
          /\ Len(SubSeq(s, first, Len(s))) = IF first <= Len(s) THEN Len(s) - first + 1 ELSE 0
        BY <2>1, SubSeqProperties
    <2> QED
        BY <2>1, <2>2, <1>2 DEF Newest
<1> QED
    BY <1>1, <1>2

Entries == [label : Labels, id : Accounts \cup {None}, cred : Tokens \cup {NoToken}]

LEMMA PruneType ==
    ASSUME TypeOK, NEW e \in Entries
    PROVE  Prune(Append(backups, e)) \in Seq(Entries) /\ Len(Prune(Append(backups, e))) <= Keep
<1>1. Append(backups, e) \in Seq(Entries)
    BY AppendProperties DEF TypeOK, Entries
<1> QED
    BY <1>1, NewestType, KeepAssumption DEF Prune

LEMMA InitHolds == Init => IInv
<1> SUFFICES ASSUME Init PROVE IInv
    OBVIOUS
<1>1. Idle \in Jobs
    BY DEF Idle, Jobs
<1>2. backups \in Seq(Entries) /\ Len(backups) <= Keep
    BY KeepAssumption DEF Init
<1>3. issued \in [Accounts -> 0..MaxIssued]
    BY MaxIssuedAssumption DEF Init
<1>4. TypeOK
    BY <1>1, <1>2, <1>3 DEF Init, TypeOK, Entries
<1> QED
    BY <1>4 DEF Init, IInv, Aimed, LockExcludes, InLock, At, Idle

(* A token that has just been issued.                                       *)
LEMMA NextTokenType ==
    ASSUME TypeOK, NEW a \in Accounts, issued[a] < MaxIssued
    PROVE  NextToken(a) \in Tokens /\ issued[a] + 1 \in 0..MaxIssued
BY MaxIssuedAssumption DEF TypeOK, NextToken, Tokens

LEMMA SlipTypes ==
    /\ \A l \in Labels : UseSlips(l) \cup AddSlips(l) \subseteq {"account", "token"}
    /\ \A complete \in BOOLEAN : LoginSlips(complete) \subseteq {"account", "token"}
BY DEF UseSlips, AddSlips, LoginSlips, Mark

LEMMA InvokeTypes ==
    ASSUME IInv, NEW p \in Procs, Invoke(p) PROVE IInv'
<1>1. PICK l \in Labels : \/ \E force \in BOOLEAN : UseCheck(p, l, force)
                          \/ AddCheck(p, l)
                          \/ RmCheck(p, l)
    BY DEF Invoke
<1>2. /\ job' \in [Procs -> Jobs]
      /\ \A q \in Procs \ {p} : job'[q] = job[q]
      /\ job'[p].label = l /\ job'[p].pc \in {"early", "lock"}
      /\ job'[p].pc \in Phases(job'[p].verb)
      /\ UNCHANGED <<tree, vault, registry, lock, backups, running, issued, live>>
      /\ slips' \in SUBSET {"account", "token"}
    <2>1. CASE \E force \in BOOLEAN : UseCheck(p, l, force)
        <3>1. PICK force \in BOOLEAN : UseCheck(p, l, force)
            BY <2>1
        <3> DEFINE same == active = l /\ treeCred # NoToken
                   early == same /\ ~Differ(treeId, vid[l]) /\ ~force
                   j == [Idle EXCEPT !.pc = IF early THEN "early" ELSE "lock",
                                     !.label = l, !.force = force,
                                     !.active = active, !.heal = same]
        <3>2. job' = [job EXCEPT ![p] = j]
              /\ UNCHANGED <<tree, vault, registry, lock, backups, running, issued, live>>
              /\ slips' = slips \cup UseSlips(l)
            BY <3>1 DEF UseCheck
        <3>3. same \in BOOLEAN /\ (IF early THEN "early" ELSE "lock") \in {"early", "lock"}
            OBVIOUS
        <3> HIDE DEF same, early
        <3>4. j \in Jobs /\ j.label = l /\ j.verb = "use" /\ j.pc \in {"early", "lock"}
            BY <3>3 DEF IInv, TypeOK, Jobs, Idle
        <3> HIDE DEF j
        <3> QED
            BY <3>2, <3>4, SlipTypes DEF IInv, TypeOK, Phases
    <2>2. CASE AddCheck(p, l)
        BY <2>2, SlipTypes DEF AddCheck, IInv, TypeOK, Jobs, Idle, Phases
    <2>3. CASE RmCheck(p, l)
        BY <2>3 DEF RmCheck, IInv, TypeOK, Jobs, Idle, Phases, claude
    <2> QED
        BY <1>1, <2>1, <2>2, <2>3
<1>3. TypeOK'
    BY <1>2 DEF IInv, TypeOK, tree, vault, registry
<1> QED
    BY <1>2, <1>3 DEF IInv, Aimed, LockExcludes, InLock, At, Capturing, Target

(* ---------------------------------------------------------------------- *)

(* The jobs of the other invocations, and the lock while p holds it.        *)
LEMMA StepTypes ==
    ASSUME IInv, NEW p \in Procs, TypeOK',
           \A q \in Procs \ {p} : job'[q] = job[q],
           lock' = lock \/ lock' = p \/ (lock = p /\ lock' \in {None, Stale}),
           lock' = p => lock \in {None, p},
           Aimed(p)', InLock(p)' => lock' = p
    PROVE  IInv'
BY NoneAssumption DEF IInv, Aimed, LockExcludes, InLock, At, Capturing, Target

PhaseNames == {"idle", "early", "lock", "capture", "save", "verify", "commitId", "commitCred",
               "snapshot", "apply", "load", "activate", "register", "remove", "forget"}

(* Goto changes the phase of one invocation and nothing else of any.        *)
LEMMA GotoKeeps ==
    ASSUME TypeOK, NEW p \in Procs, NEW phase \in PhaseNames, Goto(p, phase)
    PROVE  /\ job' \in [Procs -> Jobs]
           /\ \A q \in Procs \ {p} : job'[q] = job[q]
           /\ job'[p].pc = phase /\ job'[p].verb = job[p].verb /\ job'[p].label = job[p].label
           /\ job'[p].active = job[p].active /\ job'[p].heal = job[p].heal
           /\ job'[p].force = job[p].force
           /\ job'[p].id = job[p].id /\ job'[p].cred = job[p].cred
<1>1. job[p] \in Jobs /\ job' = [job EXCEPT ![p] = [job[p] EXCEPT !.pc = phase]]
    BY DEF TypeOK, Goto
<1>2. [job[p] EXCEPT !.pc = phase] \in Jobs
    BY <1>1 DEF Jobs, PhaseNames
<1> QED
    BY <1>1, <1>2 DEF TypeOK, Jobs

LEMMA FinishTypes ==
    ASSUME IInv, NEW p \in Procs, Finish(p)
    PROVE  /\ job' \in [Procs -> Jobs]
           /\ lock' \in Procs \cup {None, Stale}
           /\ \A q \in Procs \ {p} : job'[q] = job[q]
           /\ lock' = lock \/ (lock = p /\ lock' = None)
           /\ lock' # p
           /\ Aimed(p)' /\ (InLock(p)' => lock' = p)
<1>1. Idle \in Jobs
    BY DEF Idle, Jobs
<1>2. job' \in [Procs -> Jobs] /\ job'[p].pc = "idle"
    BY <1>1 DEF Finish, IInv, TypeOK, Idle
<1> QED
    BY <1>2, NoneAssumption DEF Finish, IInv, TypeOK, Aimed, InLock, At

LEMMA UseActiveTypes == ASSUME IInv, NEW p \in Procs, UseActive(p) PROVE IInv'
<1>1. treeCred' \in Tokens \cup {NoToken}
    BY DEF UseActive, IInv, Aimed, At, TypeOK
<1>2. TypeOK'
    BY <1>1, FinishTypes DEF UseActive, IInv, TypeOK, vault, registry, claude
<1> QED
    BY <1>2, FinishTypes, StepTypes DEF UseActive

LEMMA LockTypes == ASSUME IInv, NEW p \in Procs, Lock(p) PROVE IInv'
<1>1. CASE lock # None
    <2>1. Finish(p)
        BY <1>1 DEF Lock
    <2>2. TypeOK'
        BY <2>1, FinishTypes DEF Lock, IInv, TypeOK, tree, vault, registry, claude
    <2> QED
        BY <2>1, <2>2, FinishTypes, StepTypes
<1>2. CASE lock = None
    <2>1. job[p].verb \in {"use", "add", "rm"} /\ job[p].label \in Labels
        BY DEF Lock, IInv, TypeOK, Jobs, Aimed, At
    <2>2. /\ job' \in [Procs -> Jobs] /\ lock' = p
          /\ \A q \in Procs \ {p} : job'[q] = job[q]
          /\ job'[p].label = job[p].label /\ job'[p].verb = job[p].verb
          /\ job'[p].pc \in Phases(job[p].verb) /\ job'[p].pc \in {"capture", "remove", "apply"}
        <3>1. PICK phase \in {"capture", "remove", "apply"} :
                  Goto(p, phase) /\ phase \in Phases(job[p].verb)
            <4>1. CASE job[p].verb = "use"
                BY <1>2, <4>1 DEF Lock, Phases
            <4>2. CASE job[p].verb = "add"
                BY <1>2, <4>2 DEF Lock, Phases
            <4>3. CASE job[p].verb = "rm"
                BY <1>2, <4>3 DEF Lock, Phases
            <4> QED
                BY <2>1, <4>1, <4>2, <4>3
        <3> QED
            BY <1>2, <3>1, GotoKeeps DEF Lock, IInv, PhaseNames
    <2>3. TypeOK'
        BY <2>2 DEF Lock, IInv, TypeOK, tree, vault, registry, claude
    <2>4. Aimed(p)' /\ InLock(p)'
        BY <2>1, <2>2 DEF Aimed, At, Capturing, InLock
    <2> QED
        BY <1>2, <2>2, <2>3, <2>4, StepTypes
<1> QED
    BY <1>1, <1>2

LEMMA ExtractTypes == ASSUME IInv, NEW p \in Procs, Extract(p) PROVE IInv'
<1>1. CASE Target(p) = None \/ treeId = None
    <2>1. Finish(p)
        BY <1>1 DEF Extract
    <2>2. TypeOK'
        BY <2>1, FinishTypes DEF Extract, IInv, TypeOK, tree, vault, registry, claude
    <2> QED
        BY <2>1, <2>2, FinishTypes, StepTypes
<1>2. CASE Target(p) # None /\ treeId # None
    <2>1. Target(p) \in Labels /\ treeId \in Accounts
        BY <1>2 DEF IInv, TypeOK, Jobs, Target
    <2>2. job' = [job EXCEPT ![p] = [job[p] EXCEPT !.pc = "save", !.id = treeId]]
        BY <1>2 DEF Extract
    <2>3. job[p] \in Jobs
        BY DEF IInv, TypeOK
    <2>4. [job[p] EXCEPT !.pc = "save", !.id = treeId] \in Jobs
        BY <2>1, <2>3 DEF Jobs
    <2>5. /\ job' \in [Procs -> Jobs]
          /\ \A q \in Procs \ {p} : job'[q] = job[q]
          /\ job'[p].pc = "save" /\ job'[p].label = job[p].label
          /\ job'[p].verb = job[p].verb /\ job'[p].active = job[p].active
        BY <2>2, <2>3, <2>4 DEF IInv, TypeOK, Jobs
    <2>6. TypeOK'
        BY <1>2, <2>5 DEF Extract, IInv, TypeOK, tree, vault, registry, claude
    <2>7. job[p].verb \in {"use", "add"}
        BY <2>3 DEF Extract, At, IInv, Aimed, Phases, Jobs
    <2>8. Aimed(p)'
        BY <2>1, <2>5, <2>7 DEF Extract, At, IInv, Aimed, Phases, Capturing, Target
    <2>9. lock' = lock /\ lock = p
        BY <1>2 DEF Extract, At, IInv, LockExcludes, InLock
    <2> QED
        BY <2>5, <2>6, <2>8, <2>9, StepTypes
<1> QED
    BY <1>1, <1>2

LEMMA SaveTypes == ASSUME IInv, NEW p \in Procs, Save(p) PROVE IInv'
<1>1. CASE treeCred = NoToken
    <2>1. Finish(p)
        BY <1>1 DEF Save
    <2>2. TypeOK'
        BY <2>1, FinishTypes DEF Save, IInv, TypeOK, tree, vault, registry, claude
    <2> QED
        BY <2>1, <2>2, FinishTypes, StepTypes
<1>2. CASE treeCred # NoToken
    <2>1. job' = [job EXCEPT ![p] = [job[p] EXCEPT !.pc = "verify", !.cred = treeCred]]
        BY <1>2 DEF Save
    <2>2. job[p] \in Jobs
        BY DEF IInv, TypeOK
    <2>3. [job[p] EXCEPT !.pc = "verify", !.cred = treeCred] \in Jobs
        BY <2>2 DEF Jobs, IInv, TypeOK
    <2>4. /\ job' \in [Procs -> Jobs]
          /\ \A q \in Procs \ {p} : job'[q] = job[q]
          /\ job'[p].pc = "verify" /\ job'[p].label = job[p].label
          /\ job'[p].verb = job[p].verb /\ job'[p].active = job[p].active
        BY <2>1, <2>2, <2>3 DEF IInv, TypeOK, Jobs
    <2>5. TypeOK'
        BY <1>2, <2>4 DEF Save, IInv, TypeOK, tree, vault, registry, claude
    <2>6. job[p].verb \in {"use", "add"}
        BY <2>2 DEF Save, At, IInv, Aimed, Phases, Jobs
    <2>7. Aimed(p)'
        BY <2>4, <2>6 DEF Save, At, IInv, Aimed, Phases, Capturing, Target
    <2>8. lock' = lock /\ lock = p
        BY <1>2 DEF Save, At, IInv, LockExcludes, InLock
    <2> QED
        BY <2>4, <2>5, <2>7, <2>8, StepTypes
<1> QED
    BY <1>1, <1>2

(* A step that only moves the phase on, within the verb and the lock.       *)
LEMMA GotoTypes ==
    ASSUME IInv, NEW p \in Procs, NEW phase \in PhaseNames, Goto(p, phase), UNCHANGED lock,
           InLock(p), phase \in Phases(job[p].verb), TypeOK',
           phase \in {"save", "verify", "commitId", "commitCred", "snapshot"} => Capturing(p),
           phase = "snapshot" => job[p].verb = "use"
    PROVE  IInv'
<1>1. lock = p /\ ~At(p, "idle")
    BY DEF InLock, IInv, LockExcludes, At
<1>2. Aimed(p)'
    BY <1>1, GotoKeeps DEF IInv, Aimed, At, Capturing, Target
<1> QED
    BY <1>1, <1>2, GotoKeeps, StepTypes DEF IInv

LEMMA VerbsAt ==
    ASSUME IInv, NEW p \in Procs
    PROVE  /\ job[p].verb \in {"use", "add", "rm"}
           /\ job[p].pc \in {"capture", "save", "verify", "commitId", "commitCred"}
                 => job[p].verb \in {"use", "add"}
           /\ job[p].pc \in {"snapshot", "apply", "load", "activate"} => job[p].verb = "use"
           /\ job[p].pc \in {"remove", "forget"} => job[p].verb = "rm"
           /\ job[p].pc = "register" => job[p].verb = "add"
<1>1. job[p].verb \in {"use", "add", "rm"}
    BY DEF IInv, TypeOK, Jobs
<1> QED
    BY <1>1 DEF IInv, Aimed, At, Phases

LEMMA VerifyTypes ==
    ASSUME IInv, NEW p \in Procs, VerifyOk(p) \/ VerifyMismatch(p) PROVE IInv'
<1>1. CASE VerifyOk(p)
    <2>1. TypeOK'
        BY <1>1, GotoKeeps DEF VerifyOk, PhaseNames, IInv, TypeOK, tree, vault, registry, claude
    <2> QED
        BY <1>1, <2>1, VerbsAt, GotoTypes DEF VerifyOk, PhaseNames, InLock, At, Capturing, Phases
<1>2. CASE VerifyMismatch(p) /\ job[p].verb = "add"
    <2>1. Finish(p)
        BY <1>2 DEF VerifyMismatch
    <2>2. TypeOK'
        BY <1>2, <2>1, FinishTypes DEF VerifyMismatch, IInv, TypeOK, tree, vault, registry, claude
    <2> QED
        BY <2>1, <2>2, FinishTypes, StepTypes
<1>3. CASE VerifyMismatch(p) /\ job[p].verb # "add"
    <2> DEFINE e == [label |-> Target(p), id |-> job[p].id, cred |-> job[p].cred]
    <2>1. job[p] \in Jobs /\ Target(p) \in Labels
        BY <1>3 DEF VerifyMismatch, At, IInv, TypeOK, Aimed, Capturing
    <2>2. e \in Entries
        BY <2>1 DEF Entries, Jobs
    <2>3. backups' = Prune(Append(backups, e)) /\ Goto(p, "apply") /\ UNCHANGED lock
        BY <1>3 DEF VerifyMismatch
    <2> HIDE DEF e
    <2>4. backups' \in Seq(Entries) /\ Len(backups') <= Keep
        BY <2>2, <2>3, PruneType DEF IInv
    <2>5. TypeOK'
        BY <1>3, <2>3, <2>4, GotoKeeps
        DEF VerifyMismatch, PhaseNames, IInv, TypeOK, Entries, tree, vault, registry, claude
    <2> QED
        BY <1>3, <2>3, <2>5, VerbsAt, GotoTypes
        DEF VerifyMismatch, PhaseNames, InLock, At, Capturing, Phases
<1> QED
    BY <1>1, <1>2, <1>3

LEMMA CommitTypes ==
    ASSUME IInv, NEW p \in Procs, CommitId(p) \/ CommitCred(p) \/ Snapshot(p) PROVE IInv'
<1>1. job[p] \in Jobs
    BY DEF IInv, TypeOK
<1>2. CASE CommitId(p)
    <2>1. vid' \in [Labels -> Accounts \cup {None}]
        BY <1>1, <1>2 DEF CommitId, IInv, TypeOK, Jobs
    <2>2. TypeOK'
        BY <1>2, <2>1, GotoKeeps DEF CommitId, PhaseNames, IInv, TypeOK, tree, registry, claude
    <2> QED
        BY <1>2, <2>2, VerbsAt, GotoTypes DEF CommitId, PhaseNames, InLock, At, Capturing, Phases
<1>3. CASE CommitCred(p)
    <2>1. PICK phase \in {"register", "snapshot"} :
              Goto(p, phase) /\ phase = IF job[p].verb = "add" THEN "register" ELSE "snapshot"
        BY <1>3 DEF CommitCred
    <2>2. vcred' \in [Labels -> Tokens \cup {NoToken}]
        BY <1>1, <1>3 DEF CommitCred, IInv, TypeOK, Jobs
    <2>3. TypeOK'
        BY <1>3, <2>1, <2>2, GotoKeeps
        DEF CommitCred, PhaseNames, IInv, TypeOK, tree, registry, claude
    <2>4. job[p].verb \in {"use", "add"} /\ phase \in Phases(job[p].verb)
        BY <1>3, <2>1, VerbsAt DEF CommitCred, At, Phases
    <2> QED
        BY <1>3, <2>1, <2>3, <2>4, GotoTypes DEF CommitCred, PhaseNames, InLock, At, Capturing
<1>4. CASE Snapshot(p)
    <2> DEFINE a == job[p].active
               e == [label |-> a, id |-> vid[a], cred |-> vcred[a]]
    <2>1. a \in Labels
        BY <1>4 DEF Snapshot, At, IInv, Aimed
    <2>2. e \in Entries
        BY <2>1 DEF Entries, IInv, TypeOK
    <2>3. backups' = Prune(Append(backups, e)) /\ Goto(p, "apply")
        BY <1>4 DEF Snapshot
    <2> HIDE DEF e
    <2>4. backups' \in Seq(Entries) /\ Len(backups') <= Keep
        BY <2>2, <2>3, PruneType DEF IInv
    <2>5. TypeOK'
        BY <1>4, <2>3, <2>4, GotoKeeps
        DEF Snapshot, PhaseNames, IInv, TypeOK, Entries, tree, vault, registry, claude
    <2> QED
        BY <1>4, <2>3, <2>5, VerbsAt, GotoTypes
        DEF Snapshot, PhaseNames, InLock, At, Capturing, Phases
<1> QED
    BY <1>2, <1>3, <1>4

LEMMA RestoreTypes ==
    ASSUME IInv, NEW p \in Procs, Apply(p) \/ Load(p) \/ Activate(p) PROVE IInv'
<1>1. ~At(p, "idle") /\ job[p].label \in Labels
    BY DEF Apply, Load, Activate, At, IInv, Aimed
<1>2. CASE Apply(p)
    <2>1. TypeOK'
        BY <1>1, <1>2, GotoKeeps DEF Apply, PhaseNames, IInv, TypeOK, vault, registry, claude
    <2> QED
        BY <1>2, <2>1, VerbsAt, GotoTypes DEF Apply, PhaseNames, InLock, At, Phases
<1>3. CASE Load(p) /\ vcred[job[p].label] = NoToken
    <2>1. Finish(p)
        BY <1>3 DEF Load
    <2>2. TypeOK'
        BY <1>3, <2>1, FinishTypes DEF Load, IInv, TypeOK, vault, registry, claude
    <2> QED
        BY <2>1, <2>2, FinishTypes, StepTypes
<1>4. CASE Load(p) /\ vcred[job[p].label] # NoToken
    <2>1. treeCred' = vcred[job[p].label] /\ Goto(p, "activate") /\ UNCHANGED lock
        BY <1>4 DEF Load
    <2>2. TypeOK'
        BY <1>1, <1>4, <2>1, GotoKeeps DEF Load, PhaseNames, IInv, TypeOK, vault, registry, claude
    <2> QED
        BY <1>4, <2>1, <2>2, VerbsAt, GotoTypes DEF Load, PhaseNames, InLock, At, Phases
<1>5. CASE Activate(p)
    <2>1. active' \in Labels \cup {None}
        BY <1>1, <1>5 DEF Activate, IInv, TypeOK
    <2>2. TypeOK' /\ Finish(p)
        BY <1>5, <2>1, FinishTypes DEF Activate, IInv, TypeOK, tree, vault, claude
    <2> QED
        BY <2>2, FinishTypes, StepTypes
<1> QED
    BY <1>2, <1>3, <1>4, <1>5

LEMMA RegistryTypes ==
    ASSUME IInv, NEW p \in Procs, Register(p) \/ Remove(p) \/ Forget(p) PROVE IInv'
<1>1. ~At(p, "idle") /\ job[p].label \in Labels
    BY DEF Register, Remove, Forget, At, IInv, Aimed
<1>2. CASE Register(p) \/ Forget(p)
    <2>1. active' \in Labels \cup {None} /\ rows' \in [Labels -> Accounts \cup {None}]
        BY <1>1, <1>2 DEF Register, Forget, IInv, TypeOK
    <2>2. TypeOK' /\ Finish(p)
        BY <1>2, <2>1, FinishTypes DEF Register, Forget, IInv, TypeOK, tree, vault, claude
    <2> QED
        BY <2>2, FinishTypes, StepTypes
<1>3. CASE Remove(p)
    <2>1. vid' \in [Labels -> Accounts \cup {None}] /\ vcred' \in [Labels -> Tokens \cup {NoToken}]
        BY <1>3 DEF Remove, IInv, TypeOK
    <2>2. TypeOK'
        BY <1>3, <2>1, GotoKeeps DEF Remove, PhaseNames, IInv, TypeOK, tree, registry, claude
    <2> QED
        BY <1>3, <2>2, VerbsAt, GotoTypes DEF Remove, PhaseNames, InLock, At, Phases
<1> QED
    BY <1>2, <1>3

(* Steps that leave every invocation where it is.                           *)
LEMMA JobsStay ==
    ASSUME IInv, TypeOK', UNCHANGED job, UNCHANGED lock \/ lock = Stale
    PROVE  IInv'
BY NoneAssumption DEF IInv, Aimed, LockExcludes, InLock, At, Capturing, Target

LEMMA CrashTypes == ASSUME IInv, NEW p \in Procs, Crash(p) PROVE IInv'
<1>1. CASE Finish(p)
    <2>1. TypeOK'
        BY <1>1, FinishTypes DEF Crash, IInv, TypeOK, tree, vault, registry, claude
    <2> QED
        BY <1>1, <2>1, FinishTypes, StepTypes
<1>2. CASE lock = p /\ lock' = Stale /\ job' = [job EXCEPT ![p] = Idle]
    <2>1. Idle \in Jobs /\ Idle.pc = "idle"
        BY DEF Idle, Jobs
    <2>2. /\ job' \in [Procs -> Jobs] /\ job'[p] = Idle
          /\ \A q \in Procs \ {p} : job'[q] = job[q]
        BY <1>2, <2>1 DEF IInv, TypeOK
    <2>3. TypeOK'
        BY <1>2, <2>2 DEF Crash, IInv, TypeOK, tree, vault, registry, claude
    <2>4. Aimed(p)' /\ ~InLock(p)'
        BY <2>1, <2>2 DEF Aimed, At, InLock
    <2>5. Stale # p
        BY NoneAssumption
    <2> QED
        BY <1>2, <2>2, <2>3, <2>4, <2>5, StepTypes
<1> QED
    BY <1>1, <1>2 DEF Crash

LEMMA OthersTypes ==
    ASSUME IInv,
           \/ \E n \in 0..Keep : Gc(n)
           \/ RemoveStaleLock
           \/ \E a \in Accounts, complete \in BOOLEAN : Login(a, complete)
           \/ \E b \in BOOLEAN : SetRunning(b)
           \/ Refresh
    PROVE  IInv'
<1>1. ASSUME NEW n \in 0..Keep, Gc(n) PROVE IInv'
    <2>1. n \in Nat /\ n <= Keep /\ backups \in Seq(Entries)
        BY KeepAssumption DEF IInv, TypeOK, Entries
    <2>2. Newest(backups, n) \in Seq(Entries) /\ Len(Newest(backups, n)) <= n
        BY <2>1, NewestType
    <2>3. backups' \in Seq(Entries) /\ Len(backups') <= Keep
        BY <1>1, <2>1, <2>2, KeepAssumption DEF Gc
    <2>4. TypeOK'
        BY <1>1, <2>3 DEF Gc, IInv, TypeOK, Entries, tree, vault, registry, claude
    <2> QED
        BY <1>1, <2>4, JobsStay DEF Gc
<1>2. CASE RemoveStaleLock
    <2>1. TypeOK'
        BY <1>2 DEF RemoveStaleLock, IInv, TypeOK, tree, vault, registry, claude
    <2> QED
        BY <1>2, <2>1, JobsStay DEF RemoveStaleLock
<1>3. ASSUME NEW a \in Accounts, NEW complete \in BOOLEAN, Login(a, complete) PROVE IInv'
    <2>1. NextToken(a) \in Tokens /\ issued[a] + 1 \in 0..MaxIssued
        BY <1>3, NextTokenType DEF Login, IInv
    <2>2. issued' \in [Accounts -> 0..MaxIssued]
        BY <1>3, <2>1 DEF Login, IInv, TypeOK
    <2>3. TypeOK'
        BY <1>3, <2>1, <2>2, SlipTypes DEF Login, IInv, TypeOK, vault, registry
    <2> QED
        BY <1>3, <2>3, JobsStay DEF Login
<1>4. ASSUME NEW b \in BOOLEAN, SetRunning(b) PROVE IInv'
    <2>1. TypeOK'
        BY <1>4 DEF SetRunning, IInv, TypeOK, tree, vault, registry
    <2> QED
        BY <1>4, <2>1, JobsStay DEF SetRunning
<1>5. CASE Refresh
    <2> DEFINE a == treeCred.acct
    <2>1. a \in Accounts
        BY <1>5 DEF Refresh, IInv, TypeOK, Tokens
    <2>2. NextToken(a) \in Tokens /\ issued[a] + 1 \in 0..MaxIssued
        BY <1>5, <2>1, NextTokenType DEF Refresh, IInv
    <2>3. issued' \in [Accounts -> 0..MaxIssued]
        BY <1>5, <2>2 DEF Refresh, IInv, TypeOK
    <2>4. TypeOK'
        BY <1>5, <2>2, <2>3 DEF Refresh, RefreshSlips, Mark, IInv, TypeOK, vault, registry
    <2> QED
        BY <1>5, <2>4, JobsStay DEF Refresh
<1> QED
    BY <1>1, <1>2, <1>3, <1>4, <1>5

LEMMA StutterTypes == ASSUME IInv, UNCHANGED vars PROVE IInv'
<1>1. TypeOK'
    BY DEF IInv, TypeOK, vars
<1> QED
    BY <1>1, JobsStay DEF vars

LEMMA NextHolds == IInv /\ [Next]_vars => IInv'
<1> SUFFICES ASSUME IInv, [Next]_vars PROVE IInv'
    OBVIOUS
<1>1. ASSUME NEW p \in Procs, Invoke(p) \/ Step(p) \/ Crash(p) PROVE IInv'
    BY <1>1, InvokeTypes, CrashTypes, UseActiveTypes, LockTypes, ExtractTypes, SaveTypes,
       VerifyTypes, CommitTypes, RestoreTypes, RegistryTypes DEF Step
<1> QED
    BY <1>1, OthersTypes, StutterTypes DEF Next

(* Every reachable state has its types, and an invocation captures into,    *)
(* restores from and registers a label that exists.                         *)
THEOREM TypeCorrect == Spec => []TypeOK
<1>1. IInv => TypeOK
    BY DEF IInv
<1> QED
    BY <1>1, InitHolds, NextHolds, PTL DEF Spec

(* mkdir as a lock: of any number of invocations, killed anywhere, at most  *)
(* the one whose directory it is works on the tree and the vault.           *)
THEOREM OneInvocationInTheLock == Spec => []LockExcludes
<1>1. IInv => LockExcludes
    BY DEF IInv
<1> QED
    BY <1>1, InitHolds, NextHolds, PTL DEF Spec

(* ------------------------------------------------------ the parked pairs   *)

(* A step of an invocation leaves the others where they are.                *)
LEMMA OthersStay ==
    ASSUME IInv, NEW p \in Procs, Invoke(p) \/ Step(p) \/ Crash(p)
    PROVE  \A q \in Procs \ {p} : job'[q] = job[q]
<1>0. job \in [Procs -> Jobs]
    BY DEF IInv, TypeOK
<1>1. CASE Invoke(p)
    BY <1>0, <1>1 DEF Invoke, UseCheck, AddCheck, RmCheck
<1>2. CASE Crash(p)
    BY <1>0, <1>2 DEF Crash, Finish
<1>3. CASE Step(p)
    BY <1>0, <1>3 DEF Step, UseActive, Lock, Extract, Save, VerifyOk, VerifyMismatch, CommitId,
                CommitCred, Snapshot, Apply, Load, Activate, Register, Remove, Forget, Goto, Finish
<1> QED
    BY <1>1, <1>2, <1>3

Uninterrupted == Online /\ ~Kills

(* The two halves agree from the check on, and in the vault but for the     *)
(* label whose second half is being written.                                *)
Written(l) == \E p \in Procs : At(p, "commitCred") /\ Target(p) = l

PairInv ==
    /\ \A p \in Procs : job[p].pc \in {"commitId", "commitCred"} => job[p].cred.acct = job[p].id
    /\ \A p \in Procs : At(p, "commitCred") => vid[Target(p)] = job[p].id
    /\ \A l \in Labels : Parked(l) => Written(l) \/ vcred[l].acct = vid[l]

(* A step that writes no pair and neither starts nor stops writing one.     *)
LEMMA PairsStay ==
    ASSUME IInv, PairInv, UNCHANGED vault,
           NEW p \in Procs, \A q \in Procs \ {p} : job'[q] = job[q],
           \/ job'[p] = job[p]
           \/ job[p].pc # "commitCred" /\ job'[p].pc \notin {"commitId", "commitCred"}
    PROVE  PairInv'
<1>1. ASSUME NEW q \in Procs
      PROVE  \/ job'[q] = job[q]
             \/ job[q].pc # "commitCred" /\ job'[q].pc \notin {"commitId", "commitCred"}
    <2>1. CASE q = p
        BY <2>1
    <2>2. CASE q # p
        BY <2>2
    <2> QED
        BY <2>1, <2>2
<1>2. \A l \in Labels : Written(l)' <=> Written(l)
    BY <1>1 DEF Written, At, Target
<1> QED
    BY <1>1, <1>2 DEF PairInv, At, Parked, Target, vault

LEMMA InvokePhase ==
    ASSUME IInv, NEW p \in Procs, Invoke(p) PROVE job'[p].pc \in {"early", "lock"}
<1>1. PICK l \in Labels : \/ \E force \in BOOLEAN : UseCheck(p, l, force)
                          \/ AddCheck(p, l)
                          \/ RmCheck(p, l)
    BY DEF Invoke
<1>2. job \in [Procs -> Jobs]
    BY DEF IInv, TypeOK
<1>3. ASSUME NEW force \in BOOLEAN, UseCheck(p, l, force) PROVE job'[p].pc \in {"early", "lock"}
    BY <1>2, <1>3 DEF UseCheck, Idle
<1>4. CASE AddCheck(p, l) \/ RmCheck(p, l)
    BY <1>2, <1>4 DEF AddCheck, RmCheck, Idle
<1> QED
    BY <1>1, <1>3, <1>4

LEMMA PairStart == Init => PairInv
BY DEF Init, PairInv, Parked, At, Idle

LEMMA CommitKeepsPairs ==
    ASSUME IInv, PairInv, NEW p \in Procs, CommitId(p) \/ CommitCred(p) PROVE PairInv'
<1>1. Target(p) \in Labels /\ InLock(p)
    BY DEF CommitId, CommitCred, At, IInv, Aimed, Capturing, InLock
<1>2. \A q \in Procs \ {p} : ~InLock(q) /\ job'[q] = job[q]
    BY <1>1, OthersStay DEF IInv, LockExcludes, Step
<1>3. CASE CommitId(p)
    <2>1. /\ job'[p].pc = "commitCred" /\ job'[p].id = job[p].id
          /\ job'[p].cred = job[p].cred /\ Target(p)' = Target(p)
        BY <1>3, GotoKeeps DEF CommitId, IInv, PhaseNames, Target
    <2>2. vid' = [vid EXCEPT ![Target(p)] = job[p].id] /\ vcred' = vcred
        BY <1>3 DEF CommitId
    <2>3. \A l \in Labels \ {Target(p)} : vid'[l] = vid[l] /\ ~Written(l)
        BY <1>2, <1>3, <2>2 DEF IInv, TypeOK, Written, CommitId, At, InLock
    <2>4. vid'[Target(p)] = job[p].id
        BY <1>1, <2>2 DEF IInv, TypeOK
    <2>5. ASSUME NEW l \in Labels, Parked(l)' PROVE Written(l)' \/ vcred'[l].acct = vid'[l]
        <3>1. CASE l = Target(p)
            BY <2>1, <3>1 DEF Written, At
        <3>2. CASE l # Target(p)
            <4>1. Parked(l) /\ ~Written(l) /\ vcred'[l] = vcred[l] /\ vid'[l] = vid[l]
                BY <2>2, <2>3, <2>5, <3>2 DEF Parked
            <4> QED
                BY <4>1 DEF PairInv
        <3> QED
            BY <3>1, <3>2
    <2> QED
        BY <1>2, <1>3, <2>1, <2>4, <2>5 DEF PairInv, CommitId, At, InLock
<1>4. CASE CommitCred(p)
    <2>1. job'[p].pc \notin {"commitId", "commitCred"}
        BY <1>4, GotoKeeps DEF CommitCred, IInv, PhaseNames
    <2>2. vcred' = [vcred EXCEPT ![Target(p)] = job[p].cred] /\ vid' = vid
        BY <1>4 DEF CommitCred
    <2>3. /\ vcred'[Target(p)] = job[p].cred
          /\ \A l \in Labels \ {Target(p)} : vcred'[l] = vcred[l]
        BY <1>1, <2>2 DEF IInv, TypeOK
    <2>4. \A l \in Labels \ {Target(p)} : ~Written(l)
        BY <1>2, <1>4 DEF Written, CommitCred, At, InLock
    <2>5. job[p].cred.acct = vid[Target(p)]
        BY <1>4 DEF CommitCred, PairInv, At
    <2>6. \A l \in Labels : Parked(l)' => vcred'[l].acct = vid'[l]
        BY <2>2, <2>3, <2>4, <2>5 DEF PairInv, Parked
    <2> QED
        BY <1>2, <2>1, <2>6 DEF PairInv, At, InLock
<1> QED
    BY <1>3, <1>4

LEMMA PairsHold ==
    ASSUME Uninterrupted
    PROVE  IInv /\ PairInv /\ [Next]_vars => PairInv'
<1> SUFFICES ASSUME IInv, PairInv, [Next]_vars PROVE PairInv'
    OBVIOUS
<1>1. ASSUME NEW p \in Procs, Invoke(p) PROVE PairInv'
    <2>1. job[p].pc = "idle" /\ UNCHANGED vault
        BY <1>1 DEF Invoke, UseCheck, AddCheck, RmCheck, At
    <2>2. job'[p].pc \in {"early", "lock"}
        BY <1>1, InvokePhase
    <2> QED
        BY <1>1, <2>1, <2>2, OthersStay, PairsStay
<1>2. ASSUME NEW p \in Procs, Step(p), ~CommitId(p), ~CommitCred(p), ~Remove(p), ~VerifyOk(p)
      PROVE  PairInv'
    <2>1. UNCHANGED vault /\ job[p].pc # "commitCred"
        BY <1>2 DEF Step, UseActive, Lock, Extract, Save, VerifyMismatch, Snapshot, Apply, Load,
                    Activate, Register, Forget, At
    <2>2. CASE Finish(p)
        <3>1. job'[p].pc = "idle"
            BY <2>2 DEF Finish, Idle, IInv, TypeOK
        <3> QED
            BY <1>2, <2>1, <3>1, OthersStay, PairsStay
    <2>3. CASE ~Finish(p)
        <3>1. CASE Lock(p)
            <4>1. lock = None
                BY <2>3, <3>1 DEF Lock
            <4>2. PICK phase \in {"capture", "remove", "apply"} : Goto(p, phase)
                <5>1. CASE job[p].verb = "add"
                    BY <3>1, <4>1, <5>1 DEF Lock
                <5>2. CASE job[p].verb = "rm"
                    BY <3>1, <4>1, <5>2 DEF Lock
                <5>3. CASE job[p].verb \notin {"add", "rm"}
                    BY <3>1, <4>1, <5>3 DEF Lock
                <5> QED
                    BY <5>1, <5>2, <5>3
            <4> QED
                BY <1>2, <2>1, <4>2, GotoKeeps, OthersStay, PairsStay DEF PhaseNames, IInv
        <3>2. CASE Extract(p) \/ Save(p)
            <4>0. job \in [Procs -> Jobs]
                BY DEF IInv, TypeOK
            <4>1. job'[p].pc \in {"save", "verify"}
                <5>1. CASE Extract(p)
                    BY <2>3, <4>0, <5>1 DEF Extract, Jobs
                <5>2. CASE Save(p)
                    BY <2>3, <4>0, <5>2 DEF Save, Jobs
                <5> QED
                    BY <3>2, <5>1, <5>2
            <4> QED
                BY <1>2, <2>1, <4>1, OthersStay, PairsStay
        <3>3. CASE VerifyMismatch(p) \/ Snapshot(p) \/ Apply(p) \/ Load(p)
            <4>1. PICK phase \in {"apply", "load", "activate"} : Goto(p, phase)
                BY <1>2, <2>3, <3>3 DEF VerifyMismatch, Snapshot, Apply, Load
            <4> QED
                BY <1>2, <2>1, <4>1, GotoKeeps, OthersStay, PairsStay DEF PhaseNames, IInv
        <3> QED
            BY <1>2, <2>3, <3>1, <3>2, <3>3 DEF Step, UseActive, Activate, Register, Forget
    <2> QED
        BY <2>2, <2>3
<1>3. ASSUME NEW p \in Procs, VerifyOk(p) PROVE PairInv'
    <2>1. /\ job'[p].pc = "commitId" /\ job'[p].cred = job[p].cred /\ job'[p].id = job[p].id
          /\ job[p].pc = "verify"
        BY <1>3, GotoKeeps DEF VerifyOk, At, PhaseNames, IInv
    <2>2. job[p].cred.acct = job[p].id
        BY <1>3 DEF VerifyOk, Uninterrupted
    <2>3. UNCHANGED vault
        BY <1>3 DEF VerifyOk
    <2> QED
        BY <1>3, <2>1, <2>2, <2>3, OthersStay
        DEF PairInv, Written, At, Parked, Target, vault, Step
<1>4. ASSUME NEW p \in Procs, Remove(p) PROVE PairInv'
    <2>1. job'[p].pc = "forget" /\ InLock(p)
        BY <1>4, GotoKeeps DEF Remove, At, PhaseNames, IInv, InLock
    <2>2. \A q \in Procs : ~At(q, "commitCred") /\ ~At(q, "commitCred")'
                               /\ (q # p => job'[q] = job[q])
        BY <1>4, <2>1, OthersStay DEF IInv, LockExcludes, InLock, At, Step, Remove
    <2>3. \A l \in Labels : Parked(l)' => Parked(l) /\ vcred'[l] = vcred[l] /\ vid'[l] = vid[l]
        BY <1>4 DEF Remove, Parked, IInv, TypeOK
    <2> QED
        BY <2>1, <2>2, <2>3 DEF PairInv, Written, At
<1>5. ASSUME NEW p \in Procs, Crash(p) PROVE PairInv'
    BY <1>5 DEF Crash, Uninterrupted, IInv, TypeOK
<1>6. CASE \/ \E n \in 0..Keep : Gc(n)
           \/ RemoveStaleLock
           \/ \E a \in Accounts, complete \in BOOLEAN : Login(a, complete)
           \/ \E b \in BOOLEAN : SetRunning(b)
           \/ Refresh \/ UNCHANGED vars
    <2>1. UNCHANGED vault /\ UNCHANGED job
        BY <1>6 DEF Gc, RemoveStaleLock, Login, SetRunning, Refresh, vars, vault
    <2> QED
        BY <2>1 DEF PairInv, Written, At, Parked, Target, vault
<1> QED
    BY <1>1, <1>2, <1>3, <1>4, <1>5, <1>6, CommitKeepsPairs DEF Next

(* "A label only holds a token for its own org": with the org check         *)
(* answering and no kill between the two mv's, whatever a Claude writes to  *)
(* the tree meanwhile and however many invocations run at once.             *)
THEOREM PairsOfOneAccount == ASSUME Uninterrupted PROVE Spec => []PairsMatch
<1>1. Init => IInv /\ PairInv
    BY InitHolds, PairStart
<1>2. IInv /\ PairInv /\ [Next]_vars => (IInv /\ PairInv)'
    BY NextHolds, PairsHold
<1>3. PairInv => PairsMatch
    BY DEF PairInv, PairsMatch, Quiet, Written, At
<1> QED
    BY <1>1, <1>2, <1>3, PTL DEF Spec

(* --------------------------------------------- one invocation at a time    *)

(* Named: no label has been given to another account behind the script's    *)
(* back.  Clean: nor has a working token gone, and the org check answers.   *)
Alone == \A p, q \in Procs : p = q

Named == "account" \notin slips

Clean == Online /\ slips = {}

AllLive == \A l \in Labels : rows[l] # None /\ vcred[l] # NoToken => vcred[l] \in live

Parking(p) == job[p].pc \in {"lock", "capture"} \/ Capturing(p)

(* `use`: the pair it will restore is parked; it parks the tree only when   *)
(* that is the active label's account, and heals only when nothing in the   *)
(* tree is worth parking.                                                   *)
UseKnows(p) ==
    LET j == job[p]
    IN  /\ Parked(j.label)
        /\ j.active = active
        /\ j.heal <=> active = j.label
        /\ ~j.heal /\ Parking(p) => ~Drifted
        /\ At(p, "capture") \/ Capturing(p) => ~j.heal
        /\ At(p, "early") => j.heal
        /\ Clean => rows[j.label] # None
        /\ Clean /\ j.heal => AllLive
        /\ Clean /\ Parking(p) => AllLive \/ treeCred.acct = treeId

(* `add`: the label is free or already the tree's account, no other is.     *)
AddKnows(p) ==
    LET l == job[p].label
    IN  /\ {rows[l], vid[l]} \subseteq {None, treeId}
        /\ Clean => \A m \in Labels \ {l} : rows[m] = None \/ rows[m] # treeId

CaptureKnows(p) ==
    LET j == job[p]
        t == Target(p)
    IN  /\ Capturing(p) => treeId # None /\ j.id = treeId /\ {rows[t], vid[t]} \subseteq {None, treeId}
        /\ j.pc \in {"verify", "commitId", "commitCred"} =>
              j.cred # NoToken /\ treeCred # NoToken /\ (Clean => j.cred = treeCred)
        /\ j.pc \in {"commitId", "commitCred"} => (Online => j.cred.acct = j.id)
        /\ At(p, "commitCred") => vid[t] = treeId
        /\ At(p, "register") =>
              /\ vid[t] = treeId /\ treeId # None
              /\ Clean => AllLive /\ vcred[t] \in live

(* `rm`: the label is not the active one, and its pair goes first.          *)
RmKnows(p) ==
    LET l == job[p].label
    IN  active # l /\ (At(p, "forget") => vcred[l] = NoToken)

(* From the snapshot on, every adopted account's parked credential works.   *)
RestoreKnows(p) ==
    LET j == job[p]
    IN  /\ j.pc \in {"snapshot", "apply", "load", "activate"} /\ Clean => AllLive
        /\ j.pc \in {"load", "activate"} => treeId = vid[j.label]
        /\ At(p, "activate") /\ Clean => treeCred = vcred[j.label]

Knows(p) ==
    ~At(p, "idle") =>
        /\ job[p].verb = "use" => UseKnows(p)
        /\ job[p].verb = "add" => AddKnows(p)
        /\ job[p].verb = "rm" => RmKnows(p)
        /\ CaptureKnows(p)
        /\ RestoreKnows(p)

RegistryInv ==
    /\ \A l \in Labels : rows[l] # None /\ vid[l] # None => vid[l] = rows[l]
    /\ \A l \in Labels : vcred[l] # NoToken => vid[l] # None /\ treeCred # NoToken
    /\ active # None => rows[active] # None
    /\ Online => \A l \in Labels : Parked(l) => vcred[l].acct = vid[l]

(* The token of the tree works; a parked one that does not has been         *)
(* refreshed there.  No account is adopted twice.                           *)
TokenInv ==
    Clean =>
        /\ treeCred \in live \cup {NoToken}
        /\ \A l, m \in Labels : rows[l] # None /\ rows[l] = rows[m] => l = m
        /\ \A l \in Labels : rows[l] # None /\ vcred[l] # NoToken =>
              vcred[l] \in live \/ (treeCred \in live /\ treeCred.acct = rows[l])

SoloInv == (\A p \in Procs : Knows(p)) /\ RegistryInv /\ TokenInv

LEMMA SoloStep ==
    ASSUME Alone, NEW p \in Procs, Knows(p)', RegistryInv', TokenInv'
    PROVE  SoloInv'
BY DEF Alone, SoloInv

LEMMA SoloStart == Init => SoloInv
BY DEF Init, SoloInv, Knows, RegistryInv, TokenInv, At, Idle, Parked

(* The tree, the vault, the registry and Claude stay as they are.           *)
LEMMA WorldStays ==
    ASSUME RegistryInv, TokenInv, UNCHANGED <<tree, vault, registry, claude>>
    PROVE  /\ RegistryInv' /\ TokenInv'
           /\ Clean' = Clean /\ AllLive' = AllLive /\ Drifted' = Drifted
           /\ UNCHANGED <<treeId, treeCred, vid, vcred, rows, active, live, slips>>
           /\ \A l \in Labels : Parked(l)' = Parked(l)
<1>1. UNCHANGED <<treeId, treeCred, vid, vcred, rows, active, live, slips>>
    BY DEF tree, vault, registry, claude
<1>2. Clean' = Clean /\ AllLive' = AllLive /\ Drifted' = Drifted
      /\ \A l \in Labels : Parked(l)' = Parked(l)
    BY <1>1 DEF Clean, AllLive, Drifted, Parked, Differ
<1>3. RegistryInv'
    BY <1>1 DEF RegistryInv, Parked
<1>4. TokenInv'
    BY <1>1 DEF TokenInv, Clean
<1> QED
    BY <1>1, <1>2, <1>3, <1>4

LEMMA FinishSolo ==
    ASSUME Alone, IInv, SoloInv, NEW p \in Procs, job'[p].pc = "idle",
           UNCHANGED <<tree, vault, registry, claude>>
    PROVE  SoloInv'
BY WorldStays, SoloStep DEF Knows, At, SoloInv

LEMMA FinishIdles ==
    ASSUME IInv, NEW p \in Procs, Finish(p) \/ job' = [job EXCEPT ![p] = Idle]
    PROVE  job'[p].pc = "idle"
BY DEF Finish, Idle, IInv, TypeOK

(* While the invariant holds, a dead parked token of an adopted account     *)
(* leaves the tree with the only working one.                               *)
LEMMA NotSoleLive ==
    ASSUME SoloInv, Clean, ~Sole
    PROVE  AllLive
<1> SUFFICES ASSUME NEW l \in Labels, rows[l] # None, vcred[l] # NoToken, vcred[l] \notin live
             PROVE  FALSE
    BY DEF AllLive
<1>1. treeCred \in live /\ treeCred.acct = rows[l]
    BY DEF SoloInv, TokenInv
<1>2. Parked(l)
    BY DEF SoloInv, RegistryInv, Parked
<1> QED
    BY <1>1, <1>2 DEF Sole

LEMMA UseCheckSolo ==
    ASSUME Alone, IInv, SoloInv, Named', NEW p \in Procs, NEW l \in Labels, NEW force \in BOOLEAN,
           UseCheck(p, l, force)
    PROVE  SoloInv'
<1> DEFINE same == active = l /\ treeCred # NoToken
           early == same /\ ~Differ(treeId, vid[l]) /\ ~force
<1>1. /\ job'[p].pc = IF early THEN "early" ELSE "lock"
      /\ job'[p].verb = "use" /\ job'[p].label = l /\ job'[p].active = active
      /\ job'[p].heal = same
      /\ UNCHANGED <<treeId, treeCred, vid, vcred, rows, active, live>>
      /\ slips' = slips \cup UseSlips(l)
    BY DEF UseCheck, IInv, TypeOK, Idle, tree, vault, registry
<1>2. Parked(l) /\ (~Drifted \/ active = l)
    BY <1>1 DEF UseCheck, Named, UseSlips, Mark
<1>3. treeCred # NoToken
    BY <1>2 DEF SoloInv, RegistryInv, Parked
<1>4. Clean' => Clean /\ rows[l] # None /\ (Sole => active # l /\ treeCred.acct = treeId)
    BY <1>1 DEF Clean, UseSlips, Mark
<1>5. Clean' => AllLive \/ (active # l /\ treeCred.acct = treeId)
    BY <1>4, NotSoleLive
<1>6. /\ Parked(l)' /\ (Drifted' <=> Drifted) /\ (AllLive' <=> AllLive)
    BY <1>1, <1>2 DEF Parked, Drifted, Differ, AllLive
<1>7. UseKnows(p)'
    BY <1>1, <1>2, <1>3, <1>4, <1>5, <1>6 DEF UseKnows, Parking, At, Capturing
<1>8. CaptureKnows(p)' /\ RestoreKnows(p)'
    BY <1>1 DEF CaptureKnows, RestoreKnows, Capturing, At
<1>9. Knows(p)'
    BY <1>1, <1>7, <1>8 DEF Knows
<1>10. RegistryInv'
    BY <1>1 DEF SoloInv, RegistryInv, Parked
<1>11. TokenInv'
    BY <1>1, <1>4 DEF SoloInv, TokenInv
<1> QED
    BY <1>9, <1>10, <1>11, SoloStep

LEMMA AddCheckSolo ==
    ASSUME Alone, IInv, SoloInv, Named', NEW p \in Procs, NEW l \in Labels,
           AddCheck(p, l) \/ RmCheck(p, l)
    PROVE  SoloInv'
<1>1. CASE AddCheck(p, l)
    <2>1. /\ job'[p].pc = "lock" /\ job'[p].label = l /\ job'[p].verb = "add"
          /\ UNCHANGED <<treeId, treeCred, vid, vcred, rows, active, live>>
          /\ slips' = slips \cup AddSlips(l)
        BY <1>1 DEF AddCheck, IInv, TypeOK, Idle, tree, vault, registry
    <2>2. {rows[l], vid[l]} \subseteq {None, treeId}
        BY <2>1 DEF Named, AddSlips, Mark
    <2>3. Clean' => Clean /\ \A m \in Labels \ {l} : rows[m] = None \/ rows[m] # treeId
        BY <2>1 DEF Clean, AddSlips, Mark
    <2>4. AddKnows(p)'
        BY <2>1, <2>2, <2>3 DEF AddKnows
    <2>5. CaptureKnows(p)' /\ RestoreKnows(p)'
        BY <2>1 DEF CaptureKnows, RestoreKnows, Capturing, At
    <2>6. Knows(p)'
        BY <2>1, <2>4, <2>5 DEF Knows
    <2>7. RegistryInv'
        BY <2>1 DEF SoloInv, RegistryInv, Parked
    <2>8. TokenInv'
        BY <2>1, <2>3 DEF SoloInv, TokenInv
    <2> QED
        BY <2>6, <2>7, <2>8, SoloStep
<1>2. CASE RmCheck(p, l)
    <2>1. /\ job'[p].pc = "lock" /\ job'[p].label = l /\ job'[p].verb = "rm" /\ active # l
          /\ UNCHANGED <<tree, vault, registry, claude>>
        BY <1>2 DEF RmCheck, IInv, TypeOK, Idle
    <2>2. RegistryInv' /\ TokenInv' /\ UNCHANGED active
        BY <2>1, WorldStays DEF SoloInv
    <2>3. Knows(p)'
        BY <2>1, <2>2 DEF Knows, RmKnows, CaptureKnows, RestoreKnows, Capturing, At
    <2> QED
        BY <2>2, <2>3, SoloStep
<1> QED
    BY <1>1, <1>2

LEMMA LockSolo ==
    ASSUME Alone, IInv, SoloInv, NEW p \in Procs, Lock(p) PROVE SoloInv'
<1>1. At(p, "lock") /\ UNCHANGED <<tree, vault, registry, claude>>
    BY DEF Lock
<1>2. CASE lock # None
    BY <1>1, <1>2, FinishIdles, FinishSolo DEF Lock
<1>3. CASE lock = None
    <2>1. job[p].verb \in {"use", "add", "rm"} /\ job[p].label \in Labels
        BY <1>1, VerbsAt DEF IInv, Aimed, At
    <2>2. PICK phase \in {"capture", "remove", "apply"} :
              /\ Goto(p, phase)
              /\ phase = "capture" => job[p].verb # "rm"
              /\ phase = "capture" /\ job[p].verb = "use" => ~job[p].heal
              /\ phase = "apply" => job[p].verb = "use" /\ (treeCred = NoToken \/ job[p].heal)
        <3>1. CASE job[p].verb = "add"
            BY <1>3, <3>1 DEF Lock
        <3>2. CASE job[p].verb = "rm"
            BY <1>3, <3>2 DEF Lock
        <3>3. CASE job[p].verb = "use"
            BY <1>3, <3>3 DEF Lock
        <3> QED
            BY <2>1, <3>1, <3>2, <3>3
    <2>3. /\ job'[p].pc = phase /\ job'[p].verb = job[p].verb /\ job'[p].label = job[p].label
          /\ job'[p].active = job[p].active /\ job'[p].heal = job[p].heal
        BY <2>2, GotoKeeps DEF IInv, PhaseNames
    <2>4. /\ RegistryInv' /\ TokenInv'
          /\ Clean' = Clean /\ AllLive' = AllLive /\ Drifted' = Drifted
          /\ UNCHANGED <<treeId, treeCred, vid, vcred, rows, active, live, slips>>
          /\ \A l \in Labels : Parked(l)' = Parked(l)
        BY <1>1, WorldStays DEF SoloInv
    <2>5. Knows(p) /\ ~At(p, "idle") /\ Parking(p)
        BY <1>1 DEF SoloInv, At, Parking
    <2>6. job[p].verb = "use" => UseKnows(p)'
        BY <2>1, <2>2, <2>3, <2>4, <2>5 DEF Knows, UseKnows, At, Capturing, Parking
    <2>7. job[p].verb = "add" => AddKnows(p)'
        BY <2>3, <2>4, <2>5 DEF Knows, AddKnows
    <2>8. job[p].verb = "rm" => RmKnows(p)'
        BY <2>2, <2>3, <2>4, <2>5 DEF Knows, RmKnows, At
    <2>9. CaptureKnows(p)'
        BY <2>3 DEF CaptureKnows, Capturing, At
    <2>10. phase = "apply" /\ Clean => AllLive
        <3>1. phase = "apply" => job[p].heal
            BY <2>2, <2>5 DEF Knows, UseKnows, Parked, SoloInv, RegistryInv, IInv, Aimed
        <3> QED
            BY <2>2, <2>5, <3>1 DEF Knows, UseKnows
    <2>11. RestoreKnows(p)'
        BY <2>3, <2>4, <2>10 DEF RestoreKnows, At
    <2>12. Knows(p)'
        BY <2>3, <2>6, <2>7, <2>8, <2>9, <2>11 DEF Knows
    <2> QED
        BY <2>4, <2>12, SoloStep
<1> QED
    BY <1>2, <1>3

(* A step that moves an invocation on and changes nothing that is kept.     *)
LEMMA MovesSolo ==
    ASSUME Alone, IInv, SoloInv, NEW p \in Procs, ~At(p, "idle"),
           UNCHANGED <<tree, vault, registry, claude>>,
           job'[p].verb = job[p].verb, job'[p].label = job[p].label,
           job'[p].active = job[p].active, job'[p].heal = job[p].heal,
           job'[p].pc \in {"capture", "save", "verify", "commitId"} => Parking(p),
           job'[p].pc \in {"lock", "capture", "save", "verify", "commitId", "commitCred"}
              => (job[p].verb = "use" => ~job[p].heal),
           job'[p].pc \notin {"early", "lock", "forget", "commitCred", "register"},
           CaptureKnows(p)', RestoreKnows(p)'
    PROVE  SoloInv'
<1>1. /\ RegistryInv' /\ TokenInv'
      /\ Clean' = Clean /\ AllLive' = AllLive /\ Drifted' = Drifted
      /\ UNCHANGED <<treeId, treeCred, vid, vcred, rows, active, live, slips>>
      /\ \A l \in Labels : Parked(l)' = Parked(l)
    BY WorldStays DEF SoloInv
<1>2. Knows(p) /\ job[p].label \in Labels
    BY DEF SoloInv, IInv, Aimed
<1>3. job[p].verb = "use" => UseKnows(p)'
    BY <1>1, <1>2 DEF Knows, UseKnows, At, Capturing, Parking
<1>4. job[p].verb = "add" => AddKnows(p)'
    BY <1>1, <1>2 DEF Knows, AddKnows
<1>5. job[p].verb = "rm" => RmKnows(p)'
    BY <1>1, <1>2 DEF Knows, RmKnows, At
<1>6. Knows(p)'
    BY <1>3, <1>4, <1>5 DEF Knows
<1> QED
    BY <1>1, <1>6, SoloStep

LEMMA ExtractSolo ==
    ASSUME Alone, IInv, SoloInv, NEW p \in Procs, Extract(p) PROVE SoloInv'
<1>1. At(p, "capture") /\ UNCHANGED <<tree, vault, registry, claude>>
    BY DEF Extract
<1>2. CASE Target(p) = None \/ treeId = None
    BY <1>1, <1>2, FinishIdles, FinishSolo DEF Extract
<1>3. CASE Target(p) # None /\ treeId # None
    <2>1. job[p] \in Jobs /\ job \in [Procs -> Jobs]
        BY DEF IInv, TypeOK
    <2>2. job' = [job EXCEPT ![p] = [job[p] EXCEPT !.pc = "save", !.id = treeId]]
        BY <1>3 DEF Extract
    <2>3. /\ job'[p].pc = "save" /\ job'[p].id = treeId /\ job'[p].verb = job[p].verb
          /\ job'[p].label = job[p].label /\ job'[p].active = job[p].active
          /\ job'[p].heal = job[p].heal
        BY <2>1, <2>2 DEF Jobs
    <2>4. job[p].verb \in {"use", "add"} /\ Target(p) \in Labels
        BY <1>1, <1>3, <2>1, VerbsAt DEF At, Target, Jobs
    <2>5. Knows(p) /\ ~At(p, "idle") /\ Parking(p)
        BY <1>1 DEF SoloInv, At, Parking
    <2>6. {rows[Target(p)], vid[Target(p)]} \subseteq {None, treeId}
        <3>1. CASE job[p].verb = "add"
            BY <2>5, <3>1 DEF Knows, AddKnows, Target
        <3>2. CASE job[p].verb = "use"
            <4>1. ~Drifted /\ Target(p) = active /\ active # None
                BY <1>1, <1>3, <2>5, <3>2 DEF Knows, UseKnows, At, Target
            <4>2. rows[active] # None /\ rows[active] = treeId
                BY <1>3, <4>1 DEF Drifted, Differ, SoloInv, RegistryInv
            <4> QED
                BY <2>4, <4>1, <4>2 DEF SoloInv, RegistryInv
        <3> QED
            BY <2>4, <3>1, <3>2
    <2>7. CaptureKnows(p)'
        BY <1>1, <1>3, <2>3, <2>6
        DEF CaptureKnows, Capturing, At, Target, tree, vault, registry, claude
    <2>8. RestoreKnows(p)'
        BY <2>3 DEF RestoreKnows, At
    <2>9. job[p].verb = "use" => ~job[p].heal
        BY <1>1, <2>5 DEF Knows, UseKnows
    <2> QED
        BY <1>1, <2>3, <2>5, <2>7, <2>8, <2>9, MovesSolo
<1> QED
    BY <1>2, <1>3

LEMMA SaveSolo ==
    ASSUME Alone, IInv, SoloInv, NEW p \in Procs, Save(p) PROVE SoloInv'
<1>1. At(p, "save") /\ UNCHANGED <<tree, vault, registry, claude>>
    BY DEF Save
<1>2. CASE treeCred = NoToken
    BY <1>1, <1>2, FinishIdles, FinishSolo DEF Save
<1>3. CASE treeCred # NoToken
    <2>1. job[p] \in Jobs /\ job \in [Procs -> Jobs]
        BY DEF IInv, TypeOK
    <2>2. job' = [job EXCEPT ![p] = [job[p] EXCEPT !.pc = "verify", !.cred = treeCred]]
        BY <1>3 DEF Save
    <2>3. /\ job'[p].pc = "verify" /\ job'[p].id = job[p].id /\ job'[p].verb = job[p].verb
          /\ job'[p].label = job[p].label /\ job'[p].active = job[p].active
          /\ job'[p].heal = job[p].heal /\ job'[p].cred = treeCred
        BY <2>1, <2>2 DEF Jobs
    <2>4. Knows(p) /\ ~At(p, "idle") /\ Parking(p) /\ Capturing(p)
        BY <1>1 DEF SoloInv, At, Parking, Capturing
    <2>5. CaptureKnows(p)'
        BY <1>1, <1>3, <2>3, <2>4
        DEF Knows, CaptureKnows, Capturing, At, Target, tree, vault, registry, claude
    <2>6. RestoreKnows(p)'
        BY <2>3 DEF RestoreKnows, At
    <2>7. job[p].verb = "use" => ~job[p].heal
        BY <2>4 DEF Knows, UseKnows
    <2> QED
        BY <1>1, <2>3, <2>4, <2>5, <2>6, <2>7, MovesSolo
<1> QED
    BY <1>2, <1>3

LEMMA VerifySolo ==
    ASSUME Alone, IInv, SoloInv, NEW p \in Procs, VerifyOk(p) \/ VerifyMismatch(p) PROVE SoloInv'
<1>1. At(p, "verify") /\ UNCHANGED <<tree, vault, registry, claude>>
    BY DEF VerifyOk, VerifyMismatch
<1>2. Knows(p) /\ ~At(p, "idle") /\ Parking(p) /\ Capturing(p)
    BY <1>1 DEF SoloInv, At, Parking, Capturing
<1>3. job[p].verb = "use" => ~job[p].heal
    BY <1>2 DEF Knows, UseKnows
<1>4. CASE VerifyOk(p)
    <2>1. /\ job'[p].pc = "commitId" /\ job'[p].verb = job[p].verb /\ job'[p].label = job[p].label
          /\ job'[p].active = job[p].active /\ job'[p].heal = job[p].heal
          /\ job'[p].id = job[p].id /\ job'[p].cred = job[p].cred
        BY <1>4, GotoKeeps DEF VerifyOk, IInv, PhaseNames
    <2>2. Online => job[p].cred.acct = job[p].id
        BY <1>4 DEF VerifyOk
    <2>3. CaptureKnows(p)'
        BY <1>1, <1>2, <2>1, <2>2
        DEF Knows, CaptureKnows, Capturing, Clean, At, Target, tree, vault, registry, claude
    <2>4. RestoreKnows(p)'
        BY <2>1 DEF RestoreKnows, At
    <2> QED
        BY <1>1, <1>2, <1>3, <2>1, <2>3, <2>4, MovesSolo
<1>5. CASE VerifyMismatch(p) /\ job[p].verb = "add"
    BY <1>1, <1>5, FinishIdles, FinishSolo DEF VerifyMismatch
<1>6. CASE VerifyMismatch(p) /\ job[p].verb # "add"
    <2>1. job[p].verb = "use"
        BY <1>1, <1>6, VerbsAt DEF At
    <2>2. /\ job'[p].pc = "apply" /\ job'[p].verb = job[p].verb /\ job'[p].label = job[p].label
          /\ job'[p].active = job[p].active /\ job'[p].heal = job[p].heal
        BY <1>6, GotoKeeps DEF VerifyMismatch, IInv, PhaseNames
    \* The only working token of the active account would bill its org.
    <2>3. Clean => AllLive
        <3>1. job[p].id = treeId /\ (Clean => job[p].cred = treeCred)
            BY <1>1, <1>2 DEF Knows, CaptureKnows, At
        <3>2. Clean => treeCred.acct # treeId
            BY <1>6, <3>1 DEF VerifyMismatch
        <3> QED
            BY <1>2, <2>1, <3>2 DEF Knows, UseKnows
    <2>4. AllLive' = AllLive /\ Clean' = Clean
        BY <1>1, WorldStays DEF SoloInv
    <2>5. CaptureKnows(p)' /\ RestoreKnows(p)'
        BY <2>2, <2>3, <2>4 DEF CaptureKnows, RestoreKnows, Capturing, At
    <2> QED
        BY <1>1, <1>2, <2>2, <2>5, MovesSolo
<1> QED
    BY <1>4, <1>5, <1>6

(* A label's identity is rewritten to what it was, or written for the first *)
(* time.                                                                    *)
LEMMA CommitIdSolo ==
    ASSUME Alone, IInv, SoloInv, NEW p \in Procs, CommitId(p) PROVE SoloInv'
<1> DEFINE t == Target(p)
<1>1. /\ At(p, "commitId") /\ UNCHANGED <<treeId, treeCred, vcred, rows, active, live, slips>>
      /\ vid' = [vid EXCEPT ![t] = job[p].id] /\ Goto(p, "commitCred")
    BY DEF CommitId, tree, registry, claude
<1>2. /\ job'[p].pc = "commitCred" /\ job'[p].verb = job[p].verb /\ job'[p].label = job[p].label
      /\ job'[p].active = job[p].active /\ job'[p].heal = job[p].heal
      /\ job'[p].id = job[p].id /\ job'[p].cred = job[p].cred /\ Target(p)' = t
    BY <1>1, GotoKeeps DEF IInv, PhaseNames, Target
<1>3. Knows(p) /\ ~At(p, "idle") /\ Parking(p) /\ Capturing(p) /\ t \in Labels
    BY <1>1 DEF SoloInv, At, Parking, Capturing, IInv, Aimed
<1>4. job[p].id = treeId /\ treeId # None /\ {rows[t], vid[t]} \subseteq {None, treeId}
    BY <1>3 DEF Knows, CaptureKnows
<1>5. vid'[t] = treeId /\ \A m \in Labels \ {t} : vid'[m] = vid[m]
    BY <1>1, <1>3, <1>4 DEF IInv, TypeOK
<1>6. \A m \in Labels : Parked(m)' <=> Parked(m)
    BY <1>1, <1>4, <1>5 DEF Parked, SoloInv, RegistryInv
<1>7. (Clean' <=> Clean) /\ (AllLive' <=> AllLive) /\ (Drifted' <=> Drifted)
    BY <1>1 DEF Clean, AllLive, Drifted, Differ
<1>8. RegistryInv'
    <2>1. \A m \in Labels : rows[m] # None /\ vid'[m] # None => vid'[m] = rows[m]
        BY <1>4, <1>5 DEF SoloInv, RegistryInv
    <2>2. \A m \in Labels : vcred[m] # NoToken => vid'[m] # None /\ treeCred # NoToken
        BY <1>4, <1>5 DEF SoloInv, RegistryInv
    <2>3. Online => \A m \in Labels : Parked(m)' => vcred[m].acct = vid'[m]
        BY <1>4, <1>5, <1>6 DEF SoloInv, RegistryInv, Parked
    <2>4. active # None => rows[active] # None
        BY DEF SoloInv, RegistryInv
    <2> QED
        BY <1>1, <2>1, <2>2, <2>3, <2>4 DEF RegistryInv
<1>9. TokenInv'
    BY <1>1, <1>7 DEF SoloInv, TokenInv
<1>10. Knows(p)'
    <2>1. job[p].verb = "use" => UseKnows(p)'
        <3>1. job[p].label \in Labels
            BY <1>3 DEF IInv, Aimed
        <3> QED
            BY <1>1, <1>2, <1>3, <1>6, <1>7, <3>1 DEF Knows, UseKnows, At, Capturing, Parking
    <2>2. job[p].verb = "add" => AddKnows(p)'
        BY <1>1, <1>2, <1>3, <1>5, <1>7 DEF Knows, AddKnows, Target
    <2>3. job[p].verb # "rm"
        BY <1>1, VerbsAt DEF At
    <2>4. CaptureKnows(p)'
        BY <1>1, <1>2, <1>3, <1>4, <1>5, <1>7 DEF Knows, CaptureKnows, Capturing, At
    <2>5. RestoreKnows(p)'
        BY <1>2 DEF RestoreKnows, At
    <2> QED
        BY <1>2, <2>1, <2>2, <2>3, <2>4, <2>5 DEF Knows
<1> QED
    BY <1>8, <1>9, <1>10, SoloStep

(* The credential parked is the tree's, which works; were any other parked  *)
(* one dead, the tree's would be of its account and not of this one.        *)
LEMMA CommitCredSolo ==
    ASSUME Alone, IInv, SoloInv, NEW p \in Procs, CommitCred(p) PROVE SoloInv'
<1> DEFINE t == Target(p)
<1>1. /\ At(p, "commitCred") /\ UNCHANGED <<treeId, treeCred, vid, rows, active, live, slips>>
      /\ vcred' = [vcred EXCEPT ![t] = job[p].cred]
      /\ Goto(p, IF job[p].verb = "add" THEN "register" ELSE "snapshot")
    BY DEF CommitCred, tree, registry, claude
<1>2. job[p].verb \in {"use", "add"}
    BY <1>1, VerbsAt DEF At
<1>3. /\ job'[p].pc = IF job[p].verb = "add" THEN "register" ELSE "snapshot"
      /\ job'[p].verb = job[p].verb /\ job'[p].label = job[p].label
      /\ job'[p].active = job[p].active /\ job'[p].heal = job[p].heal /\ Target(p)' = t
    <2>1. (IF job[p].verb = "add" THEN "register" ELSE "snapshot") \in PhaseNames
        BY DEF PhaseNames
    <2> QED
        BY <1>1, <2>1, GotoKeeps DEF IInv, Target
<1>4. Knows(p) /\ ~At(p, "idle") /\ Parking(p) /\ Capturing(p) /\ t \in Labels
    BY <1>1 DEF SoloInv, At, Parking, Capturing, IInv, Aimed
<1>5. /\ job[p].id = treeId /\ treeId # None /\ {rows[t], vid[t]} \subseteq {None, treeId}
      /\ job[p].cred # NoToken /\ treeCred # NoToken /\ (Clean => job[p].cred = treeCred)
      /\ (Online => job[p].cred.acct = treeId) /\ vid[t] = treeId
    BY <1>1, <1>4 DEF Knows, CaptureKnows, At
<1>6. vcred'[t] = job[p].cred /\ \A m \in Labels \ {t} : vcred'[m] = vcred[m]
    BY <1>1, <1>4 DEF IInv, TypeOK
<1>7. (Clean' <=> Clean) /\ (Drifted' <=> Drifted)
    BY <1>1 DEF Clean, Drifted, Differ
<1>8. Clean => treeCred \in live /\ treeCred.acct = treeId
    BY <1>5 DEF SoloInv, TokenInv, Clean
<1>9. Clean => AllLive' /\ vcred'[t] \in live
    <2> SUFFICES ASSUME Clean, NEW m \in Labels, rows[m] # None, vcred'[m] # NoToken,
                        vcred'[m] \notin live
                 PROVE  FALSE
        BY <1>1, <1>5, <1>6, <1>8 DEF AllLive
    <2>1. m # t /\ vcred[m] # NoToken /\ vcred[m] \notin live
        BY <1>5, <1>6, <1>8
    <2>2. treeCred.acct = rows[m]
        BY <2>1 DEF SoloInv, TokenInv
    <2>3. CASE job[p].verb = "add"
        BY <1>4, <1>8, <2>1, <2>2, <2>3 DEF Knows, AddKnows, Target
    <2>4. CASE job[p].verb = "use"
        <3>1. ~Drifted /\ t = active
            BY <1>1, <1>4, <2>4 DEF Knows, UseKnows, Target
        <3>2. rows[t] # None
            BY <1>4, <3>1, NoneAssumption DEF SoloInv, RegistryInv
        <3>3. rows[t] = treeId
            BY <1>5, <3>2
        <3> QED
            BY <1>4, <1>8, <2>1, <2>2, <3>2, <3>3 DEF SoloInv, TokenInv
    <2> QED
        BY <1>2, <2>3, <2>4
<1>10. RegistryInv'
    <2>1. \A m \in Labels : vcred'[m] # NoToken => vid[m] # None /\ treeCred # NoToken
        BY <1>5, <1>6 DEF SoloInv, RegistryInv
    <2>2. Online => \A m \in Labels : vid[m] # None /\ vcred'[m] # NoToken => vcred'[m].acct = vid[m]
        BY <1>5, <1>6 DEF SoloInv, RegistryInv, Parked
    <2> QED
        BY <1>1, <2>1, <2>2 DEF SoloInv, RegistryInv, Parked
<1>11. TokenInv'
    <2>1. SUFFICES ASSUME Clean' PROVE TokenInv'
        BY DEF TokenInv
    <2>2. Clean /\ AllLive' /\ treeCred \in live
        BY <1>7, <1>8, <1>9, <2>1
    <2>3. \A l, m \in Labels : rows[l] # None /\ rows[l] = rows[m] => l = m
        BY <2>2 DEF SoloInv, TokenInv
    <2> QED
        BY <1>1, <2>2, <2>3 DEF TokenInv, AllLive
<1>12. \A m \in Labels : Parked(m) => Parked(m)'
    BY <1>1, <1>5, <1>6 DEF Parked
<1>13. Knows(p)'
    <2>0. job[p].label \in Labels
        BY <1>4 DEF IInv, Aimed
    <2>1. job[p].verb = "use" => UseKnows(p)'
        BY <2>0, <1>1, <1>3, <1>4, <1>7, <1>9, <1>12 DEF Knows, UseKnows, At, Capturing, Parking
    <2>2. job[p].verb = "add" => AddKnows(p)'
        BY <1>1, <1>3, <1>4, <1>7 DEF Knows, AddKnows
    <2>3. CaptureKnows(p)'
        BY <1>1, <1>2, <1>3, <1>5, <1>7, <1>9 DEF CaptureKnows, Capturing, At
    <2>4. RestoreKnows(p)'
        BY <1>2, <1>3, <1>7, <1>9 DEF RestoreKnows, At
    <2> QED
        BY <1>2, <1>3, <2>1, <2>2, <2>3, <2>4 DEF Knows
<1> QED
    BY <1>10, <1>11, <1>13, SoloStep

LEMMA SnapshotSolo ==
    ASSUME Alone, IInv, SoloInv, NEW p \in Procs, Snapshot(p) PROVE SoloInv'
<1>1. At(p, "snapshot") /\ Goto(p, "apply") /\ UNCHANGED <<tree, vault, registry, claude>>
    BY DEF Snapshot
<1>2. /\ job'[p].pc = "apply" /\ job'[p].verb = job[p].verb /\ job'[p].label = job[p].label
      /\ job'[p].active = job[p].active /\ job'[p].heal = job[p].heal
    BY <1>1, GotoKeeps DEF IInv, PhaseNames
<1>3. AllLive' = AllLive /\ Clean' = Clean
    BY <1>1, WorldStays DEF SoloInv
<1>4. CaptureKnows(p)' /\ RestoreKnows(p)'
    BY <1>1, <1>2, <1>3 DEF SoloInv, Knows, CaptureKnows, RestoreKnows, Capturing, At
<1> QED
    BY <1>1, <1>2, <1>4, MovesSolo DEF At

(* From here on the registry follows only at reg-activate: a kill leaves    *)
(* what `status` warns of, and every parked credential works.               *)
LEMMA ApplySolo ==
    ASSUME Alone, IInv, SoloInv, NEW p \in Procs, Apply(p) PROVE SoloInv'
<1> DEFINE l == job[p].label
<1>1. /\ At(p, "apply") /\ UNCHANGED <<treeCred, vid, vcred, rows, active, live, slips>>
      /\ treeId' = vid[l] /\ Goto(p, "load")
    BY DEF Apply, vault, registry, claude
<1>2. /\ job'[p].pc = "load" /\ job'[p].verb = job[p].verb /\ job'[p].label = l
      /\ job'[p].active = job[p].active /\ job'[p].heal = job[p].heal /\ job[p].verb = "use"
    BY <1>1, GotoKeeps, VerbsAt DEF IInv, PhaseNames, At
<1>3. Knows(p) /\ ~At(p, "idle")
    BY <1>1 DEF SoloInv, At
<1>4. (Clean' <=> Clean) /\ (AllLive' <=> AllLive)
    BY <1>1 DEF Clean, AllLive
<1>5. UseKnows(p)'
    BY <1>1, <1>2, <1>3, <1>4 DEF Knows, UseKnows, Parked, At, Capturing, Parking
<1>6. CaptureKnows(p)' /\ RestoreKnows(p)'
    BY <1>1, <1>2, <1>3, <1>4 DEF Knows, CaptureKnows, RestoreKnows, Capturing, At
<1>7. Knows(p)'
    BY <1>2, <1>5, <1>6 DEF Knows
<1>8. RegistryInv' /\ TokenInv'
    BY <1>1, <1>4 DEF SoloInv, RegistryInv, TokenInv, Parked
<1> QED
    BY <1>7, <1>8, SoloStep

LEMMA LoadSolo ==
    ASSUME Alone, IInv, SoloInv, NEW p \in Procs, Load(p) PROVE SoloInv'
<1> DEFINE l == job[p].label
<1>0. At(p, "load") /\ job[p].verb = "use" /\ l \in Labels
    BY VerbsAt DEF Load, At, IInv, Aimed
<1>1. Knows(p) /\ ~At(p, "idle") /\ vcred[l] # NoToken
    BY <1>0 DEF SoloInv, Knows, UseKnows, Parked, At
<1>2. /\ UNCHANGED <<treeId, vid, vcred, rows, active, live, slips>>
      /\ treeCred' = vcred[l] /\ Goto(p, "activate")
    BY <1>1 DEF Load, vault, registry, claude
<1>3. /\ job'[p].pc = "activate" /\ job'[p].verb = "use" /\ job'[p].label = l
      /\ job'[p].active = job[p].active /\ job'[p].heal = job[p].heal
    BY <1>0, <1>2, GotoKeeps DEF IInv, PhaseNames
<1>4. (Clean' <=> Clean) /\ (AllLive' <=> AllLive)
    BY <1>2 DEF Clean, AllLive
<1>5. Clean => AllLive /\ rows[l] # None
    BY <1>0, <1>1 DEF Knows, UseKnows, RestoreKnows, At
<1>6. UseKnows(p)'
    BY <1>0, <1>1, <1>2, <1>3, <1>4 DEF Knows, UseKnows, Parked, At, Capturing, Parking
<1>7. CaptureKnows(p)' /\ RestoreKnows(p)'
    BY <1>0, <1>1, <1>2, <1>3, <1>4, <1>5 DEF Knows, CaptureKnows, RestoreKnows, Capturing, At
<1>8. Knows(p)'
    BY <1>3, <1>6, <1>7 DEF Knows
<1>9. RegistryInv'
    BY <1>1, <1>2 DEF SoloInv, RegistryInv, Parked
<1>10. TokenInv'
    BY <1>0, <1>1, <1>2, <1>4, <1>5 DEF SoloInv, TokenInv, AllLive
<1> QED
    BY <1>8, <1>9, <1>10, SoloStep

LEMMA ActivateSolo ==
    ASSUME Alone, IInv, SoloInv, NEW p \in Procs, Activate(p) PROVE SoloInv'
<1>1. /\ At(p, "activate") /\ UNCHANGED <<treeId, treeCred, vid, vcred, rows, live, slips>>
      /\ active' = (IF rows[job[p].label] # None THEN job[p].label ELSE active)
      /\ job'[p].pc = "idle"
    BY FinishIdles DEF Activate, tree, vault, claude
<1>2. Knows(p)'
    BY <1>1 DEF Knows, At
<1>3. RegistryInv' /\ TokenInv'
    BY <1>1 DEF SoloInv, RegistryInv, TokenInv, Clean, Parked
<1> QED
    BY <1>2, <1>3, SoloStep

LEMMA RegisterSolo ==
    ASSUME Alone, IInv, SoloInv, NEW p \in Procs, Register(p) PROVE SoloInv'
<1> DEFINE l == job[p].label
<1>1. /\ At(p, "register") /\ UNCHANGED <<treeId, treeCred, vid, vcred, live, slips>>
      /\ rows' = [rows EXCEPT ![l] = vid[l]] /\ active' = l /\ job'[p].pc = "idle"
    BY FinishIdles DEF Register, tree, vault, claude
<1>2. l \in Labels /\ job[p].verb = "add" /\ Target(p) = l
    BY <1>1, VerbsAt DEF At, IInv, Aimed, Target
<1>3. /\ vid[l] = treeId /\ treeId # None
      /\ Clean => AllLive /\ vcred[l] \in live
      /\ Clean => \A m \in Labels \ {l} : rows[m] = None \/ rows[m] # treeId
    BY <1>1, <1>2 DEF SoloInv, Knows, CaptureKnows, AddKnows, At
<1>4. rows'[l] = treeId /\ \A m \in Labels \ {l} : rows'[m] = rows[m]
    BY <1>1, <1>2, <1>3 DEF IInv, TypeOK
<1>5. Knows(p)'
    BY <1>1 DEF Knows, At
<1>6. RegistryInv'
    BY <1>1, <1>2, <1>3, <1>4 DEF SoloInv, RegistryInv, Parked
<1>7. TokenInv'
    <2>1. SUFFICES ASSUME Clean' PROVE TokenInv'
        BY DEF TokenInv
    <2>2. Clean
        BY <1>1, <2>1 DEF Clean
    <2>3. \A m \in Labels : rows'[m] # None /\ vcred[m] # NoToken => vcred[m] \in live
        BY <1>3, <1>4, <2>2 DEF AllLive
    <2>4. \A k, m \in Labels : rows'[k] # None /\ rows'[k] = rows'[m] => k = m
        BY <1>3, <1>4, <2>2 DEF SoloInv, TokenInv
    <2> QED
        BY <1>1, <2>2, <2>3, <2>4 DEF SoloInv, TokenInv
<1> QED
    BY <1>5, <1>6, <1>7, SoloStep

LEMMA RemoveSolo ==
    ASSUME Alone, IInv, SoloInv, NEW p \in Procs, Remove(p) \/ Forget(p) PROVE SoloInv'
<1> DEFINE l == job[p].label
<1>1. l \in Labels /\ job[p].verb = "rm" /\ active # l
    BY VerbsAt DEF Remove, Forget, At, IInv, Aimed, SoloInv, Knows, RmKnows
<1>2. CASE Remove(p)
    <2>1. /\ UNCHANGED <<treeId, treeCred, rows, active, live, slips>> /\ Goto(p, "forget")
          /\ vid' = [vid EXCEPT ![l] = None] /\ vcred' = [vcred EXCEPT ![l] = NoToken]
        BY <1>2 DEF Remove, tree, registry, claude
    <2>2. job'[p].pc = "forget" /\ job'[p].verb = "rm" /\ job'[p].label = l
        BY <1>1, <2>1, GotoKeeps DEF IInv, PhaseNames
    <2>3. /\ vid'[l] = None /\ vcred'[l] = NoToken
          /\ \A m \in Labels \ {l} : vid'[m] = vid[m] /\ vcred'[m] = vcred[m]
        BY <1>1, <2>1 DEF IInv, TypeOK
    <2>4. Knows(p)'
        BY <1>1, <2>1, <2>2, <2>3 DEF Knows, RmKnows, CaptureKnows, RestoreKnows, Capturing, At
    <2>5. RegistryInv' /\ TokenInv'
        BY <1>1, <2>1, <2>3 DEF SoloInv, RegistryInv, TokenInv, Clean, Parked
    <2> QED
        BY <2>4, <2>5, SoloStep
<1>3. CASE Forget(p)
    <2>1. /\ At(p, "forget") /\ UNCHANGED <<treeId, treeCred, vid, vcred, live, slips>>
          /\ rows' = [rows EXCEPT ![l] = None] /\ active' = active
          /\ job'[p].pc = "idle"
        BY <1>1, <1>3, FinishIdles DEF Forget, tree, vault, claude
    <2>2. rows'[l] = None /\ \A m \in Labels \ {l} : rows'[m] = rows[m]
        BY <1>1, <2>1 DEF IInv, TypeOK
    <2>3. Knows(p)'
        BY <2>1 DEF Knows, At
    <2>4. RegistryInv' /\ TokenInv'
        BY <1>1, <2>1, <2>2 DEF SoloInv, RegistryInv, TokenInv, Clean, Parked
    <2> QED
        BY <2>3, <2>4, SoloStep
<1> QED
    BY <1>2, <1>3

LEMMA UseActiveSolo ==
    ASSUME Alone, IInv, SoloInv, NEW p \in Procs, UseActive(p) PROVE SoloInv'
<1> DEFINE l == job[p].label
<1>1. /\ At(p, "early") /\ UNCHANGED <<treeId, vid, vcred, rows, active, live, slips>>
      /\ treeCred' = (IF vcred[l] # NoToken THEN vcred[l] ELSE treeCred)
      /\ job'[p].pc = "idle"
    BY FinishIdles DEF UseActive, vault, registry, claude
<1>2. l \in Labels /\ job[p].verb = "use"
    BY <1>1 DEF At, IInv, Aimed, Phases, TypeOK, Jobs
<1>3. Knows(p) /\ ~At(p, "idle")
    BY <1>1 DEF SoloInv, At
<1>4. vcred[l] # NoToken /\ (Clean => rows[l] # None /\ AllLive)
    BY <1>1, <1>2, <1>3 DEF Knows, UseKnows, Parked
<1>5. Knows(p)'
    BY <1>1 DEF Knows, At
<1>6. RegistryInv'
    BY <1>1, <1>4 DEF SoloInv, RegistryInv, Parked
<1>7. TokenInv'
    BY <1>1, <1>2, <1>4 DEF SoloInv, TokenInv, AllLive, Clean
<1> QED
    BY <1>5, <1>6, <1>7, SoloStep

(* Steps that no invocation takes part in and that change no login.         *)
LEMMA OthersSolo ==
    ASSUME SoloInv, UNCHANGED <<tree, vault, registry, job, live, slips>>
    PROVE  SoloInv'
<1>1. UNCHANGED <<treeId, treeCred, vid, vcred, rows, active, job, live, slips>>
    BY DEF tree, vault, registry
<1>2. \A p \in Procs : Knows(p)'
    BY <1>1 DEF SoloInv, Knows, UseKnows, AddKnows, RmKnows, CaptureKnows, RestoreKnows, Parked,
                Drifted, Differ, At, Capturing, Parking, Target, Clean, AllLive
<1>3. RegistryInv' /\ TokenInv'
    BY <1>1 DEF SoloInv, RegistryInv, TokenInv, Clean, Parked
<1> QED
    BY <1>2, <1>3 DEF SoloInv

(* Claude gets a token while no invocation runs, or beside one that Clean   *)
(* then no longer speaks of.                                                *)
LEMMA TokenSolo ==
    ASSUME IInv, SoloInv, UNCHANGED <<vault, registry, job>>, treeCred' # NoToken,
           Quiet \/ (UNCHANGED treeId /\ ~Clean'), TokenInv'
    PROVE  SoloInv'
<1>1. UNCHANGED <<vid, vcred, rows, active, job>>
    BY DEF vault, registry
<1>2. RegistryInv'
    BY <1>1 DEF SoloInv, RegistryInv, Parked
<1>3. ASSUME NEW p \in Procs PROVE Knows(p)'
    <2>1. CASE Quiet
        BY <1>1, <2>1 DEF Quiet, Knows, At
    <2>2. CASE UNCHANGED treeId /\ ~Clean'
        BY <1>1, <2>2 DEF SoloInv, Knows, UseKnows, AddKnows, RmKnows, CaptureKnows, RestoreKnows,
                          Parked, Drifted, Differ, At, Capturing, Parking, Target
    <2> QED
        BY <2>1, <2>2
<1> QED
    BY <1>2, <1>3 DEF SoloInv

LEMMA LoginSolo ==
    ASSUME IInv, SoloInv, Named', NEW a \in Accounts, NEW complete \in BOOLEAN, Login(a, complete)
    PROVE  SoloInv'
<1>1. /\ treeCred' = NextToken(a) /\ live' = live \cup {NextToken(a)}
      /\ treeId' = (IF complete THEN a ELSE treeId)
      /\ slips' = slips \cup LoginSlips(complete)
      /\ UNCHANGED <<vault, registry, job>>
    BY DEF Login
<1>2. NextToken(a) \in Tokens /\ NextToken(a) # NoToken
    BY NextTokenType, NoneAssumption DEF Login, IInv, NextToken, NoToken
<1>3. Quiet \/ (UNCHANGED treeId /\ ~Clean')
    BY <1>1 DEF Named, Clean, LoginSlips, Mark
<1>4. Clean' => Clean /\ ~Sole
    BY <1>1 DEF Clean, LoginSlips, Mark
<1>5. TokenInv'
    <2>1. SUFFICES ASSUME Clean' PROVE TokenInv'
        BY DEF TokenInv
    <2>2. AllLive /\ \A l, m \in Labels : rows[l] # None /\ rows[l] = rows[m] => l = m
        BY <1>4, <2>1, NotSoleLive DEF SoloInv, TokenInv
    <2> QED
        BY <1>1, <2>2 DEF TokenInv, AllLive, vault, registry
<1> QED
    BY <1>1, <1>2, <1>3, <1>5, TokenSolo

LEMMA RefreshSolo ==
    ASSUME IInv, SoloInv, Named', Refresh
    PROVE  SoloInv'
<1> DEFINE a == treeCred.acct
           new == NextToken(a)
<1>1. /\ treeCred \in live /\ treeCred' = new /\ live' = (live \ {treeCred}) \cup {new}
      /\ slips' = slips \cup RefreshSlips
      /\ UNCHANGED <<treeId, vault, registry, job>>
    BY DEF Refresh
<1>2. a \in Accounts
    BY <1>1 DEF IInv, TypeOK, Tokens
<1>3. new \in Tokens /\ new # NoToken /\ new.acct = a
    BY <1>2, NextTokenType, NoneAssumption DEF Refresh, IInv, NextToken, NoToken
<1> HIDE DEF new
<1>4. Quiet \/ ~Clean'
    BY <1>1 DEF Clean, RefreshSlips, Mark
<1>5. TokenInv'
    <2>1. SUFFICES ASSUME Clean' PROVE TokenInv'
        BY DEF TokenInv
    <2>2. Clean
        BY <1>1, <2>1 DEF Clean
    <2>3. UNCHANGED <<vid, vcred, rows>>
        BY <1>1 DEF vault, registry
    <2>4. ASSUME NEW l \in Labels, rows[l] # None, vcred[l] # NoToken
          PROVE  vcred[l] \in live' \/ (new \in live' /\ new.acct = rows[l])
        <3>1. vcred[l].acct = rows[l]
            BY <2>2, <2>4 DEF SoloInv, RegistryInv, Parked, Clean
        <3>2. vcred[l] \in live \/ treeCred.acct = rows[l]
            BY <2>2, <2>4 DEF SoloInv, TokenInv
        <3> QED
            BY <1>1, <1>3, <3>1, <3>2
    <2>5. \A l, m \in Labels : rows[l] # None /\ rows[l] = rows[m] => l = m
        BY <2>2 DEF SoloInv, TokenInv
    <2> QED
        BY <1>1, <2>3, <2>4, <2>5 DEF TokenInv
<1> QED
    BY <1>1, <1>3, <1>4, <1>5, TokenSolo

(* A slip is not undone.                                                    *)
LEMMA SlipsStay == IInv /\ [Next]_vars => slips \subseteq slips'
BY DEF Next, Invoke, UseCheck, AddCheck, RmCheck, Step, UseActive, Lock, Extract, Save, VerifyOk,
       VerifyMismatch, CommitId, CommitCred, Snapshot, Apply, Load, Activate, Register, Remove,
       Forget, Crash, Gc, RemoveStaleLock, Login, SetRunning, Refresh, vars, claude

LEMMA SoloHolds ==
    ASSUME Alone
    PROVE  IInv /\ (Named => SoloInv) /\ [Next]_vars => (Named => SoloInv)'
<1> SUFFICES ASSUME IInv, Named => SoloInv, [Next]_vars, Named' PROVE SoloInv'
    OBVIOUS
<1>0. SoloInv
    BY SlipsStay DEF Named
<1>1. ASSUME NEW p \in Procs, Invoke(p) PROVE SoloInv'
    BY <1>0, <1>1, UseCheckSolo, AddCheckSolo DEF Invoke
<1>2. ASSUME NEW p \in Procs, Step(p) PROVE SoloInv'
    BY <1>0, <1>2, UseActiveSolo, LockSolo, ExtractSolo, SaveSolo, VerifySolo, CommitIdSolo,
       CommitCredSolo, SnapshotSolo, ApplySolo, LoadSolo, ActivateSolo, RegisterSolo, RemoveSolo
    DEF Step
<1>3. ASSUME NEW p \in Procs, Crash(p) PROVE SoloInv'
    BY <1>0, <1>3, FinishIdles, FinishSolo DEF Crash
<1>4. CASE (\E n \in 0..Keep : Gc(n)) \/ RemoveStaleLock \/ (\E b \in BOOLEAN : SetRunning(b))
           \/ UNCHANGED vars
    <2>1. UNCHANGED <<tree, vault, registry, job, live, slips>>
        BY <1>4 DEF Gc, RemoveStaleLock, SetRunning, vars, tree, vault, registry, claude
    <2> QED
        BY <1>0, <2>1, OthersSolo
<1>5. ASSUME NEW a \in Accounts, NEW complete \in BOOLEAN, Login(a, complete) PROVE SoloInv'
    BY <1>0, <1>5, LoginSolo
<1>6. CASE Refresh
    BY <1>0, <1>6, RefreshSolo
<1> QED
    BY <1>1, <1>2, <1>3, <1>4, <1>5, <1>6 DEF Next

LEMMA SoloAlways == ASSUME Alone PROVE Spec => [](IInv /\ (Named => SoloInv))
<1>1. Init => IInv /\ (Named => SoloInv)
    BY InitHolds, SoloStart
<1>2. IInv /\ (Named => SoloInv) /\ [Next]_vars => (IInv /\ (Named => SoloInv))'
    BY NextHolds, SoloHolds
<1> QED
    BY <1>1, <1>2, PTL DEF Spec

(* With one invocation at a time and up to the first account slip, a label  *)
(* never comes to hold another account than the one it was adopted for,     *)
(* whether or not Anthropic can be asked, wherever invocations are killed   *)
(* and whatever tokens Claude refreshes beside or between them.             *)
THEOREM LabelsKeepTheirAccount == ASSUME Alone PROVE Spec => []LabelsTrue
<1>1. (Named => SoloInv) => LabelsTrue
    BY DEF SoloInv, RegistryInv, LabelsTrue, Named
<1> QED
    BY <1>1, SoloAlways, PTL

(* A killed invocation's pairs agree too, as long as the org check answers: *)
(* between the two mv's the identity is rewritten to what it was.           *)
THEOREM PairsSurviveKills ==
    ASSUME Alone, Online PROVE Spec => [](Named => PairsMatch)
<1>1. (Named => SoloInv) => (Named => PairsMatch)
    BY DEF SoloInv, RegistryInv, PairsMatch
<1> QED
    BY <1>1, SoloAlways, PTL

(* No account that was adopted is lost: up to the first slip a token of it  *)
(* that works is in the tree or in the vault, whatever is killed when.      *)
THEOREM NoLoginLost == ASSUME Alone, Online PROVE Spec => []LoginsKept
<1>1. IInv /\ (Named => SoloInv) => LoginsKept
    <2> SUFFICES ASSUME IInv, SoloInv, Clean, NEW l \in Labels, rows[l] # None, Parked(l)
                 PROVE  \E t \in live : t.acct = rows[l] /\ Kept(t)
        BY DEF LoginsKept, Clean, Named
    <2>1. vcred[l] # NoToken /\ vcred[l].acct = rows[l]
        BY DEF SoloInv, RegistryInv, Parked, Clean
    <2>2. CASE vcred[l] \in live
        BY <2>1, <2>2 DEF Kept
    <2>3. CASE treeCred \in live /\ treeCred.acct = rows[l]
        BY <2>3 DEF Kept
    <2> QED
        BY <2>1, <2>2, <2>3 DEF SoloInv, TokenInv
<1> QED
    BY <1>1, SoloAlways, PTL

(* Up to the first slip, a swap that completes leaves the tree logged in to *)
(* the label's account, both halves, with a token that works, and the       *)
(* registry pointing at the label.                                          *)
THEOREM SwapsLand == ASSUME Alone, Online PROVE Spec => SwapLands
<1>1. ASSUME IInv, SoloInv, slips = {}, [Next]_vars, NEW p \in Procs,
             At(p, "activate"), active' = job[p].label
      PROVE  treeId = rows[active'] /\ treeCred.acct = rows[active'] /\ treeCred \in live
    <2> DEFINE l == job[p].label
    <2>1. job[p].verb = "use" /\ l \in Labels /\ Clean
        BY <1>1, VerbsAt DEF At, IInv, Aimed, Clean
    <2>2. /\ Parked(l) /\ treeId = vid[l] /\ treeCred = vcred[l]
          /\ AllLive /\ rows[l] # None
        BY <1>1, <2>1 DEF SoloInv, Knows, UseKnows, RestoreKnows, At
    <2>3. rows[l] = vid[l] /\ vcred[l].acct = vid[l] /\ vcred[l] \in live
        BY <1>1, <2>1, <2>2 DEF SoloInv, RegistryInv, Parked, Clean, AllLive
    <2> QED
        BY <1>1, <2>2, <2>3
<1>2. IInv /\ (Named => SoloInv) /\ [Next]_vars =>
          [\A p \in Procs :
              slips = {} /\ At(p, "activate") /\ lock' # Stale /\ active' = job[p].label =>
                  /\ treeId = rows[active']
                  /\ treeCred.acct = rows[active']
                  /\ treeCred \in live]_vars
    BY <1>1 DEF Named
<1> QED
    BY <1>2, SoloAlways, PTL DEF Spec, SwapLands
=============================================================================
