----------------------------- MODULE SyncProofs -----------------------------
(***************************************************************************)
(* Theorems about what lives on the sync disk: SyncDisk, for any number of *)
(* faults, and AppConfigs, for any texts and any number of edits. The two  *)
(* share no variable; AppConfigs takes the engine that SyncDisk runs as    *)
(* its action Deliver.                                                     *)
(***************************************************************************)
EXTENDS SyncDisk, AppConfigs, SequenceTheorems, TLAPS

(* ----------------------------------------------------------------------- *)
(* The session and its daemon.                                             *)

DiskSteps == {"idle", "list", "create", "collect", "look", "act", "verify", "post"} \cup Ensuring

Reasons == {"none", "healthy", "sync_session_missing", "sync_conflicts_unknown", "sync_conflicts",
            "sync_disconnected", "sync_autostart_unregistered"}

TypeOK ==
    /\ daemon \in {"down", "own", "launchd", "ending"}
    /\ {plist, loaded, conn, net, conflict, late, cut} \subseteq BOOLEAN
    /\ session \in {"none", "active", "paused"}
    /\ at \in [Procs -> DiskSteps]
    /\ why \in Reasons
    /\ faults \in 0..MaxFaults
    /\ downBy \in {"stop", "other"}

(* ---------------------------------------------------- what a daemon's end  *)
(* is followed by.                                                          *)

(* Whoever has stopped the daemon is at the registration until the daemon   *)
(* is gone, and after that has a start of the daemon ahead, on every path   *)
(* of ensureDaemonAutostart.                                                *)
StopInv ==
    /\ at \in [Procs -> DiskSteps]
    /\ daemon = "ending" /\ ~loaded => cut \/ \E p \in Procs : at[p] = "register"
    /\ daemon = "down" /\ downBy = "stop" /\ ~loaded =>
           cut \/ \E p \in Procs : at[p] \in {"register", "putback", "boot", "start"}

LEMMA InitHolds == Init => TypeOK /\ StopInv
<1> SUFFICES ASSUME Init PROVE TypeOK /\ StopInv
    OBVIOUS
<1>1. 0 \in 0..MaxFaults
    BY MaxFaultsAssumption
<1>2. at \in [Procs -> DiskSteps]
    BY DEF Init, DiskSteps
<1> QED
    BY <1>1, <1>2 DEF Init, TypeOK, StopInv, Reasons

LEMMA FaultType == ASSUME TypeOK, Fault PROVE faults' \in 0..MaxFaults
BY MaxFaultsAssumption DEF TypeOK, Fault

LEMMA HealthType == Health \in Reasons
BY DEF Health, HasEvidence, ConflictsUnknown, Registered, Reasons

LEMMA EnsuringTypes ==
    ASSUME TypeOK, NEW p \in Procs, EnsureDaemonAutostart(p)
    PROVE  TypeOK'
<1>1. CASE Check(p)
    BY <1>1 DEF Check, Goto, Back, mutagen, world, TypeOK, DiskSteps, Ensuring
<1>2. CASE StopDaemon(p)
    BY <1>2 DEF StopDaemon, Goto, Runs, world, TypeOK, DiskSteps, Ensuring
<1>3. CASE Register(p)
    BY <1>3 DEF Register, Goto, mutagen, world, TypeOK, DiskSteps, Ensuring
<1>4. CASE RegisterFails(p)
    <2>1. faults' \in 0..MaxFaults
        BY <1>4, FaultType DEF RegisterFails, TypeOK
    <2> QED
        BY <1>4, <2>1 DEF RegisterFails, Goto, mutagen, TypeOK, DiskSteps, Ensuring
<1>5. CASE PutBack(p) \/ StartDaemon(p)
    BY <1>5 DEF PutBack, StartDaemon, Goto, Back, Wakes, world, TypeOK, DiskSteps, Ensuring
<1>6. CASE Boot(p)
    <2>1. faults' \in 0..MaxFaults /\ loaded' \in BOOLEAN
        BY <1>6, FaultType DEF Boot, TypeOK
    <2> QED
        BY <1>6, <2>1 DEF Boot, Goto, mutagen, TypeOK, DiskSteps, Ensuring
<1> QED
    BY <1>1, <1>2, <1>3, <1>4, <1>5, <1>6 DEF EnsureDaemonAutostart

LEMMA UserTypes ==
    ASSUME TypeOK,
           RunSyncUp \/ ListSession \/ CreateSession \/ RunSyncDown \/ RunSyncPause \/ RunSyncResume
    PROVE  TypeOK'
<1>1. CASE RunSyncUp
    BY <1>1, FaultType DEF RunSyncUp, Goto, mutagen, TypeOK, DiskSteps, Ensuring, Procs
<1>2. CASE ListSession
    BY <1>2 DEF ListSession, Goto, Wakes, world, TypeOK, DiskSteps, Procs
<1>3. CASE CreateSession
    BY <1>3 DEF CreateSession, Goto, Wakes, world, TypeOK, DiskSteps, Procs
<1>4. CASE RunSyncDown \/ RunSyncPause \/ RunSyncResume
    <2>1. faults' \in 0..MaxFaults
        BY <1>4, FaultType DEF RunSyncDown, RunSyncPause, RunSyncResume
    <2> QED
        BY <1>4, <2>1
        DEF RunSyncDown, RunSyncPause, RunSyncResume, UserStep, Wakes, TypeOK
<1> QED
    BY <1>1, <1>2, <1>3, <1>4

LEMMA RecoverTypes ==
    ASSUME TypeOK,
           \/ RunRecover \/ Collect \/ SecondLook \/ ActResume
           \/ ActAutostart \/ Verify \/ PostProbe
    PROVE  TypeOK'
<1>1. CASE Collect
    BY <1>1, HealthType DEF Collect, Goto, Wakes, world, TypeOK, DiskSteps, Procs
<1>2. CASE ActResume
    BY <1>2 DEF ActResume, Goto, Wakes, Runs, world, TypeOK, DiskSteps, Procs
<1>3. CASE RunRecover \/ ActAutostart \/ Verify
    BY <1>3 DEF RunRecover, ActAutostart, Verify, Goto, mutagen, world, TypeOK, DiskSteps, Ensuring, Procs
<1>4. CASE SecondLook \/ PostProbe
    BY <1>4 DEF SecondLook, PostProbe, Goto, Wakes, world, TypeOK, DiskSteps, Procs
<1> QED
    BY <1>1, <1>2, <1>3, <1>4

LEMMA WorldTypes ==
    ASSUME TypeOK,
           \/ DaemonEnds \/ LaunchdStarts \/ Connects \/ DaemonDies \/ NetDown \/ NetUp
           \/ Conflicts \/ (\E p \in Procs : Cut(p)) \/ Reboot
    PROVE  TypeOK'
<1>1. CASE DaemonEnds \/ LaunchdStarts \/ Connects \/ NetUp
    BY <1>1 DEF DaemonEnds, LaunchdStarts, Connects, NetUp, Env, mutagen, world, TypeOK
<1>2. CASE DaemonDies \/ NetDown
    BY <1>2, FaultType DEF DaemonDies, NetDown, Env, TypeOK
<1>3. CASE Conflicts
    <2>1. faults' \in 0..MaxFaults
        BY <1>3, FaultType DEF Conflicts, TypeOK
    <2> QED
        BY <1>3, <2>1 DEF Conflicts, Env, mutagen, TypeOK
<1>4. ASSUME NEW p \in Procs, Cut(p)
      PROVE  TypeOK'
    BY <1>4, FaultType DEF Cut, Goto, mutagen, TypeOK, DiskSteps
<1>5. CASE Reboot
    BY <1>5, FaultType DEF Reboot, TypeOK, DiskSteps
<1> QED
    BY <1>1, <1>2, <1>3, <1>4, <1>5

LEMMA TypesHold == TypeOK /\ [Next]_vars => TypeOK'
<1> SUFFICES ASSUME TypeOK, [Next]_vars PROVE TypeOK'
    OBVIOUS
<1>1. CASE UNCHANGED vars
    BY <1>1 DEF vars, TypeOK
<1> QED
    BY <1>1, EnsuringTypes, UserTypes, RecoverTypes, WorldTypes
    DEF Next, UpStep, RecoverStep, Procs

(* What SyncDisk's variables range over.                                    *)
THEOREM TypeCorrect == Spec => []TypeOK
BY InitHolds, TypesHold, PTL DEF Spec

(* ------------------------------------------------- a stopped daemon is back *)

(* DiskSteps that end no daemon, and stay on the way that starts one.           *)
LEMMA NobodyLeaves ==
    ASSUME StopInv, at' \in [Procs -> DiskSteps],
           daemon' \in {daemon, "own", "launchd"},
           downBy' = downBy, cut' = cut, loaded' = loaded,
           \A p \in Procs : at[p] \in {"register", "putback", "boot", "start"} => at'[p] = at[p]
    PROVE  StopInv'
BY DEF StopInv

LEMMA EnsuringStops ==
    ASSUME ~SlowStops, TypeOK, StopInv, NEW p \in Procs, EnsureDaemonAutostart(p)
    PROVE  StopInv'
<1> at' \in [Procs -> DiskSteps]
    BY EnsuringTypes DEF TypeOK
<1>1. CASE Check(p)
    BY <1>1, NobodyLeaves DEF Check, Goto, mutagen, StopInv
<1>2. CASE StopDaemon(p)
    <2>1. at'[p] = "register" /\ daemon' \in {"ending", daemon}
        BY <1>2 DEF StopDaemon, Goto, StopInv
    <2> QED
        BY <1>2, <2>1 DEF StopDaemon, StopInv
<1>3. CASE Register(p)
    <2>1. daemon = "down" /\ daemon' = daemon /\ at'[p] = "boot"
        BY <1>3 DEF Register, Goto, mutagen, StopInv
    <2> QED
        BY <2>1 DEF StopInv
<1>4. CASE RegisterFails(p)
    <2>1. daemon # "ending" /\ daemon' = daemon /\ at'[p] = "putback"
        BY <1>4 DEF RegisterFails, Goto, mutagen, StopInv
    <2> QED
        BY <2>1 DEF StopInv
<1>5. CASE PutBack(p) \/ StartDaemon(p)
    <2>1. daemon' # "down" /\ (daemon' = "ending" => daemon = "ending")
        BY <1>5 DEF PutBack, StartDaemon, Wakes
    <2>2. \A q \in Procs : at[q] = "register" => at'[q] = "register"
        BY <1>5 DEF PutBack, StartDaemon, Goto, StopInv
    <2> QED
        BY <1>5, <2>1, <2>2 DEF PutBack, StartDaemon, StopInv
<1>6. CASE Boot(p)
    <2>1. at'[p] = "start" /\ at[p] = "boot" /\ \A q \in Procs \ {p} : at'[q] = at[q]
        BY <1>6 DEF Boot, Goto, StopInv
    <2>2. UNCHANGED <<daemon, downBy, cut>> /\ (loaded => loaded')
        BY <1>6 DEF Boot, mutagen
    <2> QED
        BY <2>1, <2>2 DEF StopInv
<1> QED
    BY <1>1, <1>2, <1>3, <1>4, <1>5, <1>6 DEF EnsureDaemonAutostart

LEMMA UserStops ==
    ASSUME TypeOK, StopInv,
           RunSyncUp \/ ListSession \/ CreateSession \/ RunSyncDown \/ RunSyncPause \/ RunSyncResume
    PROVE  StopInv'
<1>1. at' \in [Procs -> DiskSteps]
    BY UserTypes DEF TypeOK
<1>2. daemon' \in {daemon, "own", "launchd"} /\ UNCHANGED <<downBy, cut, loaded>>
    BY DEF RunSyncUp, ListSession, CreateSession, RunSyncDown, RunSyncPause, RunSyncResume,
           UserStep, Wakes, mutagen
<1>3. \A p \in Procs : at[p] \in {"register", "putback", "boot", "start"} => at'[p] = at[p]
    BY DEF RunSyncUp, ListSession, CreateSession, RunSyncDown, RunSyncPause, RunSyncResume,
           UserStep, Goto, StopInv
<1> QED
    BY <1>1, <1>2, <1>3, NobodyLeaves

LEMMA RecoverStops ==
    ASSUME TypeOK, StopInv,
           \/ RunRecover \/ Collect \/ SecondLook \/ ActResume
           \/ ActAutostart \/ Verify \/ PostProbe
    PROVE  StopInv'
<1>1. at' \in [Procs -> DiskSteps]
    BY RecoverTypes DEF TypeOK
<1>2. daemon' \in {daemon, "own", "launchd"} /\ UNCHANGED <<downBy, cut, loaded>>
    BY DEF RunRecover, Collect, SecondLook, ActResume, ActAutostart, Verify, PostProbe, Wakes, mutagen
<1>3. \A p \in Procs : at[p] \in {"register", "putback", "boot", "start"} => at'[p] = at[p]
    BY DEF RunRecover, Collect, SecondLook, ActResume, ActAutostart, Verify, PostProbe, Goto, StopInv
<1> QED
    BY <1>1, <1>2, <1>3, NobodyLeaves

LEMMA WorldStops ==
    ASSUME TypeOK, StopInv,
           \/ DaemonEnds \/ LaunchdStarts \/ Connects \/ DaemonDies \/ NetDown \/ NetUp
           \/ Conflicts \/ (\E p \in Procs : Cut(p)) \/ Reboot
    PROVE  StopInv'
<1>1. CASE DaemonEnds
    BY <1>1 DEF DaemonEnds, Env, StopInv
<1>2. CASE LaunchdStarts \/ Connects \/ NetDown \/ NetUp \/ Conflicts
    BY <1>2, NobodyLeaves DEF LaunchdStarts, Connects, NetDown, NetUp, Conflicts, Env, mutagen, StopInv
<1>3. CASE DaemonDies
    BY <1>3 DEF DaemonDies, Env, StopInv
<1>4. ASSUME NEW p \in Procs, Cut(p)
      PROVE  StopInv'
    <2>1. /\ at' \in [Procs -> DiskSteps] /\ \A q \in Procs \ {p} : at'[q] = at[q]
          /\ UNCHANGED <<daemon, downBy, loaded>>
          /\ cut' = (cut \/ at[p] \in {"register", "putback", "boot", "start"})
        BY <1>4 DEF Cut, Goto, mutagen, StopInv, DiskSteps, Ensuring
    <2> QED
        BY <2>1 DEF StopInv
<1>5. CASE Reboot
    BY <1>5 DEF Reboot, StopInv, DiskSteps
<1> QED
    BY <1>1, <1>2, <1>3, <1>4, <1>5

(* A daemon that `sync up` or recover has stopped in order to register it   *)
(* is started again, or is launchd's, before they are done: whatever        *)
(* refuses, dies, reboots or runs beside them, unless the one that stopped  *)
(* it is cut, or the daemon takes longer to end than all attempts.          *)
THEOREM StoppedDaemonIsBack == ASSUME ~SlowStops PROVE Spec => []StoppedIsBack
<1>1. TypeOK /\ StopInv /\ [Next]_vars => StopInv'
    <2> SUFFICES ASSUME TypeOK, StopInv, [Next]_vars PROVE StopInv'
        OBVIOUS
    <2>1. CASE UNCHANGED vars
        BY <2>1 DEF vars, StopInv
    <2> QED
        BY <2>1, EnsuringStops, UserStops, RecoverStops, WorldStops
        DEF Next, UpStep, RecoverStep, Procs
<1>2. StopInv => StoppedIsBack
    BY DEF StopInv, StoppedIsBack, Ensuring
<1> QED
    BY <1>1, <1>2, InitHolds, TypesHold, PTL DEF Spec

(* ------------------------------------------------------- a pause honoured  *)

(* A session that is paused when recover is about to resume it was paused   *)
(* after the second look.                                                   *)
PauseInv ==
    at["recover"] = "act" /\ why = "sync_disconnected" /\ session = "paused" => late

LEMMA LookSeesPause == ASSUME Health = "sync_disconnected" PROVE session = "active"
BY DEF Health, HasEvidence, ConflictsUnknown, Registered

LEMMA PauseStep ==
    ASSUME TypeOK, PauseInv, [Next]_vars
    PROVE  /\ PauseInv'
           /\ at["recover"] = "act" /\ at'["recover"] = "post" /\ session = "paused" => late
<1> DEFINE Promise ==
        /\ PauseInv'
        /\ at["recover"] = "act" /\ at'["recover"] = "post" /\ session = "paused" => late
<1> "up" \in Procs /\ "recover" \in Procs /\ at \in [Procs -> DiskSteps]
    BY DEF Procs, TypeOK
<1>1. CASE SecondLook
    BY <1>1, LookSeesPause DEF SecondLook, Goto, PauseInv
<1>2. CASE ActResume
    BY <1>2 DEF ActResume, Goto, PauseInv
<1>3. CASE RunRecover \/ Collect \/ ActAutostart \/ Verify \/ PostProbe
    BY <1>3 DEF RunRecover, Collect, ActAutostart, Verify, PostProbe, Goto, PauseInv
<1>4. CASE RunSyncDown \/ RunSyncPause \/ RunSyncResume
    BY <1>4 DEF RunSyncDown, RunSyncPause, RunSyncResume, UserStep, PauseInv
<1>5. CASE RunSyncUp \/ ListSession
    BY <1>5 DEF RunSyncUp, ListSession, Goto, mutagen, PauseInv
<1>6. CASE CreateSession
    BY <1>6 DEF CreateSession, Goto, PauseInv
<1>7. ASSUME NEW p \in Procs, EnsureDaemonAutostart(p)
      PROVE  Promise
    <2>1. /\ UNCHANGED <<why, session, late>>
          /\ at[p] \in Ensuring /\ \A q \in Procs \ {p} : at'[q] = at[q]
          /\ at'[p] \in Ensuring \cup {"list", "verify"}
        BY <1>7
        DEF EnsureDaemonAutostart, Check, StopDaemon, Register, RegisterFails, PutBack, Boot,
            StartDaemon, Goto, Back, mutagen, Ensuring
    <2> QED
        BY <2>1 DEF PauseInv, Ensuring
<1>8. CASE DaemonEnds \/ LaunchdStarts \/ Connects \/ DaemonDies \/ NetDown \/ NetUp \/ Conflicts
    BY <1>8 DEF DaemonEnds, LaunchdStarts, Connects, DaemonDies, NetDown, NetUp, Conflicts, Env,
                mutagen, PauseInv
<1>9. ASSUME NEW p \in Procs, Cut(p)
      PROVE  Promise
    BY <1>9 DEF Cut, Goto, mutagen, PauseInv
<1>10. CASE Reboot
    BY <1>10 DEF Reboot, PauseInv
<1>11. CASE UNCHANGED vars
    BY <1>11 DEF vars, PauseInv
<1> QED
    BY <1>1, <1>2, <1>3, <1>4, <1>5, <1>6, <1>7, <1>8, <1>9, <1>10, <1>11
    DEF Next, UpStep, RecoverStep, Procs

(* The user's pause stands: recovery resumes no session that was paused     *)
(* when it looked the second time, wherever commands are cut and whatever   *)
(* the daemon, launchd and the network do.                                  *)
THEOREM PauseIsHonoured == Spec => PauseHonoured
<1>1. Init => PauseInv
    BY DEF Init, PauseInv, Procs
<1>2. TypeOK /\ PauseInv /\ [Next]_vars =>
          /\ PauseInv'
          /\ [at["recover"] = "act" /\ at'["recover"] = "post" /\ session = "paused" => late]_vars
    BY PauseStep
<1> QED
    BY <1>1, <1>2, InitHolds, TypesHold, PTL DEF Spec, PauseHonoured

(* ----------------------------------------------------------------------- *)
(* One application's configuration. A command's steps are a list; the      *)
(* inductive invariant ConfigInv says for every list that can be left what *)
(* the files are then like.                                                *)

\* ------------------------------------------------- what is left of a command

Calls == {"seed", "shelve", "pull", "copy", "probe", "spare", "push", "guard", "blank",
          "clear", "link", "remove", "restore"} \X Sides

FromLinkB == <<<<"link", "box">>>>
FromClearB == <<<<"clear", "box">>>> \o FromLinkB
FromLinkC == <<<<"link", "client">>>> \o FromClearB
FromClearC == <<<<"clear", "client">>>> \o FromLinkC

\* The client's text becomes the payload; with one file it is pushed to the box.
FromPush == <<<<"push", "box">>>> \o FromClearC
FromSpare == <<<<"spare", "box">>>> \o FromPush
FromProbe == <<<<"probe", "box">>>> \o FromSpare
FromShelveC(one) == <<<<"shelve", "client">>>> \o (IF one THEN FromProbe ELSE FromClearC)
FromCopy(one) == <<<<"copy", "client">>>> \o FromShelveC(one)

\* The box's text becomes the payload; with one file the client pulls it.
FromPull == <<<<"pull", "client">>>> \o FromClearC
FromShelveB(one) == <<<<"shelve", "box">>>> \o (IF one THEN FromPull ELSE FromClearC)
FromSeed(one) == <<<<"seed", "box">>>> \o FromShelveB(one)

\* Nobody has a text.
FromBlank(one) == <<<<"blank", "client">>>> \o (IF one THEN FromPush ELSE FromClearC)
FromGuard == <<<<"guard", "client">>>> \o FromBlank(TRUE)
FromCheck == <<<<"probe", "box">>>> \o FromGuard

FromRestoreB == <<<<"restore", "box">>>>
FromRemoveB == <<<<"remove", "box">>>> \o FromRestoreB
FromRestoreC == <<<<"restore", "client">>>> \o FromRemoveB
FromRemoveC == <<<<"remove", "client">>>> \o FromRestoreC

\* A list that begins with one call.
Begins(list, call, rest) ==
    /\ list \in Seq(Calls) /\ list # <<>>
    /\ Head(list) = call /\ Tail(list) = rest

LEMMA ConsBegins ==
    ASSUME NEW x \in Calls, NEW s \in Seq(Calls)
    PROVE  Begins(<<x>> \o s, x, s)
<1> DEFINE list == <<x>> \o s
<1>1. /\ list \in Seq(Calls) /\ Len(list) = Len(s) + 1 /\ Len(s) \in Nat
      /\ \A i \in 1..Len(s) + 1 : list[i] = IF i <= 1 THEN x ELSE s[i - 1]
    BY ConcatProperties, LenProperties
<1>2. list # <<>>
    BY <1>1, EmptySeq
<1>3. Head(list) = x
    BY <1>1, <1>2
<1>4. /\ Tail(list) \in Seq(Calls) /\ Len(Tail(list)) = Len(s)
      /\ \A i \in 1..Len(s) : Tail(list)[i] = list[i + 1]
    BY <1>1, <1>2, HeadTailProperties
<1>5. ASSUME NEW i \in 1..Len(s) PROVE Tail(list)[i] = s[i]
    BY <1>1, <1>4
<1>6. Tail(list) = s
    BY <1>4, <1>5, SeqEqual
<1> QED
    BY <1>1, <1>2, <1>3, <1>6 DEF Begins

LEMMA OneBegins == ASSUME NEW x \in Calls PROVE Begins(<<x>>, x, <<>>)
<1>1. <<x>> \o <<>> = <<x>>
    BY ConcatEmptySeq
<1>2. <<>> \in Seq(Calls)
    OBVIOUS
<1> QED
    BY <1>1, <1>2, ConsBegins

\* Which call each list begins with, and what is left after it.
LEMMA Program ==
    /\ Begins(FromLinkB, <<"link", "box">>, <<>>)
    /\ Begins(FromClearB, <<"clear", "box">>, FromLinkB)
    /\ Begins(FromLinkC, <<"link", "client">>, FromClearB)
    /\ Begins(FromClearC, <<"clear", "client">>, FromLinkC)
    /\ Begins(FromPush, <<"push", "box">>, FromClearC)
    /\ Begins(FromSpare, <<"spare", "box">>, FromPush)
    /\ Begins(FromProbe, <<"probe", "box">>, FromSpare)
    /\ \A one \in BOOLEAN :
          /\ Begins(FromShelveC(one), <<"shelve", "client">>, IF one THEN FromProbe ELSE FromClearC)
          /\ Begins(FromCopy(one), <<"copy", "client">>, FromShelveC(one))
    /\ Begins(FromPull, <<"pull", "client">>, FromClearC)
    /\ \A one \in BOOLEAN :
          /\ Begins(FromShelveB(one), <<"shelve", "box">>, IF one THEN FromPull ELSE FromClearC)
          /\ Begins(FromSeed(one), <<"seed", "box">>, FromShelveB(one))
          /\ Begins(FromBlank(one), <<"blank", "client">>, IF one THEN FromPush ELSE FromClearC)
    /\ Begins(FromGuard, <<"guard", "client">>, FromBlank(TRUE))
    /\ Begins(FromCheck, <<"probe", "box">>, FromGuard)
    /\ Begins(FromRestoreB, <<"restore", "box">>, <<>>)
    /\ Begins(FromRemoveB, <<"remove", "box">>, FromRestoreB)
    /\ Begins(FromRestoreC, <<"restore", "client">>, FromRemoveB)
    /\ Begins(FromRemoveC, <<"remove", "client">>, FromRestoreC)
<1>0. \A w \in {"seed", "shelve", "pull", "copy", "probe", "spare", "push", "guard", "blank",
                "clear", "link", "remove", "restore"} : <<w, "client">> \in Calls /\ <<w, "box">> \in Calls
    BY DEF Calls, Sides
<1>1. \A x \in Calls : \A s, rest : s = <<x>> \o rest /\ rest \in Seq(Calls) => Begins(s, x, rest)
    BY ConsBegins
<1>2. \A s, x, rest : Begins(s, x, rest) => s \in Seq(Calls)
    BY DEF Begins
<1>3. Begins(FromLinkB, <<"link", "box">>, <<>>)
    BY <1>0, OneBegins DEF FromLinkB
<1>4. Begins(FromClearB, <<"clear", "box">>, FromLinkB)
    BY <1>0, <1>1, <1>2, <1>3 DEF FromClearB
<1>5. Begins(FromLinkC, <<"link", "client">>, FromClearB)
    BY <1>0, <1>1, <1>2, <1>4 DEF FromLinkC
<1>6. Begins(FromClearC, <<"clear", "client">>, FromLinkC)
    BY <1>0, <1>1, <1>2, <1>5 DEF FromClearC
<1>7. Begins(FromPush, <<"push", "box">>, FromClearC)
    BY <1>0, <1>1, <1>2, <1>6 DEF FromPush
<1>8. Begins(FromSpare, <<"spare", "box">>, FromPush)
    BY <1>0, <1>1, <1>2, <1>7 DEF FromSpare
<1>9. Begins(FromProbe, <<"probe", "box">>, FromSpare)
    BY <1>0, <1>1, <1>2, <1>8 DEF FromProbe
<1>10. ASSUME NEW one \in BOOLEAN
       PROVE  /\ Begins(FromShelveC(one), <<"shelve", "client">>, IF one THEN FromProbe ELSE FromClearC)
              /\ Begins(FromCopy(one), <<"copy", "client">>, FromShelveC(one))
  <2>1. (IF one THEN FromProbe ELSE FromClearC) \in Seq(Calls)
      BY <1>2, <1>6, <1>9
  <2>2. Begins(FromShelveC(one), <<"shelve", "client">>, IF one THEN FromProbe ELSE FromClearC)
      BY <1>0, <1>1, <2>1 DEF FromShelveC
  <2> QED
      BY <1>0, <1>1, <1>2, <2>2 DEF FromCopy
<1>11. Begins(FromPull, <<"pull", "client">>, FromClearC)
    BY <1>0, <1>1, <1>2, <1>6 DEF FromPull
<1>12. ASSUME NEW one \in BOOLEAN
       PROVE  /\ Begins(FromShelveB(one), <<"shelve", "box">>, IF one THEN FromPull ELSE FromClearC)
              /\ Begins(FromSeed(one), <<"seed", "box">>, FromShelveB(one))
              /\ Begins(FromBlank(one), <<"blank", "client">>, IF one THEN FromPush ELSE FromClearC)
  <2>1. /\ (IF one THEN FromPull ELSE FromClearC) \in Seq(Calls)
        /\ (IF one THEN FromPush ELSE FromClearC) \in Seq(Calls)
      BY <1>2, <1>6, <1>7, <1>11
  <2>2. Begins(FromShelveB(one), <<"shelve", "box">>, IF one THEN FromPull ELSE FromClearC)
      BY <1>0, <1>1, <2>1 DEF FromShelveB
  <2>3. Begins(FromBlank(one), <<"blank", "client">>, IF one THEN FromPush ELSE FromClearC)
      BY <1>0, <1>1, <2>1 DEF FromBlank
  <2>4. Begins(FromSeed(one), <<"seed", "box">>, FromShelveB(one))
      BY <1>0, <1>1, <1>2, <2>2 DEF FromSeed
  <2> QED
      BY <2>2, <2>3, <2>4
<1>13. Begins(FromGuard, <<"guard", "client">>, FromBlank(TRUE))
    BY <1>0, <1>1, <1>2, <1>12 DEF FromGuard
<1>14. Begins(FromCheck, <<"probe", "box">>, FromGuard)
    BY <1>0, <1>1, <1>2, <1>13 DEF FromCheck
<1>15. Begins(FromRestoreB, <<"restore", "box">>, <<>>)
    BY <1>0, OneBegins DEF FromRestoreB
<1>16. Begins(FromRemoveB, <<"remove", "box">>, FromRestoreB)
    BY <1>0, <1>1, <1>2, <1>15 DEF FromRemoveB
<1>17. Begins(FromRestoreC, <<"restore", "client">>, FromRemoveB)
    BY <1>0, <1>1, <1>2, <1>16 DEF FromRestoreC
<1>18. Begins(FromRemoveC, <<"remove", "client">>, FromRestoreC)
    BY <1>0, <1>1, <1>2, <1>17 DEF FromRemoveC
<1> QED
    BY <1>3, <1>4, <1>5, <1>6, <1>7, <1>8, <1>9, <1>10, <1>11, <1>12, <1>13, <1>14, <1>15, <1>16,
       <1>17, <1>18

LEMMA ListsAreSequences ==
    /\ FromClearC \in Seq(Calls) /\ FromRemoveB \in Seq(Calls)
    /\ FromPull \in Seq(Calls) /\ FromPush \in Seq(Calls) /\ FromSpare \in Seq(Calls)
    /\ FromProbe \in Seq(Calls) /\ FromGuard \in Seq(Calls)
    /\ \A one \in BOOLEAN : FromBlank(one) \in Seq(Calls)
BY Program DEF Begins

LEMMA PairIsConcat == ASSUME NEW x \in Calls, NEW y \in Calls PROVE <<x, y>> = <<x>> \o <<y>>
<1>1. <<x>> \in Seq(Calls) /\ <<y>> \in Seq(Calls) /\ <<x, y>> \in Seq(Calls)
    OBVIOUS
<1>2. /\ <<x>> \o <<y>> \in Seq(Calls) /\ Len(<<x>> \o <<y>>) = 2
      /\ (<<x>> \o <<y>>)[1] = x /\ (<<x>> \o <<y>>)[2] = y
    BY <1>1, ConcatProperties
<1>3. \A i \in 1..Len(<<x, y>>) : <<x, y>>[i] = (<<x>> \o <<y>>)[i]
    BY <1>2
<1> QED
    BY <1>1, <1>2, <1>3, SeqEqual

LEMMA PairConcat ==
    ASSUME NEW x \in Calls, NEW y \in Calls, NEW s \in Seq(Calls)
    PROVE  <<x, y>> \o s = <<x>> \o (<<y>> \o s)
<1>1. <<x>> \in Seq(Calls) /\ <<y>> \in Seq(Calls)
    OBVIOUS
<1>2. (<<x>> \o <<y>>) \o s = <<x>> \o (<<y>> \o s)
    BY <1>1, ConcatAssociative
<1> QED
    BY <1>2, PairIsConcat

LEMMA TripleConcat ==
    ASSUME NEW x \in Calls, NEW y \in Calls, NEW z \in Calls, NEW s \in Seq(Calls)
    PROVE  <<x, y, z>> \o s = <<x>> \o (<<y>> \o (<<z>> \o s))
<1>1. <<x>> \in Seq(Calls) /\ <<y, z>> \in Seq(Calls) /\ <<x, y, z>> \in Seq(Calls)
    OBVIOUS
<1>2. /\ <<x>> \o <<y, z>> \in Seq(Calls) /\ Len(<<x>> \o <<y, z>>) = 3
      /\ (<<x>> \o <<y, z>>)[1] = x /\ (<<x>> \o <<y, z>>)[2] = y /\ (<<x>> \o <<y, z>>)[3] = z
    BY <1>1, ConcatProperties
<1>3. \A i \in 1..Len(<<x, y, z>>) : <<x, y, z>>[i] = (<<x>> \o <<y, z>>)[i]
    BY <1>2
<1>4. <<x, y, z>> = <<x>> \o <<y, z>>
    BY <1>1, <1>2, <1>3, SeqEqual
<1>5. (<<x>> \o <<y, z>>) \o s = <<x>> \o (<<y, z>> \o s)
    BY <1>1, ConcatAssociative
<1> QED
    BY <1>4, <1>5, PairConcat

LEMMA FourIsConcat ==
    ASSUME NEW w \in Calls, NEW x \in Calls, NEW y \in Calls, NEW z \in Calls
    PROVE  <<w, x, y, z>> = <<w>> \o (<<x>> \o (<<y>> \o <<z>>))
<1> DEFINE all == <<w, x, y, z>>
           one == <<w, x>>
           two == <<y, z>>
           list == one \o two
<1>1. all \in Seq(Calls) /\ Len(all) = 4 /\ all[1] = w /\ all[2] = x /\ all[3] = y /\ all[4] = z
    OBVIOUS
<1>2. /\ two \in Seq(Calls) /\ one \in Seq(Calls) /\ Len(one) = 2 /\ Len(two) = 2
      /\ one[1] = w /\ one[2] = x /\ two[1] = y /\ two[2] = z
    OBVIOUS
<1>3. two = <<y>> \o <<z>>
    BY PairIsConcat
<1>4. list = <<w>> \o (<<x>> \o two)
    BY <1>2, PairConcat
<1> HIDE DEF all, one, two
<1>5. /\ list \in Seq(Calls) /\ Len(list) = Len(one) + Len(two)
      /\ \A i \in 1..Len(one) + Len(two) :
            list[i] = IF i <= Len(one) THEN one[i] ELSE two[i - Len(one)]
    BY <1>2, ConcatProperties
<1> HIDE DEF list
<1>6. /\ all \in Seq(Calls) /\ list \in Seq(Calls) /\ Len(all) = Len(list)
      /\ \A i \in 1..Len(all) : all[i] = list[i]
    BY <1>1, <1>2, <1>5
<1>7. all = list
    BY <1>6, SeqEqual
<1> QED
    BY <1>3, <1>4, <1>7 DEF all

\* How a plan is put together, call by call.
LEMMA PlanOfMore ==
    ASSUME NEW a \in Calls, NEW b \in Calls, NEW more \in Seq(Calls), NEW s \in Seq(Calls)
    PROVE  <<a, b>> \o more \o s = <<a>> \o (<<b>> \o (more \o s))
<1> DEFINE ab == <<a, b>>
<1>1. ab \in Seq(Calls)
    OBVIOUS
<1>2. more \o s \in Seq(Calls)
    BY ConcatProperties
<1>3. ab \o (more \o s) = <<a>> \o (<<b>> \o (more \o s))
    BY <1>2, PairConcat
<1> HIDE DEF ab
<1>4. ab \o more \o s = ab \o (more \o s)
    BY <1>1, ConcatAssociative
<1> QED
    BY <1>3, <1>4 DEF ab

LEMMA PlanOfBlank ==
    ASSUME NEW x \in Calls, NEW s \in Seq(Calls)
    PROVE  <<>> \o <<x>> \o <<>> \o s = <<x>> \o s
<1> DEFINE more == <<x>>
<1>1. more \in Seq(Calls)
    OBVIOUS
<1> HIDE DEF more
<1> QED
    BY <1>1, ConcatEmptySeq DEF more

LEMMA PlanOfTwo ==
    ASSUME NEW a \in Calls, NEW b \in Calls, NEW s \in Seq(Calls)
    PROVE  <<a, b>> \o <<>> \o s = <<a>> \o (<<b>> \o s)
<1> DEFINE ab == <<a, b>>
<1>1. ab \in Seq(Calls) /\ ab \o s = <<a>> \o (<<b>> \o s)
    BY PairConcat
<1> HIDE DEF ab
<1> QED
    BY <1>1, ConcatEmptySeq DEF ab

\* The plan of each decision is the list that begins with its first call.
LEMMA StepsAreLists ==
    /\ Steps("use-box") = FromSeed(OneFile)
    /\ Kind("client") = "content" => Steps("use-client") = FromCopy(OneFile)
    /\ Kind("client") # "content" => Steps("use-client") = FromClearC
    /\ Steps("seed-empty") = IF OneFile THEN FromCheck ELSE FromBlank(FALSE)
    /\ Steps("refuse") = <<>> /\ Steps("already-linked") = <<>>
<1> DEFINE links == <<<<"clear", "client">>, <<"link", "client">>, <<"clear", "box">>, <<"link", "box">>>>
           seed == <<"seed", "box">>
           shelveB == <<"shelve", "box">>
           pull == <<"pull", "client">>
           copy == <<"copy", "client">>
           shelveC == <<"shelve", "client">>
           probe == <<"probe", "box">>
           spare == <<"spare", "box">>
           push == <<"push", "box">>
           guard == <<"guard", "client">>
           blank == <<"blank", "client">>
           clearC == <<"clear", "client">>
           linkC == <<"link", "client">>
           clearB == <<"clear", "box">>
           linkB == <<"link", "box">>
<1>1. /\ seed \in Calls /\ shelveB \in Calls /\ pull \in Calls /\ copy \in Calls /\ shelveC \in Calls
      /\ probe \in Calls /\ spare \in Calls /\ push \in Calls /\ guard \in Calls /\ blank \in Calls
      /\ clearC \in Calls /\ linkC \in Calls /\ clearB \in Calls /\ linkB \in Calls
    BY DEF Calls, Sides
<1>2. OneFile \in BOOLEAN
    BY DEF OneFile
<1>3. FromClearC = <<clearC>> \o (<<linkC>> \o (<<clearB>> \o <<linkB>>))
    BY DEF FromClearC, FromLinkC, FromClearB, FromLinkB
<1>4. Steps("use-box") = <<seed, shelveB>> \o (IF OneFile THEN <<pull>> ELSE <<>>) \o links
    BY DEF Steps, OnlyOneFile
<1>5. Kind("client") = "content" =>
          Steps("use-client") =
              <<copy, shelveC>> \o (IF OneFile THEN <<probe, spare, push>> ELSE <<>>) \o links
    BY DEF Steps, OnlyOneFile
<1>6. Kind("client") # "content" => Steps("use-client") = links
    BY DEF Steps
<1>7. Steps("seed-empty") =
          (IF OneFile THEN <<probe, guard>> ELSE <<>>) \o <<blank>>
          \o (IF OneFile THEN <<push>> ELSE <<>>) \o links
    BY DEF Steps, OnlyOneFile
<1>8. /\ FromSeed(OneFile) =
            <<seed>> \o (<<shelveB>> \o (IF OneFile THEN <<pull>> \o FromClearC ELSE FromClearC))
      /\ FromCopy(OneFile) =
            <<copy>> \o (<<shelveC>> \o
                (IF OneFile THEN <<probe>> \o (<<spare>> \o (<<push>> \o FromClearC)) ELSE FromClearC))
      /\ FromCheck = <<probe>> \o (<<guard>> \o (<<blank>> \o (<<push>> \o FromClearC)))
      /\ FromBlank(FALSE) = <<blank>> \o FromClearC
    BY DEF FromSeed, FromShelveB, FromPull, FromCopy, FromShelveC, FromProbe, FromSpare, FromPush,
           FromCheck, FromGuard, FromBlank
<1>9. links = <<clearC, linkC, clearB, linkB>>
    OBVIOUS
<1>10. Steps("refuse") = <<>> /\ Steps("already-linked") = <<>>
    BY DEF Steps
<1> HIDE DEF links, seed, shelveB, pull, copy, shelveC, probe, spare, push, guard, blank,
             clearC, linkC, clearB, linkB
<1>11. links = FromClearC
  <2>1. <<clearC, linkC, clearB, linkB>> = <<clearC>> \o (<<linkC>> \o (<<clearB>> \o <<linkB>>))
    <3>1. clearC \in Calls /\ linkC \in Calls /\ clearB \in Calls /\ linkB \in Calls
        BY <1>1
    <3> QED
        BY <3>1, FourIsConcat
  <2> QED
      BY <1>3, <1>9, <2>1
<1>12. FromClearC \in Seq(Calls)
    BY ListsAreSequences
<1>13. Steps("use-box") = FromSeed(OneFile)
  <2>0. seed \in Calls /\ shelveB \in Calls /\ pull \in Calls
      BY <1>1
  <2>1. <<seed, shelveB>> \o <<>> \o FromClearC = <<seed>> \o (<<shelveB>> \o FromClearC)
      BY <1>12, <2>0, PlanOfTwo
  <2>2. <<pull>> \in Seq(Calls)
      BY <2>0
  <2>3. <<seed, shelveB>> \o <<pull>> \o FromClearC = <<seed>> \o (<<shelveB>> \o (<<pull>> \o FromClearC))
      BY <1>12, <2>0, <2>2, PlanOfMore
  <2> QED
      BY <1>4, <1>8, <1>11, <2>1, <2>3
<1>14. Kind("client") = "content" => Steps("use-client") = FromCopy(OneFile)
  <2> DEFINE put == <<probe, spare, push>>
  <2>0. copy \in Calls /\ shelveC \in Calls
      BY <1>1
  <2>1. <<copy, shelveC>> \o <<>> \o FromClearC = <<copy>> \o (<<shelveC>> \o FromClearC)
      BY <1>12, <2>0, PlanOfTwo
  <2>2. probe \in Calls /\ spare \in Calls /\ push \in Calls
      BY <1>1
  <2>3. put \in Seq(Calls)
      BY <2>2
  <2>4. put \o FromClearC = <<probe>> \o (<<spare>> \o (<<push>> \o FromClearC))
      BY <1>12, <2>2, TripleConcat
  <2>5. OneFile /\ Kind("client") = "content" => Steps("use-client") = <<copy, shelveC>> \o put \o links
      BY <1>5
  <2>6. ~OneFile /\ Kind("client") = "content" => Steps("use-client") = <<copy, shelveC>> \o <<>> \o links
      BY <1>5
  <2> HIDE DEF put
  <2>7. <<copy, shelveC>> \o put \o FromClearC = <<copy>> \o (<<shelveC>> \o (put \o FromClearC))
      BY <1>12, <2>0, <2>3, PlanOfMore
  <2> QED
      BY <1>8, <1>11, <2>1, <2>4, <2>5, <2>6, <2>7
<1>15. Steps("seed-empty") = IF OneFile THEN FromCheck ELSE FromBlank(FALSE)
  <2> DEFINE look == <<probe, guard>>
             write == <<blank>>
             send == <<push>>
  <2>0. blank \in Calls /\ probe \in Calls /\ guard \in Calls /\ push \in Calls
      BY <1>1
  <2>1. <<>> \o <<blank>> \o <<>> \o FromClearC = <<blank>> \o FromClearC
      BY <1>12, <2>0, PlanOfBlank
  <2>2. look \in Seq(Calls) /\ write \in Seq(Calls) /\ send \in Seq(Calls)
      BY <2>0
  <2>3. OneFile => Steps("seed-empty") = look \o write \o send \o links
      BY <1>7
  <2>4. ~OneFile => Steps("seed-empty") = <<>> \o <<blank>> \o <<>> \o links
      BY <1>7
  <2>5. FromCheck = <<probe>> \o (<<guard>> \o (write \o (send \o FromClearC)))
      BY <1>8
  <2> HIDE DEF write, send
  <2>6. send \o FromClearC \in Seq(Calls)
      BY <1>12, <2>2, ConcatProperties
  <2>7. look \o write \o (send \o FromClearC) = <<probe>> \o (<<guard>> \o (write \o (send \o FromClearC)))
    <3> DEFINE rest == send \o FromClearC
    <3>1. probe \in Calls /\ guard \in Calls /\ write \in Seq(Calls) /\ rest \in Seq(Calls)
        BY <2>0, <2>2, <2>6
    <3> HIDE DEF rest
    <3>2. <<probe, guard>> \o write \o rest = <<probe>> \o (<<guard>> \o (write \o rest))
        BY <3>1, PlanOfMore
    <3> QED
        BY <3>2 DEF rest
  <2> HIDE DEF look
  <2>8. look \o write \in Seq(Calls)
      BY <2>2, ConcatProperties
  <2>9. (look \o write) \o send \o FromClearC = (look \o write) \o (send \o FromClearC)
      <3> DEFINE before == look \o write
                 after == FromClearC
      <3>1. before \in Seq(Calls) /\ send \in Seq(Calls) /\ after \in Seq(Calls)
          BY <1>12, <2>2, <2>8
      <3> HIDE DEF before, after
      <3>2. (before \o send) \o after = before \o (send \o after)
          BY <3>1, ConcatAssociative
      <3> QED
          BY <3>2 DEF before, after
  <2> QED
      BY <1>8, <1>11, <2>1, <2>3, <2>4, <2>5, <2>7, <2>9
<1> QED
    BY <1>6, <1>10, <1>11, <1>13, <1>14, <1>15

\* ---------------------------------------------------------------------- types

Owned == [kind : {"absent", "plain", "link", "foreign"}, text : SUBSET Texts]
Payloads == (SUBSET Texts) \cup {Nothing}

ConfigTypes ==
    /\ mode \in Modes
    /\ own \in [Sides -> Owned]
    /\ store \in [Sides -> Payloads]
    /\ aside \in [Sides -> SUBSET Texts]
    /\ base \in Payloads
    /\ op \in {"idle", "link", "unlink"}
    /\ has \in BOOLEAN /\ killed \in BOOLEAN /\ edited \in BOOLEAN
    /\ done \in {"none", "linked", "unlinked"}
    /\ live \in SUBSET Texts

\* A step that changes files changes them to these.
LEMMA FileTypes ==
    ASSUME ConfigTypes, NEW s \in Sides
    PROVE  /\ own[s].text \in SUBSET Texts /\ aside[s] \in SUBSET Texts
           /\ store[s] \in Payloads /\ store[s] \ Nothing \in SUBSET Texts
           /\ store[s] # Nothing => store[s] \in SUBSET Texts
           /\ \A t \in SUBSET Texts : Plain(t) \in Owned /\ Link(t) \in Owned
           /\ Absent \in Owned
           /\ \A x \in Owned : [own EXCEPT ![s] = x] \in [Sides -> Owned]
           /\ \A x \in Payloads :
                 [store EXCEPT ![s] = x] \in [Sides -> Payloads]
           /\ \A x \in SUBSET Texts : [aside EXCEPT ![s] = @ \cup x] \in [Sides -> SUBSET Texts]
<1>1. own[s] \in Owned
    BY DEF ConfigTypes
<1>2. own[s].text \in SUBSET Texts
    BY <1>1 DEF Owned
<1>3. Nothing \cap Texts = {}
    BY TextsAssumption DEF Nothing
<1>4. store[s] \in Payloads /\ aside[s] \in SUBSET Texts
    BY DEF ConfigTypes
<1>5. store[s] \ Nothing \in SUBSET Texts /\ (store[s] # Nothing => store[s] \in SUBSET Texts)
    BY <1>3, <1>4 DEF Payloads
<1>6. \A t \in SUBSET Texts : Plain(t) \in Owned /\ Link(t) \in Owned
    BY DEF Owned, Plain, Link
<1>7. Absent \in Owned
    BY DEF Owned, Absent
<1>8. \A x \in Owned : [own EXCEPT ![s] = x] \in [Sides -> Owned]
    BY DEF ConfigTypes
<1>9. \A x \in Payloads : [store EXCEPT ![s] = x] \in [Sides -> Payloads]
    BY DEF ConfigTypes
<1>10. \A x \in SUBSET Texts : [aside EXCEPT ![s] = @ \cup x] \in [Sides -> SUBSET Texts]
    BY <1>4 DEF ConfigTypes
<1> QED
    BY <1>2, <1>4, <1>5, <1>6, <1>7, <1>8, <1>9, <1>10

LEMMA PayloadTypes == Nothing \in Payloads /\ {} \in Payloads /\ \A x \in SUBSET Texts : x \in Payloads
BY DEF Payloads

LEMMA ConfigTypesInit == ConfigInit => ConfigTypes
<1> SUFFICES ASSUME ConfigInit PROVE ConfigTypes
    OBVIOUS
<1>1. {Absent, Plain({}), Link({}), Foreign} \cup {Plain({t}) : t \in Texts} \subseteq Owned
    BY DEF Owned, Absent, Plain, Link, Foreign
<1>2. {Nothing} \cup {{t} : t \in Texts} \subseteq Payloads
    BY DEF Payloads
<1>3. own \in [Sides -> Owned]
    BY <1>1 DEF ConfigInit
<1>4. store \in [Sides -> Payloads]
    BY <1>2 DEF ConfigInit
<1>5. live \in SUBSET Texts
  <2>1. own["client"].text \in SUBSET Texts /\ own["box"].text \in SUBSET Texts
      BY <1>3 DEF Sides, Owned
  <2>2. store["box"] \ Nothing \in SUBSET Texts
      BY <1>4 DEF Sides, Payloads, Nothing
  <2> QED
      BY <2>1, <2>2 DEF ConfigInit
<1> QED
    BY <1>3, <1>4, <1>5, PayloadTypes DEF ConfigInit, ConfigTypes

LEMMA LinkStepTypes ==
    ASSUME ConfigTypes,
           \/ Seed \/ SeedFromClient \/ PullPayloadToClient \/ BoxPayloadHasContent
           \/ RenameAside \/ PushPayloadToBox \/ SeedEmptyGuarded \/ SeedEmpty
    PROVE  ConfigTypes'
<1> "client" \in Sides /\ "box" \in Sides
    BY DEF Sides
<1>1. CASE Seed \/ SeedFromClient \/ PullPayloadToClient \/ PushPayloadToBox \/ SeedEmpty
  <2>1. store' \in [Sides -> Payloads]
    <3>1. \A s \in Sides : CopyOwn(s) => store' \in [Sides -> Payloads]
      <4>1. \A s \in Sides : own[s].text \in Payloads /\ store[s] \in Payloads
          BY FileTypes, PayloadTypes
      <4> QED
          BY <4>1, FileTypes DEF CopyOwn, Put
    <3>2. {} \in Payloads /\ store["client"] \in Payloads
          /\ store["box"] \in Payloads
        BY PayloadTypes DEF ConfigTypes
    <3>3. \A s \in Sides : \A x \in Payloads :
              Put(s, x) => store' \in [Sides -> Payloads]
        BY FileTypes DEF Put
    <3>4. UNCHANGED store => store' \in [Sides -> Payloads]
        BY DEF ConfigTypes
    <3> QED
        BY <1>1, <3>1, <3>2, <3>3, <3>4
        DEF Seed, SeedFromClient, PullPayloadToClient, PushPayloadToBox, SeedEmpty
  <2>2. UNCHANGED <<mode, own, aside, base, has, done, killed, edited, live>> /\ op' \in {op, "idle"}
      BY <1>1 DEF Seed, SeedFromClient, PullPayloadToClient, PushPayloadToBox, SeedEmpty, Go, Die
  <2> QED
      BY <2>1, <2>2 DEF ConfigTypes
<1>2. CASE BoxPayloadHasContent \/ SeedEmptyGuarded
    BY <1>2 DEF BoxPayloadHasContent, SeedEmptyGuarded, HasText, Exists, Go, Die, files, ConfigTypes
<1>3. CASE RenameAside
  <2>1. store' \in [Sides -> Payloads] /\ aside' \in [Sides -> SUBSET Texts]
    <3>1. CASE has /\ Exists("box")
      <4>1. store' = [store EXCEPT !["box"] = Nothing]
            /\ aside' = [aside EXCEPT !["box"] = @ \cup store["box"]]
          BY <1>3, <3>1 DEF RenameAside, Put, KeepAside
      <4>2. store["box"] \in SUBSET Texts
          BY <3>1, FileTypes DEF Exists
      <4> QED
          BY <4>1, <4>2, FileTypes, PayloadTypes
    <3>2. CASE ~(has /\ Exists("box"))
        BY <1>3, <3>2 DEF RenameAside, ConfigTypes
    <3> QED
        BY <3>1, <3>2
  <2>2. UNCHANGED <<mode, own, base, has, done, killed, edited, live>> /\ op' \in {op, "idle"}
      BY <1>3 DEF RenameAside, Go, Die, ConfigTypes
  <2> QED
      BY <2>1, <2>2 DEF ConfigTypes
<1> QED
    BY <1>1, <1>2, <1>3

LEMMA SideStepTypes ==
    ASSUME ConfigTypes, NEW s \in Sides, Shelve(s) \/ Clear(s) \/ LinkSide(s) \/ Remove(s) \/ Restore(s)
    PROVE  ConfigTypes'
<1>1. own' \in [Sides -> Owned]
  <2>1. \A x \in Owned : own' = [own EXCEPT ![s] = x] => own' \in [Sides -> Owned]
      BY FileTypes
  <2>2. own[s] \in Owned /\ own \in [Sides -> Owned]
      BY DEF ConfigTypes
  <2>3. own' = own \/ \E x \in Owned : own' = [own EXCEPT ![s] = x]
    <3>1. own[s].text \cup (store[s] \ Nothing) \in SUBSET Texts /\ own[s].text \in SUBSET Texts
        BY FileTypes
    <3> QED
        BY <2>2, <3>1, FileTypes DEF Shelve, Clear, LinkSide, Remove, Restore
  <2> QED
      BY <2>1, <2>2, <2>3
<1>2. store' \in [Sides -> Payloads]
  <2>1. {} \in Payloads /\ store \in [Sides -> Payloads]
      BY PayloadTypes DEF ConfigTypes
  <2> QED
      BY <2>1, FileTypes DEF Shelve, Clear, LinkSide, Remove, Restore, Put
<1>3. aside' \in [Sides -> SUBSET Texts]
  <2>1. aside \in [Sides -> SUBSET Texts]
      BY DEF ConfigTypes
  <2> QED
      BY <2>1, FileTypes DEF Shelve, Clear, LinkSide, Remove, Restore, KeepAside
<1>4. UNCHANGED <<mode, base, has, done, killed, edited, live>> /\ op' \in {op, "idle"}
    BY DEF Shelve, Clear, LinkSide, Remove, Restore, Go, Die
<1> QED
    BY <1>1, <1>2, <1>3, <1>4 DEF ConfigTypes

LEMMA OtherTypes ==
    ASSUME ConfigTypes,
           \/ RunConfigLink \/ RunConfigUnlink \/ Finish \/ Kill \/ Deliver
           \/ \E s \in Sides, t \in Texts : Edit(s, t)
    PROVE  ConfigTypes'
<1>1. CASE RunConfigLink
  <2>1. live' \in SUBSET Texts /\ op' \in {"idle", "link"}
    <3>1. PICK d : /\ live' = live \/ live' = live \ GivenUp(d)
                   /\ op' = IF Steps(d) = <<>> THEN "idle" ELSE "link"
        BY <1>1 DEF RunConfigLink
    <3> QED
        BY <3>1 DEF ConfigTypes
  <2> QED
      BY <1>1, <2>1 DEF RunConfigLink, files, ConfigTypes
<1>2. CASE RunConfigUnlink \/ Finish \/ Kill
    BY <1>2 DEF RunConfigUnlink, Finish, Kill, files, ConfigTypes
<1>3. CASE Deliver
  <2>1. PICK v \in Reconciled : store' = [s \in Sides |-> v] /\ base' = v
      BY <1>3 DEF Deliver
  <2>2. v \in {store["client"], store["box"]}
      BY <2>1 DEF Reconciled
  <2>3. v \in Payloads
      BY <2>2 DEF ConfigTypes, Sides
  <2> QED
      BY <1>3, <2>1, <2>3 DEF Deliver, cli, ConfigTypes
<1>4. ASSUME NEW s \in Sides, NEW t \in Texts, Edit(s, t)
      PROVE  ConfigTypes'
  <2>1. {t} \in SUBSET Texts
      OBVIOUS
  <2>2. own' \in [Sides -> Owned] /\ store' \in [Sides -> Payloads]
    <3>1. own \in [Sides -> Owned] /\ store \in [Sides -> Payloads]
        BY DEF ConfigTypes
    <3>2. Plain({t}) \in Owned /\ {t} \in Payloads
        BY <2>1, FileTypes, PayloadTypes
    <3>3. CASE own[s].kind = "link"
      <4>1. store' = [store EXCEPT ![s] = {t}] /\ own' = own
          BY <1>4, <3>3 DEF Edit, Put
      <4> QED
          BY <3>1, <3>2, <4>1, FileTypes
    <3>4. CASE own[s].kind # "link"
      <4>1. own' = [own EXCEPT ![s] = Plain({t})] /\ store' = store
          BY <1>4, <3>4 DEF Edit
      <4> QED
          BY <3>1, <3>2, <4>1, FileTypes
    <3> QED
        BY <3>3, <3>4
  <2>3. live' \in SUBSET Texts
      BY <1>4 DEF Edit, ConfigTypes
  <2> QED
      BY <1>4, <2>2, <2>3 DEF Edit, ConfigTypes, Owned
<1> QED
    BY <1>1, <1>2, <1>3, <1>4

LEMMA ConfigTypesStep == ConfigTypes /\ [ConfigNext]_configVars => ConfigTypes'
<1> SUFFICES ASSUME ConfigTypes, [ConfigNext]_configVars PROVE ConfigTypes'
    OBVIOUS
<1>1. CASE UNCHANGED configVars
    BY <1>1 DEF configVars, ConfigTypes
<1> QED
    BY <1>1, LinkStepTypes, SideStepTypes, OtherTypes DEF ConfigNext

\* What the variables range over, whatever the commands, the engine and the users do.
THEOREM ConfigTypesHold == ConfigSpec => []ConfigTypes
BY ConfigTypesInit, ConfigTypesStep, PTL DEF ConfigSpec

\* ------------------------------------------------------------ what is kept where

\* Texts in the applications' own files and in the copies aside.
Rest == own["client"].text \cup own["box"].text \cup aside["client"] \cup aside["box"]

\* What has no content of its own outside ssh has no text.
Shapes ==
    \A s \in Sides :
        /\ own[s].kind \in {"absent", "foreign"} => own[s].text = {}
        /\ own[s].kind = "link" /\ mode # "ssh-include" => own[s].text = {}

\* A payload that is nowhere on the client was never seen on both sides.
Gone == \A s \in Sides : ~Exists(s) /\ (s = "client" \/ mode = "dir") => base = Nothing

\* The engine replaces the payload it last saw on both sides by the other side's: what
\* is only there is given up, or has been kept.
BaseKept ==
    \A x, y \in Sides :
        store[x] = base /\ store[y] # base => live \cap base \subseteq Rest \cup store[y]

FilesInv == Gone /\ BaseKept /\ NothingLost

LEMMA KeptIs ==
    /\ Kept = Rest \cup store["client"] \cup store["box"]
    /\ Kept' = Rest' \cup store'["client"] \cup store'["box"]
BY DEF Kept, Rest, Sides

LEMMA NoTextThere == ASSUME ConfigTypes PROVE live \cap Nothing = {} /\ Texts \cap Nothing = {}
BY TextsAssumption DEF ConfigTypes, Nothing

\* A step that changes no payload and drops no text.
LEMMA RestGrows ==
    ASSUME FilesInv, UNCHANGED <<mode, store, base>>, live' \subseteq live, Rest \subseteq Rest'
    PROVE  FilesInv'
<1>1. Gone'
    BY DEF FilesInv, Gone, Exists
<1>2. BaseKept'
    BY DEF FilesInv, BaseKept
<1>3. NothingLost'
    BY KeptIs DEF FilesInv, NothingLost
<1> QED
    BY <1>1, <1>2, <1>3 DEF FilesInv

\* A step that changes one payload.
LEMMA PayloadStep ==
    ASSUME ConfigTypes, FilesInv, NEW s \in Sides, NEW o \in Sides, s # o, NEW n,
           store' = [store EXCEPT ![s] = n], UNCHANGED <<mode, base, live>>, Rest \subseteq Rest',
           n = Nothing => s = "box" /\ OneFile,
           live \cap store[s] \subseteq Rest' \cup n \cup store[o],
           n = base /\ store[o] # base => live \cap base \subseteq Rest' \cup store[o],
           n # base /\ store[o] = base => live \cap base \subseteq Rest' \cup n
    PROVE  FilesInv'
<1>1. store'[s] = n /\ store'[o] = store[o]
    BY DEF ConfigTypes
<1>2. Sides = {s, o}
    BY DEF Sides
<1>3. Gone'
    BY <1>1, <1>2 DEF FilesInv, Gone, Exists, OneFile, Sides
<1>4. BaseKept'
    BY <1>1, <1>2 DEF BaseKept
<1>5. NothingLost'
  <2>1. Kept = Rest \cup store[s] \cup store[o] /\ Kept' = Rest' \cup n \cup store[o]
      BY <1>1, KeptIs DEF Sides
  <2> QED
      BY <2>1 DEF FilesInv, NothingLost
<1> QED
    BY <1>3, <1>4, <1>5 DEF FilesInv

\* ------------------------------------------------------- where a command stands

Same == store["client"] = store["box"]
\* There is a payload for the client's link, or there was until the engine deleted it.
Target == swept \/ Exists("client")
\* A payload that both sides have is one payload.
Agrees == OneFile /\ ~killed /\ ~edited => ~Exists("client") \/ Same
\* Once the pull or the push is done, both sides have the same payload, or neither has one.
Agreed == OneFile /\ ~killed /\ ~edited => Same
\* The box's payload may take the place of the client's.
MayPull == Exists("box") /\ live \cap store["client"] \subseteq store["box"] \cup Rest
\* The client's may take the place of the box's.
MayPush == ~HasText("box") \/ Same

AtSeed ==
    /\ todo = FromSeed(OneFile)
    /\ Seeds => \/ ~OneFile /\ own["box"].text = {}
                \/ live \cap (store["client"] \cup store["box"]) = {}
    /\ ~Seeds /\ OneFile => Exists("client") /\ Same
AtShelveB == todo = FromShelveB(OneFile) /\ (OneFile => MayPull)
AtPull == OneFile /\ todo = FromPull /\ MayPull
AtCopy ==
    /\ todo = FromCopy(OneFile)
    /\ own["client"].text # {} /\ live \cap store["client"] = {}
    /\ live \cap store["box"] = {} \/ base = Nothing
AtShelveC == todo = FromShelveC(OneFile) /\ (OneFile => Target)
AtProbe == OneFile /\ todo = FromProbe /\ Target
AtSpare ==
    /\ OneFile /\ todo = FromSpare /\ Target
    /\ has => Exists("box")
    /\ ~has => MayPush
AtPush == OneFile /\ todo = FromPush /\ Target /\ MayPush
AtCheck == OneFile /\ todo = FromCheck /\ (~Exists("client") \/ Same)
AtGuard ==
    /\ OneFile /\ todo = FromGuard /\ Agrees
    /\ ~has => ~HasText("client") /\ ~HasText("box")
AtBlank == todo = FromBlank(OneFile) /\ (OneFile => ~HasText("client") /\ ~HasText("box"))
AtClearC == todo = FromClearC /\ (OneFile => Target) /\ Agreed
AtLinkC ==
    /\ todo = FromLinkC /\ (OneFile => Target) /\ Agreed
    /\ mode = "ssh-include" \/ own["client"].kind \in {"absent", "link"}
HalfLinked == Target /\ own["client"].kind = "link" /\ Agreed
AtClearB == todo = FromClearB /\ HalfLinked
AtLinkB ==
    /\ todo = FromLinkB /\ HalfLinked
    /\ mode = "ssh-include" \/ own["box"].kind \in {"absent", "link"}
AtEnd == todo = <<>> /\ HalfLinked /\ own["box"].kind = "link"

Linking ==
    \/ AtSeed \/ AtShelveB \/ AtPull
    \/ AtCopy \/ AtShelveC \/ AtProbe \/ AtSpare \/ AtPush
    \/ AtCheck \/ AtGuard \/ AtBlank
    \/ AtClearC \/ AtLinkC \/ AtClearB \/ AtLinkB \/ AtEnd
Unlinking ==
    todo \in {FromRemoveC, FromRestoreC, FromRemoveB, FromRestoreB, <<>>} /\ Agrees

ScriptInv ==
    \/ op = "idle" /\ todo = <<>> /\ Agrees
    \/ op = "link" /\ Linking
    \/ op = "unlink" /\ Unlinking

ConfigInv == Shapes /\ FilesInv /\ ScriptInv

\* The call a command is about to make says where it stands and what is left.
LEMMA Where ==
    ASSUME ScriptInv, NEW what, NEW side, Step(what, side)
    PROVE  /\ what = "seed" /\ side = "box" => AtSeed /\ op = "link" /\ Tail(todo) = FromShelveB(OneFile)
           /\ what = "shelve" /\ side = "box" =>
                  AtShelveB /\ op = "link" /\ Tail(todo) = IF OneFile THEN FromPull ELSE FromClearC
           /\ what = "pull" => AtPull /\ op = "link" /\ Tail(todo) = FromClearC
           /\ what = "copy" => AtCopy /\ op = "link" /\ Tail(todo) = FromShelveC(OneFile)
           /\ what = "shelve" /\ side = "client" =>
                  AtShelveC /\ op = "link" /\ Tail(todo) = IF OneFile THEN FromProbe ELSE FromClearC
           /\ what = "probe" =>
                  /\ op = "link"
                  /\ \/ AtProbe /\ Tail(todo) = FromSpare
                     \/ AtCheck /\ Tail(todo) = FromGuard
           /\ what = "spare" => AtSpare /\ op = "link" /\ Tail(todo) = FromPush
           /\ what = "push" => AtPush /\ op = "link" /\ Tail(todo) = FromClearC
           /\ what = "guard" => AtGuard /\ op = "link" /\ Tail(todo) = FromBlank(OneFile)
           /\ what = "blank" =>
                  AtBlank /\ op = "link" /\ Tail(todo) = IF OneFile THEN FromPush ELSE FromClearC
           /\ what = "clear" /\ side = "client" => AtClearC /\ op = "link" /\ Tail(todo) = FromLinkC
           /\ what = "link" /\ side = "client" => AtLinkC /\ op = "link" /\ Tail(todo) = FromClearB
           /\ what = "clear" /\ side = "box" => AtClearB /\ op = "link" /\ Tail(todo) = FromLinkB
           /\ what = "link" /\ side = "box" => AtLinkB /\ op = "link" /\ Tail(todo) = <<>>
           /\ what \in {"remove", "restore"} => op = "unlink" /\ Agrees
           /\ what = "remove" =>
                  /\ Tail(todo) \in {FromRestoreC, FromRestoreB}
                  /\ Tail(Tail(todo)) \in {FromRemoveB, <<>>}
           /\ what = "restore" => Tail(todo) \in {FromRemoveB, <<>>}
<1>1. OneFile \in BOOLEAN
    BY DEF OneFile
<1>2. op # "idle" /\ todo # <<>> /\ what = Head(todo)[1] /\ side = Head(todo)[2]
    BY DEF Step, Idle
<1>3. CASE op = "unlink" /\ Unlinking
  <2>1. \/ what = "remove" /\ Tail(todo) = FromRestoreC /\ Tail(Tail(todo)) = FromRemoveB
        \/ what = "restore" /\ Tail(todo) = FromRemoveB
        \/ what = "remove" /\ Tail(todo) = FromRestoreB /\ Tail(Tail(todo)) = <<>>
        \/ what = "restore" /\ Tail(todo) = <<>>
    <3>1. \/ Begins(todo, <<"remove", "client">>, FromRestoreC)
          \/ Begins(todo, <<"restore", "client">>, FromRemoveB)
          \/ Begins(todo, <<"remove", "box">>, FromRestoreB)
          \/ Begins(todo, <<"restore", "box">>, <<>>)
        BY <1>2, <1>3, Program DEF Unlinking
    <3>2. Tail(FromRestoreC) = FromRemoveB /\ Tail(FromRestoreB) = <<>>
      <4>1. Begins(FromRestoreC, <<"restore", "client">>, FromRemoveB)
            /\ Begins(FromRestoreB, <<"restore", "box">>, <<>>)
          BY Program
      <4> QED
          BY <4>1 DEF Begins
    <3> QED
        BY <1>2, <3>1, <3>2 DEF Begins
  <2> QED
      BY <1>3, <2>1 DEF Unlinking
<1>4. CASE op = "link" /\ Linking
  <2>1. CASE AtSeed
    <3>1. Begins(todo, <<"seed", "box">>, FromShelveB(OneFile))
        BY <1>1, <2>1, Program DEF AtSeed
    <3>2. what = "seed" /\ side = "box" /\ Tail(todo) = FromShelveB(OneFile)
        BY <1>2, <3>1 DEF Begins
    <3> QED
        BY <1>4, <2>1, <3>2
  <2>2. CASE AtShelveB
    <3>1. Begins(todo, <<"shelve", "box">>, (IF OneFile THEN FromPull ELSE FromClearC))
        BY <1>1, <2>2, Program DEF AtShelveB
    <3>2. what = "shelve" /\ side = "box" /\ Tail(todo) = IF OneFile THEN FromPull ELSE FromClearC
        BY <1>2, <3>1 DEF Begins
    <3> QED
        BY <1>4, <2>2, <3>2
  <2>3. CASE AtPull
    <3>1. Begins(todo, <<"pull", "client">>, FromClearC)
        BY <1>1, <2>3, Program DEF AtPull
    <3>2. what = "pull" /\ side = "client" /\ Tail(todo) = FromClearC
        BY <1>2, <3>1 DEF Begins
    <3> QED
        BY <1>4, <2>3, <3>2
  <2>4. CASE AtCopy
    <3>1. Begins(todo, <<"copy", "client">>, FromShelveC(OneFile))
        BY <1>1, <2>4, Program DEF AtCopy
    <3>2. what = "copy" /\ side = "client" /\ Tail(todo) = FromShelveC(OneFile)
        BY <1>2, <3>1 DEF Begins
    <3> QED
        BY <1>4, <2>4, <3>2
  <2>5. CASE AtShelveC
    <3>1. Begins(todo, <<"shelve", "client">>, IF OneFile THEN FromProbe ELSE FromClearC)
        BY <1>1, <2>5, Program DEF AtShelveC
    <3>2. what = "shelve" /\ side = "client" /\ Tail(todo) = IF OneFile THEN FromProbe ELSE FromClearC
        BY <1>2, <3>1 DEF Begins
    <3> QED
        BY <1>4, <2>5, <3>2
  <2>6. CASE AtProbe
    <3>1. Begins(todo, <<"probe", "box">>, FromSpare)
        BY <1>1, <2>6, Program DEF AtProbe
    <3>2. what = "probe" /\ side = "box" /\ Tail(todo) = FromSpare
        BY <1>2, <3>1 DEF Begins
    <3> QED
        BY <1>4, <2>6, <3>2
  <2>7. CASE AtSpare
    <3>1. Begins(todo, <<"spare", "box">>, FromPush)
        BY <1>1, <2>7, Program DEF AtSpare
    <3>2. what = "spare" /\ side = "box" /\ Tail(todo) = FromPush
        BY <1>2, <3>1 DEF Begins
    <3> QED
        BY <1>4, <2>7, <3>2
  <2>8. CASE AtPush
    <3>1. Begins(todo, <<"push", "box">>, FromClearC)
        BY <1>1, <2>8, Program DEF AtPush
    <3>2. what = "push" /\ side = "box" /\ Tail(todo) = FromClearC
        BY <1>2, <3>1 DEF Begins
    <3> QED
        BY <1>4, <2>8, <3>2
  <2>9. CASE AtCheck
    <3>1. Begins(todo, <<"probe", "box">>, FromGuard)
        BY <1>1, <2>9, Program DEF AtCheck
    <3>2. what = "probe" /\ side = "box" /\ Tail(todo) = FromGuard
        BY <1>2, <3>1 DEF Begins
    <3> QED
        BY <1>4, <2>9, <3>2
  <2>10. CASE AtGuard
    <3>1. Begins(todo, <<"guard", "client">>, FromBlank(OneFile))
        BY <1>1, <2>10, Program DEF AtGuard
    <3>2. what = "guard" /\ side = "client" /\ Tail(todo) = FromBlank(OneFile)
        BY <1>2, <3>1 DEF Begins
    <3> QED
        BY <1>4, <2>10, <3>2
  <2>11. CASE AtBlank
    <3>1. Begins(todo, <<"blank", "client">>, IF OneFile THEN FromPush ELSE FromClearC)
        BY <1>1, <2>11, Program DEF AtBlank
    <3>2. what = "blank" /\ side = "client" /\ Tail(todo) = IF OneFile THEN FromPush ELSE FromClearC
        BY <1>2, <3>1 DEF Begins
    <3> QED
        BY <1>4, <2>11, <3>2
  <2>12. CASE AtClearC
    <3>1. Begins(todo, <<"clear", "client">>, FromLinkC)
        BY <1>1, <2>12, Program DEF AtClearC
    <3>2. what = "clear" /\ side = "client" /\ Tail(todo) = FromLinkC
        BY <1>2, <3>1 DEF Begins
    <3> QED
        BY <1>4, <2>12, <3>2
  <2>13. CASE AtLinkC
    <3>1. Begins(todo, <<"link", "client">>, FromClearB)
        BY <1>1, <2>13, Program DEF AtLinkC
    <3>2. what = "link" /\ side = "client" /\ Tail(todo) = FromClearB
        BY <1>2, <3>1 DEF Begins
    <3> QED
        BY <1>4, <2>13, <3>2
  <2>14. CASE AtClearB
    <3>1. Begins(todo, <<"clear", "box">>, FromLinkB)
        BY <1>1, <2>14, Program DEF AtClearB
    <3>2. what = "clear" /\ side = "box" /\ Tail(todo) = FromLinkB
        BY <1>2, <3>1 DEF Begins
    <3> QED
        BY <1>4, <2>14, <3>2
  <2>15. CASE AtLinkB
    <3>1. Begins(todo, <<"link", "box">>, <<>>)
        BY <1>1, <2>15, Program DEF AtLinkB
    <3>2. what = "link" /\ side = "box" /\ Tail(todo) = <<>>
        BY <1>2, <3>1 DEF Begins
    <3> QED
        BY <1>4, <2>15, <3>2
  <2>16. CASE AtEnd
      BY <1>2, <2>16 DEF AtEnd
  <2> QED
      BY <1>4, <2>1, <2>2, <2>3, <2>4, <2>5, <2>6, <2>7, <2>8, <2>9, <2>10, <2>11, <2>12, <2>13,
         <2>14, <2>15, <2>16 DEF Linking
<1> QED
    BY <1>2, <1>3, <1>4 DEF ScriptInv

\* --------------------------------------------------------- the steps of a link

\* The whole or nothing of a side's own text becomes its payload.
LEMMA CopyKeeps ==
    ASSUME ConfigTypes, FilesInv, NEW s \in Sides, NEW o \in Sides, s # o, CopyOwn(s),
           UNCHANGED <<mode, own, aside, base, live>>,
           \/ ~OneFile /\ own[s].text = {}
           \/ live \cap store[s] = {} /\ (live \cap store[o] = {} \/ base = Nothing)
    PROVE  FilesInv' /\ Exists(s)' /\ store'[o] = store[o]
           /\ (OneFile => store'[s] = own[s].text)
<1> DEFINE text == own[s].text
           n == IF mode = "dir" /\ text = {} /\ Exists(s) THEN store[s] ELSE text
<1>1. store' = [store EXCEPT ![s] = n] /\ Rest' = Rest
    BY DEF CopyOwn, Put, Rest
<1>2. text \in SUBSET Texts /\ text # Nothing /\ text \subseteq Rest
  <2>1. text \in SUBSET Texts
      BY FileTypes
  <2>2. NoFile \in Nothing /\ NoFile \notin Texts
      BY TextsAssumption DEF Nothing
  <2>3. text \subseteq Rest
      BY DEF Rest, Sides
  <2> QED
      BY <2>1, <2>2, <2>3
<1>3. n # Nothing /\ store'[s] = n /\ store'[o] = store[o]
    BY <1>1, <1>2 DEF ConfigTypes, Exists
<1> HIDE DEF text
<1>4. CASE mode = "dir" /\ text = {} /\ Exists(s)
  <2>1. store' = store
      BY <1>1, <1>4 DEF ConfigTypes
  <2> QED
      BY <1>1, <1>3, <1>4, <2>1, RestGrows DEF Exists, OneFile
<1>5. CASE mode = "dir" /\ text = {} /\ ~Exists(s)
  <2>1. base = Nothing /\ n = {} /\ store[s] = Nothing
      BY <1>5 DEF FilesInv, Gone, Exists
  <2>2. live \cap base = {} /\ live \cap store[s] = {}
      BY <2>1, NoTextThere
  <2>3. n # Nothing /\ n # base
      BY <1>3, <2>1
  <2> HIDE DEF n
  <2> QED
      BY <1>1, <1>3, <1>5, <2>2, <2>3, PayloadStep DEF Exists, OneFile
<1>6. CASE ~(mode = "dir" /\ text = {})
  <2>1. n = text
      BY <1>6
  <2>2. live \cap store[s] = {} /\ (live \cap store[o] = {} \/ base = Nothing)
      BY <1>6 DEF OneFile, text
  <2>3. store[o] = base => live \cap base = {}
      BY <2>2, NoTextThere
  <2>4. n = base => live \cap base \subseteq Rest
      BY <1>2, <2>1
  <2> HIDE DEF n
  <2>5. FilesInv'
      BY <1>1, <1>3, <2>2, <2>3, <2>4, PayloadStep
  <2> QED
      BY <1>3, <2>1, <2>5 DEF Exists, text
<1> QED
    BY <1>4, <1>5, <1>6

\* A step of a link that leaves the applications' own files alone.
LEMMA ShapesKept == ASSUME Shapes, UNCHANGED <<mode, own>> PROVE Shapes'
BY DEF Shapes

LEMMA SeedKeeps == ASSUME ConfigTypes, ConfigInv, Seed PROVE ConfigInv'
<1>1. AtSeed /\ op = "link" /\ Tail(todo) = FromShelveB(OneFile)
    BY Where DEF ConfigInv, Seed
<1>2. /\ UNCHANGED <<mode, own, aside, base, live, op>> /\ todo' = FromShelveB(OneFile)
      /\ IF Seeds THEN CopyOwn("box") ELSE store' = store
    BY <1>1 DEF Seed, Go
<1>3. CASE Seeds
  <2>1. \/ ~OneFile /\ own["box"].text = {}
        \/ live \cap store["client"] = {} /\ live \cap store["box"] = {}
      BY <1>1, <1>3 DEF AtSeed
  <2>2. /\ FilesInv' /\ Exists("box")' /\ store'["client"] = store["client"]
        /\ OneFile => store'["box"] = own["box"].text
      BY <1>2, <1>3, <2>1, CopyKeeps DEF ConfigInv, Sides
  <2>3. OneFile => MayPull'
      BY <1>2, <2>1, <2>2 DEF MayPull
  <2>4. AtShelveB'
      BY <1>2, <2>3 DEF AtShelveB, OneFile
  <2> QED
      BY <1>1, <1>2, <2>2, <2>4, ShapesKept DEF ConfigInv, ScriptInv, Linking
<1>4. CASE ~Seeds
  <2>1. FilesInv'
      BY <1>2, <1>4, RestGrows DEF ConfigInv, Rest
  <2>2. AtShelveB'
      BY <1>1, <1>2, <1>4 DEF AtSeed, AtShelveB, MayPull, OneFile, Exists, Same
  <2> QED
      BY <1>1, <1>2, <2>1, <2>2, ShapesKept DEF ConfigInv, ScriptInv, Linking
<1> QED
    BY <1>3, <1>4

LEMMA SeedFromClientKeeps == ASSUME ConfigTypes, ConfigInv, SeedFromClient PROVE ConfigInv'
<1>1. AtCopy /\ op = "link" /\ Tail(todo) = FromShelveC(OneFile)
    BY Where DEF ConfigInv, SeedFromClient
<1>2. /\ UNCHANGED <<mode, own, aside, base, live, op>> /\ todo' = FromShelveC(OneFile)
      /\ CopyOwn("client")
    BY <1>1 DEF SeedFromClient, Go
<1>3. FilesInv' /\ Exists("client")'
    BY <1>1, <1>2, CopyKeeps DEF ConfigInv, AtCopy, Sides
<1>4. AtShelveC'
    BY <1>2, <1>3 DEF AtShelveC, OneFile, Target
<1> QED
    BY <1>1, <1>2, <1>3, <1>4, ShapesKept DEF ConfigInv, ScriptInv, Linking

LEMMA PullKeeps == ASSUME ConfigTypes, ConfigInv, PullPayloadToClient PROVE ConfigInv'
<1>1. AtPull /\ op = "link" /\ Tail(todo) = FromClearC
    BY Where DEF ConfigInv, PullPayloadToClient
<1>2. /\ UNCHANGED <<mode, own, aside, base, live, op>> /\ todo' = FromClearC
      /\ store' = [store EXCEPT !["client"] = store["box"]]
    BY <1>1 DEF PullPayloadToClient, Go, Put, AtPull, MayPull
<1>3. /\ store["box"] # Nothing /\ Rest' = Rest /\ OneFile
      /\ live \cap store["client"] \subseteq Rest' \cup store["box"]
    BY <1>1, <1>2 DEF AtPull, MayPull, Exists, Rest
<1>4. FilesInv'
    BY <1>2, <1>3, PayloadStep DEF ConfigInv, Sides
<1>5. store'["client"] = store["box"] /\ store'["box"] = store["box"]
    BY <1>2 DEF ConfigTypes, Sides
<1>6. AtClearC'
    BY <1>2, <1>3, <1>5 DEF AtClearC, Target, Exists, Agreed, Same
<1> QED
    BY <1>1, <1>2, <1>4, <1>6, ShapesKept DEF ConfigInv, ScriptInv, Linking

LEMMA ProbeKeeps == ASSUME ConfigTypes, ConfigInv, BoxPayloadHasContent PROVE ConfigInv'
<1>1. /\ op = "link"
      /\ \/ AtProbe /\ Tail(todo) = FromSpare
         \/ AtCheck /\ Tail(todo) = FromGuard
    BY Where DEF ConfigInv, BoxPayloadHasContent
<1>2. /\ UNCHANGED <<mode, own, store, aside, base, live, op, killed, edited, swept>> /\ todo' = Tail(todo)
      /\ has' = HasText("box")
    BY DEF BoxPayloadHasContent, files
<1>3. FilesInv'
    BY <1>2, RestGrows DEF ConfigInv, Rest
<1>4. CASE AtProbe /\ Tail(todo) = FromSpare
  <2>1. AtSpare'
      BY <1>2, <1>4 DEF AtProbe, AtSpare, Target, MayPush, HasText, Exists, OneFile
  <2> QED
      BY <1>1, <1>2, <1>3, <2>1, ShapesKept DEF ConfigInv, ScriptInv, Linking
<1>5. CASE AtCheck /\ Tail(todo) = FromGuard
  <2>1. AtGuard'
      BY <1>2, <1>5 DEF AtCheck, AtGuard, Agrees, HasText, Exists, Same, OneFile
  <2> QED
      BY <1>1, <1>2, <1>3, <2>1, ShapesKept DEF ConfigInv, ScriptInv, Linking
<1> QED
    BY <1>1, <1>4, <1>5

LEMMA RenameAsideKeeps == ASSUME ConfigTypes, ConfigInv, RenameAside PROVE ConfigInv'
<1>1. AtSpare /\ op = "link" /\ Tail(todo) = FromPush
    BY Where DEF ConfigInv, RenameAside
<1>2. has \in BOOLEAN
    BY DEF ConfigTypes
<1>3. UNCHANGED <<mode, own, base, live, op, swept>> /\ todo' = FromPush
    BY <1>1, <1>2 DEF RenameAside, Go, AtSpare
<1>4. CASE ~has
  <2>1. UNCHANGED <<store, aside>>
      BY <1>4 DEF RenameAside
  <2>2. FilesInv'
      BY <1>3, <2>1, RestGrows DEF ConfigInv, Rest
  <2>3. AtPush'
      BY <1>1, <1>3, <1>4, <2>1 DEF AtSpare, AtPush, Target, MayPush, HasText, Exists, Same, OneFile
  <2> QED
      BY <1>1, <1>3, <2>2, <2>3, ShapesKept DEF ConfigInv, ScriptInv, Linking
<1>5. CASE has
  <2>1. /\ store' = [store EXCEPT !["box"] = Nothing]
        /\ aside' = [aside EXCEPT !["box"] = @ \cup store["box"]]
      BY <1>1, <1>2, <1>5 DEF RenameAside, Put, KeepAside, AtSpare
  <2>2. store'["box"] = Nothing /\ store'["client"] = store["client"]
      BY <2>1 DEF ConfigTypes, Sides
  <2>3. aside'["client"] = aside["client"] /\ aside'["box"] = aside["box"] \cup store["box"]
      BY <2>1 DEF ConfigTypes, Sides
  <2>4. Rest' = Rest \cup store["box"] /\ OneFile
      BY <1>1, <1>3, <2>3 DEF Rest, AtSpare
  <2>5. store["client"] = base => live \cap base \subseteq Rest \cup store["box"]
      BY DEF ConfigInv, FilesInv, BaseKept, Sides
  <2>6. Nothing = base => live \cap base = {}
      BY NoTextThere
  <2>7. FilesInv'
      BY <1>3, <2>1, <2>4, <2>5, <2>6, PayloadStep DEF ConfigInv, Sides
  <2>8. AtPush'
      BY <1>1, <1>3, <2>2 DEF AtSpare, AtPush, Target, MayPush, HasText, Exists, OneFile
  <2> QED
      BY <1>1, <1>3, <2>7, <2>8, ShapesKept DEF ConfigInv, ScriptInv, Linking
<1> QED
    BY <1>2, <1>4, <1>5

LEMMA PushKeeps == ASSUME ConfigTypes, ConfigInv, PushPayloadToBox PROVE ConfigInv'
<1>1. AtPush /\ op = "link" /\ Tail(todo) = FromClearC
    BY Where DEF ConfigInv, PushPayloadToBox
<1>2. CASE Exists("client")
  <2>1. /\ UNCHANGED <<mode, own, aside, base, live, op>> /\ todo' = FromClearC
        /\ store' = [store EXCEPT !["box"] = store["client"]]
      BY <1>1, <1>2 DEF PushPayloadToBox, Go, Put
  <2>2. Rest' = Rest /\ OneFile /\ store["client"] # Nothing
      BY <1>1, <1>2, <2>1 DEF AtPush, Exists, Rest
  <2>3. live \cap store["box"] \subseteq store["client"]
      BY <1>1, NoTextThere DEF AtPush, MayPush, HasText, Exists, Same
  <2>4. FilesInv'
      BY <2>1, <2>2, <2>3, PayloadStep DEF ConfigInv, Sides
  <2>5. store'["client"] = store["client"] /\ store'["box"] = store["client"]
      BY <2>1 DEF ConfigTypes, Sides
  <2>6. AtClearC'
      BY <2>1, <2>2, <2>5 DEF AtClearC, Target, Exists, Agreed, Same
  <2> QED
      BY <1>1, <2>1, <2>4, <2>6, ShapesKept DEF ConfigInv, ScriptInv, Linking
<1>3. CASE ~Exists("client")
  <2>1. UNCHANGED <<mode, own, store, aside, base, live>> /\ op' = "idle" /\ todo' = <<>>
      BY <1>3 DEF PushPayloadToBox, Die
  <2>2. Agrees'
      BY <1>3, <2>1 DEF Agrees, Exists
  <2> QED
      BY <2>1, <2>2, RestGrows, ShapesKept DEF ConfigInv, ScriptInv, Rest
<1> QED
    BY <1>2, <1>3

LEMMA GuardKeeps == ASSUME ConfigTypes, ConfigInv, SeedEmptyGuarded PROVE ConfigInv'
<1>1. AtGuard /\ op = "link" /\ Tail(todo) = FromBlank(OneFile)
    BY Where DEF ConfigInv, SeedEmptyGuarded
<1>2. UNCHANGED <<mode, own, store, aside, base, live, killed, edited>>
    BY DEF SeedEmptyGuarded, Go, Die, files
<1>3. FilesInv'
    BY <1>2, RestGrows DEF ConfigInv, Rest
<1>4. CASE has
  <2>1. op' = "idle" /\ todo' = <<>>
      BY <1>4 DEF SeedEmptyGuarded, Die
  <2>2. Agrees'
      BY <1>1, <1>2 DEF AtGuard, Agrees, Exists, Same, OneFile
  <2> QED
      BY <1>2, <1>3, <2>1, <2>2, ShapesKept DEF ConfigInv, ScriptInv
<1>5. CASE ~has
  <2>1. op' = op /\ todo' = FromBlank(OneFile)
      BY <1>1, <1>5 DEF SeedEmptyGuarded, Go
  <2>2. AtBlank'
      BY <1>1, <1>2, <1>5, <2>1 DEF AtGuard, AtBlank, HasText, Exists, OneFile
  <2> QED
      BY <1>1, <1>2, <1>3, <2>1, <2>2, ShapesKept DEF ConfigInv, ScriptInv, Linking
<1> QED
    BY <1>4, <1>5

LEMMA SeedEmptyKeeps == ASSUME ConfigTypes, ConfigInv, SeedEmpty PROVE ConfigInv'
<1>1. AtBlank /\ op = "link" /\ Tail(todo) = IF OneFile THEN FromPush ELSE FromClearC
    BY Where DEF ConfigInv, SeedEmpty
<1>2. /\ UNCHANGED <<mode, own, aside, base, live, op>>
      /\ todo' = IF OneFile THEN FromPush ELSE FromClearC
      /\ IF mode = "dir" /\ Exists("client") THEN store' = store
         ELSE store' = [store EXCEPT !["client"] = {}]
    BY <1>1 DEF SeedEmpty, Go, Put
<1>3. Rest' = Rest
    BY <1>2 DEF Rest
<1>4. CASE OneFile
  <2>1. store' = [store EXCEPT !["client"] = {}]
      BY <1>2, <1>4 DEF OneFile
  <2>2. ~HasText("client") /\ ~HasText("box")
      BY <1>1, <1>4 DEF AtBlank
  <2>3. live \cap store["client"] = {} /\ live \cap store["box"] = {}
      BY <2>2, NoTextThere DEF HasText, Exists
  <2>4. {} # Nothing
      BY DEF Nothing
  <2>5. FilesInv'
      BY <1>2, <1>3, <2>1, <2>3, <2>4, PayloadStep DEF ConfigInv, Sides
  <2>6. store'["client"] = {} /\ store'["box"] = store["box"]
      BY <2>1 DEF ConfigTypes, Sides
  <2>7. AtPush'
      BY <1>2, <1>4, <2>2, <2>4, <2>6 DEF AtPush, Target, MayPush, HasText, Exists, OneFile
  <2> QED
      BY <1>1, <1>2, <2>5, <2>7, ShapesKept DEF ConfigInv, ScriptInv, Linking
<1>5. CASE ~OneFile
  <2>1. AtClearC'
      BY <1>2, <1>5 DEF AtClearC, Agreed, OneFile
  <2>2. CASE Exists("client")
    <3>1. FilesInv'
        BY <1>2, <1>3, <1>5, <2>2, RestGrows DEF ConfigInv, OneFile
    <3> QED
        BY <1>1, <1>2, <2>1, <3>1, ShapesKept DEF ConfigInv, ScriptInv, Linking
  <2>3. CASE ~Exists("client")
    <3>1. base = Nothing /\ store["client"] = Nothing /\ store' = [store EXCEPT !["client"] = {}]
        BY <1>2, <2>3 DEF ConfigInv, FilesInv, Gone, Exists, Sides
    <3>2. live \cap base = {} /\ live \cap store["client"] = {} /\ {} # Nothing
        BY <3>1, NoTextThere DEF Nothing
    <3>3. FilesInv'
        BY <1>2, <1>3, <3>1, <3>2, PayloadStep DEF ConfigInv, Sides
    <3> QED
        BY <1>1, <1>2, <2>1, <3>3, ShapesKept DEF ConfigInv, ScriptInv, Linking
  <2> QED
      BY <2>2, <2>3
<1> QED
    BY <1>4, <1>5

\* Setting a side's own file aside drops no text and keeps the shapes.
LEMMA AsideKeeps ==
    ASSUME ConfigTypes, Shapes, FilesInv, NEW s \in Sides,
           UNCHANGED <<mode, store, base, live>>,
           \/ own' = [own EXCEPT ![s] = Absent] /\ KeepAside(s, own[s].text)
           \/ UNCHANGED <<own, aside>>
    PROVE  Shapes' /\ FilesInv'
<1>1. CASE UNCHANGED <<own, aside>>
    BY <1>1, RestGrows, ShapesKept DEF Rest
<1>2. CASE own' = [own EXCEPT ![s] = Absent] /\ KeepAside(s, own[s].text)
  <2>1. own'[s] = Absent /\ aside'[s] = aside[s] \cup own[s].text
      BY <1>2 DEF KeepAside, ConfigTypes
  <2>2. \A o \in Sides \ {s} : own'[o] = own[o] /\ aside'[o] = aside[o]
      BY <1>2 DEF KeepAside, ConfigTypes
  <2>3. Rest \subseteq Rest'
      BY <2>1, <2>2 DEF Rest, Sides
  <2>4. Shapes'
      BY <2>1, <2>2 DEF Shapes, Absent
  <2> QED
      BY <2>3, <2>4, RestGrows
<1> QED
    BY <1>1, <1>2

LEMMA ShelveKeeps == ASSUME ConfigTypes, ConfigInv, NEW s \in Sides, Shelve(s) PROVE ConfigInv'
<1>1. UNCHANGED <<mode, store, base, live, op, swept>> /\ todo' = Tail(todo)
    BY DEF Shelve, Go
<1>2. \/ own' = [own EXCEPT ![s] = Absent] /\ KeepAside(s, own[s].text)
      \/ UNCHANGED <<own, aside>>
    BY DEF Shelve
<1>3. Shapes' /\ FilesInv'
    BY <1>1, <1>2, AsideKeeps DEF ConfigInv
<1>4. Rest \subseteq Rest'
  <2>1. CASE UNCHANGED <<own, aside>>
      BY <2>1 DEF Rest
  <2>2. CASE own' = [own EXCEPT ![s] = Absent] /\ KeepAside(s, own[s].text)
    <3>1. aside'[s] = aside[s] \cup own[s].text
        BY <2>2 DEF KeepAside, ConfigTypes
    <3>2. \A o \in Sides \ {s} : own'[o] = own[o] /\ aside'[o] = aside[o]
        BY <2>2 DEF KeepAside, ConfigTypes
    <3> QED
        BY <3>1, <3>2 DEF Rest, Sides
  <2> QED
      BY <1>2, <2>1, <2>2
<1>5. CASE s = "box"
  <2>1. AtShelveB /\ op = "link" /\ Tail(todo) = IF OneFile THEN FromPull ELSE FromClearC
      BY <1>5, Where DEF ConfigInv, Shelve
  <2>2. CASE OneFile
    <3>1. AtPull'
        BY <1>1, <1>4, <2>1, <2>2 DEF AtShelveB, AtPull, MayPull, Exists, OneFile
    <3> QED
        BY <1>1, <1>3, <2>1, <3>1 DEF ConfigInv, ScriptInv, Linking
  <2>3. CASE ~OneFile
    <3>1. AtClearC'
        BY <1>1, <2>1, <2>3 DEF AtClearC, Agreed, OneFile
    <3> QED
        BY <1>1, <1>3, <2>1, <3>1 DEF ConfigInv, ScriptInv, Linking
  <2> QED
      BY <2>2, <2>3
<1>6. CASE s = "client"
  <2>1. AtShelveC /\ op = "link" /\ Tail(todo) = IF OneFile THEN FromProbe ELSE FromClearC
      BY <1>6, Where DEF ConfigInv, Shelve
  <2>2. CASE OneFile
    <3>1. AtProbe'
        BY <1>1, <2>1, <2>2 DEF AtShelveC, AtProbe, Target, Exists, OneFile
    <3> QED
        BY <1>1, <1>3, <2>1, <3>1 DEF ConfigInv, ScriptInv, Linking
  <2>3. CASE ~OneFile
    <3>1. AtClearC'
        BY <1>1, <2>1, <2>3 DEF AtClearC, Agreed, OneFile
    <3> QED
        BY <1>1, <1>3, <2>1, <3>1 DEF ConfigInv, ScriptInv, Linking
  <2> QED
      BY <2>2, <2>3
<1> QED
    BY <1>5, <1>6 DEF Sides

LEMMA ClearKeeps == ASSUME ConfigTypes, ConfigInv, NEW s \in Sides, Clear(s) PROVE ConfigInv'
<1>1. UNCHANGED <<mode, store, base, live, op, killed, edited, swept>> /\ todo' = Tail(todo)
    BY DEF Clear, Go
<1>2. \/ own' = [own EXCEPT ![s] = Absent] /\ KeepAside(s, own[s].text)
      \/ UNCHANGED <<own, aside>>
    BY DEF Clear
<1>3. Shapes' /\ FilesInv'
    BY <1>1, <1>2, AsideKeeps DEF ConfigInv
<1>4. own[s].kind \in {"absent", "plain", "link", "foreign"}
    BY DEF ConfigTypes, Owned
<1>5. mode = "ssh-include" \/ own'[s].kind \in {"absent", "link"}
    BY <1>4 DEF Clear, ConfigTypes, Absent
<1>6. \A o \in Sides \ {s} : own'[o] = own[o]
    BY <1>2 DEF ConfigTypes
<1>7. CASE s = "client"
  <2>1. AtClearC /\ op = "link" /\ Tail(todo) = FromLinkC
      BY <1>7, Where DEF ConfigInv, Clear
  <2>2. AtLinkC'
      BY <1>1, <1>5, <1>7, <2>1 DEF AtClearC, AtLinkC, Target, Exists, Agreed, Same, OneFile
  <2> QED
      BY <1>1, <1>3, <2>1, <2>2 DEF ConfigInv, ScriptInv, Linking
<1>8. CASE s = "box"
  <2>1. AtClearB /\ op = "link" /\ Tail(todo) = FromLinkB
      BY <1>8, Where DEF ConfigInv, Clear
  <2>2. own'["client"] = own["client"]
      BY <1>6, <1>8 DEF Sides
  <2>3. AtLinkB'
      BY <1>1, <1>5, <1>8, <2>1, <2>2 DEF AtClearB, AtLinkB, HalfLinked, Target, Exists, Agreed, Same, OneFile
  <2> QED
      BY <1>1, <1>3, <2>1, <2>3 DEF ConfigInv, ScriptInv, Linking
<1> QED
    BY <1>7, <1>8 DEF Sides

LEMMA LinkSideKeeps == ASSUME ConfigTypes, ConfigInv, NEW s \in Sides, LinkSide(s) PROVE ConfigInv'
<1>1. /\ UNCHANGED <<mode, aside, base, live, op, killed, edited, swept>> /\ todo' = Tail(todo)
      /\ own' = [own EXCEPT ![s] = Link(own[s].text)]
      /\ IF mode = "dir" /\ ~Exists(s) THEN store' = [store EXCEPT ![s] = {}] ELSE store' = store
    BY DEF LinkSide, Go, Put
<1>2. own'[s] = Link(own[s].text) /\ \A o \in Sides \ {s} : own'[o] = own[o]
    BY <1>1 DEF ConfigTypes
<1>3. own'[s].kind = "link" /\ \A o \in Sides : own'[o].text = own[o].text
    BY <1>2 DEF Link
<1>4. Rest' = Rest
    BY <1>1, <1>3 DEF Rest, Sides
<1>5. FilesInv'
  <2>1. CASE mode = "dir" /\ ~Exists(s)
    <3>1. base = Nothing /\ store[s] = Nothing /\ store' = [store EXCEPT ![s] = {}]
        BY <1>1, <2>1 DEF ConfigInv, FilesInv, Gone, Exists
    <3>2. live \cap base = {} /\ live \cap store[s] = {} /\ {} # Nothing
        BY <3>1, NoTextThere DEF Nothing
    <3>3. PICK o \in Sides : o # s
        BY DEF Sides
    <3> QED
        BY <1>1, <1>4, <3>1, <3>2, <3>3, PayloadStep DEF ConfigInv
  <2>2. CASE ~(mode = "dir" /\ ~Exists(s))
      BY <1>1, <1>4, <2>2, RestGrows DEF ConfigInv
  <2> QED
      BY <2>1, <2>2
<1>6. /\ mode = "dir" => store'[s] # Nothing
      /\ mode # "dir" => store' = store
  <2>1. {} # Nothing
      BY DEF Nothing
  <2> QED
      BY <1>1, <2>1 DEF ConfigTypes, Exists
<1>7. CASE s = "client"
  <2>1. AtLinkC /\ op = "link" /\ Tail(todo) = FromClearB
      BY <1>7, Where DEF ConfigInv, LinkSide
  <2>2. mode # "ssh-include" => own["client"].text = {}
      BY <2>1 DEF ConfigInv, Shapes, AtLinkC, Sides
  <2>3. Shapes'
      BY <1>1, <1>2, <1>3, <1>7, <2>2 DEF ConfigInv, Shapes
  <2>4. Target' /\ Agreed'
      BY <1>1, <1>6, <1>7, <2>1 DEF AtLinkC, Target, Exists, Agreed, Same, OneFile
  <2>5. AtClearB'
      BY <1>1, <1>3, <1>7, <2>1, <2>4 DEF AtClearB, HalfLinked
  <2> QED
      BY <1>1, <1>5, <2>1, <2>3, <2>5 DEF ConfigInv, ScriptInv, Linking
<1>8. CASE s = "box"
  <2>1. AtLinkB /\ op = "link" /\ Tail(todo) = <<>>
      BY <1>8, Where DEF ConfigInv, LinkSide
  <2>2. mode # "ssh-include" => own["box"].text = {}
      BY <2>1 DEF ConfigInv, Shapes, AtLinkB, Sides
  <2>3. Shapes'
      BY <1>1, <1>2, <1>3, <1>8, <2>2 DEF ConfigInv, Shapes
  <2>4. own'["client"] = own["client"] /\ store'["client"] = store["client"]
    <3>1. "client" \in Sides \ {s}
        BY <1>8 DEF Sides
    <3> QED
        BY <1>1, <1>2, <1>8, <3>1 DEF ConfigTypes
  <2>5. Target' /\ Agreed'
      BY <1>1, <1>6, <2>1, <2>4 DEF AtLinkB, HalfLinked, Target, Exists, Agreed, Same, OneFile
  <2>6. AtEnd'
      BY <1>1, <1>3, <1>8, <2>1, <2>4, <2>5 DEF AtEnd, AtLinkB, HalfLinked
  <2> QED
      BY <1>1, <1>5, <2>1, <2>3, <2>6 DEF ConfigInv, ScriptInv, Linking
<1> QED
    BY <1>7, <1>8 DEF Sides

\* ------------------------------------------------------- the steps of an unlink

LEMMA UnlinkGoesOn ==
    ASSUME op = "unlink", Agrees, UNCHANGED <<mode, store, killed, edited>>,
           \/ op' = "unlink" /\ todo' \in {FromRestoreC, FromRemoveB, FromRestoreB, <<>>}
           \/ op' = "idle" /\ todo' = <<>>
    PROVE  ScriptInv'
<1>1. Agrees'
    BY DEF Agrees, Exists, Same, OneFile
<1> QED
    BY <1>1 DEF ScriptInv, Unlinking

LEMMA RemoveKeeps == ASSUME ConfigTypes, ConfigInv, NEW s \in Sides, Remove(s) PROVE ConfigInv'
<1>1. /\ op = "unlink" /\ Agrees
      /\ Tail(todo) \in {FromRestoreC, FromRestoreB} /\ Tail(Tail(todo)) \in {FromRemoveB, <<>>}
    BY Where DEF ConfigInv, Remove
<1>2. /\ UNCHANGED <<mode, store, aside, base, live, op, killed, edited>>
      /\ todo' \in {Tail(todo), Tail(Tail(todo))}
    BY DEF Remove, Go
<1>3. ScriptInv'
    BY <1>1, <1>2, UnlinkGoesOn
<1>4. CASE own' = own
    BY <1>2, <1>3, <1>4, RestGrows, ShapesKept DEF ConfigInv, Rest
<1>5. CASE own' # own
  <2>1. own[s].kind = "link" /\ own' = [own EXCEPT ![s] = Absent] /\ mode # "ssh-include"
    <3>1. own = [own EXCEPT ![s] = own[s]]
        BY DEF ConfigTypes
    <3> QED
        BY <1>5, <3>1 DEF Remove
  <2>2. own[s].text = {}
      BY <2>1 DEF ConfigInv, Shapes
  <2>3. own'[s] = Absent /\ \A o \in Sides \ {s} : own'[o] = own[o]
      BY <2>1 DEF ConfigTypes
  <2>4. Rest' = Rest
      BY <1>2, <2>2, <2>3 DEF Rest, Sides, Absent
  <2>5. Shapes'
      BY <1>2, <2>3 DEF ConfigInv, Shapes, Absent
  <2> QED
      BY <1>2, <1>3, <2>4, <2>5, RestGrows DEF ConfigInv
<1> QED
    BY <1>4, <1>5

LEMMA RestoreKeeps == ASSUME ConfigTypes, ConfigInv, NEW s \in Sides, Restore(s) PROVE ConfigInv'
<1>1. op = "unlink" /\ Agrees /\ Tail(todo) \in {FromRemoveB, <<>>}
    BY Where DEF ConfigInv, Restore
<1>2. /\ UNCHANGED <<mode, store, aside, base, live, killed, edited>>
      /\ \/ op' = op /\ todo' = Tail(todo)
         \/ op' = "idle" /\ todo' = <<>>
    BY DEF Restore, Go, Die
<1>3. ScriptInv'
    BY <1>1, <1>2, UnlinkGoesOn
<1>4. CASE own' = own
    BY <1>2, <1>3, <1>4, RestGrows, ShapesKept DEF ConfigInv, Rest
<1>5. CASE own' # own
  <2>1. own' = [own EXCEPT ![s] = Plain(own[s].text \cup (store[s] \ Nothing))]
      BY <1>5 DEF Restore
  <2>2. /\ own'[s] = Plain(own[s].text \cup (store[s] \ Nothing))
        /\ \A o \in Sides \ {s} : own'[o] = own[o]
      BY <2>1 DEF ConfigTypes
  <2>3. Rest \subseteq Rest'
      BY <1>2, <2>2 DEF Rest, Sides, Plain
  <2>4. Shapes'
      BY <1>2, <2>2 DEF ConfigInv, Shapes, Plain
  <2> QED
      BY <1>2, <1>3, <2>3, <2>4, RestGrows DEF ConfigInv
<1> QED
    BY <1>4, <1>5

\* -------------------------------------------------------- commands and their end

LEMMA KindIs ==
    ASSUME ConfigTypes, NEW s \in Sides
    PROVE  /\ Kind(s) \in {"absent", "empty", "content", "linked", "foreign-link"}
           /\ Kind(s) = "content" <=> own[s].kind = "plain" /\ own[s].text # {}
BY DEF ConfigTypes, Owned, Kind

\* What the plan's word says of the two sides and the store.
LEMMA PlanSays ==
    ASSUME ConfigTypes, NEW plan,
           plan = PlanAppConfigLink(Kind("client"), Kind("box"), ComputeStoreKind)
    PROVE  /\ plan \in {"refuse", "already-linked", "use-client", "use-box", "ask", "seed-empty"}
           /\ plan = "use-client" /\ Kind("client") = "content" => ~Exists("client")
           /\ plan = "use-client" /\ Kind("client") # "content" => Exists("client")
           /\ plan = "use-box" => ~Exists("client") /\ Kind("box") = "content"
           /\ plan = "ask" /\ ~(Kind("client") = "content" /\ Kind("box") = "content") => Exists("client")
           /\ plan = "seed-empty" => ~Exists("client")
<1>1. /\ Kind("client") \in {"absent", "empty", "content", "linked", "foreign-link"}
      /\ Kind("box") \in {"absent", "empty", "content", "linked", "foreign-link"}
    BY KindIs DEF Sides
<1>2. Exists("client") \in BOOLEAN
    BY DEF Exists
<1> QED
    BY <1>1, <1>2 DEF PlanAppConfigLink, ComputeStoreKind, Bare

\* Who wins by the user's word: the texts of both stores are given up, unless the winner
\* has none of its own.
LEMMA GivenUpIs ==
    ASSUME ConfigTypes, NEW decision,
           \/ decision = "use-client" /\ Kind("client") = "content"
           \/ decision = "use-box" /\ Kind("box") = "content"
    PROVE  GivenUp(decision) = store["client"] \cup store["box"]
BY DEF GivenUp, Sides

LEMMA RunConfigLinkKeeps == ASSUME Careful, ConfigTypes, ConfigInv, RunConfigLink PROVE ConfigInv'
<1> DEFINE plan == PlanAppConfigLink(Kind("client"), Kind("box"), ComputeStoreKind)
<1>1. PICK decision \in (IF plan = "ask" THEN {"use-client", "use-box", "refuse"} ELSE {plan}) :
          /\ ~HoleUnseen(decision) /\ ~HoleSynced(decision) /\ ~HoleStale(decision)
          /\ live' = IF plan = "ask" THEN live \ GivenUp(decision) ELSE live
          /\ todo' = Steps(decision)
          /\ op' = IF Steps(decision) = <<>> THEN "idle" ELSE "link"
    BY DEF RunConfigLink
<1>2. UNCHANGED <<mode, own, store, aside, base, killed, edited>>
    BY DEF RunConfigLink, files
<1>3. op = "idle" /\ Agrees
    BY DEF RunConfigLink, Idle, ConfigInv, ScriptInv
<1>4. Agrees'
    BY <1>2, <1>3 DEF Agrees, Exists, Same, OneFile
<1>5. Shapes' /\ FilesInv'
  <2>1. live' \subseteq live
      BY <1>1
  <2> QED
      BY <1>2, <2>1, RestGrows, ShapesKept DEF ConfigInv, Rest
<1>6. plan \in {"refuse", "already-linked", "use-client", "use-box", "ask", "seed-empty"}
    BY PlanSays
<1>7. /\ Kind("client") = "content" => own["client"].kind = "plain" /\ own["client"].text # {}
      /\ Kind("box") = "content" => own["box"].kind = "plain" /\ own["box"].text # {}
      /\ Kind("box") # "content" /\ own["box"].kind = "plain" => own["box"].text = {}
    BY KindIs DEF Sides
<1>8. ~Exists("client") => base = Nothing /\ store["client"] = Nothing
    BY DEF ConfigInv, FilesInv, Gone, Exists, Sides
<1>9. OneFile \in BOOLEAN
    BY DEF OneFile
<1>10. CASE decision = "use-box"
  <2>1. /\ plan \in {"use-box", "ask"}
        /\ plan = "use-box" => ~Exists("client") /\ Kind("box") = "content"
        /\ plan = "ask" /\ Kind("box") # "content" => Exists("client")
      BY <1>1, <1>10, PlanSays
  <2>2. todo' = FromSeed(OneFile) /\ op' = "link"
    <3>1. FromSeed(OneFile) # <<>>
        BY <1>9, Program DEF Begins
    <3> QED
        BY <1>1, <1>10, <3>1, StepsAreLists
  <2>3. CASE Kind("box") = "content"
    <3>1. Seeds
        BY <1>7, <2>3 DEF Seeds
    <3>2. CASE plan = "ask"
      <4>1. live' \cap (store["client"] \cup store["box"]) = {}
          BY <1>1, <1>10, <2>3, <3>2, GivenUpIs
      <4> QED
          BY <1>2, <2>2, <3>1, <4>1, <1>5 DEF AtSeed, Seeds, OneFile, ConfigInv, ScriptInv, Linking
    <3>3. CASE plan = "use-box"
      <4>1. live' = live /\ ~Exists("client") /\ ~HasText("box")
          BY <1>1, <1>10, <2>1, <3>3 DEF HoleUnseen
      <4>2. live \cap (store["client"] \cup store["box"]) = {}
          BY <1>8, <4>1, NoTextThere DEF HasText, Exists
      <4> QED
          BY <1>2, <1>5, <2>2, <3>1, <4>1, <4>2
          DEF AtSeed, Seeds, OneFile, ConfigInv, ScriptInv, Linking
    <3> QED
        BY <2>1, <3>2, <3>3
  <2>4. CASE Kind("box") # "content"
    <3>1. Exists("client")
        BY <2>1, <2>4
    <3>2. Seeds => ~OneFile /\ own["box"].text = {}
        BY <1>1, <1>7, <1>10, <2>4 DEF HoleSynced, Seeds, OneFile
    <3>3. OneFile => Same
        BY <1>1, <1>10, <2>4 DEF HoleStale, Same
    <3>4. AtSeed'
        BY <1>2, <2>2, <3>1, <3>2, <3>3 DEF AtSeed, Seeds, Exists, Same, OneFile
    <3> QED
        BY <1>5, <2>2, <3>4 DEF ConfigInv, ScriptInv, Linking
  <2> QED
      BY <2>3, <2>4
<1>11. CASE decision = "use-client" /\ Kind("client") = "content"
  <2>1. plan \in {"use-client", "ask"} /\ (plan = "use-client" => ~Exists("client"))
      BY <1>1, <1>11, PlanSays
  <2>2. todo' = FromCopy(OneFile) /\ op' = "link"
    <3>1. FromCopy(OneFile) # <<>>
        BY <1>9, Program DEF Begins
    <3> QED
        BY <1>1, <1>11, <3>1, StepsAreLists
  <2>3. live' \cap store["client"] = {} /\ (live' \cap store["box"] = {} \/ base = Nothing)
    <3>1. CASE plan = "ask"
        BY <1>1, <1>11, <3>1, GivenUpIs
    <3>2. CASE plan = "use-client"
        BY <1>1, <1>8, <2>1, <3>2, NoTextThere
    <3> QED
        BY <2>1, <3>1, <3>2
  <2>4. AtCopy'
      BY <1>2, <1>7, <1>11, <2>2, <2>3 DEF AtCopy, OneFile
  <2> QED
      BY <1>5, <2>2, <2>4 DEF ConfigInv, ScriptInv, Linking
<1>12. CASE decision = "use-client" /\ Kind("client") # "content"
  <2>1. Exists("client")
      BY <1>1, <1>12, PlanSays
  <2>2. todo' = FromClearC /\ op' = "link"
    <3>1. FromClearC # <<>>
        BY Program DEF Begins
    <3> QED
        BY <1>1, <1>12, <3>1, StepsAreLists
  <2>3. AtClearC'
      BY <1>2, <1>3, <2>1, <2>2 DEF AtClearC, Target, Exists, Agrees, Agreed, Same, OneFile
  <2> QED
      BY <1>5, <2>2, <2>3 DEF ConfigInv, ScriptInv, Linking
<1>13. CASE decision = "seed-empty"
  <2>1. plan = "seed-empty" /\ ~Exists("client")
      BY <1>1, <1>13, PlanSays
  <2>2. todo' = (IF OneFile THEN FromCheck ELSE FromBlank(FALSE)) /\ op' = "link"
    <3>1. FromCheck # <<>> /\ FromBlank(FALSE) # <<>>
        BY Program DEF Begins
    <3> QED
        BY <1>1, <1>13, <3>1, StepsAreLists
  <2>3. CASE OneFile
    <3>1. AtCheck'
        BY <1>2, <2>1, <2>2, <2>3 DEF AtCheck, Exists, OneFile
    <3> QED
        BY <1>5, <2>2, <3>1 DEF ConfigInv, ScriptInv, Linking
  <2>4. CASE ~OneFile
    <3>1. FromBlank(FALSE) = FromBlank(OneFile)'
        BY <1>2, <2>4 DEF OneFile
    <3>2. AtBlank'
        BY <1>2, <2>2, <2>4, <3>1 DEF AtBlank, OneFile
    <3> QED
        BY <1>5, <2>2, <3>2 DEF ConfigInv, ScriptInv, Linking
  <2> QED
      BY <2>3, <2>4
<1>14. CASE decision \in {"refuse", "already-linked"}
  <2>1. todo' = <<>> /\ op' = "idle"
      BY <1>1, <1>14, StepsAreLists
  <2> QED
      BY <1>4, <1>5, <2>1 DEF ConfigInv, ScriptInv
<1> QED
  <2>1. plan # "ask" => decision = plan
      BY <1>1
  <2> HIDE DEF plan
  <2>2. decision \in {"refuse", "already-linked", "use-client", "use-box", "seed-empty"}
      BY <1>1, <1>6, <2>1
  <2> QED
      BY <1>10, <1>11, <1>12, <1>13, <1>14, <2>2

LEMMA UnlinkList ==
    /\ <<<<"remove", "client">>, <<"restore", "client">>>> \o <<<<"remove", "box">>, <<"restore", "box">>>> =
           FromRemoveC
    /\ <<>> \o <<<<"remove", "box">>, <<"restore", "box">>>> = FromRemoveB
<1> DEFINE a == <<"remove", "client">>
           b == <<"restore", "client">>
           x == <<"remove", "box">>
           y == <<"restore", "box">>
<1>1. a \in Calls /\ b \in Calls /\ x \in Calls /\ y \in Calls
    BY DEF Calls, Sides
<1>2. FromRemoveB = <<x>> \o <<y>> /\ FromRemoveC = <<a>> \o (<<b>> \o FromRemoveB)
    BY DEF FromRemoveB, FromRestoreB, FromRemoveC, FromRestoreC
<1> HIDE DEF a, b, x, y
<1>3. <<x, y>> = FromRemoveB
    BY <1>1, <1>2, PairIsConcat
<1>4. FromRemoveB \in Seq(Calls)
    BY ListsAreSequences
<1>5. <<a, b>> \o FromRemoveB = FromRemoveC
    BY <1>1, <1>2, <1>4, PairConcat
<1>6. <<>> \o FromRemoveB = FromRemoveB
    BY <1>4, ConcatEmptySeq
<1> QED
    BY <1>3, <1>5, <1>6 DEF a, b, x, y

LEMMA RunConfigUnlinkKeeps == ASSUME ConfigTypes, ConfigInv, RunConfigUnlink PROVE ConfigInv'
<1>1. UNCHANGED <<mode, own, store, aside, base, killed, edited, live>> /\ op' = "unlink"
    BY DEF RunConfigUnlink, files
<1>2. todo' \in {FromRemoveC, FromRemoveB}
    BY UnlinkList DEF RunConfigUnlink
<1>3. op = "idle" /\ Agrees
    BY DEF RunConfigUnlink, Idle, ConfigInv, ScriptInv
<1>4. Agrees'
    BY <1>1, <1>3 DEF Agrees, Exists, Same, OneFile
<1> QED
    BY <1>1, <1>2, <1>4, RestGrows, ShapesKept DEF ConfigInv, ScriptInv, Unlinking, Rest

LEMMA EndKeeps == ASSUME ConfigTypes, ConfigInv, Finish \/ Kill PROVE ConfigInv'
<1>1. UNCHANGED <<mode, own, store, aside, base, edited, live>> /\ op' = "idle"
    BY DEF Finish, Kill, files
<1>2. todo' = <<>>
    BY DEF Finish, Kill
<1>3. Agrees'
  <2>1. CASE Kill
      BY <2>1 DEF Kill, Agrees
  <2>2. CASE Finish
    <3>1. Agrees /\ killed' = killed
      <4>1. op # "idle" /\ todo = <<>> /\ killed' = killed
          BY <2>2 DEF Finish, Idle
      <4>2. CASE op = "unlink" /\ Unlinking
          BY <4>1, <4>2 DEF Unlinking
      <4>3. CASE op = "link" /\ Linking
        <5>1. AtEnd
            BY <4>1, <4>3, Program
            DEF Begins, Linking, AtSeed, AtShelveB, AtPull, AtCopy, AtShelveC, AtProbe, AtSpare,
                AtPush, AtCheck, AtGuard, AtBlank, AtClearC, AtLinkC, AtClearB, AtLinkB, OneFile
        <5> QED
            BY <4>1, <5>1 DEF AtEnd, HalfLinked, Agreed, Agrees
      <4> QED
          BY <4>1, <4>2, <4>3 DEF ConfigInv, ScriptInv
    <3> QED
        BY <1>1, <3>1 DEF Agrees, Exists, Same, OneFile
  <2> QED
      BY <2>1, <2>2
<1> QED
    BY <1>1, <1>2, <1>3, RestGrows, ShapesKept DEF ConfigInv, ScriptInv, Rest

LEMMA EditKeeps ==
    ASSUME ConfigTypes, ConfigInv, NEW s \in Sides, NEW t \in Texts, Edit(s, t)
    PROVE  ConfigInv'
<1>1. /\ UNCHANGED <<mode, aside, base, op, todo, killed>> /\ edited' = TRUE
      /\ op = "idle" /\ t \notin Rest /\ t \notin store["client"] /\ t \notin store["box"] /\ t \notin base
    BY KeptIs DEF Edit, Idle
<1>2. ScriptInv'
    BY <1>1 DEF ConfigInv, ScriptInv, Agrees
<1>3. PICK o \in Sides : o # s /\ Sides = {s, o}
    BY DEF Sides
<1>4. Gone /\ BaseKept /\ live \subseteq Rest \cup store[s] \cup store[o]
    BY <1>3, KeptIs DEF ConfigInv, FilesInv, NothingLost, Sides
<1>5. CASE own[s].kind = "link"
  <2>1. own' = own /\ live' = (live \ store[s]) \cup {t} /\ store' = [store EXCEPT ![s] = {t}]
      BY <1>5 DEF Edit, Put
  <2>2. store'[s] = {t} /\ store'[o] = store[o] /\ Rest' = Rest
      BY <1>1, <1>3, <2>1 DEF ConfigTypes, Rest
  <2>3. {t} # Nothing /\ {t} # base
      BY <1>1, TextsAssumption DEF Nothing
  <2>4. Gone'
      BY <1>1, <1>3, <1>4, <2>2, <2>3 DEF Gone, Exists
  <2>5. BaseKept'
    <3>1. store[o] = base => live' \cap base \subseteq Rest \cup {t}
        BY <1>1, <1>3, <1>4, <2>1 DEF BaseKept
    <3> QED
        BY <1>1, <1>3, <2>2, <2>3, <3>1 DEF BaseKept
  <2>6. NothingLost'
    <3>1. Kept' = Rest \cup {t} \cup store[o]
        BY <1>3, <2>2, KeptIs DEF Sides
    <3> QED
        BY <1>4, <2>1, <3>1 DEF NothingLost
  <2> QED
      BY <1>1, <1>2, <2>1, <2>4, <2>5, <2>6, ShapesKept DEF ConfigInv, FilesInv
<1>6. CASE own[s].kind # "link"
  <2>1. store' = store /\ live' = (live \ own[s].text) \cup {t} /\ own' = [own EXCEPT ![s] = Plain({t})]
      BY <1>6 DEF Edit
  <2>2. own'[s].kind = "plain" /\ own'[s].text = {t} /\ own'[o] = own[o]
      BY <1>3, <2>1 DEF ConfigTypes, Plain
  <2>3. Rest \subseteq Rest' \cup own[s].text /\ t \in Rest'
      BY <1>1, <1>3, <2>2 DEF Rest, Sides
  <2>4. Shapes'
      BY <1>1, <1>3, <2>2 DEF ConfigInv, Shapes
  <2>5. Gone'
      BY <1>1, <1>4, <2>1 DEF Gone, Exists
  <2>6. BaseKept'
      BY <1>1, <1>4, <2>1, <2>3 DEF BaseKept
  <2>7. NothingLost'
    <3>1. Kept' = Rest' \cup store[s] \cup store[o]
        BY <1>3, <2>1, KeptIs DEF Sides
    <3> QED
        BY <1>4, <2>1, <2>3, <3>1 DEF NothingLost
  <2> QED
      BY <1>2, <2>4, <2>5, <2>6, <2>7 DEF ConfigInv, FilesInv
<1> QED
    BY <1>5, <1>6

\* ------------------------------------------------------------------- the engine

\* Both sides get one of their two payloads; the other one was the last seen on both, a
\* deletion, or an empty directory.
LEMMA DeliverIs ==
    ASSUME ConfigTypes, Deliver
    PROVE  \E v \in {store["client"], store["box"]} :
              /\ store'["client"] = v /\ store'["box"] = v /\ base' = v
              /\ \A s \in Sides :
                    store[s] = v \/ store[s] = base \/ store[s] = Nothing \/ (mode = "dir" /\ store[s] = {})
<1>1. PICK v \in Reconciled : store' = [s \in Sides |-> v] /\ base' = v
    BY DEF Deliver
<1>2. /\ v \in {store["client"], store["box"]}
      /\ \A s \in Sides :
            store[s] = v \/ store[s] = base \/ store[s] = Nothing \/ (mode = "dir" /\ store[s] = {})
    BY <1>1 DEF Reconciled, Sides
<1>3. store'["client"] = v /\ store'["box"] = v
    BY <1>1 DEF Sides
<1> QED
    BY <1>1, <1>2, <1>3

LEMMA DeliverKeepsFiles == ASSUME ConfigTypes, ConfigInv, Deliver PROVE Shapes' /\ FilesInv'
<1>1. PICK v \in {store["client"], store["box"]} :
          /\ store'["client"] = v /\ store'["box"] = v /\ base' = v
          /\ \A s \in Sides :
                store[s] = v \/ store[s] = base \/ store[s] = Nothing \/ (mode = "dir" /\ store[s] = {})
    BY DeliverIs
<1>2. UNCHANGED <<mode, own, aside, live>> /\ Rest' = Rest
    BY DEF Deliver, Rest
<1>3. Gone' /\ BaseKept'
    BY <1>1 DEF Gone, BaseKept, Exists, Sides
<1>4. \A s \in Sides : live \cap store[s] \subseteq Rest \cup v
  <2> SUFFICES ASSUME NEW s \in Sides PROVE live \cap store[s] \subseteq Rest \cup v
      OBVIOUS
  <2>1. PICK o \in Sides : v = store[o]
      BY <1>1 DEF Sides
  <2>2. store[s] = base /\ store[o] # base => live \cap base \subseteq Rest \cup v
      BY <2>1 DEF ConfigInv, FilesInv, BaseKept
  <2>3. CASE store[s] = v
      BY <2>3
  <2>4. CASE store[s] = base
      BY <2>1, <2>2, <2>4
  <2>5. CASE store[s] = Nothing \/ store[s] = {}
      BY <2>5, NoTextThere
  <2> QED
      BY <1>1, <2>3, <2>4, <2>5
<1>5. NothingLost'
  <2>1. live \subseteq Rest \cup store["client"] \cup store["box"] /\ Kept' = Rest \cup v
      BY <1>1, <1>2, KeptIs DEF ConfigInv, FilesInv, NothingLost
  <2>2. live \cap store["client"] \subseteq Rest \cup v /\ live \cap store["box"] \subseteq Rest \cup v
      BY <1>4 DEF Sides
  <2> QED
      BY <1>2, <2>1, <2>2 DEF NothingLost
<1> QED
    BY <1>2, <1>3, <1>5, ShapesKept DEF ConfigInv, FilesInv

\* While a command runs the engine takes no payload away from under it but the client's,
\* and that it remembers.
LEMMA DeliverKeepsPayloads ==
    ASSUME ConfigTypes, ConfigInv, Deliver, op # "idle"
    PROVE  /\ Target => Target'
           /\ OneFile /\ Exists("box") => Exists("box")'
<1>1. PICK v \in {store["client"], store["box"]} :
          /\ store'["client"] = v /\ store'["box"] = v /\ base' = v
          /\ \A s \in Sides :
                store[s] = v \/ store[s] = base \/ store[s] = Nothing \/ (mode = "dir" /\ store[s] = {})
    BY DeliverIs
<1>2. store["client"] = Nothing => base = Nothing
    BY DEF ConfigInv, FilesInv, Gone, Exists, Sides
<1>3. OneFile /\ Exists("box") /\ v = Nothing => FALSE
    BY <1>1, <1>2 DEF Exists, OneFile, Sides
<1>4. Target => Target'
  <2>1. PICK w : store' = [s \in Sides |-> w] /\ swept' = (swept \/ (~Idle /\ Exists("client") /\ w = Nothing))
      BY DEF Deliver
  <2>2. store'["client"] = w
      BY <2>1 DEF Sides
  <2> QED
      BY <2>1, <2>2 DEF Target, Exists, Idle
<1> QED
    BY <1>1, <1>3, <1>4 DEF Exists

LEMMA DeliverKeeps == ASSUME Careful, ConfigTypes, ConfigInv, Deliver PROVE ConfigInv'
<1>1. Shapes' /\ FilesInv'
    BY DeliverKeepsFiles
<1>2. PICK v \in {store["client"], store["box"]} :
          store'["client"] = v /\ store'["box"] = v
    BY DeliverIs
<1>3. UNCHANGED <<mode, own, aside, live, op, todo, has, killed, edited>>
    BY DEF Deliver, cli
<1>4. Agrees' /\ Agreed' /\ Same'
    BY <1>2 DEF Agrees, Agreed, Same
<1>5. CASE op = "idle" \/ op = "unlink"
    BY <1>1, <1>3, <1>4, <1>5 DEF ConfigInv, ScriptInv, Unlinking
<1>6. CASE op = "link" /\ Linking
  <2>1. /\ Target => Target'
        /\ OneFile /\ Exists("box") => Exists("box")'
      BY <1>6, DeliverKeepsPayloads
  <2>2. ~HasText("box") /\ ~HasText("client") => ~HasText("box")' /\ ~HasText("client")'
      BY <1>2 DEF HasText, Exists
  <2>3. OneFile' = OneFile /\ Seeds' = Seeds
      BY <1>3 DEF OneFile, Seeds
  <2>4. live \cap (store["client"] \cup store["box"]) = {} => live' \cap (store["client"] \cup store["box"])' = {}
      BY <1>2, <1>3
  <2>5. MayPush' /\ (OneFile /\ Exists("box") => MayPull')
      BY <1>2, <1>4, <2>1 DEF MayPush, MayPull
  <2>6. CASE AtSeed
    <3>1. AtSeed'
        BY <1>3, <1>4, <2>1, <2>3, <2>4, <2>6 DEF AtSeed, Same, Exists
    <3> QED
        BY <1>1, <1>3, <1>6, <3>1 DEF ConfigInv, ScriptInv, Linking
  <2>7. CASE AtShelveB \/ AtPull
    <3>1. AtShelveB' \/ AtPull'
        BY <1>3, <2>3, <2>5, <2>7 DEF AtShelveB, AtPull, MayPull
    <3> QED
        BY <1>1, <1>3, <1>6, <3>1 DEF ConfigInv, ScriptInv, Linking
  <2>8. CASE AtCopy
    <3>1. Begins(todo, <<"copy", "client">>, FromShelveC(OneFile))
        BY <2>8, Program DEF AtCopy, OneFile
    <3>2. HoleCopy
        BY <3>1 DEF Begins, HoleCopy
    <3> QED
        BY <3>2 DEF Deliver
  <2>9. CASE AtShelveC \/ AtProbe \/ AtSpare \/ AtPush
    <3>1. AtShelveC' \/ AtProbe' \/ AtSpare' \/ AtPush'
        BY <1>3, <2>1, <2>3, <2>5, <2>9 DEF AtShelveC, AtProbe, AtSpare, AtPush
    <3> QED
        BY <1>1, <1>3, <1>6, <3>1 DEF ConfigInv, ScriptInv, Linking
  <2>10. CASE AtCheck \/ AtGuard \/ AtBlank
    <3>1. AtCheck' \/ AtGuard' \/ AtBlank'
        BY <1>3, <1>4, <2>2, <2>3, <2>10 DEF AtCheck, AtGuard, AtBlank
    <3> QED
        BY <1>1, <1>3, <1>6, <3>1 DEF ConfigInv, ScriptInv, Linking
  <2>11. CASE AtClearC \/ AtLinkC
    <3>1. AtClearC' \/ AtLinkC'
        BY <1>3, <1>4, <2>1, <2>3, <2>11 DEF AtClearC, AtLinkC
    <3> QED
        BY <1>1, <1>3, <1>6, <3>1 DEF ConfigInv, ScriptInv, Linking
  <2>12. CASE AtClearB \/ AtLinkB \/ AtEnd
    <3>1. AtClearB' \/ AtLinkB' \/ AtEnd'
        BY <1>3, <1>4, <2>1, <2>12 DEF AtClearB, AtLinkB, AtEnd, HalfLinked
    <3> QED
        BY <1>1, <1>3, <1>6, <3>1 DEF ConfigInv, ScriptInv, Linking
  <2> QED
      BY <1>6, <2>6, <2>7, <2>8, <2>9, <2>10, <2>11, <2>12 DEF Linking
<1> QED
    BY <1>5, <1>6 DEF ConfigInv, ScriptInv

\* --------------------------------------------------------------------- theorems

LEMMA ConfigInvInit == ConfigInit => ConfigInv
<1> SUFFICES ASSUME ConfigInit PROVE ConfigInv
    OBVIOUS
<1>1. ConfigTypes
    BY ConfigTypesInit
<1>2. Shapes
    BY DEF ConfigInit, Shapes, Absent, Plain, Link, Foreign
<1>3. base = Nothing /\ live \cap base = {} /\ store["client"] = Nothing
    BY <1>1, NoTextThere DEF ConfigInit
<1>4. Gone /\ BaseKept
    BY <1>3 DEF Gone, BaseKept
<1>5. NothingLost
    BY KeptIs DEF ConfigInit, NothingLost, Rest
<1>6. ScriptInv
    BY <1>3 DEF ConfigInit, ScriptInv, Agrees, Exists
<1> QED
    BY <1>2, <1>4, <1>5, <1>6 DEF ConfigInv, FilesInv

LEMMA ConfigInvStep ==
    ASSUME Careful, ConfigTypes, ConfigInv, [ConfigNext]_configVars
    PROVE  ConfigInv'
<1>1. CASE UNCHANGED configVars
  <2>1. UNCHANGED <<mode, own, store, aside, base, op, todo, has, killed, edited, swept, live>>
      BY <1>1 DEF configVars
  <2>2. Shapes' /\ FilesInv'
      BY <2>1, RestGrows, ShapesKept DEF ConfigInv, Rest
  <2>3. ScriptInv'
      BY <2>1
      DEF ConfigInv, ScriptInv, Linking, Unlinking, AtSeed, AtShelveB, AtPull, AtCopy, AtShelveC,
          AtProbe, AtSpare, AtPush, AtCheck, AtGuard, AtBlank, AtClearC, AtLinkC, AtClearB, AtLinkB,
          AtEnd, HalfLinked, Target, Agrees, Agreed, Same, MayPull, MayPush, HasText, Exists, OneFile, Seeds, Rest
  <2> QED
      BY <2>2, <2>3 DEF ConfigInv
<1>2. CASE ConfigNext
  <2>1. CASE RunConfigLink \/ RunConfigUnlink \/ Finish \/ Kill \/ Deliver
      BY <2>1, RunConfigLinkKeeps, RunConfigUnlinkKeeps, EndKeeps, DeliverKeeps
  <2>2. CASE \/ Seed \/ SeedFromClient \/ PullPayloadToClient \/ BoxPayloadHasContent
             \/ RenameAside \/ PushPayloadToBox \/ SeedEmptyGuarded \/ SeedEmpty
      BY <2>2, SeedKeeps, SeedFromClientKeeps, PullKeeps, ProbeKeeps, RenameAsideKeeps, PushKeeps,
         GuardKeeps, SeedEmptyKeeps
  <2>3. CASE \E s \in Sides : Shelve(s) \/ Clear(s) \/ LinkSide(s) \/ Remove(s) \/ Restore(s)
      BY <2>3, ShelveKeeps, ClearKeeps, LinkSideKeeps, RemoveKeeps, RestoreKeeps
  <2>4. CASE \E s \in Sides, t \in Texts : Edit(s, t)
      BY <2>4, EditKeeps
  <2> QED
      BY <1>2, <2>1, <2>2, <2>3, <2>4 DEF ConfigNext
<1> QED
    BY <1>1, <1>2

\* Whatever is linked, unlinked, edited, cut and synced in which order, with any number of
\* edits: a text nobody replaced or gave up is in an application's file, in a payload or
\* in a copy aside, as long as the four holes (HoleUnseen, HoleSynced, HoleStale, HoleCopy) are avoided.
THEOREM NothingIsLost == ASSUME Careful PROVE ConfigSpec => []NothingLost
<1>1. ConfigTypes /\ ConfigInv /\ [ConfigNext]_configVars => ConfigInv'
    BY ConfigInvStep
<1>2. ConfigInv => NothingLost
    BY DEF ConfigInv, FilesInv
<1> QED
    BY <1>1, <1>2, ConfigInvInit, ConfigTypesInit, ConfigTypesStep, PTL DEF ConfigSpec

\* A command says that it has linked as its last step.
LEMMA OnlyFinishLinks ==
    ASSUME ConfigTypes, [ConfigNext]_configVars, done' = "linked", done # "linked"
    PROVE  Finish /\ op = "link"
<1>1. CASE UNCHANGED configVars
    BY <1>1 DEF configVars
<1>2. CASE RunConfigLink \/ RunConfigUnlink \/ Kill \/ Deliver \/ Finish
    BY <1>2 DEF RunConfigLink, RunConfigUnlink, Kill, Deliver, Finish, cli
<1>3. CASE \/ Seed \/ SeedFromClient \/ PullPayloadToClient \/ BoxPayloadHasContent
           \/ RenameAside \/ PushPayloadToBox \/ SeedEmptyGuarded \/ SeedEmpty
  <2>1. has \in BOOLEAN
      BY DEF ConfigTypes
  <2> QED
      BY <1>3, <2>1
      DEF Seed, SeedFromClient, PullPayloadToClient, BoxPayloadHasContent, RenameAside,
          PushPayloadToBox, SeedEmptyGuarded, SeedEmpty, Go, Die
<1>4. CASE \E s \in Sides : Shelve(s) \/ Clear(s) \/ LinkSide(s) \/ Remove(s) \/ Restore(s)
    BY <1>4 DEF Shelve, Clear, LinkSide, Remove, Restore, Go, Die
<1>5. CASE \E s \in Sides, t \in Texts : Edit(s, t)
    BY <1>5 DEF Edit
<1> QED
    BY <1>1, <1>2, <1>3, <1>4, <1>5 DEF ConfigNext

\* What stands then, with the holes avoided.
LEMMA LinkedIs ==
    ASSUME ConfigTypes, ConfigInv, [ConfigNext]_configVars, done' = "linked", done # "linked"
    PROVE  Agreed
<1>1. Finish /\ op = "link"
    BY OnlyFinishLinks
<1>2. todo = <<>> /\ Linking
    BY <1>1 DEF Finish, ConfigInv, ScriptInv
<1>3. AtEnd
    BY <1>2, Program
    DEF Begins, Linking, AtSeed, AtShelveB, AtPull, AtCopy, AtShelveC, AtProbe, AtSpare, AtPush,
        AtCheck, AtGuard, AtBlank, AtClearC, AtLinkC, AtClearB, AtLinkB, OneFile
<1> QED
    BY <1>3 DEF AtEnd, HalfLinked

\* Which calls are left, and for which of them the client's payload must be there: this much
\* holds with all four holes open.
Heading ==
    \/ todo = FromSeed(OneFile) \/ todo = FromShelveB(OneFile) \/ (OneFile /\ todo = FromPull)
    \/ todo = FromCopy(OneFile) \/ (OneFile /\ todo \in {FromCheck, FromGuard})
    \/ todo = FromBlank(OneFile)
    \/ todo = FromShelveC(OneFile) /\ (OneFile => Target)
    \/ OneFile /\ todo \in {FromProbe, FromSpare, FromPush} /\ Target
    \/ todo \in {FromClearC, FromLinkC} /\ (OneFile => Target)
    \/ todo \in {FromClearB, FromLinkB} /\ Target /\ own["client"].kind = "link"
    \/ todo = <<>> /\ Target /\ own["client"].kind = "link" /\ own["box"].kind = "link"

TargetInv == op = "link" => Heading

\* The call made now, by what is left to do.
LEMMA HeadingCalls ==
    ASSUME Heading, NEW what, NEW side, Step(what, side)
    PROVE  /\ what = "seed" => Tail(todo) = FromShelveB(OneFile)
           /\ what = "shelve" /\ side = "box" => Tail(todo) = IF OneFile THEN FromPull ELSE FromClearC
           /\ what = "pull" => OneFile /\ Tail(todo) = FromClearC
           /\ what = "copy" => Tail(todo) = FromShelveC(OneFile)
           /\ what = "shelve" /\ side = "client" =>
                  (OneFile => Target) /\ Tail(todo) = IF OneFile THEN FromProbe ELSE FromClearC
           /\ what = "probe" =>
                  OneFile /\ ((Target /\ Tail(todo) = FromSpare) \/ Tail(todo) = FromGuard)
           /\ what = "spare" => OneFile /\ Target /\ Tail(todo) = FromPush
           /\ what = "push" => OneFile /\ Tail(todo) = FromClearC
           /\ what = "guard" => OneFile /\ Tail(todo) = FromBlank(OneFile)
           /\ what = "blank" => Tail(todo) = IF OneFile THEN FromPush ELSE FromClearC
           /\ what = "clear" /\ side = "client" => (OneFile => Target) /\ Tail(todo) = FromLinkC
           /\ what = "link" /\ side = "client" => (OneFile => Target) /\ Tail(todo) = FromClearB
           /\ what = "clear" /\ side = "box" =>
                  Target /\ own["client"].kind = "link" /\ Tail(todo) = FromLinkB
           /\ what = "link" /\ side = "box" =>
                  Target /\ own["client"].kind = "link" /\ Tail(todo) = <<>>
           /\ what \notin {"remove", "restore"}
<1>1. OneFile \in BOOLEAN
    BY DEF OneFile
<1>2. todo # <<>> /\ what = Head(todo)[1] /\ side = Head(todo)[2]
    BY DEF Step
<1>3. \A list, call, rest : todo = list /\ Begins(list, call, rest) =>
          what = call[1] /\ side = call[2] /\ Tail(todo) = rest
    BY <1>2 DEF Begins
<1>4. CASE todo \in {FromSeed(OneFile), FromShelveB(OneFile)} \/ (OneFile /\ todo = FromPull)
    BY <1>1, <1>3, <1>4, Program
<1>5. CASE todo = FromCopy(OneFile) \/ (OneFile /\ todo \in {FromCheck, FromGuard}) \/ todo = FromBlank(OneFile)
  <2>1. CASE todo = FromCopy(OneFile)
      BY <1>1, <1>3, <2>1, Program
  <2>2. CASE OneFile /\ todo = FromCheck
    <3>1. what = "probe" /\ side = "box" /\ Tail(todo) = FromGuard
        BY <1>3, <2>2, Program
    <3> QED
        BY <2>2, <3>1
  <2>3. CASE OneFile /\ todo = FromGuard
    <3>1. PICK rest : rest = FromBlank(TRUE)
        OBVIOUS
    <3>2. rest = FromBlank(OneFile)
        BY <2>3, <3>1 DEF FromBlank
    <3>3. Begins(todo, <<"guard", "client">>, rest)
        BY <2>3, <3>1, Program
    <3>4. what = "guard" /\ side = "client" /\ Tail(todo) = rest
        BY <1>2, <3>3 DEF Begins
    <3> QED
        BY <2>3, <3>2, <3>4
  <2>4. CASE todo = FromBlank(OneFile)
      BY <1>1, <1>3, <2>4, Program
  <2> QED
      BY <1>5, <2>1, <2>2, <2>3, <2>4
<1>6. CASE todo = FromShelveC(OneFile) /\ (OneFile => Target)
    BY <1>1, <1>3, <1>6, Program
<1>7. CASE OneFile /\ todo \in {FromProbe, FromSpare, FromPush} /\ Target
  <2>1. \/ what = "probe" /\ side = "box" /\ Tail(todo) = FromSpare
        \/ what = "spare" /\ side = "box" /\ Tail(todo) = FromPush
        \/ what = "push" /\ side = "box" /\ Tail(todo) = FromClearC
      BY <1>3, <1>7, Program
  <2> QED
      BY <1>7, <2>1
<1>8. CASE todo \in {FromClearC, FromLinkC} /\ (OneFile => Target)
    BY <1>3, <1>8, Program
<1>9. CASE todo \in {FromClearB, FromLinkB} /\ Target /\ own["client"].kind = "link"
    BY <1>3, <1>9, Program
<1> QED
    BY <1>2, <1>4, <1>5, <1>6, <1>7, <1>8, <1>9 DEF Heading

\* A call that finds its payloads, and one that leaves them as they are.
LEMMA HeadingSteps ==
    ASSUME ConfigTypes, TargetInv, op = "link",
           \/ Seed \/ SeedFromClient \/ PullPayloadToClient \/ BoxPayloadHasContent
           \/ RenameAside \/ PushPayloadToBox \/ SeedEmptyGuarded \/ SeedEmpty
    PROVE  TargetInv'
<1>1. Heading /\ {} # Nothing /\ has \in BOOLEAN
    BY DEF TargetInv, Nothing, ConfigTypes
<1>2. CASE op' = "idle"
    BY <1>2 DEF TargetInv
<1>3. CASE op' = op /\ UNCHANGED <<mode, own, swept>> /\ todo' = Tail(todo)
  <2>1. OneFile' = OneFile
      BY <1>3 DEF OneFile
  <2>2. CASE Seed
      BY <1>1, <1>3, <2>1, <2>2, HeadingCalls DEF Seed, TargetInv, Heading
  <2>3. CASE SeedFromClient
    <3>1. own["client"].text # Nothing
        BY TextsAssumption DEF ConfigTypes, Owned, Sides, Nothing
    <3>2. Exists("client")'
      <4>1. PICK n : store' = [store EXCEPT !["client"] = n] /\ n # Nothing
          BY <2>3, <3>1 DEF SeedFromClient, CopyOwn, Put, Exists
      <4> QED
          BY <4>1 DEF ConfigTypes, Sides, Exists
    <3> QED
        BY <1>1, <1>3, <2>1, <2>3, <3>2, HeadingCalls DEF SeedFromClient, TargetInv, Heading, Target
  <2>4. CASE PullPayloadToClient
    <3>1. CASE Exists("box")
      <4>1. store' = [store EXCEPT !["client"] = store["box"]]
          BY <2>4, <3>1 DEF PullPayloadToClient, Put
      <4>2. Exists("client")'
          BY <3>1, <4>1 DEF ConfigTypes, Sides, Exists
      <4> QED
          BY <1>1, <1>3, <2>1, <2>4, <4>2, HeadingCalls DEF PullPayloadToClient, TargetInv, Heading, Target
    <3>2. CASE ~Exists("box")
        BY <2>4, <3>2 DEF PullPayloadToClient, Die, TargetInv
    <3> QED
        BY <3>1, <3>2
  <2>5. CASE BoxPayloadHasContent
      BY <1>1, <1>3, <2>1, <2>5, HeadingCalls
      DEF BoxPayloadHasContent, files, TargetInv, Heading, Target, Exists
  <2>6. CASE RenameAside
    <3>1. store'["client"] = store["client"]
        BY <1>1, <2>6 DEF RenameAside, Put, ConfigTypes, Sides
    <3> QED
        BY <1>1, <1>3, <2>1, <2>6, <3>1, HeadingCalls DEF RenameAside, TargetInv, Heading, Target, Exists
  <2>7. CASE PushPayloadToBox
    <3>1. CASE Exists("client")
      <4>1. store' = [store EXCEPT !["box"] = store["client"]]
          BY <2>7, <3>1 DEF PushPayloadToBox, Put
      <4>2. Exists("client")'
          BY <3>1, <4>1 DEF ConfigTypes, Sides, Exists
      <4> QED
          BY <1>1, <1>3, <2>1, <2>7, <4>2, HeadingCalls DEF PushPayloadToBox, TargetInv, Heading, Target
    <3>2. CASE ~Exists("client")
        BY <2>7, <3>2 DEF PushPayloadToBox, Die, TargetInv
    <3> QED
        BY <3>1, <3>2
  <2>8. CASE SeedEmptyGuarded
      BY <1>1, <1>3, <2>1, <2>8, HeadingCalls DEF SeedEmptyGuarded, TargetInv, Heading
  <2>9. CASE SeedEmpty
    <3>1. Exists("client")'
        BY <1>1, <2>9 DEF SeedEmpty, Put, ConfigTypes, Sides, Exists
    <3> QED
        BY <1>1, <1>3, <2>1, <2>9, <3>1, HeadingCalls DEF SeedEmpty, TargetInv, Heading, Target
  <2> QED
      BY <2>2, <2>3, <2>4, <2>5, <2>6, <2>7, <2>8, <2>9
<1> QED
    BY <1>1, <1>2, <1>3
    DEF Seed, SeedFromClient, PullPayloadToClient, BoxPayloadHasContent, files,
        RenameAside, PushPayloadToBox, SeedEmptyGuarded, SeedEmpty, Go, Die

LEMMA HeadingSides ==
    ASSUME ConfigTypes, TargetInv, op = "link", NEW s \in Sides,
           Shelve(s) \/ Clear(s) \/ LinkSide(s) \/ Remove(s) \/ Restore(s)
    PROVE  TargetInv'
<1>1. Heading /\ {} # Nothing /\ ~Remove(s) /\ ~Restore(s)
    BY HeadingCalls DEF TargetInv, Nothing, Remove, Restore
<1>2. op' = op /\ UNCHANGED <<mode, swept>> /\ todo' = Tail(todo)
    BY <1>1 DEF Shelve, Clear, LinkSide, Go
<1>3. OneFile' = OneFile
    BY <1>2 DEF OneFile
<1>4. s = "client" \/ s = "box"
    BY DEF Sides
<1>5. CASE Shelve(s)
  <2>1. store' = store
      BY <1>5 DEF Shelve
  <2> QED
      BY <1>1, <1>2, <1>3, <1>4, <1>5, <2>1, HeadingCalls DEF Shelve, TargetInv, Heading, Target, Exists
<1>6. CASE Clear(s)
  <2>1. store' = store /\ (s = "box" => own'["client"] = own["client"])
      BY <1>6 DEF Clear, ConfigTypes, Sides
  <2> QED
      BY <1>1, <1>2, <1>3, <1>4, <1>6, <2>1, HeadingCalls DEF Clear, TargetInv, Heading, Target, Exists
<1>7. CASE LinkSide(s)
  <2>1. own'[s].kind = "link" /\ (s = "box" => own'["client"] = own["client"])
    <3>1. own' = [own EXCEPT ![s] = Link(own[s].text)]
        BY <1>7 DEF LinkSide
    <3>2. own'[s] = Link(own[s].text) /\ (s = "box" => own'["client"] = own["client"])
        BY <3>1 DEF ConfigTypes, Sides
    <3> QED
        BY <3>2 DEF Link
  <2>2. /\ Exists("client") => Exists("client")'
        /\ s = "client" /\ ~OneFile => Exists("client")'
      BY <1>1, <1>7 DEF LinkSide, Put, ConfigTypes, Exists, OneFile, Sides
  <2>3. CASE s = "client"
    <3>1. Target'
        BY <1>1, <1>2, <1>7, <2>2, <2>3, HeadingCalls DEF LinkSide, Target
    <3>2. todo' = FromClearB
        BY <1>1, <1>2, <1>7, <2>3, HeadingCalls DEF LinkSide
    <3> QED
        BY <2>1, <2>3, <3>1, <3>2 DEF TargetInv, Heading
  <2>4. CASE s = "box"
    <3>1. Target' /\ own'["client"].kind = "link" /\ todo' = <<>>
        BY <1>1, <1>2, <1>7, <2>1, <2>2, <2>4, HeadingCalls DEF LinkSide, Target
    <3> QED
        BY <2>1, <2>4, <3>1 DEF TargetInv, Heading
  <2> QED
      BY <1>4, <2>3, <2>4
<1> QED
    BY <1>1, <1>5, <1>6, <1>7

LEMMA TargetInvStep ==
    ASSUME ConfigTypes, TargetInv, [ConfigNext]_configVars
    PROVE  TargetInv'
<1>1. CASE UNCHANGED configVars
    BY <1>1 DEF configVars, TargetInv, Heading, Target, Exists, OneFile
<1>2. CASE RunConfigLink
  <2> DEFINE plan == PlanAppConfigLink(Kind("client"), Kind("box"), ComputeStoreKind)
  <2>1. PICK decision \in (IF plan = "ask" THEN {"use-client", "use-box", "refuse"} ELSE {plan}) :
            /\ todo' = Steps(decision)
            /\ op' = IF Steps(decision) = <<>> THEN "idle" ELSE "link"
      BY <1>2 DEF RunConfigLink
  <2>2. UNCHANGED <<mode, own, store>>
      BY <1>2 DEF RunConfigLink, files
  <2>3. plan \in {"refuse", "already-linked", "use-client", "use-box", "ask", "seed-empty"}
      BY PlanSays
  <2>4. /\ decision \in {"refuse", "already-linked", "use-client", "use-box", "seed-empty"}
        /\ decision = "use-client" /\ Kind("client") # "content" => Exists("client")
      BY <2>1, <2>3, PlanSays
  <2>5. OneFile' = OneFile /\ (Exists("client") => Target')
      BY <2>2 DEF OneFile, Target, Exists
  <2> HIDE DEF plan
  <2>6. CASE decision \in {"refuse", "already-linked"}
      BY <2>1, <2>6, StepsAreLists DEF TargetInv
  <2>7. CASE decision = "use-box"
      BY <2>1, <2>5, <2>7, StepsAreLists DEF TargetInv, Heading
  <2>8. CASE decision = "use-client"
      BY <2>1, <2>4, <2>5, <2>8, StepsAreLists DEF TargetInv, Heading
  <2>9. CASE decision = "seed-empty"
    <3>1. OneFile \in BOOLEAN
        BY DEF OneFile
    <3> QED
        BY <2>1, <2>5, <2>9, <3>1, StepsAreLists DEF TargetInv, Heading
  <2> QED
      BY <2>4, <2>6, <2>7, <2>8, <2>9
<1>3. CASE RunConfigUnlink \/ Finish \/ Kill
    BY <1>3 DEF RunConfigUnlink, Finish, Kill, TargetInv
<1>4. CASE Deliver
  <2>1. PICK w : store' = [s \in Sides |-> w] /\ swept' = (swept \/ (~Idle /\ Exists("client") /\ w = Nothing))
      BY <1>4 DEF Deliver
  <2>2. store'["client"] = w
      BY <2>1 DEF Sides
  <2>3. UNCHANGED <<mode, own, op, todo>>
      BY <1>4 DEF Deliver, cli
  <2>4. op = "link" /\ Target => Target'
      BY <2>1, <2>2 DEF Target, Exists, Idle
  <2> QED
      BY <2>3, <2>4 DEF TargetInv, Heading, OneFile
<1>5. CASE \E s \in Sides, t \in Texts : Edit(s, t)
    BY <1>5 DEF Edit, Idle, TargetInv
<1>6. CASE \/ Seed \/ SeedFromClient \/ PullPayloadToClient \/ BoxPayloadHasContent
           \/ RenameAside \/ PushPayloadToBox \/ SeedEmptyGuarded \/ SeedEmpty
  <2>1. CASE op = "link"
      BY <1>6, <2>1, HeadingSteps
  <2>2. CASE op # "link"
    <3>1. op' \in {op, "idle"}
        BY <1>6 DEF Seed, SeedFromClient, PullPayloadToClient, BoxPayloadHasContent,
                    RenameAside, PushPayloadToBox, SeedEmptyGuarded, SeedEmpty, Go, Die
    <3> QED
        BY <2>2, <3>1 DEF TargetInv
  <2> QED
      BY <2>1, <2>2
<1>7. CASE \E s \in Sides : Shelve(s) \/ Clear(s) \/ LinkSide(s) \/ Remove(s) \/ Restore(s)
  <2>1. CASE op = "link"
      BY <1>7, <2>1, HeadingSides
  <2>2. CASE op # "link"
    <3>1. op' \in {op, "idle"}
        BY <1>7 DEF Shelve, Clear, LinkSide, Remove, Restore, Go, Die
    <3> QED
        BY <2>2, <3>1 DEF TargetInv
  <2> QED
      BY <2>1, <2>2
<1> QED
    BY <1>1, <1>2, <1>3, <1>4, <1>5, <1>6, <1>7 DEF ConfigNext

\* When `config link` says it has linked, both applications read the link and there is a
\* payload behind the client's, whatever happened before, whatever the user answered and
\* whatever the engine delivered between two calls, with all four holes open. The one
\* exception is the property's own: the engine deleted the client's payload meanwhile.
THEOREM LinksHaveTargets == ConfigSpec => LinkHasTarget
<1>1. ConfigInit => TargetInv
    BY DEF ConfigInit, TargetInv
<1>2. ConfigTypes /\ TargetInv /\ [ConfigNext]_configVars => TargetInv'
    BY TargetInvStep
<1>3. ConfigTypes /\ TargetInv /\ [ConfigNext]_configVars =>
          [done' = "linked" /\ done # "linked" =>
              (~swept => Exists("client")) /\ \A s \in Sides : own[s].kind = "link"]_configVars
  <2> SUFFICES ASSUME ConfigTypes, TargetInv, [ConfigNext]_configVars, done' = "linked", done # "linked"
               PROVE  (~swept => Exists("client")) /\ \A s \in Sides : own[s].kind = "link"
      OBVIOUS
  <2>1. Heading /\ todo = <<>>
      BY OnlyFinishLinks DEF TargetInv, Finish
  <2>2. Target /\ own["client"].kind = "link" /\ own["box"].kind = "link"
    <3>1. OneFile \in BOOLEAN
        BY DEF OneFile
    <3> QED
        BY <2>1, <3>1, Program DEF Heading, Begins
  <2> QED
      BY <2>2 DEF Target, Sides
<1> QED
    BY <1>1, <1>2, <1>3, ConfigTypesInit, ConfigTypesStep, PTL DEF ConfigSpec, LinkHasTarget

\* And it then is one payload on both sides, or none, with the four holes avoided and
\* unless an edit or a cut has intervened.
THEOREM LinkedPairsAgree == ASSUME Careful PROVE ConfigSpec => LinksAgree
<1>1. ConfigTypes /\ ConfigInv /\ [ConfigNext]_configVars => ConfigInv'
    BY ConfigInvStep
<1>2. ConfigTypes /\ ConfigInv /\ [ConfigNext]_configVars =>
          [done' = "linked" /\ done # "linked" /\ OneFile /\ ~killed /\ ~edited =>
              store["client"] = store["box"]]_configVars
    BY LinkedIs DEF Agreed, Same
<1> QED
    BY <1>1, <1>2, ConfigInvInit, ConfigTypesInit, ConfigTypesStep, PTL DEF ConfigSpec, LinksAgree
=============================================================================
