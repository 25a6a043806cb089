------------------------- MODULE LaunchAgentsProofs -------------------------
(* Theorems about the client's launchd agents for any ports, contested ports *)
(* and configurations: the types, that no command, cut anywhere, leaves a    *)
(* job running from a plist that changed under it, what `devbox browser mode *)
(* server` and `devbox agent up` promise, that an accepted ready marker is   *)
(* its own supervisor's, and that recovery spares a forward that serves.     *)
EXTENDS LaunchAgents, BrowserSupervisor, FiniteSetTheorems, SequenceTheorems, TLAPS

\* ------------------------------------------------------ inductive invariant

\* The task a command is in the middle of is one that removes, installs or discards.
TaskKnown == pc # "next" => cur[1] \in {"remove", "install", "discard"}

\* Between the bootout and the bootstrap, where the plist is rewritten or deleted,
\* the label of the task is not loaded.
BootedOut == pc \in {"unlink", "unready", "write"} => (It \in Labels => job[It] = 0)

IInv == TypeOK /\ TaskKnown /\ BootedOut /\ JobMatchesDisk

LEMMA RevisionIsNat == TypeOK => conf.rev \in Nat
BY ConfigsAssumption DEF TypeOK, Conf

LEMMA InitHolds == Init => IInv
<1> SUFFICES ASSUME Init PROVE IInv
    OBVIOUS
<1>1. conf.rev \in Nat
    BY ConfigsAssumption DEF Init, Conf
<1>2. plist \in [Labels -> Nat] /\ job = plist
    BY <1>1 DEF Init
<1>3. listener \in [LocalPorts -> {Free, Foreign} \cup Forwards]
    BY DEF Init
<1> QED
    BY <1>2, <1>3 DEF Init, IInv, TypeOK, TaskKnown, BootedOut, JobMatchesDisk, Modes, Commands

\* ------------------------------------------------------------- the commands

\* The start of a command touches neither the disk nor launchd.
LEMMA CommandKeeps ==
    ASSUME IInv, NEW c \in Commands, NEW tasks, Command(c, tasks),
           settled' \in Modes \cup {"none"}
    PROVE  IInv'
<1>1. TypeOK'
    BY DEF IInv, TypeOK, Command, disk, launchd
<1>2. TaskKnown' /\ BootedOut'
    BY DEF Command, TaskKnown, BootedOut
<1>3. JobMatchesDisk'
    BY DEF IInv, JobMatchesDisk, Command, disk, launchd
<1> QED
    BY <1>1, <1>2, <1>3 DEF IInv

LEMMA RunKeeps == IInv /\ Run => IInv'
<1> SUFFICES ASSUME IInv, Run PROVE IInv'
    OBVIOUS
<1> USE DEF Commands, Modes
<1>0. settled \in Modes \cup {"none"}
    BY DEF IInv, TypeOK
<1>1. CASE RunAgentUp
    BY <1>0, <1>1, CommandKeeps DEF RunAgentUp
<1>2. CASE RunAgentDown
    BY <1>0, <1>2, CommandKeeps DEF RunAgentDown
<1>3. CASE RunRecover
    BY <1>0, <1>3, CommandKeeps DEF RunRecover
<1>4. ASSUME NEW m \in Modes, RunBrowserMode(m) PROVE IInv'
    BY <1>4, CommandKeeps DEF RunBrowserMode
<1>5. ASSUME NEW ports \in SUBSET Ports \ {{}}, RunBrowserBind(ports) PROVE IInv'
    BY <1>0, <1>5, CommandKeeps DEF RunBrowserBind
<1>6. ASSUME NEW ports \in SUBSET Ports \ {{}}, RunBrowserUnbind(ports) PROVE IInv'
    BY <1>0, <1>6, CommandKeeps DEF RunBrowserUnbind
<1> QED
    BY <1>1, <1>2, <1>3, <1>4, <1>5, <1>6 DEF Run

\* --------------------------------------------------------- how a step goes on

\* Where only the command itself moves, the disk and the jobs stay as they are.
LEMMA OnlyCliMoves ==
    ASSUME IInv, UNCHANGED <<disk, job>>, UNCHANGED <<proc, ready, listener, proven>>,
           op' \in Commands \cup {"idle"}, done' \in BOOLEAN, settled' \in Modes \cup {"none"},
           TaskKnown', BootedOut'
    PROVE  IInv'
<1>1. TypeOK'
    BY DEF IInv, TypeOK, disk
<1>2. JobMatchesDisk'
    BY DEF IInv, JobMatchesDisk, disk
<1> QED
    BY <1>1, <1>2 DEF IInv

LEMMA PlanningKeeps ==
    ASSUME IInv, Begin \/ ExpandSpecs \/ ReconcileAutoBindPorts \/ Sweep \/ Finish
    PROVE  IInv'
<1>1. UNCHANGED <<disk, job, proc, ready, listener, proven>>
    BY DEF Begin, ExpandSpecs, ReconcileAutoBindPorts, Sweep, Finish, launchd, disk
<1>2. /\ op' \in Commands \cup {"idle"} /\ done' \in BOOLEAN
      /\ settled' \in Modes \cup {"none"}
    BY DEF IInv, TypeOK, Begin, ExpandSpecs, ReconcileAutoBindPorts, Sweep, Finish, Expand
<1>3. TaskKnown' /\ BootedOut'
  <2>1. CASE Begin
      BY <2>1 DEF Begin, Task, TaskKnown, BootedOut
  <2>2. CASE ExpandSpecs \/ ReconcileAutoBindPorts \/ Sweep \/ Finish
      BY <2>2 DEF ExpandSpecs, ReconcileAutoBindPorts, Sweep, Finish, Expand, Task, Running,
                  TaskKnown, BootedOut
  <2> QED
      BY <2>1, <2>2
<1> QED
    BY <1>1, <1>2, <1>3, OnlyCliMoves

LEMMA ModeKeeps == ASSUME IInv, WriteBrowserMode PROVE IInv'
<1>1. mode' \in Modes /\ settled' \in Modes
    BY DEF WriteBrowserMode, Task, Modes
<1>2. TypeOK'
    BY <1>1 DEF IInv, TypeOK, WriteBrowserMode, launchd
<1>3. TaskKnown' /\ BootedOut' /\ JobMatchesDisk'
    BY DEF IInv, TaskKnown, BootedOut, JobMatchesDisk, WriteBrowserMode, Task, Running, launchd, It
<1> QED
    BY <1>2, <1>3 DEF IInv

\* The process of a job that stops leaves types alone, and nothing else.
LEMMA StopTypes ==
    ASSUME TypeOK, NEW l, Stop(l)
    PROVE  /\ proc' \in [Labels -> {"none", "started", "serving"}]
           /\ ready' \in [Labels -> BOOLEAN]
           /\ listener' \in [LocalPorts -> {Free, Foreign} \cup Forwards]
<1>1. proc' \in [Labels -> {"none", "started", "serving"}]
    BY DEF TypeOK, Stop
<1>2. ready' \in [Labels -> BOOLEAN]
  <2>1. PICK kept \in {FALSE, ready[l]} : ready' = [ready EXCEPT ![l] = kept]
      BY DEF Stop
  <2>2. l \in Labels => kept \in BOOLEAN
      BY DEF TypeOK
  <2> QED
      BY <2>1, <2>2 DEF TypeOK
<1>3. listener' \in [LocalPorts -> {Free, Foreign} \cup Forwards]
    BY DEF TypeOK, Stop
<1> QED
    BY <1>1, <1>2, <1>3

\* ------------------------------------------- one task, one system call at a time

\* The steps that only ask, and those that only wait.
LEMMA AskingKeeps ==
    ASSUME IInv, CheckCurrent \/ AwaitReady \/ AwaitFails
    PROVE  IInv'
<1>1. UNCHANGED <<disk, job, proc, ready, listener, proven>>
    BY DEF CheckCurrent, AwaitReady, AwaitFails, launchd, disk
<1>2. /\ op' \in Commands \cup {"idle"} /\ done' \in BOOLEAN
      /\ settled' \in Modes \cup {"none"}
    BY DEF IInv, TypeOK, CheckCurrent, AwaitReady, AwaitFails, Pass, Goto
<1>3. TaskKnown' /\ BootedOut'
    BY DEF IInv, TaskKnown, BootedOut, CheckCurrent, AwaitReady, AwaitFails, Pass, Goto, Running
<1> QED
    BY <1>1, <1>2, <1>3, OnlyCliMoves

\* bootoutIfLoaded returns only when the label is not loaded.
LEMMA BootoutKeeps == ASSUME IInv, Bootout PROVE IInv'
<1>1. /\ op' \in Commands \cup {"idle"} /\ done' \in BOOLEAN
      /\ settled' \in Modes \cup {"none"} /\ UNCHANGED <<disk, proven>>
    BY DEF IInv, TypeOK, Bootout, Goto, Die, Unloaded, launchd, disk
<1>2. CASE ((job[It] = 0 /\ Goto(AfterBootout)) \/ Die) /\ UNCHANGED <<disk, launchd>>
  <2>1. TaskKnown' /\ BootedOut'
      BY <1>2 DEF IInv, TaskKnown, BootedOut, Bootout, Goto, Die, Running, launchd, It
  <2> QED
      BY <1>1, <1>2, <2>1, OnlyCliMoves DEF launchd
<1>3. CASE Unloaded(It)
  <2>1. job' = [job EXCEPT ![It] = 0] /\ job' \in [Labels -> Nat]
      BY <1>3 DEF Unloaded, IInv, TypeOK
  <2>2. TypeOK'
      BY <1>1, <1>3, <2>1, StopTypes DEF Unloaded, IInv, TypeOK, disk
  <2>3. TaskKnown' /\ BootedOut'
      BY <2>1 DEF IInv, TypeOK, TaskKnown, BootedOut, Bootout, Goto, Die, Running, It
  <2>4. JobMatchesDisk'
      BY <1>1, <2>1 DEF IInv, TypeOK, JobMatchesDisk, disk
  <2> QED
      BY <2>2, <2>3, <2>4 DEF IInv
<1> QED
    BY <1>2, <1>3 DEF Bootout

\* The plist is deleted, or rewritten, only while its label is not loaded.
LEMMA PlistKeeps == ASSUME IInv, Unlink \/ Write PROVE IInv'
<1>0. conf.rev \in Nat
    BY RevisionIsNat DEF IInv
<1>1. It \in Labels => job[It] = 0
    BY DEF IInv, BootedOut, Unlink, Write, Running
<1>2. /\ UNCHANGED <<conf, mode, launchd, op, todo, cur, done, settled>>
      /\ pc' \in {"unready", "bootstrap"} /\ pc # "next"
    BY DEF Unlink, Write, Goto, Running
<1>3. PICK r \in {0, conf.rev} : plist' = [plist EXCEPT ![It] = r]
    BY DEF Unlink, Write
<1>4. TypeOK'
  <2>1. plist' \in [Labels -> Nat]
    <3>1. r \in Nat /\ plist \in [Labels -> Nat]
        BY <1>0 DEF IInv, TypeOK
    <3> QED
        BY <1>3, <3>1
  <2> QED
      BY <1>2, <2>1 DEF IInv, TypeOK, launchd
<1>5. TaskKnown' /\ BootedOut'
    BY <1>1, <1>2 DEF IInv, TaskKnown, BootedOut, launchd, It
<1>6. JobMatchesDisk'
    BY <1>1, <1>2, <1>3 DEF IInv, TypeOK, JobMatchesDisk, launchd
<1> QED
    BY <1>4, <1>5, <1>6 DEF IInv

LEMMA UnreadyKeeps == ASSUME IInv, Unready PROVE IInv'
<1>1. cur[1] \in {"remove", "install", "discard"} /\ (It \in Labels => job[It] = 0)
    BY DEF IInv, TaskKnown, BootedOut, Unready, Running
<1>2. Goto("write") \/ Pass \/ Die
    BY <1>1 DEF Unready
<1>3. TypeOK'
    BY <1>2 DEF IInv, TypeOK, Unready, Goto, Pass, Die, disk
<1>4. TaskKnown' /\ BootedOut'
    BY <1>1, <1>2 DEF TaskKnown, BootedOut, Unready, Goto, Pass, Die, It
<1>5. JobMatchesDisk'
    BY DEF IInv, JobMatchesDisk, Unready, disk
<1> QED
    BY <1>3, <1>4, <1>5 DEF IInv

\* launchd loads what is on disk.
LEMMA BootstrapKeeps == ASSUME IInv, Bootstrap PROVE IInv'
<1>1. CASE Die /\ UNCHANGED <<disk, launchd>>
  <2>1. TaskKnown' /\ BootedOut'
      BY <1>1 DEF Die, TaskKnown, BootedOut
  <2> QED
      BY <1>1, <2>1, OnlyCliMoves DEF IInv, TypeOK, Die, launchd
<1>2. CASE /\ job' = [job EXCEPT ![It] = plist[It]]
           /\ proven' = FALSE
           /\ IF HasReady(It) THEN Goto("await") ELSE Pass
           /\ UNCHANGED <<disk, proc, ready, listener>>
  <2>1. job' \in [Labels -> Nat]
    <3>1. It \in Labels => plist[It] \in Nat
        BY DEF IInv, TypeOK
    <3> QED
        BY <1>2, <3>1 DEF IInv, TypeOK
  <2>2. TypeOK'
      BY <1>2, <2>1 DEF IInv, TypeOK, Goto, Pass, disk
  <2>3. TaskKnown' /\ BootedOut'
      BY <1>2 DEF IInv, TaskKnown, BootedOut, Goto, Pass, Bootstrap, Running
  <2>4. JobMatchesDisk'
      BY <1>2 DEF IInv, TypeOK, JobMatchesDisk, disk
  <2> QED
      BY <2>2, <2>3, <2>4 DEF IInv
<1> QED
    BY <1>1, <1>2 DEF Bootstrap

\* -------------------------------------------------------------- recover all

LEMMA RecoverKeeps == ASSUME IInv, RecoverOwnedAgent PROVE IInv'
<1>0. conf.rev \in Nat
    BY RevisionIsNat DEF IInv
<1>1. /\ op' \in Commands \cup {"idle"} /\ done' \in BOOLEAN
      /\ settled' \in Modes \cup {"none"} /\ pc' = "next"
    BY DEF IInv, TypeOK, RecoverOwnedAgent, Task, Running, Die
<1>2. TaskKnown' /\ BootedOut'
    BY <1>1 DEF TaskKnown, BootedOut
<1>3. CASE UNCHANGED <<disk, launchd>>
    BY <1>1, <1>2, <1>3, OnlyCliMoves DEF launchd
<1>4. CASE \E l : ~RecoverBlocked(l) /\ Recovers(l)
  <2>1. PICK l : ~RecoverBlocked(l) /\ Recovers(l)
      BY <1>4
  <2>2. PICK loads \in {0, conf.rev} : job' = [job EXCEPT ![l] = loads]
      BY <2>1 DEF Recovers
  <2>3. /\ plist' = [plist EXCEPT ![l] = conf.rev]
        /\ proc' = [proc EXCEPT ![l] = "none"]
        /\ ready' = [ready EXCEPT ![l] = FALSE]
        /\ UNCHANGED <<conf, mode, listener, proven>>
      BY <2>1 DEF Recovers
  <2>4. TypeOK'
    <3>1. plist' \in [Labels -> Nat] /\ job' \in [Labels -> Nat]
      <4>1. loads \in Nat /\ plist \in [Labels -> Nat] /\ job \in [Labels -> Nat]
          BY <1>0 DEF IInv, TypeOK
      <4> QED
          BY <1>0, <2>2, <2>3, <4>1
    <3>2. /\ proc' \in [Labels -> {"none", "started", "serving"}]
          /\ ready' \in [Labels -> BOOLEAN]
        BY <2>3 DEF IInv, TypeOK
    <3> QED
        BY <1>1, <2>3, <3>1, <3>2 DEF IInv, TypeOK
  <2>5. JobMatchesDisk'
      BY <1>0, <2>2, <2>3 DEF IInv, TypeOK, JobMatchesDisk
  <2> QED
      BY <1>2, <2>4, <2>5 DEF IInv
<1> QED
    BY <1>3, <1>4 DEF RecoverOwnedAgent

\* ------------------------------------------------------------- the environment

LEMMA SupervisorKeeps ==
    ASSUME IInv, NEW l \in Forwards, Start(l) \/ Listen(l) \/ Publish(l) \/ Fail(l)
    PROVE  IInv'
<1>1. UNCHANGED <<disk, cli, job, done, settled>>
    BY DEF Start, Listen, Publish, Fail, CliStays
<1>2. /\ proc' \in [Labels -> {"none", "started", "serving"}]
      /\ ready' \in [Labels -> BOOLEAN]
      /\ listener' \in [LocalPorts -> {Free, Foreign} \cup Forwards]
      /\ proven' \in BOOLEAN
  <2>1. CASE Start(l)
      BY <2>1 DEF IInv, TypeOK, Start
  <2>2. CASE Listen(l)
      BY <2>2 DEF IInv, TypeOK, Listen
  <2>3. CASE Publish(l)
      BY <2>3 DEF IInv, TypeOK, Publish
  <2>4. CASE Fail(l)
      BY <2>4, StopTypes DEF IInv, TypeOK, Fail
  <2> QED
      BY <2>1, <2>2, <2>3, <2>4
<1>3. TypeOK'
    BY <1>1, <1>2 DEF IInv, TypeOK, disk, cli
<1>4. TaskKnown' /\ BootedOut' /\ JobMatchesDisk'
    BY <1>1 DEF IInv, TaskKnown, BootedOut, JobMatchesDisk, disk, cli, It
<1> QED
    BY <1>3, <1>4 DEF IInv

LEMMA EnvironmentKeeps == ASSUME IInv, Environment PROVE IInv'
<1>1. ASSUME NEW l \in Forwards, Start(l) \/ Listen(l) \/ Publish(l) \/ Fail(l) PROVE IInv'
    BY <1>1, SupervisorKeeps
<1>2. ASSUME NEW p \in Contested, ForeignComesOrGoes(p) PROVE IInv'
  <2>1. TypeOK'
      BY <1>2 DEF IInv, TypeOK, ForeignComesOrGoes, CliStays, disk, cli
  <2>2. TaskKnown' /\ BootedOut' /\ JobMatchesDisk'
      BY <1>2 DEF IInv, ForeignComesOrGoes, CliStays, TaskKnown, BootedOut, JobMatchesDisk,
                  disk, cli, It
  <2> QED
      BY <2>1, <2>2 DEF IInv
<1>3. CASE Cut
  <2>1. TaskKnown' /\ BootedOut'
      BY <1>3 DEF Cut, Die, TaskKnown, BootedOut
  <2> QED
      BY <1>3, <2>1, OnlyCliMoves DEF IInv, TypeOK, Cut, Die, launchd
<1>4. CASE Login
  <2>1. TypeOK'
      BY <1>4 DEF IInv, TypeOK, Login, Die, disk
  <2>2. TaskKnown' /\ BootedOut' /\ JobMatchesDisk'
      BY <1>4 DEF Login, Die, TaskKnown, BootedOut, JobMatchesDisk, disk
  <2> QED
      BY <2>1, <2>2 DEF IInv
<1>5. ASSUME NEW c \in Configs, EditConfig(c) PROVE IInv'
  <2>1. TypeOK'
      BY <1>5 DEF IInv, TypeOK, EditConfig, launchd, cli
  <2>2. TaskKnown' /\ BootedOut' /\ JobMatchesDisk'
      BY <1>5 DEF IInv, EditConfig, TaskKnown, BootedOut, JobMatchesDisk, launchd, cli, It
  <2> QED
      BY <2>1, <2>2 DEF IInv
<1> QED
    BY <1>1, <1>2, <1>3, <1>4, <1>5 DEF Environment

\* ------------------------------------------------------------------- theorems

LEMMA NextHolds == IInv /\ [Next]_vars => IInv'
<1> SUFFICES ASSUME IInv, [Next]_vars PROVE IInv'
    OBVIOUS
<1>1. CASE Run
    BY <1>1, RunKeeps
<1>2. CASE Work
    BY <1>2, PlanningKeeps, ModeKeeps, AskingKeeps, BootoutKeeps, PlistKeeps, UnreadyKeeps,
       BootstrapKeeps, RecoverKeeps DEF Work
<1>3. CASE Environment
    BY <1>3, EnvironmentKeeps
<1>4. CASE UNCHANGED vars
    BY <1>4 DEF IInv, TypeOK, TaskKnown, BootedOut, JobMatchesDisk, vars, It
<1> QED
    BY <1>1, <1>2, <1>3, <1>4 DEF Next

LEMMA Invariance == Spec => []IInv
BY InitHolds, NextHolds, PTL DEF Spec

\* Every plist, job, marker, listener and mode the commands, launchd and the
\* supervisors of agent.ts write stays in its range.
THEOREM TypeCorrect == Spec => []TypeOK
<1>1. IInv => TypeOK
    BY DEF IInv
<1> QED
    BY <1>1, Invariance, PTL

\* removeAgent, installAgents and recoverOwnedAgentLive, cut anywhere, with any
\* refusal of launchd and any login in between, never leave a loaded job whose plist
\* is gone or was rewritten after launchd read it.
THEOREM JobsMatchDisk == Spec => []JobMatchesDisk
<1>1. IInv => JobMatchesDisk
    BY DEF IInv
<1> QED
    BY <1>1, Invariance, PTL

(* ---------------------------------------------------------- server mode   *)
(* Once `browser mode server` is through, nothing of client mode comes back  *)
(* until a mode command starts again. The argument needs the task lists of   *)
(* the commands, so it first says what is in them.                           *)

What == {"remove", "install", "specs", "autobind", "sweep", "client", "server", "recover"}
Item == {t \in What \X (Labels \cup {NoLabel}) : t[1] \in {"remove", "install", "recover"} => t[2] \in Labels}
\* Tasks that bring nothing of client mode back.
QuietItem == {t \in Item : t[1] # "autobind" /\ (t[1] = "install" => t[2] \notin BrowserSide)}
\* The tasks of `browser mode server`, and those of the other commands.
ServerItem == {t \in Item : t[1] \in {"remove", "server"}}
OtherItem == {t \in Item : t[1] # "server"}

\* ------------------------------------------------------------ labels and lists

LEMMA LabelsFinite == IsFiniteSet(Labels)
<1> DEFINE Bind(what) == [p \in Ports |-> <<what, p>>]
<1>1. ASSUME NEW what PROVE IsFiniteSet({<<what, p>> : p \in Ports})
  <2> DEFINE T == {<<what, p>> : p \in Ports}
  <2>1. Bind(what) \in [Ports -> T]
      OBVIOUS
  <2>2. \A t \in T : \E p \in Ports : Bind(what)[p] = t
      OBVIOUS
  <2>3. Bind(what) \in Surjection(Ports, T)
      BY <2>1, <2>2 DEF Surjection
  <2> QED
      BY <2>3, FS_Surjection, PortsAssumption
<1>2. IsFiniteSet(ManualLabels) /\ IsFiniteSet(AutoLabels)
    BY <1>1 DEF ManualLabels, AutoLabels, Manual, AutoBind
<1>3. IsFiniteSet({Desktop, Browser, Monitoring, Mount, Legacy})
  <2>1. IsFiniteSet({})
      BY FS_EmptySet
  <2>2. IsFiniteSet({} \cup {Desktop})
      BY <2>1, FS_AddElement
  <2>3. IsFiniteSet(({} \cup {Desktop}) \cup {Browser})
      BY <2>2, FS_AddElement
  <2>4. IsFiniteSet((({} \cup {Desktop}) \cup {Browser}) \cup {Monitoring})
      BY <2>3, FS_AddElement
  <2>5. IsFiniteSet(((({} \cup {Desktop}) \cup {Browser}) \cup {Monitoring}) \cup {Mount})
      BY <2>4, FS_AddElement
  <2>6. IsFiniteSet((((({} \cup {Desktop}) \cup {Browser}) \cup {Monitoring}) \cup {Mount}) \cup {Legacy})
      BY <2>5, FS_AddElement
  <2>7. (((({} \cup {Desktop}) \cup {Browser}) \cup {Monitoring}) \cup {Mount}) \cup {Legacy}
            = {Desktop, Browser, Monitoring, Mount, Legacy}
      OBVIOUS
  <2> QED
      BY <2>6, <2>7
<1> QED
    BY <1>2, <1>3, FS_Union DEF Labels, PortLabels

\* Each lists every label of the set, and nothing else.
LEMMA EachLists ==
    ASSUME NEW what, NEW S \in SUBSET Labels
    PROVE  /\ Each(what, S) \in Seq({what} \X S)
           /\ \A l \in S : \E i \in 1..Len(Each(what, S)) : Each(what, S)[i] = <<what, l>>
<1> DEFINE s == SetToSeq(S)
           n == Cardinality(S)
<1>1. IsFiniteSet(S)
    BY LabelsFinite, FS_Subset
<1>2. n \in Nat /\ ExistsBijection(1..n, S)
    BY <1>1, FS_CardinalityType
<1>3. PICK f \in [1..n -> S] : IsInjective(f)
    BY <1>2 DEF ExistsBijection, Bijection, Injection
<1>4. s \in [1..n -> S] /\ IsInjective(s)
    BY <1>3 DEF SetToSeq
<1>5. \A l \in S : \E i \in 1..n : s[i] = l
  <2> DEFINE T == {s[i] : i \in 1..n}
  <2>2. s \in Bijection(1..n, T)
      BY <1>4 DEF Bijection, Injection, Surjection
  <2>3. Cardinality(T) = n
      BY <1>2, <2>2, FS_CountingElements DEF ExistsBijection
  <2>4. T \in SUBSET S
      BY <1>4
  <2>5. S = T
      BY <1>1, <2>3, <2>4, FS_Subset
  <2> QED
      BY <2>5
<1>6. Len(s) = n
    BY <1>2, <1>4
<1>7. Each(what, S) = [i \in 1..n |-> <<what, s[i]>>]
    BY <1>6 DEF Each
<1>8. Each(what, S) \in [1..n -> {what} \X S]
    BY <1>4, <1>7
<1>9. Each(what, S) \in Seq({what} \X S) /\ Len(Each(what, S)) = n
    BY <1>2, <1>8
<1>10. \A l \in S : \E i \in 1..n : Each(what, S)[i] = <<what, l>>
    BY <1>5, <1>7
<1> HIDE DEF s, n
<1> QED
    BY <1>9, <1>10

LEMMA EachIn ==
    ASSUME NEW what, NEW S \in SUBSET Labels, NEW K, \A l \in S : <<what, l>> \in K
    PROVE  Each(what, S) \in Seq(K)
<1>1. {what} \X S \subseteq K
    OBVIOUS
<1> QED
    BY <1>1, EachLists, SeqMonotonic

LEMMA RemovesIn ==
    ASSUME NEW S \in SUBSET Labels
    PROVE  /\ Each("remove", S) \in Seq(QuietItem)
           /\ Each("remove", S) \in Seq(ServerItem)
           /\ Each("remove", S) \in Seq(OtherItem)
<1>1. \A l \in S : <<"remove", l>> \in QuietItem \cap ServerItem \cap OtherItem
    BY DEF QuietItem, ServerItem, OtherItem, Item, What
<1> QED
    BY <1>1, EachIn

LEMMA ConcatIn ==
    ASSUME NEW K, NEW s \in Seq(K), NEW t \in Seq(K)
    PROVE  s \o t \in Seq(K)
BY ConcatProperties

\* The browser's own agent is no part of the specs in server mode.
LEMMA ServerSpecs ==
    /\ Specs \subseteq Labels
    /\ mode = "server" => \A l \in Specs : l \notin BrowserSide
BY DEF Specs, Fixed, Labels, BrowserSide, PortLabels, ManualLabels, AutoLabels, Manual, AutoBind,
       Desktop, Browser, Monitoring, Mount, Legacy

LEMMA LabelSets ==
    ASSUME TypeOK
    PROVE  /\ LegacyLabels \subseteq Labels /\ ServerLabels \subseteq Labels
           /\ AutoBindSpecs \subseteq Labels /\ ConfiguredAgentSpecs \subseteq Labels
           /\ Installed \subseteq Labels /\ BrowserSide \subseteq Labels /\ Fixed \subseteq Labels
<1>1. conf.auto \subseteq Ports
    BY ConfigsAssumption DEF TypeOK, Conf
<1>2. AutoBindSpecs \subseteq Labels
    BY <1>1 DEF AutoBindSpecs, Labels, PortLabels, AutoLabels
<1>3. /\ LegacyLabels \subseteq Labels /\ Installed \subseteq Labels
      /\ BrowserSide \subseteq Labels /\ Fixed \subseteq Labels
    BY DEF LegacyLabels, Labels, Installed, BrowserSide, Fixed
<1>4. ServerLabels \subseteq Labels
    BY <1>3 DEF ServerLabels, Labels
<1>5. ConfiguredAgentSpecs \subseteq Labels
    BY <1>2, <1>3, ServerSpecs DEF ConfiguredAgentSpecs, Wanted
<1> QED
    BY <1>2, <1>3, <1>4, <1>5

\* ------------------------------------------------------ inductive invariant

\* Only an install asks, writes, bootstraps and waits.
Installing == pc \in {"check", "write", "bootstrap", "await"} => cur[1] = "install"

\* A label that `browser mode server` has still to remove.
Pending(l) ==
    \/ \E i \in 1..Len(todo) : todo[i] = <<"remove", l>>
    \/ pc \in {"bootout", "unlink"} /\ It = l

\* While server mode is settled, no plist of the client's side exists and no task makes one.
Quiet ==
    settled = "server" =>
        /\ mode = "server"
        /\ \A l \in BrowserSide : plist[l] = 0
        /\ todo \in Seq(QuietItem)
        /\ pc # "next" /\ cur[1] = "install" => It \notin BrowserSide

\* `browser mode server` writes the mode last, and has all it must stop before it.
Stopping ==
    op = "server" =>
        /\ todo \in Seq(ServerItem)
        /\ \A i \in 1..Len(todo) : todo[i][1] = "server" => i = Len(todo)
        /\ pc # "next" => cur[1] = "remove"
        /\ \A l \in BrowserSide : plist[l] # 0 => Pending(l)

Elsewhere == op # "server" => todo \in Seq(OtherItem)

SInv == Installing /\ Quiet /\ Stopping /\ Elsewhere

LEMMA InitQuiet == Init => SInv
<1>1. <<>> \in Seq(OtherItem)
    BY EmptySeq
<1> QED
    BY <1>1 DEF Init, SInv, Installing, Quiet, Stopping, Elsewhere

\* ----------------------------------------------------------------- the commands

\* Any command but `browser mode server`: what it is going to do is quiet if it has to be.
LEMMA StartQuiet ==
    ASSUME TypeOK, SInv, NEW c \in Commands \ {"server"}, NEW tasks, Command(c, tasks),
           tasks \in Seq(OtherItem),
           \/ settled' = "none"
           \/ settled' = settled /\ (settled = "server" => tasks \in Seq(QuietItem))
    PROVE  SInv'
<1>1. Quiet'
    BY DEF SInv, Quiet, Command, disk
<1> QED
    BY <1>1 DEF SInv, Installing, Stopping, Elsewhere, Command, Commands

\* `browser mode server` plans to remove whatever is installed of the client's side.
LEMMA StartServer == ASSUME TypeOK, SInv, RunBrowserMode("server") PROVE SInv'
<1> DEFINE removes == Each("remove", ServerLabels)
           tasks == removes \o <<Do("server")>>
<1>1. ServerLabels \in SUBSET Labels
    BY LabelSets
<1>2. removes \in Seq(ServerItem) /\ <<Do("server")>> \in Seq(ServerItem)
  <2>1. Do("server") \in ServerItem
      BY DEF Do, ServerItem, Item, What
  <2> QED
      BY <1>1, <2>1, RemovesIn
<1>3. /\ tasks \in Seq(ServerItem) /\ Len(tasks) = Len(removes) + 1
      /\ \A i \in 1..Len(tasks) : i # Len(tasks) => tasks[i] = removes[i]
  <2> HIDE DEF removes
  <2>1. Len(removes) \in Nat /\ Len(<<Do("server")>>) = 1
      BY <1>2
  <2> QED
      BY <1>2, <2>1, ConcatProperties
<1>4. /\ todo' = tasks /\ pc' = "next" /\ op' = "server" /\ settled' = "none"
      /\ plist' = plist /\ HasBrowser
    BY DEF RunBrowserMode, Command, disk
<1>5. \A i \in 1..Len(removes) : removes[i][1] = "remove"
  <2>1. removes \in Seq({"remove"} \X ServerLabels)
      BY <1>1, EachLists
  <2> HIDE DEF removes
  <2> QED
      BY <2>1, ElementOfSeq
<1>6. \A i \in 1..Len(tasks) : tasks[i][1] = "server" => i = Len(tasks)
  <2> HIDE DEF removes, tasks
  <2> QED
      BY <1>2, <1>3, <1>5, LenProperties
<1>7. ASSUME NEW l \in BrowserSide, plist[l] # 0
      PROVE  \E i \in 1..Len(tasks) : tasks[i] = <<"remove", l>>
  <2>1. l \in ServerLabels
      BY <1>4, <1>7, LabelSets DEF BrowserSide, ServerLabels, LegacyLabels, Installed
  <2>2. PICK i \in 1..Len(removes) : removes[i] = <<"remove", l>>
      BY <1>1, <2>1, EachLists
  <2> HIDE DEF removes, tasks
  <2> QED
      BY <1>2, <1>3, <2>2, LenProperties
<1> HIDE DEF tasks
<1> QED
    BY <1>3, <1>4, <1>6, <1>7 DEF SInv, Installing, Quiet, Stopping, Elsewhere, Pending

LEMMA RunQuiet == ASSUME TypeOK, SInv, Run PROVE SInv'
<1> USE DEF Commands, Modes
<1>0. ASSUME NEW S \in SUBSET Labels, NEW what, what \in What \ {"server", "autobind", "install"}
      PROVE  Each(what, S) \in Seq(OtherItem) /\ Each(what, S) \in Seq(QuietItem)
  <2>1. \A l \in S : <<what, l>> \in OtherItem /\ <<what, l>> \in QuietItem
      BY <1>0 DEF OtherItem, QuietItem, Item
  <2> QED
      BY <2>1, EachIn
<1>a. ASSUME NEW t \in OtherItem, NEW K, t \in K PROVE <<t>> \in Seq(K)
    BY <1>a
<1>1. CASE RunAgentUp
  <2> DEFINE removes == Each("remove", LegacyLabels)
  <2>1. removes \in Seq(OtherItem) /\ removes \in Seq(QuietItem)
      BY LabelSets, RemovesIn
  <2>2. Do("specs") \in OtherItem /\ Do("specs") \in QuietItem
      BY DEF Do, OtherItem, QuietItem, Item, What
  <2>3. /\ removes \o <<Do("specs")>> \in Seq(OtherItem)
        /\ removes \o <<Do("specs")>> \in Seq(QuietItem)
    <3> HIDE DEF removes
    <3> QED
        BY <2>1, <2>2, ConcatIn
  <2> QED
      BY <1>1, <2>3, StartQuiet DEF RunAgentUp
<1>2. CASE RunAgentDown
  <2> DEFINE S == {l \in Fixed : l[1] \in conf.agents}
                  \cup InstalledAgentLabels \cup (Installed \cap PortLabels) \cup LegacyLabels
  <2>1. S \in SUBSET Labels
      BY LabelSets DEF InstalledAgentLabels
  <2>2. Each("remove", S) \in Seq(OtherItem) /\ Each("remove", S) \in Seq(QuietItem)
      BY <2>1, RemovesIn
  <2> QED
      BY <1>2, <2>2, StartQuiet DEF RunAgentDown
<1>3. CASE RunRecover
  <2> DEFINE S == {l \in ConfiguredAgentSpecs : Registered(l) /\ ProbeAgentHealth(l) # "fine"}
  <2>1. S \in SUBSET Labels
      BY LabelSets
  <2>2. Each("recover", S) \in Seq(OtherItem) /\ Each("recover", S) \in Seq(QuietItem)
      BY <1>0, <2>1 DEF What
  <2> QED
      BY <1>3, <2>2, StartQuiet DEF RunRecover
<1>4. CASE RunBrowserMode("server")
    BY <1>4, StartServer
<1>5. CASE RunBrowserMode("client")
  <2> DEFINE removes == Each("remove", LegacyLabels)
             rest == <<<<"install", Browser>>, Do("autobind"), Do("client")>>
  <2>1. removes \in Seq(OtherItem)
      BY LabelSets, RemovesIn
  <2>2. rest \in Seq(OtherItem)
      BY DEF Do, OtherItem, Item, What, Labels
  <2>3. removes \o rest \in Seq(OtherItem)
    <3> HIDE DEF removes, rest
    <3> QED
        BY <2>1, <2>2, ConcatIn
  <2> QED
      BY <1>5, <2>3, StartQuiet DEF RunBrowserMode
<1>6. ASSUME NEW ports \in SUBSET Ports \ {{}}, RunBrowserBind(ports) PROVE SInv'
  <2> DEFINE S == {Manual(p) : p \in ports}
  <2>1. S \in SUBSET Labels
      BY DEF Labels, PortLabels, ManualLabels
  <2>2. \A l \in S : <<"install", l>> \in OtherItem
      BY <2>1 DEF OtherItem, Item, What
  <2>3. Each("install", S) \in Seq(OtherItem)
      BY <2>1, <2>2, EachIn
  <2>4. settled # "server"
      BY <1>6 DEF RunBrowserBind, SInv, Quiet
  <2> QED
      BY <1>6, <2>3, <2>4, StartQuiet DEF RunBrowserBind
<1>7. ASSUME NEW ports \in SUBSET Ports \ {{}}, RunBrowserUnbind(ports) PROVE SInv'
  <2> DEFINE S == {Manual(p) : p \in ports}
  <2>1. S \in SUBSET Labels
      BY DEF Labels, PortLabels, ManualLabels
  <2>2. Each("remove", S) \in Seq(OtherItem) /\ Each("remove", S) \in Seq(QuietItem)
      BY <2>1, RemovesIn
  <2> QED
      BY <1>7, <2>2, StartQuiet DEF RunBrowserUnbind
<1> QED
    BY <1>1, <1>2, <1>3, <1>4, <1>5, <1>6, <1>7 DEF Run

\* ----------------------------------------------------------- the next task begins

\* What is left of the list after its head is of the same kind.
LEMMA TailIn ==
    ASSUME NEW K, NEW s \in Seq(K), s # <<>>
    PROVE  /\ Head(s) \in K /\ Head(s) = s[1] /\ Tail(s) \in Seq(K)
           /\ Len(s) \in Nat /\ Len(Tail(s)) = Len(s) - 1
           /\ \A i \in 1..Len(Tail(s)) : Tail(s)[i] = s[i + 1]
BY HeadTailProperties, LenProperties

LEMMA BeginQuiet == ASSUME TypeOK, SInv, Begin PROVE SInv'
<1>1. /\ todo # <<>> /\ Head(todo)[1] \in {"remove", "install"}
      /\ cur' = Head(todo) /\ todo' = Tail(todo) /\ pc = "next"
      /\ pc' = IF Head(todo)[1] = "remove" THEN "bootout" ELSE "check"
      /\ UNCHANGED <<op, settled, mode, plist>>
    BY DEF Begin, Task, Running, disk
<1>2. Installing'
    BY <1>1 DEF Installing
<1>3. Quiet'
  <2> SUFFICES ASSUME settled = "server" PROVE Quiet'
      BY <1>1 DEF Quiet
  <2>1. todo \in Seq(QuietItem)
      BY DEF SInv, Quiet
  <2>2. Head(todo) \in QuietItem /\ Tail(todo) \in Seq(QuietItem)
      BY <1>1, <2>1, TailIn
  <2> QED
      BY <1>1, <2>2 DEF SInv, Quiet, QuietItem, It
<1>4. Stopping'
  <2> SUFFICES ASSUME op = "server" PROVE Stopping'
      BY <1>1 DEF Stopping
  <2>1. todo \in Seq(ServerItem)
      BY DEF SInv, Stopping
  <2>2. /\ Head(todo) \in ServerItem /\ Head(todo) = todo[1] /\ Tail(todo) \in Seq(ServerItem)
        /\ Len(todo) \in Nat /\ Len(Tail(todo)) = Len(todo) - 1
        /\ \A i \in 1..Len(Tail(todo)) : Tail(todo)[i] = todo[i + 1]
      BY <1>1, <2>1, TailIn
  <2>3. Head(todo)[1] = "remove"
      BY <1>1, <2>2 DEF ServerItem
  <2>4. \A i \in 1..Len(Tail(todo)) : Tail(todo)[i][1] = "server" => i = Len(Tail(todo))
    <3> SUFFICES ASSUME NEW i \in 1..Len(Tail(todo)), Tail(todo)[i][1] = "server"
                 PROVE  i = Len(Tail(todo))
        OBVIOUS
    <3>1. Tail(todo)[i] = todo[i + 1] /\ i + 1 \in 1..Len(todo)
        BY <2>2
    <3>2. todo[i + 1][1] = "server"
        BY <3>1
    <3>3. i + 1 = Len(todo)
        BY <3>1, <3>2 DEF SInv, Stopping
    <3>4. i \in Nat
        BY <2>2
    <3>5. i = Len(todo) - 1
        BY <3>3, <3>4
    <3> QED
        BY <2>2, <3>5
  <2>5. ASSUME NEW l \in BrowserSide, plist[l] # 0 PROVE Pending(l)'
    <3>1. PICK i \in 1..Len(todo) : todo[i] = <<"remove", l>>
        BY <1>1, <2>5 DEF SInv, Stopping, Pending
    <3>2. CASE i = 1
        BY <1>1, <2>2, <2>3, <3>1, <3>2 DEF Pending, It
    <3>3. CASE i # 1
      <4>1. i - 1 \in 1..Len(Tail(todo)) /\ Tail(todo)[i - 1] = <<"remove", l>>
          BY <2>2, <3>1, <3>3
      <4> QED
          BY <1>1, <4>1 DEF Pending
    <3> QED
        BY <3>2, <3>3
  <2> QED
      BY <1>1, <2>2, <2>3, <2>4, <2>5 DEF Stopping
<1>5. Elsewhere'
    BY <1>1, TailIn DEF SInv, Elsewhere
<1> QED
    BY <1>2, <1>3, <1>4, <1>5 DEF SInv

\* A task that expands into others: never one of `browser mode server`'s.
LEMMA ExpandQuiet ==
    ASSUME SInv, NEW tasks \in Seq(OtherItem), Expand(tasks), UNCHANGED disk, pc = "next",
           todo # <<>>, op # "server", settled = "server" => tasks \in Seq(QuietItem)
    PROVE  SInv'
<1>1. /\ todo' = tasks \o Tail(todo) /\ UNCHANGED <<op, cur, pc, settled, mode, plist>>
    BY DEF Expand, disk
<1>2. todo' \in Seq(OtherItem)
  <2>1. Tail(todo) \in Seq(OtherItem)
      BY TailIn DEF SInv, Elsewhere
  <2> QED
      BY <1>1, <2>1, ConcatIn
<1>3. settled = "server" => todo' \in Seq(QuietItem)
  <2>1. settled = "server" => Tail(todo) \in Seq(QuietItem)
      BY TailIn DEF SInv, Quiet
  <2> QED
      BY <1>1, <2>1, ConcatIn
<1> QED
    BY <1>1, <1>2, <1>3 DEF SInv, Installing, Quiet, Stopping, Elsewhere

\* `browser mode server` has nothing to expand; settled, nothing reconciles the autobinds.
LEMMA HeadTells ==
    ASSUME SInv, NEW what, Task(what)
    PROVE  /\ todo # <<>> /\ pc = "next" /\ op # "idle"
           /\ op = "server" => what \in {"remove", "server"}
           /\ op # "server" => what # "server"
           /\ settled = "server" => what # "autobind"
<1>1. todo # <<>> /\ Head(todo)[1] = what /\ pc = "next" /\ op # "idle"
    BY DEF Task, Running
<1>2. /\ op = "server" => Head(todo) \in ServerItem
      /\ op # "server" => Head(todo) \in OtherItem
      /\ settled = "server" => Head(todo) \in QuietItem
    BY <1>1, TailIn DEF SInv, Stopping, Elsewhere, Quiet
<1> QED
    BY <1>1, <1>2 DEF ServerItem, OtherItem, QuietItem

LEMMA SpecsQuiet == ASSUME TypeOK, SInv, ExpandSpecs PROVE SInv'
<1> DEFINE One(l) == IF l \in Specs THEN <<<<"install", l>>>> ELSE <<>>
           autobind == IF HasBrowser /\ mode = "client" THEN <<Do("autobind")>> ELSE <<>>
           last == <<Do("sweep")>>
           K == IF settled = "server" THEN OtherItem \cap QuietItem ELSE OtherItem
<1>1. todo # <<>> /\ pc = "next" /\ op # "server"
    BY HeadTells DEF ExpandSpecs
<1>2. settled = "server" => mode = "server"
    BY DEF SInv, Quiet
<1>3. \A l \in Specs : <<"install", l>> \in K
    BY <1>2, ServerSpecs DEF OtherItem, QuietItem, Item, What
<1>4. \A l \in Fixed : One(l) \in Seq(K)
  <2> SUFFICES ASSUME NEW l \in Fixed PROVE One(l) \in Seq(K)
      OBVIOUS
  <2> HIDE DEF K
  <2>1. <<>> \in Seq(K)
      BY EmptySeq
  <2>2. CASE l \in Specs
      BY <1>3, <2>2
  <2> QED
      BY <2>1, <2>2
<1>5. autobind \in Seq(K) /\ last \in Seq(K)
  <2>1. Do("sweep") \in K /\ (settled # "server" => Do("autobind") \in K)
      BY DEF Do, OtherItem, QuietItem, Item, What
  <2> HIDE DEF K
  <2> QED
      BY <1>2, <2>1
<1>6. InOrder("install", Specs) \in Seq(K)
  <2>1. One(Desktop) \in Seq(K) /\ One(Browser) \in Seq(K)
        /\ One(Monitoring) \in Seq(K) /\ One(Mount) \in Seq(K)
      BY <1>4 DEF Fixed
  <2>2. InOrder("install", Specs) = One(Desktop) \o One(Browser) \o One(Monitoring) \o One(Mount)
      BY DEF InOrder
  <2> HIDE DEF One, K
  <2>3. One(Desktop) \o One(Browser) \in Seq(K)
      BY <2>1, ConcatIn
  <2>4. One(Desktop) \o One(Browser) \o One(Monitoring) \in Seq(K)
      BY <2>1, <2>3, ConcatIn
  <2> QED
      BY <2>1, <2>2, <2>4, ConcatIn
<1>7. InOrder("install", Specs) \o autobind \o last \in Seq(K)
  <2> HIDE DEF autobind, last, K
  <2>1. InOrder("install", Specs) \o autobind \in Seq(K)
      BY <1>5, <1>6, ConcatIn
  <2> QED
      BY <1>5, <2>1, ConcatIn
<1> DEFINE tasks == InOrder("install", Specs) \o autobind \o last
<1>8. tasks \in Seq(OtherItem) /\ (settled = "server" => tasks \in Seq(QuietItem))
  <2>1. K \subseteq OtherItem /\ (settled = "server" => K \subseteq QuietItem)
      OBVIOUS
  <2> HIDE DEF K, tasks
  <2>2. tasks \in Seq(K)
      BY <1>7 DEF tasks
  <2> QED
      BY <2>1, <2>2, SeqMonotonic
<1>9. Expand(tasks) /\ UNCHANGED disk
    BY DEF ExpandSpecs
<1> HIDE DEF tasks
<1> QED
    BY <1>1, <1>8, <1>9, ExpandQuiet

LEMMA ReconcileQuiet == ASSUME TypeOK, SInv, ReconcileAutoBindPorts \/ Sweep PROVE SInv'
<1>1. todo # <<>> /\ pc = "next" /\ op # "server" /\ UNCHANGED disk
    BY HeadTells DEF ReconcileAutoBindPorts, Sweep
<1>2. CASE ReconcileAutoBindPorts
  <2> DEFINE removes == Each("remove", (Installed \cap AutoLabels) \ AutoBindSpecs)
             installs == Each("install", AutoBindSpecs)
  <2>1. settled # "server"
      BY <1>2, HeadTells DEF ReconcileAutoBindPorts
  <2>2. removes \in Seq(OtherItem)
      BY LabelSets, RemovesIn
  <2>3. installs \in Seq(OtherItem)
    <3>1. \A l \in AutoBindSpecs : <<"install", l>> \in OtherItem
        BY LabelSets DEF OtherItem, Item, What
    <3> QED
        BY <3>1, LabelSets, EachIn
  <2>4. Expand(removes \o installs)
      BY <1>2 DEF ReconcileAutoBindPorts
  <2> HIDE DEF removes, installs
  <2>5. removes \o installs \in Seq(OtherItem)
      BY <2>2, <2>3, ConcatIn
  <2> QED
      BY <1>1, <2>1, <2>4, <2>5, ExpandQuiet
<1>3. CASE Sweep
  <2>1. Unconfigured \in SUBSET Labels
      BY LabelSets DEF Unconfigured, InstalledAgentLabels
  <2>2. /\ Each("remove", Unconfigured) \in Seq(OtherItem)
        /\ Each("remove", Unconfigured) \in Seq(QuietItem)
      BY <2>1, RemovesIn
  <2> QED
      BY <1>1, <1>3, <2>2, ExpandQuiet DEF Sweep
<1> QED
    BY <1>2, <1>3

\* The mode of `browser mode server` is written when nothing is left to stop.
LEMMA ModeQuiet == ASSUME TypeOK, SInv, WriteBrowserMode PROVE SInv'
<1>1. /\ pc = "next" /\ todo # <<>> /\ Head(todo)[1] \in {"client", "server"}
      /\ mode' = Head(todo)[1] /\ settled' = Head(todo)[1] /\ todo' = Tail(todo)
      /\ UNCHANGED <<op, cur, pc, plist>>
    BY DEF WriteBrowserMode, Task, Running
<1>2. CASE op = "server"
  <2>1. todo \in Seq(ServerItem)
      BY <1>2 DEF SInv, Stopping
  <2>2. /\ Head(todo) \in ServerItem /\ Head(todo) = todo[1] /\ Len(todo) \in Nat
        /\ Len(Tail(todo)) = Len(todo) - 1 /\ Tail(todo) \in Seq(ServerItem)
      BY <1>1, <2>1, TailIn
  <2>3. todo[1][1] = "server"
      BY <1>1, <2>2 DEF ServerItem
  <2>4. Len(todo) # 0
      BY <1>1, <2>1, EmptySeq
  <2>5. Len(todo) = 1
    <3>1. 1 \in 1..Len(todo)
        BY <2>2, <2>4
    <3> QED
        BY <1>2, <2>3, <3>1 DEF SInv, Stopping
  <2>6. Tail(todo) = <<>>
    <3>1. Len(Tail(todo)) = 0
        BY <2>2, <2>5
    <3> QED
        BY <2>2, <3>1, EmptySeq
  <2>7. \A l \in BrowserSide : plist[l] = 0
    <3>1. \A l : todo[1] # <<"remove", l>>
        BY <2>3
    <3> QED
        BY <1>1, <1>2, <2>5, <3>1 DEF SInv, Stopping, Pending
  <2>8. <<>> \in Seq(QuietItem) /\ <<>> \in Seq(ServerItem) /\ Len(<<>>) = 0
      BY EmptySeq
  <2>9. todo' = <<>> /\ mode' = "server"
      BY <1>1, <2>2, <2>3, <2>6
  <2>10. Installing' /\ Quiet'
      BY <1>1, <2>7, <2>8, <2>9 DEF Installing, Quiet
  <2>11. \A i \in 1..Len(todo') : FALSE
      BY <2>8, <2>9
  <2>12. Stopping' /\ Elsewhere'
      BY <1>1, <1>2, <2>7, <2>8, <2>9, <2>11 DEF Stopping, Elsewhere
  <2> QED
      BY <2>10, <2>12 DEF SInv
<1>3. CASE op # "server"
  <2>1. Head(todo) \in OtherItem /\ Tail(todo) \in Seq(OtherItem)
      BY <1>1, <1>3, TailIn DEF SInv, Elsewhere
  <2>2. settled' = "client"
      BY <1>1, <2>1 DEF OtherItem
  <2> QED
      BY <1>1, <1>3, <2>1, <2>2 DEF SInv, Installing, Quiet, Stopping, Elsewhere
<1> QED
    BY <1>2, <1>3

\* -------------------------------------------------- one task, one call at a time

\* The plist a recovery writes is none of the client's side once server mode is settled:
\* it looks at the configured agents again.
LEMMA RecoverQuiet == ASSUME TypeOK, SInv, RecoverOwnedAgent PROVE SInv'
<1>1. todo # <<>> /\ pc = "next" /\ op # "server"
    BY HeadTells DEF RecoverOwnedAgent
<1>2. CASE Die /\ UNCHANGED <<disk, launchd>>
  <2>1. <<>> \in Seq(QuietItem) /\ <<>> \in Seq(OtherItem)
      BY EmptySeq
  <2> QED
      BY <1>1, <1>2, <2>1 DEF Die, disk, SInv, Installing, Quiet, Stopping, Elsewhere
<1>3. CASE todo' = Tail(todo) /\ UNCHANGED <<op, cur, pc, done, settled>>
  <2>1. Tail(todo) \in Seq(OtherItem) /\ (settled = "server" => Tail(todo) \in Seq(QuietItem))
      BY <1>1, TailIn DEF SInv, Elsewhere, Quiet
  <2>2. mode' = mode /\ (settled = "server" => \A l \in BrowserSide : plist'[l] = 0)
    <3>1. CASE UNCHANGED <<disk, launchd>>
        BY <3>1 DEF disk, SInv, Quiet
    <3>2. CASE \E l : ~RecoverBlocked(l) /\ Recovers(l)
      <4>1. PICK l : ~RecoverBlocked(l) /\ Recovers(l)
          BY <3>2
      <4>2. plist' = [plist EXCEPT ![l] = conf.rev] /\ mode' = mode
          BY <4>1 DEF Recovers
      <4>3. l \in Wanted \cup (Installed \cap PortLabels)
          BY <4>1 DEF RecoverBlocked, ConfiguredAgentSpecs
      <4>4. ASSUME settled = "server" PROVE l \notin BrowserSide
        <5>1. mode = "server" /\ \A b \in BrowserSide : plist[b] = 0
            BY <4>4 DEF SInv, Quiet
        <5>2. l \in Specs \/ (plist[l] # 0 /\ l \in PortLabels)
            BY <4>3, <5>1 DEF Wanted, Installed
        <5> QED
            BY <5>1, <5>2, ServerSpecs DEF BrowserSide
      <4> QED
          BY <4>2, <4>4, LabelSets DEF SInv, Quiet, TypeOK
    <3> QED
        BY <1>3, <3>1, <3>2, <1>1 DEF RecoverOwnedAgent, Die
  <2> QED
      BY <1>1, <1>3, <2>1, <2>2 DEF SInv, Installing, Quiet, Stopping, Elsewhere
<1> QED
    BY <1>2, <1>3 DEF RecoverOwnedAgent

\* The end of a command, of whatever kind: nothing is left to do.
LEMMA EndQuiet ==
    ASSUME SInv, op' = "idle", todo' = <<>>, pc' = "next", UNCHANGED <<mode, plist, settled>>
    PROVE  SInv'
<1>1. <<>> \in Seq(QuietItem) /\ <<>> \in Seq(OtherItem)
    BY EmptySeq
<1> QED
    BY <1>1 DEF SInv, Installing, Quiet, Stopping, Elsewhere

\* A task that goes on to its next step, or is over.
LEMMA GoesOn ==
    ASSUME SInv, UNCHANGED <<mode, plist, settled, op, todo>>,
           pc' = "next" \/ (pc # "next" /\ cur' = cur) \/ (pc # "next" /\ cur'[1] = "discard" /\ op # "server"),
           Installing',
           op = "server" => \A l \in BrowserSide : plist[l] # 0 => (Pending(l) => Pending(l)')
    PROVE  SInv'
BY DEF SInv, Quiet, Stopping, Elsewhere, It

LEMMA StepQuiet ==
    ASSUME TypeOK, TaskKnown, SInv,
           Finish \/ CheckCurrent \/ Bootout \/ Unready \/ Bootstrap \/ AwaitReady \/ AwaitFails
    PROVE  SInv'
<1>0. UNCHANGED <<mode, plist>>
    BY DEF Finish, CheckCurrent, Bootout, Unready, Bootstrap, AwaitReady, AwaitFails, Unloaded, disk
<1>1. CASE Finish
    BY <1>0, <1>1, EndQuiet DEF Finish, Running
<1>2. CASE Die
    BY <1>0, <1>2, EndQuiet DEF Die
<1>3. CASE CheckCurrent \/ AwaitReady \/ Bootstrap \/ AwaitFails
  <2>1. /\ pc \in {"check", "await", "bootstrap"} /\ cur[1] = "install"
      BY <1>3 DEF CheckCurrent, AwaitReady, Bootstrap, AwaitFails, Running, SInv, Installing
  <2>2. op # "server"
      BY <2>1 DEF SInv, Stopping
  <2>3. CASE AwaitFails
      BY <1>0, <2>1, <2>2, <2>3, GoesOn DEF AwaitFails, Installing
  <2>4. CASE Pass \/ Goto("bootout") \/ Goto("await")
      BY <1>0, <2>1, <2>2, <2>4, GoesOn DEF Pass, Goto, Installing
  <2> QED
      BY <1>2, <1>3, <2>3, <2>4 DEF CheckCurrent, AwaitReady, Bootstrap
<1>4. CASE Bootout /\ Goto(AfterBootout)
  <2>1. /\ pc = "bootout" /\ pc' = AfterBootout
        /\ UNCHANGED <<op, todo, cur, settled>>
      BY <1>4 DEF Bootout, Goto, Running
  <2>2. Installing'
      BY <2>1 DEF Installing, AfterBootout
  <2>3. op = "server" => cur[1] = "remove" /\ pc' = "unlink"
      BY <2>1 DEF SInv, Stopping, AfterBootout
  <2>4. op = "server" => \A l : Pending(l) => Pending(l)'
      BY <2>1, <2>3 DEF Pending, It
  <2> QED
      BY <1>0, <2>1, <2>2, <2>4, GoesOn
<1>5. CASE Unready /\ (Goto("write") \/ Pass)
  <2>1. /\ pc = "unready" /\ UNCHANGED <<op, todo, settled>>
        /\ pc' = "next" \/ (pc' = "write" /\ cur' = cur)
      BY <1>5 DEF Unready, Running, Goto, Pass
  <2>2. Installing'
    <3>1. cur[1] \in {"remove", "install", "discard"}
        BY <2>1 DEF TaskKnown
    <3>2. cur[1] # "install" => pc' = "next"
        BY <1>5, <3>1 DEF Unready, Pass, Die
    <3> QED
        BY <2>1, <3>2 DEF Installing
  <2>3. \A l : Pending(l) => Pending(l)'
      BY <2>1 DEF Pending
  <2> QED
      BY <1>0, <2>1, <2>2, <2>3, GoesOn
<1>6. Unready => Goto("write") \/ Pass \/ Die
  <2>1. Unready => cur[1] \in {"remove", "install", "discard"}
      BY DEF TaskKnown, Unready, Running
  <2> QED
      BY <2>1 DEF Unready
<1> QED
    BY <1>1, <1>2, <1>3, <1>4, <1>5, <1>6 DEF Bootout

\* What is deleted is not pending any more.
LEMMA UnlinkQuiet == ASSUME TypeOK, SInv, Unlink PROVE SInv'
<1>1. /\ pc = "unlink" /\ pc' = "unready" /\ plist' = [plist EXCEPT ![It] = 0]
      /\ UNCHANGED <<op, todo, cur, mode, settled>>
    BY DEF Unlink, Goto, Running
<1>2. \A l \in Labels : plist'[l] # 0 => plist[l] # 0 /\ l # It
    BY <1>1 DEF TypeOK
<1>3. Quiet'
    BY <1>1, <1>2, LabelSets DEF SInv, Quiet, It
<1>4. Stopping'
  <2>1. ASSUME op = "server", NEW l \in BrowserSide, plist'[l] # 0 PROVE Pending(l)'
      BY <1>1, <1>2, <2>1, LabelSets DEF SInv, Stopping, Pending
  <2> QED
      BY <1>1, <2>1 DEF SInv, Stopping
<1> QED
    BY <1>1, <1>3, <1>4 DEF SInv, Installing, Elsewhere

\* What is written is an install's, and quiet.
LEMMA WriteQuiet == ASSUME TypeOK, SInv, Write PROVE SInv'
<1>1. /\ pc = "write" /\ pc' = "bootstrap" /\ plist' = [plist EXCEPT ![It] = conf.rev]
      /\ UNCHANGED <<op, todo, cur, mode, settled>>
    BY DEF Write, Goto, Running
<1>2. cur[1] = "install" /\ op # "server"
    BY <1>1 DEF SInv, Installing, Stopping
<1>3. Quiet'
  <2>1. settled = "server" => \A l \in BrowserSide : plist'[l] = plist[l]
      BY <1>1, <1>2, LabelSets DEF SInv, Quiet, TypeOK
  <2> QED
      BY <1>1, <1>2, <2>1 DEF SInv, Quiet, It
<1> QED
    BY <1>1, <1>2, <1>3 DEF SInv, Installing, Stopping, Elsewhere

\* -------------------------------------------------------------------- theorem

LEMMA EnvironmentQuiet == ASSUME SInv, Environment PROVE SInv'
<1>1. CASE Cut \/ Login
    BY <1>1, EndQuiet DEF Cut, Login, Die, disk
<1>2. CASE UNCHANGED <<mode, plist, cli, settled>>
    BY <1>2 DEF cli, SInv, Installing, Quiet, Stopping, Elsewhere, Pending, It
<1>3. Environment => Cut \/ Login \/ UNCHANGED <<mode, plist, cli, settled>>
    BY DEF Environment, Start, Listen, Publish, Fail, ForeignComesOrGoes, EditConfig, CliStays, disk
<1> QED
    BY <1>1, <1>2, <1>3

LEMMA NextQuiet == IInv /\ SInv /\ [Next]_vars => SInv'
<1> SUFFICES ASSUME IInv, SInv, [Next]_vars PROVE SInv'
    OBVIOUS
<1>0. TypeOK /\ TaskKnown
    BY DEF IInv
<1>1. CASE Run
    BY <1>0, <1>1, RunQuiet
<1>2. CASE Work
    BY <1>0, <1>2, BeginQuiet, SpecsQuiet, ReconcileQuiet, ModeQuiet, StepQuiet, UnlinkQuiet,
       WriteQuiet, RecoverQuiet DEF Work
<1>3. CASE Environment
    BY <1>3, EnvironmentQuiet
<1>4. CASE UNCHANGED vars
    BY <1>4 DEF vars, SInv, Installing, Quiet, Stopping, Elsewhere, Pending, It
<1> QED
    BY <1>1, <1>2, <1>3, <1>4 DEF Next

\* `devbox browser mode server`, once through, has stopped every agent of client mode,
\* and until a mode command starts again no `agent up`, `browser bind`, `recover all`,
\* edit of the configuration, cut command or login brings one back.
THEOREM ServerModeHolds == Spec => []ServerStops
<1>1. Init => SInv
    BY InitQuiet
<1>2. IInv /\ SInv => ServerStops
    BY LabelSets DEF IInv, SInv, Quiet, ServerStops, JobMatchesDisk
<1> QED
    BY <1>1, <1>2, NextQuiet, Invariance, PTL DEF Spec

(* ---------------------------------------------------- supervisors, markers *)

\* A task in progress is some command's, and about one of the profile's labels.
Labelled == pc # "next" => It \in Labels /\ op # "idle"

\* Only a loaded job has a process, and a forward that serves has its port.
Kept == \A l \in Labels : job[l] = 0 => proc[l] = "none"
PortHeld == \A l \in Forwards : proc[l] = "serving" => listener[PortOf(l)] = l

\* From the removal of an old marker until launchd has the job, nobody can publish
\* a new one; afterwards a marker is the new supervisor's.
MarkerNew ==
    /\ pc \in {"write", "bootstrap"} => job[It] = 0 /\ ~ready[It]
    /\ pc = "await" /\ ready[It] => proven

LiveInv == Labelled /\ Kept /\ PortHeld /\ MarkerNew

LEMMA ForwardLabels ==
    /\ Forwards \subseteq Labels
    /\ \A l \in Forwards : PortOf(l) \in LocalPorts /\ l # Free /\ l # Foreign
BY DEF Forwards, Labels, LocalPorts, Free, Foreign, Desktop, Monitoring, PortLabels, ManualLabels,
       AutoLabels, Manual, AutoBind

\* A process that stops gives its port back, and no other.
LEMMA StopLives ==
    ASSUME TypeOK, PortHeld, NEW l \in Labels, Stop(l)
    PROVE  /\ proc' = [proc EXCEPT ![l] = "none"] /\ proc'[l] = "none"
           /\ \A k \in Labels : k # l => proc'[k] = proc[k]
           /\ \A k \in Labels : ready'[k] => ready[k]
           /\ PortHeld'
<1>1. /\ proc' = [proc EXCEPT ![l] = "none"] /\ proc'[l] = "none"
      /\ \A k \in Labels : k # l => proc'[k] = proc[k]
    BY DEF Stop, TypeOK
<1>2. \A k \in Labels : ready'[k] => ready[k]
  <2>1. PICK kept \in {FALSE, ready[l]} : ready' = [ready EXCEPT ![l] = kept]
      BY DEF Stop
  <2> QED
      BY <2>1 DEF TypeOK
<1>3. listener' = [p \in LocalPorts |-> IF listener[p] = l THEN Free ELSE listener[p]]
    BY DEF Stop
<1>4. PortHeld'
  <2> SUFFICES ASSUME NEW k \in Forwards, proc'[k] = "serving" PROVE listener'[PortOf(k)] = k
      BY DEF PortHeld
  <2>1. k # l /\ listener[PortOf(k)] = k
      BY <1>1, ForwardLabels DEF PortHeld
  <2> QED
      BY <1>3, <2>1, ForwardLabels
<1> QED
    BY <1>1, <1>2, <1>4

\* Where launchd and the supervisors stand still, only the task has to be looked at.
LEMMA LaunchdRests ==
    ASSUME LiveInv, UNCHANGED launchd,
           \/ pc' \in {"next", "bootout"} /\ (pc' # "next" => It' \in Labels /\ op' # "idle")
           \/ pc # "next" /\ cur' = cur /\ op' = op /\ pc' \notin {"write", "await"}
              /\ (pc' = "bootstrap" => pc = "write")
    PROVE  LiveInv'
BY DEF LiveInv, Labelled, Kept, PortHeld, MarkerNew, launchd, It

LEMMA PlanningLives ==
    ASSUME TypeOK, SInv, LiveInv,
           Run \/ Begin \/ ExpandSpecs \/ ReconcileAutoBindPorts \/ Sweep \/ WriteBrowserMode \/ Finish
    PROVE  LiveInv'
<1>1. CASE Run
  <2>1. pc' = "next" /\ UNCHANGED launchd
      BY <1>1 DEF Run, RunAgentUp, RunAgentDown, RunRecover, RunBrowserMode, RunBrowserBind,
                  RunBrowserUnbind, Command
  <2> QED
      BY <2>1, LaunchdRests
<1>2. CASE Begin
  <2>1. /\ todo # <<>> /\ cur' = Head(todo) /\ Head(todo)[1] \in {"remove", "install"}
        /\ UNCHANGED launchd /\ op' = op /\ op # "idle"
      BY <1>2 DEF Begin, Task, Running
  <2>2. Head(todo) \in Item
      BY <2>1, TailIn DEF SInv, Stopping, Elsewhere, ServerItem, OtherItem
  <2>3. It' \in Labels
      BY <2>1, <2>2 DEF Item, It
  <2>4. pc' \in {"bootout", "check"} /\ Labelled' /\ MarkerNew'
      BY <1>2, <2>1, <2>3 DEF Begin, Labelled, MarkerNew
  <2> QED
      BY <2>1, <2>4 DEF LiveInv, Kept, PortHeld, launchd
<1>3. CASE ExpandSpecs \/ ReconcileAutoBindPorts \/ Sweep \/ WriteBrowserMode \/ Finish
  <2>1. pc = "next" /\ pc' = pc /\ UNCHANGED launchd
      BY <1>3 DEF ExpandSpecs, ReconcileAutoBindPorts, Sweep, WriteBrowserMode, Finish, Expand, Task, Running
  <2> QED
      BY <2>1, LaunchdRests
<1> QED
    BY <1>1, <1>2, <1>3

LEMMA CallLives ==
    ASSUME TypeOK, TaskKnown, BootedOut, LiveInv,
           CheckCurrent \/ Bootout \/ Unlink \/ Unready \/ Write \/ Bootstrap \/ AwaitReady \/ AwaitFails
    PROVE  LiveInv'
<1>0. It \in Labels /\ pc # "next" /\ op # "idle"
    BY DEF LiveInv, Labelled, CheckCurrent, Bootout, Unlink, Unready, Write, Bootstrap, AwaitReady,
           AwaitFails, Running
<1>1. CASE CheckCurrent \/ Unlink \/ Write \/ AwaitReady \/ AwaitFails
  <2>1. UNCHANGED launchd
      BY <1>1 DEF CheckCurrent, Unlink, Write, AwaitReady, AwaitFails
  <2>2. \/ pc' \in {"next", "bootout"} /\ (pc' # "next" => It' = It /\ op' = op)
        \/ cur' = cur /\ op' = op /\ pc' = "unready"
        \/ cur' = cur /\ op' = op /\ pc' = "bootstrap" /\ pc = "write"
      BY <1>1 DEF CheckCurrent, Unlink, Write, AwaitReady, AwaitFails, Pass, Goto, Running, It
  <2> QED
      BY <1>0, <2>1, <2>2, LaunchdRests
<1>2. CASE Bootout /\ UNCHANGED launchd
  <2>1. pc' = "next" \/ (cur' = cur /\ op' = op /\ pc' \in {"unlink", "unready"})
      BY <1>2 DEF Bootout, Goto, Die, AfterBootout
  <2> QED
      BY <1>0, <1>2, <2>1, LaunchdRests
<1>3. CASE Bootout /\ Unloaded(It)
  <2>1. /\ job' = [job EXCEPT ![It] = 0] /\ Stop(It)
        /\ pc' \in {"next", "unlink", "unready"} /\ (pc' # "next" => cur' = cur /\ op' = op)
      BY <1>3 DEF Bootout, Unloaded, Goto, Die, AfterBootout
  <2>2. PortHeld' /\ proc'[It] = "none" /\ \A k \in Labels : k # It => proc'[k] = proc[k]
      BY <1>0, <2>1, StopLives DEF LiveInv
  <2>3. Kept'
      BY <2>1, <2>2 DEF LiveInv, Kept, TypeOK
  <2> QED
      BY <1>0, <2>1, <2>2, <2>3 DEF LiveInv, Labelled, MarkerNew, It
<1>4. CASE Unready
  <2>1. /\ pc = "unready" /\ ready' = [ready EXCEPT ![It] = FALSE]
        /\ UNCHANGED <<job, proc, listener, proven>>
      BY <1>4 DEF Unready, Running
  <2>2. pc' = "next" \/ (pc' = "write" /\ cur' = cur /\ op' = op)
    <3>1. cur[1] \in {"remove", "install", "discard"}
        BY <1>0 DEF TaskKnown
    <3> QED
        BY <1>4, <3>1 DEF Unready, Goto, Pass, Die
  <2>3. job[It] = 0 /\ ~ready'[It]
      BY <1>0, <2>1 DEF BootedOut, TypeOK
  <2> QED
      BY <1>0, <2>1, <2>2, <2>3 DEF LiveInv, Labelled, Kept, PortHeld, MarkerNew, It
<1>5. CASE Bootstrap /\ Die /\ UNCHANGED launchd
    BY <1>5, LaunchdRests DEF Die
<1>6. CASE /\ Bootstrap /\ job' = [job EXCEPT ![It] = plist[It]] /\ proven' = FALSE
           /\ IF HasReady(It) THEN Goto("await") ELSE Pass
           /\ UNCHANGED <<proc, ready, listener>>
  <2>1. pc = "bootstrap" /\ (pc' = "next" \/ (pc' = "await" /\ cur' = cur /\ op' = op))
      BY <1>6 DEF Bootstrap, Pass, Goto, Running
  <2>2. job[It] = 0 /\ ~ready[It] /\ proc[It] = "none"
      BY <1>0, <2>1 DEF LiveInv, MarkerNew, Kept
  <2>3. Kept'
      BY <1>6, <2>2 DEF LiveInv, Kept, TypeOK
  <2> QED
      BY <1>0, <1>6, <2>1, <2>2, <2>3 DEF LiveInv, Labelled, PortHeld, MarkerNew, It
<1>7. Bootout => UNCHANGED launchd \/ Unloaded(It)
    BY DEF Bootout
<1>8. CASE Bootstrap
    BY <1>5, <1>6, <1>8 DEF Bootstrap
<1> QED
    BY <1>1, <1>2, <1>3, <1>4, <1>7, <1>8

\* Recovery acts on a label whose port nobody has.
LEMMA RecoverLives ==
    ASSUME TypeOK, LiveInv, RecoverOwnedAgent
    PROVE  LiveInv' /\ \A l \in Forwards : proc[l] = "serving" => proc'[l] = "serving" /\ job'[l] # 0
<1>1. pc = "next" /\ pc' = "next"
    BY DEF RecoverOwnedAgent, Task, Running, Die
<1>2. CASE UNCHANGED <<disk, launchd>>
  <2>1. LiveInv'
      BY <1>1, <1>2, LaunchdRests
  <2> QED
      BY <1>2, <2>1, ForwardLabels DEF LiveInv, Kept, launchd
<1>3. CASE \E l : ~RecoverBlocked(l) /\ Recovers(l)
  <2>1. PICK l : ~RecoverBlocked(l) /\ Recovers(l)
      BY <1>3
  <2>2. /\ proc' = [proc EXCEPT ![l] = "none"] /\ UNCHANGED <<listener, proven>>
        /\ \E loads : job' = [job EXCEPT ![l] = loads]
      BY <2>1 DEF Recovers
  <2>3. /\ \A k \in Labels : k # l => proc'[k] = proc[k] /\ job'[k] = job[k]
        /\ l \in Labels => proc'[l] = "none"
      BY <2>2 DEF TypeOK
  <2>4. l \in Forwards => proc[l] # "serving"
      BY <2>1, ForwardLabels DEF RecoverBlocked, ForeignListener, LiveInv, PortHeld
  <2>5. \A k \in Forwards : proc[k] = "serving" => proc'[k] = "serving" /\ job'[k] # 0
      BY <2>3, <2>4, ForwardLabels DEF LiveInv, Kept
  <2>6. \A k \in Labels : proc'[k] = "none" \/ (proc'[k] = proc[k] /\ job'[k] = job[k])
      BY <2>3
  <2>7. Kept' /\ PortHeld'
      BY <2>2, <2>6, ForwardLabels DEF LiveInv, Kept, PortHeld
  <2> QED
      BY <1>1, <2>5, <2>7 DEF LiveInv, Labelled, MarkerNew
<1> QED
    BY <1>2, <1>3 DEF RecoverOwnedAgent

LEMMA SupervisorLives ==
    ASSUME TypeOK, LiveInv, NEW l \in Forwards, Start(l) \/ Listen(l) \/ Publish(l) \/ Fail(l)
    PROVE  LiveInv'
<1>0. UNCHANGED <<op, cur, pc, job>> /\ l \in Labels /\ PortOf(l) \in LocalPorts
    BY ForwardLabels DEF Start, Listen, Publish, Fail, CliStays, cli
<1>1. Labelled'
    BY <1>0 DEF LiveInv, Labelled, It
<1>2. CASE Start(l)
  <2>1. /\ job[l] # 0 /\ proc' = [proc EXCEPT ![l] = "started"]
        /\ ready' = [ready EXCEPT ![l] = FALSE] /\ UNCHANGED <<listener, proven>>
      BY <1>2 DEF Start
  <2>2. Kept' /\ PortHeld' /\ \A k \in Labels : ready'[k] => ready[k]
      BY <1>0, <2>1, ForwardLabels DEF LiveInv, Kept, PortHeld, TypeOK
  <2> QED
      BY <1>0, <1>1, <2>1, <2>2 DEF LiveInv, Labelled, MarkerNew, It
<1>3. CASE Listen(l)
  <2>1. /\ proc[l] = "started" /\ listener[PortOf(l)] = Free
        /\ proc' = [proc EXCEPT ![l] = "serving"]
        /\ listener' = [listener EXCEPT ![PortOf(l)] = l] /\ UNCHANGED <<ready, proven>>
      BY <1>3 DEF Listen
  <2>2. Kept' /\ MarkerNew'
      BY <1>0, <2>1 DEF LiveInv, Kept, MarkerNew, It, TypeOK
  <2>3. PortHeld'
    <3> SUFFICES ASSUME NEW k \in Forwards, proc'[k] = "serving" PROVE listener'[PortOf(k)] = k
        BY DEF PortHeld
    <3>1. CASE k = l
        BY <1>0, <2>1, <3>1 DEF TypeOK
    <3>2. CASE k # l
      <4>1. proc[k] = "serving" /\ listener[PortOf(k)] = k /\ k # Free
          BY <2>1, <3>2, ForwardLabels DEF TypeOK, LiveInv, PortHeld
      <4>2. PortOf(k) # PortOf(l)
          BY <2>1, <4>1
      <4> QED
          BY <2>1, <4>1, <4>2, ForwardLabels DEF TypeOK
    <3> QED
        BY <3>1, <3>2
  <2> QED
      BY <1>1, <2>2, <2>3 DEF LiveInv
<1>4. CASE Publish(l)
  <2>1. /\ proc[l] = "serving" /\ ready' = [ready EXCEPT ![l] = TRUE]
        /\ proven' = (proven \/ l = It) /\ UNCHANGED <<proc, listener>>
      BY <1>4 DEF Publish
  <2>2. job[l] # 0
      BY <1>0, <2>1 DEF LiveInv, Kept
  <2>3. MarkerNew'
      BY <1>0, <2>1, <2>2 DEF LiveInv, Labelled, MarkerNew, It, TypeOK
  <2> QED
      BY <1>0, <1>1, <2>1, <2>3 DEF LiveInv, Kept, PortHeld
<1>5. CASE Fail(l)
  <2>1. Stop(l) /\ proven' = proven
      BY <1>5 DEF Fail
  <2>2. /\ PortHeld' /\ proc'[l] = "none" /\ \A k \in Labels : k # l => proc'[k] = proc[k]
        /\ \A k \in Labels : ready'[k] => ready[k]
      BY <1>0, <2>1, StopLives DEF LiveInv
  <2> QED
      BY <1>0, <1>1, <2>1, <2>2 DEF LiveInv, Labelled, Kept, MarkerNew, It
<1> QED
    BY <1>2, <1>3, <1>4, <1>5

LEMMA EnvironmentLives == ASSUME TypeOK, LiveInv, Environment PROVE LiveInv'
<1>1. ASSUME NEW l \in Forwards, Start(l) \/ Listen(l) \/ Publish(l) \/ Fail(l) PROVE LiveInv'
    BY <1>1, SupervisorLives
<1>2. ASSUME NEW p \in Contested, ForeignComesOrGoes(p) PROVE LiveInv'
  <2>1. /\ listener[p] \in {Free, Foreign} /\ UNCHANGED <<op, cur, pc, job, proc, ready, proven>>
        /\ \E who : listener' = [listener EXCEPT ![p] = who]
      BY <1>2 DEF ForeignComesOrGoes, CliStays, cli
  <2>2. PortHeld'
      BY <2>1, ForwardLabels, ContestedAssumption DEF LiveInv, PortHeld, TypeOK
  <2> QED
      BY <2>1, <2>2 DEF LiveInv, Labelled, Kept, MarkerNew, It
<1>3. CASE Cut
  <2>1. pc' = "next" /\ UNCHANGED launchd
      BY <1>3 DEF Cut, Die
  <2> QED
      BY <2>1, LaunchdRests
<1>4. CASE Login
  <2>1. pc' = "next" /\ proc' = [l \in Labels |-> "none"]
      BY <1>4 DEF Login, Die
  <2> QED
      BY <2>1, ForwardLabels DEF LiveInv, Labelled, Kept, PortHeld, MarkerNew
<1>5. ASSUME NEW c \in Configs, EditConfig(c) PROVE LiveInv'
    BY <1>5 DEF EditConfig, launchd, cli, LiveInv, Labelled, Kept, PortHeld, MarkerNew, It
<1> QED
    BY <1>1, <1>2, <1>3, <1>4, <1>5 DEF Environment

LEMMA LiveStart == Init => LiveInv
BY ForwardLabels DEF Init, LiveInv, Labelled, Kept, PortHeld, MarkerNew

LEMMA NextLives == IInv /\ SInv /\ LiveInv /\ [Next]_vars => LiveInv'
<1> SUFFICES ASSUME IInv, SInv, LiveInv, [Next]_vars PROVE LiveInv'
    OBVIOUS
<1>0. TypeOK /\ TaskKnown /\ BootedOut
    BY DEF IInv
<1>1. CASE Run
    BY <1>0, <1>1, PlanningLives
<1>2. CASE Work
    BY <1>0, <1>2, PlanningLives, CallLives, RecoverLives DEF Work
<1>3. CASE Environment
    BY <1>0, <1>3, EnvironmentLives
<1>4. CASE UNCHANGED vars
    BY <1>4 DEF vars, LiveInv, Labelled, Kept, PortHeld, MarkerNew, It
<1> QED
    BY <1>1, <1>2, <1>3, <1>4 DEF Next

LEMMA LiveAlways == Spec => [](IInv /\ SInv /\ LiveInv)
<1>1. Init => IInv /\ SInv /\ LiveInv
    BY InitHolds, InitQuiet, LiveStart
<1>2. IInv /\ SInv /\ LiveInv /\ [Next]_vars => (IInv /\ SInv /\ LiveInv)'
    BY NextHolds, NextQuiet, NextLives
<1> QED
    BY <1>1, <1>2, PTL DEF Spec

\* The marker on which installAgents accepts a binding was written by the supervisor
\* this very bootstrap started, whoever was killed before and left one behind.
THEOREM MarkersAreProof == Spec => MarkerIsProof
<1>1. ASSUME LiveInv, [Next]_vars, pc = "await", pc' = "next", op' # "idle" PROVE proven
  <2>1. CASE Run
      BY <1>1, <2>1 DEF Run, RunAgentUp, RunAgentDown, RunRecover, RunBrowserMode, RunBrowserBind,
             RunBrowserUnbind, Command, Idle, LiveInv, Labelled
  <2>2. CASE Work
    <3>1. CheckCurrent \/ Bootout \/ Unlink \/ Unready \/ Write \/ Bootstrap => pc # "await"
        BY DEF CheckCurrent, Bootout, Unlink, Unready, Write, Bootstrap, Running
    <3>2. Begin \/ ExpandSpecs \/ ReconcileAutoBindPorts \/ Sweep \/ WriteBrowserMode \/ Finish
            \/ RecoverOwnedAgent => pc # "await"
        BY DEF Begin, ExpandSpecs, ReconcileAutoBindPorts, Sweep, WriteBrowserMode, Finish,
               RecoverOwnedAgent, Task, Running
    <3>3. AwaitFails => pc' # "next"
        BY DEF AwaitFails
    <3>4. AwaitReady
        BY <1>1, <2>2, <3>1, <3>2, <3>3 DEF Work
    <3> QED
        BY <1>1, <3>4 DEF AwaitReady, LiveInv, MarkerNew
  <2>3. CASE Environment
      BY <1>1, <2>3 DEF Environment, Start, Listen, Publish, Fail,
             ForeignComesOrGoes, CliStays, cli, Cut, Login, EditConfig, Die
  <2>4. CASE UNCHANGED vars
      BY <1>1, <2>4 DEF vars
  <2> QED
      BY <1>1, <2>1, <2>2, <2>3, <2>4 DEF Next
<1>2. LiveInv /\ [Next]_vars => [pc = "await" /\ pc' = "next" /\ op' # "idle" => proven]_vars
    BY <1>1
<1> QED
    BY <1>2, LiveAlways, PTL DEF Spec, MarkerIsProof

\* recoverOwnedAgentLive acts on health that is old, but looks at the port again:
\* it never takes down a forward that serves.
THEOREM ServingIsSpared == Spec => RecoverSpares
<1> DEFINE Spared == \A l \in Forwards : proc[l] = "serving" => proc'[l] = "serving" /\ job'[l] # 0
<1>1. ASSUME TypeOK, TaskKnown, LiveInv, [Next]_vars, op = "recover", op' = "recover", todo' # todo PROVE Spared
  <2>1. CASE RecoverOwnedAgent
      BY <1>1, <2>1, RecoverLives
  <2>2. CASE UNCHANGED launchd
      BY <1>1, <2>2, ForwardLabels DEF launchd, LiveInv, Kept
  <2>3. CASE Run
      BY <1>1, <2>3 DEF Run, RunAgentUp, RunAgentDown, RunRecover, RunBrowserMode, RunBrowserBind,
             RunBrowserUnbind, Command, Idle
  <2>4. CASE Work
    <3>1. Unready => cur[1] \in {"remove", "install", "discard"}
        BY <1>1 DEF TaskKnown, Unready, Running
    <3>2. Finish \/ CheckCurrent \/ Bootout \/ Unlink \/ Unready \/ Write \/ Bootstrap \/ AwaitReady
            \/ AwaitFails => UNCHANGED todo \/ Die
        BY <3>1 DEF Finish, CheckCurrent, Bootout, Unlink, Unready, Write,
               Bootstrap, AwaitReady, AwaitFails, Pass, Goto
    <3> QED
        BY <1>1, <2>1, <2>2, <2>4, <3>2 DEF Work, Begin, ExpandSpecs, ReconcileAutoBindPorts, Sweep, WriteBrowserMode, Die
  <2>5. CASE Environment
      BY <1>1, <2>5 DEF Environment, Start, Listen, Publish, Fail,
             ForeignComesOrGoes, CliStays, cli, Cut, Login, EditConfig, Die
  <2>6. CASE UNCHANGED vars
      BY <1>1, <2>6 DEF vars
  <2> QED
      BY <2>3, <2>4, <2>5, <2>6, <1>1 DEF Next
<1>2. TypeOK /\ TaskKnown /\ LiveInv /\ [Next]_vars
        => [op = "recover" /\ op' = "recover" /\ todo' # todo => Spared]_vars
    BY <1>1
<1>3. IInv => TypeOK /\ TaskKnown
    BY DEF IInv
<1> QED
    BY <1>2, <1>3, LiveAlways, PTL DEF Spec, RecoverSpares

(* ------------------------------------------------------------- agent up   *)

Good(l) == plist[l] = conf.rev /\ job[l] # 0
Within(t) == \E i \in 1..Len(todo) : todo[i] = t

\* What `agent up` still has to do with a label.
Removing(l) == Within(<<"remove", l>>) \/ (pc \in {"bootout", "unlink"} /\ cur = <<"remove", l>>)
InHand(l) == pc # "next" /\ It = l /\ cur[1] \in {"install", "discard"}
Installs(l) == Within(<<"install", l>>) \/ InHand(l)

\* Its tasks: it installs what is wanted and removes what is not, in any order.
UpItem ==
    {Do("specs"), Do("sweep")} \cup (IF HasBrowser /\ mode = "client" THEN {Do("autobind")} ELSE {})
    \cup {<<"install", l>> : l \in Wanted} \cup {<<"remove", l>> : l \in Labels \ Wanted}
Tasked ==
    /\ todo \in Seq(UpItem)
    /\ pc # "next" => cur \in UpItem \cup ({"discard"} \X Labels)
    /\ pc = "bootstrap" => plist[It] = conf.rev
    /\ pc = "await" => Good(It)

\* Nothing is forgotten: what is wanted is there or still comes, and what is not
\* is gone or still goes.
WantedComes ==
    \A l \in Wanted :
        Good(l) \/ Installs(l) \/ Within(Do("specs")) \/ (l \in AutoLabels /\ Within(Do("autobind")))
UnwantedGoes ==
    \A l \in Installed \ Wanted :
        \/ Removing(l)
        \/ l \in {Desktop, Browser, Mount} /\ (Within(Do("specs")) \/ Within(Do("sweep")))
        \/ l \in AutoLabels /\ (HasBrowser /\ mode = "client" => Within(Do("specs")) \/ Within(Do("autobind")))
        \/ l \notin {Desktop, Browser, Mount} \cup AutoLabels /\ (HasBrowser => l # Legacy)

UpInv ==
    /\ op = "up" => Tasked /\ WantedComes /\ UnwantedGoes
    /\ done => op = "idle" /\ UpSettles

\* The configuration and the mode are what they were when the command read them.
LEMMA SamePlan ==
    ASSUME UNCHANGED <<conf, mode>>
    PROVE  /\ HasBrowser' = HasBrowser /\ Specs' = Specs /\ AutoBindSpecs' = AutoBindSpecs
           /\ Wanted' = Wanted /\ UpItem' = UpItem
BY DEF HasBrowser, Specs, AutoBindSpecs, Wanted, UpItem

LEMMA PlanFacts ==
    ASSUME TypeOK
    PROVE  /\ conf.rev \in Nat \ {0}
           /\ Wanted \subseteq Labels /\ Specs \subseteq Wanted /\ Specs \subseteq Fixed
           /\ AutoBindSpecs \subseteq AutoLabels
           /\ HasBrowser /\ mode = "client" => Wanted = Specs \cup AutoBindSpecs
           /\ ~(HasBrowser /\ mode = "client") => Wanted = Specs
           /\ Fixed \cap AutoLabels = {}
           /\ Legacy \in Labels \ Wanted /\ {Desktop, Browser, Mount} \subseteq Fixed
           /\ Legacy \notin AutoLabels
<1>1. conf.rev \in Nat \ {0} /\ conf.auto \subseteq Ports
    BY ConfigsAssumption DEF TypeOK, Conf
<1>2. Specs \subseteq Fixed /\ Specs \subseteq Wanted /\ AutoBindSpecs \subseteq AutoLabels
    BY <1>1 DEF Specs, Wanted, AutoBindSpecs, AutoLabels
<1>3. Fixed \cap AutoLabels = {} /\ Legacy \notin Fixed \cup AutoLabels
    BY DEF Fixed, Desktop, Browser, Monitoring, Mount, Legacy, AutoLabels, AutoBind
<1>4. Fixed \cup AutoLabels \subseteq Labels /\ Legacy \in Labels
    BY DEF Fixed, Labels, PortLabels
<1>5. /\ HasBrowser /\ mode = "client" => Wanted = Specs \cup AutoBindSpecs
      /\ ~(HasBrowser /\ mode = "client") => Wanted = Specs
    BY DEF Wanted, AutoBindSpecs
<1>6. {Desktop, Browser, Mount} \subseteq Fixed
    BY DEF Fixed
<1> QED
    BY <1>1, <1>2, <1>3, <1>4, <1>5, <1>6

LEMMA WithinTail ==
    ASSUME NEW K, todo \in Seq(K), todo # <<>>, NEW t, Within(t)
    PROVE  t = Head(todo) \/ \E i \in 1..Len(Tail(todo)) : Tail(todo)[i] = t
<1>1. PICK i \in 1..Len(todo) : todo[i] = t
    BY DEF Within
<1>2. /\ Head(todo) = todo[1] /\ Len(todo) \in Nat /\ Len(Tail(todo)) = Len(todo) - 1
      /\ \A j \in 1..Len(Tail(todo)) : Tail(todo)[j] = todo[j + 1]
    BY TailIn
<1>3. CASE i = 1
    BY <1>1, <1>2, <1>3
<1>4. CASE i # 1
  <2>1. i - 1 \in 1..Len(Tail(todo)) /\ (i - 1) + 1 = i
      BY <1>2, <1>4
  <2> QED
      BY <1>1, <1>2, <2>1
<1> QED
    BY <1>3, <1>4

LEMMA WithinConcat ==
    ASSUME NEW K, NEW a \in Seq(K), NEW b \in Seq(K), NEW t
    PROVE  /\ (\E i \in 1..Len(a) : a[i] = t) => \E i \in 1..Len(a \o b) : (a \o b)[i] = t
           /\ (\E i \in 1..Len(b) : b[i] = t) => \E i \in 1..Len(a \o b) : (a \o b)[i] = t
<1>1. /\ Len(a) \in Nat /\ Len(b) \in Nat /\ Len(a \o b) = Len(a) + Len(b)
      /\ \A i \in 1..Len(a) + Len(b) : (a \o b)[i] = IF i <= Len(a) THEN a[i] ELSE b[i - Len(a)]
    BY ConcatProperties, LenProperties
<1>2. ASSUME NEW i \in 1..Len(a), a[i] = t PROVE \E j \in 1..Len(a \o b) : (a \o b)[j] = t
    BY <1>1, <1>2
<1>3. ASSUME NEW i \in 1..Len(b), b[i] = t PROVE \E j \in 1..Len(a \o b) : (a \o b)[j] = t
  <2>1. i + Len(a) \in 1..Len(a \o b) /\ ~(i + Len(a) <= Len(a)) /\ (i + Len(a)) - Len(a) = i
      BY <1>1
  <2> QED
      BY <1>1, <1>3, <2>1
<1> QED
    BY <1>2, <1>3

\* A task that expands into others keeps the tasks behind it.
LEMMA WithinExpand ==
    ASSUME NEW K, todo \in Seq(K), todo # <<>>, NEW tasks \in Seq(K), Expand(tasks)
    PROVE  /\ todo' \in Seq(K) /\ UNCHANGED <<op, cur, pc, done>>
           /\ \A t : Within(t) /\ t # Head(todo) => Within(t)'
           /\ \A t : (\E i \in 1..Len(tasks) : tasks[i] = t) => Within(t)'
<1>1. Tail(todo) \in Seq(K) /\ todo' = tasks \o Tail(todo) /\ UNCHANGED <<op, cur, pc, done>>
    BY TailIn DEF Expand
<1>2. todo' \in Seq(K)
    BY <1>1, ConcatIn
<1>3. ASSUME NEW t, Within(t), t # Head(todo) PROVE Within(t)'
  <2>1. \E i \in 1..Len(Tail(todo)) : Tail(todo)[i] = t
      BY <1>3, WithinTail
  <2>2. \E i \in 1..Len(tasks \o Tail(todo)) : (tasks \o Tail(todo))[i] = t
      BY <1>1, <2>1, WithinConcat
  <2> QED
      BY <1>1, <2>2 DEF Within
<1>4. ASSUME NEW t, \E i \in 1..Len(tasks) : tasks[i] = t PROVE Within(t)'
    BY <1>1, <1>4, WithinConcat DEF Within
<1> QED
    BY <1>1, <1>2, <1>3, <1>4

\* ------------------------------------------------------------ one call of a task

\* A call that leaves the list alone: what it takes from a wanted label is still in
\* hand, and it gives nothing to an unwanted one.
LEMMA UpGoesOn ==
    ASSUME TypeOK, TypeOK', UpInv, op = "up", UNCHANGED <<op, todo, conf, mode>>, done' = done,
           pc' # "next" => cur' \in UpItem \cup ({"discard"} \X Labels),
           pc' = "bootstrap" => (plist[It] = conf.rev)', pc' = "await" => Good(It)',
           \A l \in Wanted : Good(l) \/ InHand(l) => Good(l)' \/ InHand(l)',
           \A l \in Labels \ Wanted :
               plist'[l] # 0 => plist[l] # 0 /\ (Removing(l) => Removing(l)')
    PROVE  UpInv'
<1>1. Tasked /\ WantedComes /\ UnwantedGoes /\ ~done
    BY DEF UpInv
<1>2. /\ HasBrowser' = HasBrowser /\ Wanted' = Wanted /\ UpItem' = UpItem
      /\ \A t : Within(t)' <=> Within(t)
    BY SamePlan DEF Within
<1>3. Tasked'
    BY <1>1, <1>2 DEF Tasked
<1>4. WantedComes'
  <2> SUFFICES ASSUME NEW l \in Wanted
               PROVE  \/ Good(l)' \/ Installs(l)' \/ Within(Do("specs"))'
                      \/ l \in AutoLabels /\ Within(Do("autobind"))'
      BY <1>2 DEF WantedComes
  <2>1. \/ Good(l) \/ InHand(l) \/ Within(<<"install", l>>) \/ Within(Do("specs"))
        \/ l \in AutoLabels /\ Within(Do("autobind"))
      BY <1>1 DEF WantedComes, Installs
  <2>2. Within(<<"install", l>>)' \/ InHand(l)' => Installs(l)'
      BY DEF Installs
  <2> QED
      BY <1>2, <2>1, <2>2
<1>5. UnwantedGoes'
  <2> SUFFICES ASSUME NEW l \in Installed' \ Wanted
               PROVE  \/ Removing(l)'
                      \/ l \in {Desktop, Browser, Mount} /\ (Within(Do("specs")) \/ Within(Do("sweep")))'
                      \/ l \in AutoLabels /\ (HasBrowser /\ mode = "client"
                            => Within(Do("specs")) \/ Within(Do("autobind")))'
                      \/ l \notin {Desktop, Browser, Mount} \cup AutoLabels /\ (HasBrowser => l # Legacy)'
      BY <1>2 DEF UnwantedGoes
  <2>1. l \in Installed \ Wanted /\ (Removing(l) => Removing(l)')
      BY DEF Installed
  <2> QED
      BY <1>1, <1>2, <2>1 DEF UnwantedGoes
<1> QED
    BY <1>1, <1>3, <1>4, <1>5 DEF UpInv

LEMMA UpCalls ==
    ASSUME TypeOK, TypeOK', TaskKnown, SInv, LiveInv, UpInv, op = "up", op' = "up",
           CheckCurrent \/ Bootout \/ Unlink \/ Unready \/ Write \/ Bootstrap \/ AwaitReady \/ AwaitFails
    PROVE  UpInv'
<1>0. /\ It \in Labels /\ pc # "next" /\ cur[1] \in {"remove", "install", "discard"}
      /\ UNCHANGED <<todo, conf, mode, done>>
  <2>1. pc # "next"
      BY DEF CheckCurrent, Bootout, Unlink, Unready, Write, Bootstrap, AwaitReady, AwaitFails, Running
  <2>2. cur[1] \in {"remove", "install", "discard"} /\ It \in Labels
      BY <2>1 DEF TaskKnown, LiveInv, Labelled
  <2>3. ~Die
      BY DEF Die
  <2>4. UNCHANGED <<conf, mode>>
      BY DEF CheckCurrent, Bootout, Unlink, Unready, Write, Bootstrap, AwaitReady, AwaitFails, Unloaded, disk
  <2>5. UNCHANGED <<todo, done>>
      BY <2>2, <2>3 DEF CheckCurrent, Bootout, Unlink, Unready, Write, Bootstrap, AwaitReady, AwaitFails,
                   Pass, Goto
  <2> QED
      BY <2>1, <2>2, <2>4, <2>5
<1>1. /\ cur \in UpItem \cup ({"discard"} \X Labels) /\ (pc = "bootstrap" => plist[It] = conf.rev)
      /\ pc = "await" => Good(It)
    BY <1>0 DEF UpInv, Tasked
<1>2. /\ cur[1] = "install" => It \in Wanted
      /\ cur[1] = "remove" => It \notin Wanted /\ cur = <<"remove", It>>
  <2>1. cur[1] = "install" => \E l \in Wanted : cur = <<"install", l>>
      BY <1>1 DEF UpItem, Do
  <2>2. cur[1] = "remove" => \E l \in Labels \ Wanted : cur = <<"remove", l>>
      BY <1>1 DEF UpItem, Do
  <2> QED
      BY <2>1, <2>2 DEF It
<1>3. conf.rev # 0 /\ conf'.rev = conf.rev /\ Wanted \subseteq Labels
    BY <1>0, PlanFacts
<1>4. \A l : Within(l)' <=> Within(l)
    BY <1>0 DEF Within
<1>5. CASE CheckCurrent
  <2>1. /\ cur[1] = "install" /\ pc = "check" /\ UNCHANGED <<plist, job>>
        /\ (pc' = "next" /\ Good(It)) \/ (pc' = "bootout" /\ cur' = cur)
      BY <1>5 DEF CheckCurrent, Current, Pass, Goto, Running, SInv, Installing, disk, launchd, Good
  <2>2. \A l \in Wanted : Good(l) \/ InHand(l) => Good(l)' \/ InHand(l)'
      BY <1>0, <2>1 DEF Good, InHand, It
  <2>3. \A l \in Labels : Removing(l) => Removing(l)'
      BY <1>4, <2>1 DEF Removing
  <2> QED
      BY <1>0, <1>1, <2>1, <2>2, <2>3, UpGoesOn DEF It
<1>6. CASE Bootout
  <2>1. /\ pc = "bootout" /\ cur' = cur /\ plist' = plist /\ pc' = AfterBootout
        /\ \A l \in Labels : l # It => job'[l] = job[l]
      BY <1>6 DEF Bootout, Die, Goto, Running, Unloaded, disk, launchd, TypeOK
  <2>2. pc' \in {"unlink", "unready"} /\ (cur[1] = "remove" => pc' = "unlink")
      BY <2>1 DEF AfterBootout
  <2>3. \A l \in Wanted : Good(l) \/ InHand(l) => Good(l)' \/ InHand(l)'
      BY <1>0, <1>2, <1>3, <2>1, <2>2 DEF Good, InHand, It
  <2>4. \A l \in Labels : Removing(l) => Removing(l)'
      BY <1>4, <2>1, <2>2 DEF Removing
  <2> QED
      BY <1>0, <1>1, <2>1, <2>2, <2>3, <2>4, UpGoesOn DEF It
<1>7. CASE Unlink
  <2>1. /\ pc = "unlink" /\ cur' = cur /\ pc' = "unready" /\ job' = job
        /\ plist' = [plist EXCEPT ![It] = 0]
      BY <1>7 DEF Unlink, Goto, Running, launchd
  <2>2. plist'[It] = 0 /\ \A l \in Labels : l # It => plist'[l] = plist[l]
      BY <1>0, <2>1 DEF TypeOK
  <2>3. \A l \in Wanted : Good(l) \/ InHand(l) => Good(l)' \/ InHand(l)'
      BY <1>0, <1>2, <1>3, <2>1, <2>2 DEF Good, InHand, It
  <2>4. \A l \in Labels : l # It => (Removing(l) => Removing(l)')
      BY <1>4, <2>1 DEF Removing, It
  <2> QED
      BY <1>0, <1>1, <2>1, <2>2, <2>3, <2>4, UpGoesOn DEF It
<1>8. CASE Unready
  <2>1. /\ pc = "unready" /\ UNCHANGED <<plist, job>>
        /\ (cur[1] = "install" /\ pc' = "write" /\ cur' = cur) \/ (cur[1] = "remove" /\ pc' = "next")
      BY <1>0, <1>8 DEF Unready, Pass, Goto, Die, Running, disk
  <2>2. \A l \in Wanted : Good(l) \/ InHand(l) => Good(l)' \/ InHand(l)'
      BY <1>0, <2>1 DEF Good, InHand, It
  <2>3. \A l \in Labels : Removing(l) => Removing(l)'
      BY <1>4, <2>1 DEF Removing
  <2> QED
      BY <1>0, <1>1, <2>1, <2>2, <2>3, UpGoesOn DEF It
<1>9. CASE Write
  <2>1. /\ pc = "write" /\ cur' = cur /\ pc' = "bootstrap" /\ job' = job /\ cur[1] = "install"
        /\ plist' = [plist EXCEPT ![It] = conf.rev]
      BY <1>9 DEF Write, Goto, Running, launchd, SInv, Installing
  <2>2. plist'[It] = conf.rev /\ \A l \in Labels : l # It => plist'[l] = plist[l]
      BY <1>0, <2>1 DEF TypeOK
  <2>3. \A l \in Wanted : Good(l) \/ InHand(l) => Good(l)' \/ InHand(l)'
      BY <1>0, <1>3, <2>1, <2>2 DEF Good, InHand, It
  <2>4. \A l \in Labels : Removing(l) => Removing(l)'
      BY <1>4, <2>1 DEF Removing
  <2>5. \A l \in Labels \ Wanted : plist'[l] = plist[l]
      BY <1>2, <2>1, <2>2
  <2>6. (plist[It] = conf.rev)'
      BY <1>3, <2>1, <2>2 DEF It
  <2> QED
      BY <1>0, <1>1, <2>1, <2>3, <2>4, <2>5, <2>6, UpGoesOn
<1>10. CASE Bootstrap
  <2>1. /\ pc = "bootstrap" /\ cur[1] = "install" /\ plist' = plist
        /\ job' = [job EXCEPT ![It] = plist[It]]
        /\ pc' = "next" \/ (pc' = "await" /\ cur' = cur)
      BY <1>10 DEF Bootstrap, Pass, Goto, Die, Running, disk, SInv, Installing
  <2>2. job'[It] = conf.rev /\ \A l \in Labels : l # It => job'[l] = job[l]
      BY <1>0, <1>1, <2>1 DEF TypeOK
  <2>3. /\ plist'[It] = conf'.rev /\ job'[It] # 0
        /\ \A l \in Labels : Good(l) \/ l = It => Good(l)'
      BY <1>0, <1>1, <1>3, <2>1, <2>2 DEF Good
  <2>4. \A l \in Wanted : Good(l) \/ InHand(l) => Good(l)' \/ InHand(l)'
      BY <1>3, <2>3 DEF InHand
  <2>5. \A l \in Labels : Removing(l) => Removing(l)'
      BY <1>4, <2>1 DEF Removing
  <2>6. pc' = "await" => Good(It)'
      BY <2>1, <2>3 DEF Good, It
  <2> QED
      BY <1>0, <1>1, <2>1, <2>4, <2>5, <2>6, UpGoesOn
<1>11. CASE AwaitReady
  <2>1. pc = "await" /\ pc' = "next" /\ UNCHANGED <<plist, job>>
      BY <1>11 DEF AwaitReady, Pass, Running, disk, launchd
  <2>2. \A l \in Wanted : Good(l) \/ InHand(l) => Good(l)'
      BY <1>0, <1>1, <2>1 DEF Good, InHand
  <2>3. \A l \in Labels : Removing(l) => Removing(l)'
      BY <1>4, <2>1 DEF Removing
  <2> QED
      BY <1>0, <2>1, <2>2, <2>3, UpGoesOn
<1>12. CASE AwaitFails
  <2>1. /\ pc = "await" /\ pc' = "bootout" /\ cur' = <<"discard", It>> /\ UNCHANGED <<plist, job>>
      BY <1>12 DEF AwaitFails, Running, disk, launchd
  <2>2. \A l \in Wanted : Good(l) \/ InHand(l) => Good(l)' \/ InHand(l)'
      BY <1>0, <2>1 DEF Good, InHand, It
  <2>3. \A l \in Labels : Removing(l) => Removing(l)'
      BY <1>4, <2>1 DEF Removing
  <2> QED
      BY <1>0, <2>1, <2>2, <2>3, UpGoesOn
<1> QED
    BY <1>5, <1>6, <1>7, <1>8, <1>9, <1>10, <1>11, <1>12

\* ------------------------------------------------------------------- its plan

LEMMA UpBegins == ASSUME TypeOK, UpInv, op = "up", Begin PROVE UpInv'
<1>1. /\ todo # <<>> /\ cur' = Head(todo) /\ todo' = Tail(todo) /\ pc = "next"
      /\ Head(todo)[1] \in {"remove", "install"}
      /\ pc' = IF Head(todo)[1] = "remove" THEN "bootout" ELSE "check"
      /\ UNCHANGED <<op, done, conf, mode, plist, job>>
    BY DEF Begin, Task, Running, disk, launchd
<1>2. Tasked /\ WantedComes /\ UnwantedGoes /\ ~done
    BY DEF UpInv
<1>3. HasBrowser' = HasBrowser /\ Wanted' = Wanted /\ UpItem' = UpItem
    BY <1>1, SamePlan
<1>4. todo \in Seq(UpItem) /\ Head(todo) \in UpItem /\ Tail(todo) \in Seq(UpItem)
    BY <1>1, <1>2, TailIn DEF Tasked
<1>5. \A t : Within(t) => t = Head(todo) \/ Within(t)'
    BY <1>1, <1>4, WithinTail DEF Within
<1>6. Tasked'
    BY <1>1, <1>3, <1>4 DEF Tasked
<1>7. ASSUME NEW l PROVE /\ Installs(l) => Installs(l)'
                         /\ Removing(l) => Removing(l)'
  <2>1. Within(<<"install", l>>) => Installs(l)'
      BY <1>1, <1>5 DEF Installs, InHand, It
  <2>2. Within(<<"remove", l>>) => Removing(l)'
      BY <1>1, <1>5 DEF Removing
  <2> QED
      BY <1>1, <2>1, <2>2 DEF Installs, InHand, Removing
<1>8. \A what \in {"specs", "sweep", "autobind"} : Within(Do(what)) => Within(Do(what))'
    BY <1>1, <1>5 DEF Do
<1>9. WantedComes'
    BY <1>1, <1>2, <1>3, <1>7, <1>8 DEF WantedComes, Good
<1>10. UnwantedGoes'
    BY <1>1, <1>2, <1>3, <1>7, <1>8 DEF UnwantedGoes, Installed
<1> QED
    BY <1>1, <1>2, <1>6, <1>9, <1>10 DEF UpInv

\* A task that expands: what waited for it waits for what it becomes.
LEMMA UpExpands ==
    ASSUME TypeOK, UpInv, op = "up", pc = "next", todo # <<>>, NEW tasks \in Seq(UpItem), Expand(tasks),
           UNCHANGED <<disk, launchd>>,
           NEW what \in {"specs", "autobind", "sweep"}, Head(todo) = Do(what),
           \A l \in Wanted :
               what = "specs" \/ (what = "autobind" /\ l \in AutoLabels)
                   => Installs(l)' \/ (l \in AutoLabels /\ Within(Do("autobind"))'),
           \A l \in Installed \ Wanted :
               /\ l \in {Desktop, Browser, Mount} /\ what \in {"specs", "sweep"}
                      => Removing(l)' \/ Within(Do("sweep"))'
               /\ l \in AutoLabels /\ what \in {"specs", "autobind"} /\ HasBrowser /\ mode = "client"
                      => Removing(l)' \/ Within(Do("autobind"))'
    PROVE  UpInv'
<1>1. Tasked /\ WantedComes /\ UnwantedGoes /\ ~done
    BY DEF UpInv
<1>2. todo \in Seq(UpItem)
    BY <1>1 DEF Tasked
<1>3. /\ todo' \in Seq(UpItem) /\ UNCHANGED <<op, cur, pc, done>>
      /\ \A t : Within(t) /\ t # Head(todo) => Within(t)'
    BY <1>2, WithinExpand
<1>4. UNCHANGED <<conf, mode, plist, job>>
    BY DEF disk, launchd
<1>5. HasBrowser' = HasBrowser /\ Wanted' = Wanted /\ UpItem' = UpItem
    BY <1>4, SamePlan
<1>6. Tasked'
    BY <1>1, <1>3, <1>4, <1>5 DEF Tasked
<1>7. ASSUME NEW l PROVE /\ Installs(l) => Installs(l)'
                         /\ Removing(l) => Removing(l)'
  <2>1. Within(<<"install", l>>) => Within(<<"install", l>>)'
      BY <1>3 DEF Do
  <2>2. Within(<<"remove", l>>) => Within(<<"remove", l>>)'
      BY <1>3 DEF Do
  <2> QED
      BY <2>1, <2>2 DEF Installs, InHand, Removing
<1>8. \A w \in {"specs", "sweep", "autobind"} : Within(Do(w)) => w = what \/ Within(Do(w))'
    BY <1>3 DEF Do
<1>9. WantedComes'
    BY <1>1, <1>4, <1>5, <1>7, <1>8 DEF WantedComes, Good
<1>10. UnwantedGoes'
    BY <1>1, <1>4, <1>5, <1>7, <1>8 DEF UnwantedGoes, Installed
<1> QED
    BY <1>1, <1>3, <1>6, <1>9, <1>10 DEF UpInv

\* ------------------------------------------------------------ what a list holds

HasTask(list, t) == \E i \in 1..Len(list) : list[i] = t

LEMMA HoldsConcat ==
    ASSUME NEW K, NEW a \in Seq(K), NEW b \in Seq(K)
    PROVE  a \o b \in Seq(K) /\ \A t : HasTask(a, t) \/ HasTask(b, t) => HasTask(a \o b, t)
<1>1. a \o b \in Seq(K)
    BY ConcatIn
<1>2. ASSUME NEW t, HasTask(a, t) PROVE HasTask(a \o b, t)
    BY <1>2, WithinConcat DEF HasTask
<1>3. ASSUME NEW t, HasTask(b, t) PROVE HasTask(a \o b, t)
    BY <1>3, WithinConcat DEF HasTask
<1> QED
    BY <1>1, <1>2, <1>3

LEMMA HasTaskOne == ASSUME NEW K, NEW t \in K PROVE <<t>> \in Seq(K) /\ HasTask(<<t>>, t)
BY DEF HasTask

LEMMA InOrderHolds ==
    ASSUME NEW K, \A l \in Specs : <<"install", l>> \in K
    PROVE  /\ InOrder("install", Specs) \in Seq(K)
           /\ \A l \in Specs : HasTask(InOrder("install", Specs), <<"install", l>>)
<1> DEFINE One(l) == IF l \in Specs THEN <<<<"install", l>>>> ELSE <<>>
<1>1. \A l \in Fixed : One(l) \in Seq(K) /\ (l \in Specs => HasTask(One(l), <<"install", l>>))
  <2> SUFFICES ASSUME NEW l \in Fixed
               PROVE  One(l) \in Seq(K) /\ (l \in Specs => HasTask(One(l), <<"install", l>>))
      OBVIOUS
  <2>1. CASE l \in Specs
    <3>1. One(l) = <<<<"install", l>>>>
        BY <2>1
    <3> QED
        BY <2>1, <3>1, HasTaskOne
  <2>2. CASE l \notin Specs
    <3>1. <<>> \in Seq(K)
        BY EmptySeq
    <3> QED
        BY <2>2, <3>1
  <2> QED
      BY <2>1, <2>2
<1>2. InOrder("install", Specs) = One(Desktop) \o One(Browser) \o One(Monitoring) \o One(Mount)
    BY DEF InOrder
<1>3. \A l \in Specs : l = Desktop \/ l = Browser \/ l = Monitoring \/ l = Mount
    BY DEF Specs, Fixed
<1>4. /\ One(Desktop) \in Seq(K) /\ One(Browser) \in Seq(K)
      /\ One(Monitoring) \in Seq(K) /\ One(Mount) \in Seq(K)
    BY <1>1 DEF Fixed
<1>5. \A l \in Specs : l \in Fixed
    BY DEF Specs
<1> HIDE DEF One
<1>6. /\ One(Desktop) \o One(Browser) \in Seq(K)
      /\ \A t : HasTask(One(Desktop), t) \/ HasTask(One(Browser), t) => HasTask(One(Desktop) \o One(Browser), t)
    BY <1>4, HoldsConcat
<1>7. /\ One(Desktop) \o One(Browser) \o One(Monitoring) \in Seq(K)
      /\ \A t : HasTask(One(Desktop) \o One(Browser), t) \/ HasTask(One(Monitoring), t)
            => HasTask(One(Desktop) \o One(Browser) \o One(Monitoring), t)
    BY <1>4, <1>6, HoldsConcat
<1> DEFINE three == One(Desktop) \o One(Browser) \o One(Monitoring)
<1>8. /\ InOrder("install", Specs) \in Seq(K)
      /\ \A t : HasTask(three, t) \/ HasTask(One(Mount), t) => HasTask(InOrder("install", Specs), t)
  <2>1. three \in Seq(K) /\ InOrder("install", Specs) = three \o One(Mount)
      BY <1>2, <1>7
  <2> HIDE DEF three
  <2>2. /\ three \o One(Mount) \in Seq(K)
        /\ \A t : HasTask(three, t) \/ HasTask(One(Mount), t) => HasTask(three \o One(Mount), t)
      BY <1>4, <2>1, HoldsConcat
  <2> QED
      BY <2>1, <2>2
<1> QED
    BY <1>1, <1>3, <1>5, <1>6, <1>7, <1>8

LEMMA EachHolds ==
    ASSUME NEW what, NEW S \in SUBSET Labels
    PROVE  \A l \in S : HasTask(Each(what, S), <<what, l>>)
BY EachLists DEF HasTask

\* ------------------------------------------------------- the tasks that expand

LEMMA UpHead ==
    ASSUME UpInv, op = "up", NEW what, Task(what)
    PROVE  /\ pc = "next" /\ todo # <<>> /\ Head(todo) \in UpItem /\ Head(todo)[1] = what
           /\ what \notin {"remove", "install"} => Head(todo) = Do(what)
           /\ what \in {"specs", "sweep", "autobind", "remove", "install"}
           /\ what = "autobind" => HasBrowser /\ mode = "client"
<1>1. pc = "next" /\ todo # <<>> /\ Head(todo)[1] = what
    BY DEF Task, Running
<1>2. Head(todo) \in UpItem
    BY <1>1, TailIn DEF UpInv, Tasked
<1> QED
    BY <1>1, <1>2 DEF UpItem, Do

LEMMA UpSpecs == ASSUME TypeOK, UpInv, op = "up", ExpandSpecs PROVE UpInv'
<1> DEFINE bound == IF HasBrowser /\ mode = "client" THEN <<Do("autobind")>> ELSE <<>>
           last == <<Do("sweep")>>
           installs == InOrder("install", Specs)
<1>1. pc = "next" /\ todo # <<>> /\ Head(todo) = Do("specs")
    BY UpHead DEF ExpandSpecs
<1>2. installs \in Seq(UpItem) /\ \A l \in Specs : HasTask(installs, <<"install", l>>)
  <2>1. \A l \in Specs : <<"install", l>> \in UpItem
      BY PlanFacts DEF UpItem
  <2> QED
      BY <2>1, InOrderHolds
<1>3. bound \in Seq(UpItem) /\ (HasBrowser /\ mode = "client" => HasTask(bound, Do("autobind")))
  <2>1. CASE HasBrowser /\ mode = "client"
    <3>1. Do("autobind") \in UpItem /\ bound = <<Do("autobind")>>
        BY <2>1 DEF UpItem
    <3> HIDE DEF bound
    <3> QED
        BY <3>1, HasTaskOne
  <2>2. CASE ~(HasBrowser /\ mode = "client")
      BY <2>2, EmptySeq
  <2> QED
      BY <2>1, <2>2
<1>4. last \in Seq(UpItem) /\ HasTask(last, Do("sweep"))
  <2>1. Do("sweep") \in UpItem
      BY DEF UpItem
  <2> QED
      BY <2>1, HasTaskOne
<1>5. Expand(installs \o bound \o last) /\ UNCHANGED <<disk, launchd>>
    BY DEF ExpandSpecs
<1> HIDE DEF installs, bound, last
<1>6. /\ installs \o bound \in Seq(UpItem)
      /\ \A t : HasTask(installs, t) \/ HasTask(bound, t) => HasTask(installs \o bound, t)
    BY <1>2, <1>3, HoldsConcat
<1> DEFINE tasks == installs \o bound \o last
<1>7. /\ tasks \in Seq(UpItem)
      /\ \A t : HasTask(installs, t) \/ HasTask(bound, t) \/ HasTask(last, t) => HasTask(tasks, t)
    BY <1>4, <1>6, HoldsConcat
<1> HIDE DEF tasks
<1>8. Expand(tasks)
    BY <1>5 DEF tasks
<1>9. todo \in Seq(UpItem)
    BY DEF UpInv, Tasked
<1>10. \A t : HasTask(tasks, t) => Within(t)'
    BY <1>1, <1>7, <1>8, <1>9, WithinExpand DEF HasTask
<1>11. /\ \A l \in Specs : Within(<<"install", l>>)'
       /\ HasBrowser /\ mode = "client" => Within(Do("autobind"))'
       /\ Within(Do("sweep"))'
    BY <1>2, <1>3, <1>4, <1>7, <1>10
<1>12. \A l \in Wanted : Installs(l)' \/ (l \in AutoLabels /\ Within(Do("autobind"))')
  <2> SUFFICES ASSUME NEW l \in Wanted
               PROVE  Installs(l)' \/ (l \in AutoLabels /\ Within(Do("autobind"))')
      OBVIOUS
  <2>1. CASE l \in Specs
      BY <1>11, <2>1 DEF Installs
  <2>2. CASE l \notin Specs
      BY <1>11, <2>2, PlanFacts
  <2> QED
      BY <2>1, <2>2
<1> QED
    BY <1>1, <1>5, <1>7, <1>8, <1>11, <1>12, UpExpands

LEMMA UpReconciles == ASSUME TypeOK, UpInv, op = "up", ReconcileAutoBindPorts PROVE UpInv'
<1> DEFINE gone == (Installed \cap AutoLabels) \ AutoBindSpecs
           removes == Each("remove", gone)
           installs == Each("install", AutoBindSpecs)
           tasks == removes \o installs
<1>1. /\ pc = "next" /\ todo # <<>> /\ Head(todo) = Do("autobind") /\ HasBrowser /\ mode = "client"
    BY UpHead DEF ReconcileAutoBindPorts
<1>2. Wanted = Specs \cup AutoBindSpecs /\ gone \subseteq Labels \ Wanted /\ AutoBindSpecs \subseteq Labels
    BY <1>1, PlanFacts, LabelSets
<1>3. removes \in Seq(UpItem) /\ \A l \in gone : HasTask(removes, <<"remove", l>>)
  <2>1. \A l \in gone : <<"remove", l>> \in UpItem
      BY <1>2 DEF UpItem
  <2> QED
      BY <1>2, <2>1, EachIn, EachHolds
<1>4. installs \in Seq(UpItem) /\ \A l \in AutoBindSpecs : HasTask(installs, <<"install", l>>)
  <2>1. \A l \in AutoBindSpecs : <<"install", l>> \in UpItem
      BY <1>2 DEF UpItem
  <2> QED
      BY <1>2, <2>1, EachIn, EachHolds
<1>5. Expand(tasks) /\ UNCHANGED <<disk, launchd>>
    BY DEF ReconcileAutoBindPorts
<1> HIDE DEF removes, installs
<1>6. tasks \in Seq(UpItem) /\ \A t : HasTask(removes, t) \/ HasTask(installs, t) => HasTask(tasks, t)
    BY <1>3, <1>4, HoldsConcat
<1> HIDE DEF tasks
<1>7. todo \in Seq(UpItem)
    BY DEF UpInv, Tasked
<1>8. \A t : HasTask(tasks, t) => Within(t)'
    BY <1>1, <1>5, <1>6, <1>7, WithinExpand DEF HasTask
<1>9. /\ \A l \in AutoBindSpecs : Installs(l)'
      /\ \A l \in gone : Removing(l)'
    BY <1>3, <1>4, <1>6, <1>8 DEF Installs, Removing
<1>10. \A l \in Wanted : l \in AutoLabels => l \in AutoBindSpecs
    BY <1>2, PlanFacts
<1>11. \A l \in Installed \ Wanted : l \in AutoLabels => l \in gone
    BY <1>2
<1>12. {Desktop, Browser, Mount} \cap AutoLabels = {}
    BY PlanFacts
<1> HIDE DEF gone
<1> QED
    BY <1>1, <1>5, <1>6, <1>9, <1>10, <1>11, UpExpands

LEMMA UpSweeps == ASSUME TypeOK, UpInv, op = "up", Sweep PROVE UpInv'
<1>1. pc = "next" /\ todo # <<>> /\ Head(todo) = Do("sweep")
    BY UpHead DEF Sweep
<1>2. /\ Unconfigured \subseteq Labels \ Wanted
      /\ \A l \in Installed \ Wanted : l \in {Desktop, Browser, Mount} => l \in Unconfigured
    BY PlanFacts DEF Unconfigured, InstalledAgentLabels, Installed
<1>3. Each("remove", Unconfigured) \in Seq(UpItem)
  <2>1. \A l \in Unconfigured : <<"remove", l>> \in UpItem
      BY <1>2 DEF UpItem
  <2> QED
      BY <1>2, <2>1, EachIn
<1>4. Expand(Each("remove", Unconfigured)) /\ UNCHANGED <<disk, launchd>>
    BY DEF Sweep
<1>5. todo \in Seq(UpItem)
    BY DEF UpInv, Tasked
<1>6. \A l \in Unconfigured : Removing(l)'
    BY <1>1, <1>2, <1>3, <1>4, <1>5, EachHolds, WithinExpand DEF HasTask, Removing
<1> QED
    BY <1>1, <1>2, <1>3, <1>4, <1>6, UpExpands

\* ------------------------------------------------------------ start and finish

LEMMA UpStarts == ASSUME TypeOK, UpInv, RunAgentUp PROVE UpInv'
<1> DEFINE removes == Each("remove", LegacyLabels)
           last == <<Do("specs")>>
<1>1. /\ op' = "up" /\ todo' = removes \o last /\ pc' = "next" /\ done' = FALSE
      /\ UNCHANGED <<conf, mode, plist, job>>
    BY DEF RunAgentUp, Command, disk, launchd
<1>2. HasBrowser' = HasBrowser /\ Wanted' = Wanted /\ UpItem' = UpItem
    BY <1>1, SamePlan
<1>3. LegacyLabels \subseteq Labels \ Wanted
    BY PlanFacts DEF LegacyLabels
<1>4. removes \in Seq(UpItem) /\ \A l \in LegacyLabels : HasTask(removes, <<"remove", l>>)
  <2>1. \A l \in LegacyLabels : <<"remove", l>> \in UpItem
      BY <1>3 DEF UpItem
  <2> QED
      BY <1>3, <2>1, EachIn, EachHolds
<1>5. last \in Seq(UpItem) /\ HasTask(last, Do("specs"))
  <2>1. Do("specs") \in UpItem
      BY DEF UpItem
  <2> QED
      BY <2>1, HasTaskOne
<1> HIDE DEF removes, last
<1>6. todo' \in Seq(UpItem) /\ \A t : HasTask(removes, t) \/ HasTask(last, t) => Within(t)'
  <2>1. /\ removes \o last \in Seq(UpItem)
        /\ \A t : HasTask(removes, t) \/ HasTask(last, t) => HasTask(removes \o last, t)
      BY <1>4, <1>5, HoldsConcat
  <2>2. \A t : HasTask(removes \o last, t) => Within(t)'
      BY <1>1 DEF HasTask, Within
  <2> QED
      BY <1>1, <2>1, <2>2
<1>7. Within(Do("specs"))' /\ \A l \in LegacyLabels : Removing(l)'
    BY <1>4, <1>5, <1>6 DEF Removing
<1>8. Tasked'
    BY <1>1, <1>2, <1>6 DEF Tasked
<1>9. WantedComes'
    BY <1>7 DEF WantedComes
<1>10. UnwantedGoes'
  <2>1. HasBrowser => Legacy \in LegacyLabels
      BY DEF LegacyLabels
  <2> QED
      BY <1>2, <1>7, <2>1 DEF UnwantedGoes
<1> QED
    BY <1>1, <1>8, <1>9, <1>10 DEF UpInv

LEMMA UpFinishes == ASSUME TypeOK, UpInv, op = "up", Finish PROVE UpInv'
<1>1. pc = "next" /\ todo = <<>> /\ op' = "idle" /\ UNCHANGED <<conf, mode, plist, job>>
    BY DEF Finish, Running, disk, launchd
<1>2. \A t : ~Within(t)
    BY <1>1 DEF Within
<1>3. \A l : ~Removing(l) /\ ~Installs(l)
    BY <1>1, <1>2 DEF Removing, Installs, InHand
<1>4. \A l \in Wanted : plist[l] = conf.rev /\ job[l] # 0
    BY <1>2, <1>3 DEF UpInv, WantedComes, Good
<1>5. \A l \in Installed \ Wanted :
          /\ l \notin {Desktop, Browser, Mount} /\ (l \in AutoLabels => ~(HasBrowser /\ mode = "client"))
          /\ HasBrowser => l # Legacy
    BY <1>2, <1>3, PlanFacts DEF UpInv, UnwantedGoes
<1>6. InstalledAgentLabels \subseteq Wanted
    BY <1>5 DEF InstalledAgentLabels
<1>7. HasBrowser => plist[Legacy] = 0
    BY <1>5, PlanFacts DEF Installed
<1>8. HasBrowser /\ mode = "client" => Installed \cap AutoLabels = AutoBindSpecs
  <2> SUFFICES ASSUME HasBrowser, mode = "client" PROVE Installed \cap AutoLabels = AutoBindSpecs
      OBVIOUS
  <2>1. Wanted = Specs \cup AutoBindSpecs /\ Wanted \subseteq Labels /\ AutoBindSpecs \subseteq AutoLabels
        /\ Specs \cap AutoLabels = {} /\ conf.rev # 0
      BY PlanFacts
  <2>2. AutoBindSpecs \subseteq Installed
      BY <1>4, <2>1 DEF Installed
  <2>3. Installed \cap AutoLabels \subseteq Wanted
      BY <1>5
  <2> QED
      BY <2>1, <2>2, <2>3
<1>9. UpSettles
    BY <1>4, <1>6, <1>7, <1>8 DEF UpSettles
<1>10. UpSettles'
  <2>1. /\ HasBrowser' = HasBrowser /\ Wanted' = Wanted /\ AutoBindSpecs' = AutoBindSpecs
        /\ Installed' = Installed /\ InstalledAgentLabels' = InstalledAgentLabels
      BY <1>1, SamePlan DEF Installed, InstalledAgentLabels
  <2> QED
      BY <1>1, <1>4, <1>6, <1>7, <1>8, <2>1 DEF UpSettles
<1> QED
    BY <1>1, <1>10 DEF UpInv

\* A step that leaves `agent up` where it is, or another command, a killed one
\* included, finds what the last `agent up` left, or forgets that it completed.
LEMMA UpRests ==
    ASSUME UpInv, UNCHANGED <<cli, disk, job, done>>
    PROVE  UpInv'
<1>1. UNCHANGED <<op, todo, cur, pc, conf, mode, plist, job, done>>
    BY DEF cli, disk
<1>2. /\ HasBrowser' = HasBrowser /\ Wanted' = Wanted /\ UpItem' = UpItem
      /\ AutoBindSpecs' = AutoBindSpecs /\ Installed' = Installed
      /\ InstalledAgentLabels' = InstalledAgentLabels
    BY <1>1, SamePlan DEF Installed, InstalledAgentLabels
<1>4. \A t : Within(t)' = Within(t)
    BY <1>1 DEF Within
<1>3. ASSUME NEW l PROVE Good(l)' = Good(l) /\ Installs(l)' = Installs(l) /\ Removing(l)' = Removing(l)
    BY <1>1, <1>4 DEF Good, Installs, InHand, Removing, It
<1>5. op = "up" => Tasked'
    BY <1>1, <1>2 DEF UpInv, Tasked, Good, It
<1>6. op = "up" => WantedComes'
    BY <1>2, <1>3, <1>4 DEF UpInv, WantedComes
<1>7. op = "up" => UnwantedGoes'
    BY <1>1, <1>2, <1>3, <1>4 DEF UpInv, UnwantedGoes
<1>8. done => op = "idle" /\ UpSettles'
    BY <1>1, <1>2 DEF UpInv, UpSettles
<1> QED
    BY <1>1, <1>5, <1>6, <1>7, <1>8 DEF UpInv

LEMMA UpOver ==
    ASSUME UpInv, op' # "up", done' => done, done' => op' = "idle",
           done => UNCHANGED disk /\ \A l \in Labels : job[l] # 0 => job'[l] # 0,
           Wanted \subseteq Labels
    PROVE  UpInv'
<1> SUFFICES ASSUME done' PROVE UpSettles'
    BY DEF UpInv
<1>1. UpSettles /\ UNCHANGED <<conf, mode, plist>> /\ \A l \in Labels : job[l] # 0 => job'[l] # 0
    BY DEF UpInv, disk
<1>2. /\ HasBrowser' = HasBrowser /\ Wanted' = Wanted /\ AutoBindSpecs' = AutoBindSpecs
      /\ Installed' = Installed /\ InstalledAgentLabels' = InstalledAgentLabels
    BY <1>1, SamePlan DEF Installed, InstalledAgentLabels
<1> QED
    BY <1>1, <1>2 DEF UpSettles

LEMMA NextUp == IInv /\ SInv /\ LiveInv /\ UpInv /\ [Next]_vars => UpInv'
<1> SUFFICES ASSUME IInv, SInv, LiveInv, UpInv, [Next]_vars PROVE UpInv'
    OBVIOUS
<1>0. TypeOK /\ TypeOK' /\ TaskKnown /\ JobMatchesDisk /\ Wanted \subseteq Labels /\ conf.rev # 0
    BY NextHolds, PlanFacts DEF IInv
<1>1. CASE Run
  <2>1. CASE RunAgentUp
      BY <1>0, <2>1, UpStarts
  <2>2. CASE ~RunAgentUp
    <3>1. op' # "up" /\ ~done'
        BY <1>1, <2>2 DEF Run, RunAgentDown, RunRecover, RunBrowserMode, RunBrowserBind,
               RunBrowserUnbind, Command, Modes
    <3> QED
        BY <3>1 DEF UpInv
  <2> QED
      BY <2>1, <2>2
<1>2. CASE Work /\ op = "up"
  <2>1. CASE \/ CheckCurrent \/ Bootout \/ Unlink \/ Unready \/ Write \/ Bootstrap
             \/ AwaitReady \/ AwaitFails
    <3>1. CASE op' = "up"
        BY <1>0, <1>2, <2>1, <3>1, UpCalls
    <3>2. CASE op' # "up"
      <4>1. ~done
          BY <1>2 DEF UpInv
      <4>2. Unready => cur[1] \in {"remove", "install", "discard"}
          BY <1>0 DEF TaskKnown, Unready, Running
      <4>3. done' = done
          BY <2>1, <4>2 DEF CheckCurrent, Bootout, Unlink, Unready, Write, Bootstrap,
                 AwaitReady, AwaitFails, Pass, Goto, Die
      <4> QED
          BY <3>2, <4>1, <4>3 DEF UpInv
    <3> QED
        BY <3>1, <3>2
  <2>2. ~WriteBrowserMode /\ ~RecoverOwnedAgent
      BY <1>2, UpHead DEF WriteBrowserMode, RecoverOwnedAgent
  <2> QED
      BY <1>0, <1>2, <2>1, <2>2, UpBegins, UpSpecs, UpReconciles, UpSweeps, UpFinishes DEF Work
<1>3. CASE Work /\ op # "up"
  <2>1. op # "idle"
      BY <1>3 DEF Work, Begin, ExpandSpecs, ReconcileAutoBindPorts, Sweep, WriteBrowserMode, Finish,
             CheckCurrent, Bootout, Unlink, Unready, Write, Bootstrap, AwaitReady, AwaitFails,
             RecoverOwnedAgent, Task, Running
  <2>2. ~done
      BY <2>1 DEF UpInv
  <2>3. op' # "up" /\ ~done'
    <3>1. CASE Begin \/ ExpandSpecs \/ ReconcileAutoBindPorts \/ Sweep \/ WriteBrowserMode
      <4>1. op' = op /\ done' = done
          BY <3>1 DEF Begin, ExpandSpecs, ReconcileAutoBindPorts, Sweep, WriteBrowserMode, Expand
      <4> QED
          BY <1>3, <2>2, <4>1
    <3>4. CASE Finish
        BY <1>3, <3>4 DEF Finish
    <3>5. CASE RecoverOwnedAgent
        BY <1>3, <2>2, <3>5 DEF RecoverOwnedAgent, Die
    <3>2. CASE \/ CheckCurrent \/ Bootout \/ Unlink \/ Write \/ Bootstrap \/ AwaitReady \/ AwaitFails
        BY <1>3, <2>2, <3>2 DEF CheckCurrent, Bootout, Unlink, Write, Bootstrap, AwaitReady,
               AwaitFails, Pass, Goto, Die
    <3>3. CASE Unready
      <4>1. cur[1] \in {"remove", "install", "discard"}
          BY <1>0, <3>3 DEF TaskKnown, Unready, Running
      <4> QED
          BY <1>3, <2>2, <3>3, <4>1 DEF Unready, Pass, Goto, Die
    <3> QED
        BY <1>3, <3>1, <3>2, <3>3, <3>4, <3>5 DEF Work
  <2> QED
      BY <2>3 DEF UpInv
<1>4. CASE Environment
  <2>1. ASSUME NEW l \in Forwards, Start(l) \/ Listen(l) \/ Publish(l) \/ Fail(l) PROVE UpInv'
      BY <2>1, UpRests DEF Start, Listen, Publish, Fail, CliStays
  <2>2. ASSUME NEW p \in Contested, ForeignComesOrGoes(p) PROVE UpInv'
      BY <2>2, UpRests DEF ForeignComesOrGoes, CliStays
  <2>3. CASE Cut
      BY <2>3 DEF Cut, Die, Idle, UpInv
  <2>4. CASE Login
    <3>1. op' = "idle" /\ done' = done /\ UNCHANGED disk /\ job' = plist
        BY <2>4 DEF Login, Die
    <3>2. \A l \in Labels : job[l] # 0 => job'[l] # 0
        BY <1>0, <3>1 DEF JobMatchesDisk
    <3> QED
        BY <1>0, <3>1, <3>2, UpOver
  <2>5. ASSUME NEW c \in Configs, EditConfig(c) PROVE UpInv'
      BY <2>5 DEF EditConfig, Idle, cli, UpInv
  <2> QED
      BY <1>4, <2>1, <2>2, <2>3, <2>4, <2>5 DEF Environment
<1>5. CASE UNCHANGED vars
    BY <1>5, UpRests DEF vars, cli, disk
<1> QED
    BY <1>1, <1>2, <1>3, <1>4, <1>5 DEF Next

\* `agent up`, once it said it is done, leaves what configuration and mode ask for,
\* and nothing of what they do not: whatever an earlier command, cut anywhere, left
\* behind, and whatever supervisors and logins do meanwhile and afterwards.
THEOREM UpLeavesThePlan == Spec => []UpSettles
<1>1. Init => UpInv
    BY DEF Init, UpInv
<1>2. UpInv => UpSettles
    BY DEF UpInv, UpSettles
<1> QED
    BY <1>1, <1>2, NextUp, LiveAlways, PTL DEF Spec

\* ----------------------------------------------- the browser's own supervisor

\* What follows is about the supervisor that the browser's agent runs, for any pids and
\* number of faults.
ChromeTypes ==
    /\ chrome \in [Pids -> {"none", "young", "holding", "serving"}]
    /\ lock \in Pids \cup {None, Stranger}
    /\ stranger \in BOOLEAN

ScriptTypes ==
    /\ marker \in Pids \cup {None} /\ my \in Pids \cup {None} /\ port \in Pids \cup {None}
    /\ sup \in {"down", "claim", "unlock", "start", "marker", "cdp", "monitor"}
    /\ tunnel \in {"none", "trying", "up", "down"}
    /\ remote \in {"free", "mine", "ghost"}
    /\ faults \in 0..MaxFaults

SupervisorInv == ChromeTypes /\ ScriptTypes /\ SparesStrangers

LEMMA SupervisorFaults ==
    ASSUME ScriptTypes
    PROVE  /\ Fault => faults' \in 0..MaxFaults
           /\ NoFault => faults' \in 0..MaxFaults
BY BoundsAssumption DEF ScriptTypes, Fault, NoFault

\* Whoever the supervisor ends, and whoever crashes, is a Chrome.
LEMMA EndsSpares ==
    ASSUME ChromeTypes, SparesStrangers, NEW p \in Pids, Ends(p)
    PROVE  ChromeTypes' /\ SparesStrangers'
BY PidsAssumption DEF ChromeTypes, Ends, SparesStrangers

\* The exit trap ends the browser the script knows, and no other.
LEMMA CleanupSpares ==
    ASSUME SupervisorInv, Cleanup, faults' \in 0..MaxFaults
    PROVE  SupervisorInv'
<1>1. CASE MineAlive
  <2>1. my \in Pids /\ Ends(my)
      BY <1>1 DEF Cleanup, MineAlive, SupervisorInv, ScriptTypes
  <2>2. ChromeTypes' /\ SparesStrangers'
      BY <2>1, EndsSpares DEF SupervisorInv
  <2> QED
      BY <2>2 DEF Cleanup, SupervisorInv, ScriptTypes
<1>2. CASE ~MineAlive
    BY <1>2 DEF Cleanup, SupervisorInv, ChromeTypes, ScriptTypes, SparesStrangers
<1> QED
    BY <1>1, <1>2

LEMMA ScriptSpares ==
    ASSUME SupervisorInv, Script
    PROVE  SupervisorInv'
<1> USE DEF SupervisorInv, ScriptTypes
<1>1. CASE Claim
  <2>1. CASE Owners = {}
      BY <1>1, <2>1 DEF Claim, ChromeTypes, SparesStrangers
  <2>2. CASE Owners # {}
    <3>1. PICK held \in Owners : Ends(held)
        BY <1>1, <2>2 DEF Claim
    <3>2. held \in Pids
        BY <3>1 DEF Owners
    <3>3. ChromeTypes' /\ SparesStrangers'
        BY <3>1, <3>2, EndsSpares
    <3> QED
        BY <1>1, <2>2, <3>3 DEF Claim
  <2> QED
      BY <2>1, <2>2
<1>2. CASE Launch \/ Unlock \/ ReadMarker \/ CdpReady \/ RetryTunnel
    BY <1>2
    DEF Launch, Unlock, ReadMarker, CdpReady, RetryTunnel, ChromeTypes, SparesStrangers
<1>3. CASE StartChrome
    BY <1>3 DEF StartChrome, ChromeTypes, SparesStrangers
<1>4. CASE Adopt
    BY <1>4 DEF Adopt, Owners, ChromeTypes, SparesStrangers
<1>5. CASE BrowserGone \/ Deadline
  <2>1. Cleanup /\ faults' \in 0..MaxFaults
      BY <1>5, SupervisorFaults DEF BrowserGone, Deadline
  <2> QED
      BY <2>1, CleanupSpares
<1> QED
    BY <1>1, <1>2, <1>3, <1>4, <1>5 DEF Script

LEMMA ChromeSpares ==
    ASSUME SupervisorInv, NEW p \in Pids,
           \/ TakeProfile(p) \/ HandOver(p) \/ Serve(p) \/ Crash(p)
           \/ \E q \in Pids : ReExec(p, q) \/ Relaunch(p, q)
    PROVE  SupervisorInv'
<1> USE DEF SupervisorInv, ScriptTypes, ChromeEnv
<1>1. CASE TakeProfile(p) \/ HandOver(p) \/ Serve(p)
    BY <1>1, SupervisorFaults
    DEF TakeProfile, HandOver, Serve, ChromeTypes, SparesStrangers
<1>2. CASE Crash(p)
  <2>1. ChromeTypes' /\ SparesStrangers'
      BY <1>2, EndsSpares DEF Crash
  <2> QED
      BY <1>2, <2>1, SupervisorFaults DEF Crash
<1>3. ASSUME NEW q \in Pids, ReExec(p, q) \/ Relaunch(p, q)
      PROVE  SupervisorInv'
    BY <1>3, SupervisorFaults
    DEF ReExec, Relaunch, ChromeTypes, SparesStrangers
<1> QED
    BY <1>1, <1>2, <1>3

LEMMA RestSpares ==
    ASSUME SupervisorInv, Connect \/ GhostEnds \/ Disconnect \/ Stopped
    PROVE  SupervisorInv'
<1>1. CASE Connect \/ GhostEnds \/ Disconnect
    BY <1>1, SupervisorFaults
    DEF Connect, GhostEnds, Disconnect, TunnelEnv, SupervisorInv, ChromeTypes, ScriptTypes,
        SparesStrangers
<1>2. CASE Stopped
  <2>1. faults' \in 0..MaxFaults
      BY <1>2, SupervisorFaults DEF Stopped, SupervisorInv
  <2> QED
      BY <1>2, <2>1, CleanupSpares
      DEF Stopped, SupervisorInv, ChromeTypes, ScriptTypes, SparesStrangers
<1> QED
    BY <1>1, <1>2

\* Taking the profile back ends the Chrome that holds it, and the exit trap the one
\* the script started or adopted: never the stranger whose pid a stale lock names,
\* whatever crashes, relaunches, re-execs and adoptions went before.
THEOREM StrangersAreSpared ==
    SupervisorSpec => [](ChromeTypes /\ ScriptTypes /\ SparesStrangers)
<1>1. SupervisorInit => SupervisorInv
  <2> SUFFICES ASSUME SupervisorInit PROVE SupervisorInv
      OBVIOUS
  <2>1. PICK o \in Pids \cup {None} :
            chrome = [p \in Pids |-> IF p = o THEN "serving" ELSE "none"]
      BY DEF SupervisorInit
  <2>2. ChromeTypes
      BY <2>1 DEF SupervisorInit, ChromeTypes
  <2>3. ScriptTypes
      BY BoundsAssumption DEF SupervisorInit, ScriptTypes
  <2> QED
      BY <2>2, <2>3 DEF SupervisorInit, SupervisorInv, SparesStrangers
<1>2. SupervisorInv /\ [SupervisorNext]_supervisorVars => SupervisorInv'
  <2> SUFFICES ASSUME SupervisorInv, [SupervisorNext]_supervisorVars PROVE SupervisorInv'
      OBVIOUS
  <2>1. CASE UNCHANGED supervisorVars
      BY <2>1 DEF supervisorVars, SupervisorInv, ChromeTypes, ScriptTypes, SparesStrangers
  <2> QED
      BY <2>1, ScriptSpares, ChromeSpares, RestSpares DEF SupervisorNext, ChromeStep
<1> QED
    BY <1>1, <1>2, PTL DEF SupervisorSpec, SupervisorInv
=============================================================================
