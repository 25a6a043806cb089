---------------------------- MODULE PresetsProofs ----------------------------
(***************************************************************************)
(* Theorems about Presets, for any document, sessions, requests, waiting   *)
(* operations and faults: what is recorded is what OMP runs with, and an   *)
(* application that fails is undone.                                       *)
(***************************************************************************)
EXTENDS Presets, SequenceTheorems, TLAPS

(* --------------------------------------------------- names and the queue   *)

Switches == {"restore", "initialize"}
Applying == {"model", "thinking", "append"}
Undoing  == {"undoRoles", "undoModel", "undoThinking"}
Places   == {"begin", "roles", "done", "failed"} \cup Applying \cup Undoing

(* What a session whose latest entry is `entry` runs with.                  *)
Effective(entry) == IF entry \in {"none", "reset"} THEN "none" ELSE entry

(* A canonical name stays, and is never an alias or the word for no preset. *)
LEMMA CanonicalNames ==
  /\ \A name \in Records : Canonical(name) \in Records /\ Canonical(Canonical(name)) = Canonical(name)
  /\ \A name \in Presets : Canonical(name) = name /\ name \in Names /\ Effective(name) = name
  /\ \A name \in {"none", "reset"} : Canonical(name) = name /\ name \in Records
  /\ \A name \in Names : Effective(name) = name
BY DocumentAssumption DEF DocumentAssumption, Canonical, Records, Names, Effective

LEMMA QueueFacts ==
  ASSUME ops \in Seq(Operations)
  PROVE  /\ Len(ops) \in Nat /\ DOMAIN ops = 1 .. Len(ops)
         /\ \A i \in DOMAIN ops : ops[i] \in Operations
         /\ ops # <<>> <=> 1 \in DOMAIN ops
<1>1. Len(ops) \in Nat /\ DOMAIN ops = 1 .. Len(ops) /\ \A i \in DOMAIN ops : ops[i] \in Operations
  BY LenProperties, ElementOfSeq
<1>2. ops # <<>> => Len(ops) \in Nat \ {0}
  BY EmptySeq
<1>3. ops = <<>> => Len(ops) = 0
  BY EmptySeq
<1> QED
  BY <1>1, <1>2, <1>3

(* The operation that has its turn goes on as h.                            *)
LEMMA HeadMoves ==
  ASSUME ops \in Seq(Operations), ops # <<>>, NEW h \in Operations,
         ops' = [ops EXCEPT ![1] = h]
  PROVE  /\ ops' \in Seq(Operations) /\ ops' # <<>> /\ Len(ops') = Len(ops)
         /\ DOMAIN ops' = DOMAIN ops /\ 1 \in DOMAIN ops
         /\ ops'[1] = h /\ \A i \in DOMAIN ops : i # 1 => ops'[i] = ops[i]
<1>1. 1 \in 1 .. Len(ops) /\ DOMAIN ops = 1 .. Len(ops)
  BY QueueFacts
<1>2. /\ ops' \in Seq(Operations) /\ Len(ops') = Len(ops)
      /\ \A j \in 1 .. Len(ops) : ops'[j] = IF j = 1 THEN h ELSE ops[j]
  BY <1>1, ExceptSeq
<1>3. ops' # <<>>
  BY <1>1, <1>2, EmptySeq
<1> QED
  BY <1>1, <1>2, <1>3, LenProperties

LEMMA HeadLeaves ==
  ASSUME ops \in Seq(Operations), ops # <<>>, ops' = RemoveAt(ops, 1)
  PROVE  /\ ops' \in Seq(Operations) /\ Len(ops') = Len(ops) - 1
         /\ DOMAIN ops' = 1 .. Len(ops) - 1
         /\ \A i \in DOMAIN ops' : i + 1 \in DOMAIN ops /\ ops'[i] = ops[i + 1]
<1>1. Len(ops) \in Nat \ {0} /\ DOMAIN ops = 1 .. Len(ops) /\ \A i \in 1 .. Len(ops) : ops[i] \in Operations
  BY QueueFacts, EmptySeq
<1>2. ops' = <<>> \o SubSeq(ops, 2, Len(ops))
  <2>1. SubSeq(ops, 1, 0) = <<>>
    BY SubSeqEmpty
  <2>2. 1 - 1 = 0 /\ 1 + 1 = 2
    OBVIOUS
  <2>3. ops' = SubSeq(ops, 1, 1 - 1) \o SubSeq(ops, 1 + 1, Len(ops))
    BY DEF RemoveAt
  <2> QED
    BY <2>1, <2>2, <2>3
<1>3. /\ Tail(ops) = SubSeq(ops, 2, Len(ops)) /\ Tail(ops) \in Seq(Operations)
      /\ Len(Tail(ops)) = Len(ops) - 1
      /\ \A i \in 1 .. Len(Tail(ops)) : Tail(ops)[i] = ops[i + 1]
  BY TailIsSubSeq, HeadTailProperties
<1>4. ops' = Tail(ops)
  BY <1>2, <1>3, ConcatEmptySeq
<1>5. /\ ops' \in Seq(Operations) /\ Len(ops') = Len(ops) - 1
      /\ \A i \in 1 .. Len(ops') : ops'[i] = ops[i + 1]
  BY <1>3, <1>4
<1>6. DOMAIN ops' = 1 .. Len(ops')
  BY <1>5, LenProperties
<1>7. DOMAIN ops' = 1 .. Len(ops) - 1
  BY <1>5, <1>6
<1>8. \A i \in DOMAIN ops' : i + 1 \in DOMAIN ops
  BY <1>1, <1>7
<1> QED
  BY <1>5, <1>6, <1>7, <1>8

LEMMA TailGrows ==
  ASSUME ops \in Seq(Operations), NEW operation \in Operations, ops' = Append(ops, operation)
  PROVE  /\ ops' \in Seq(Operations) /\ Len(ops') = Len(ops) + 1 /\ ops' # <<>>
         /\ DOMAIN ops' = 1 .. Len(ops) + 1 /\ DOMAIN ops = 1 .. Len(ops)
         /\ \A i \in DOMAIN ops : ops'[i] = ops[i]
         /\ ops'[Len(ops) + 1] = operation
<1>1. Len(ops) \in Nat /\ DOMAIN ops = 1 .. Len(ops)
  BY QueueFacts
<1>2. /\ ops' \in Seq(Operations) /\ Len(ops') = Len(ops) + 1
      /\ \A i \in 1 .. Len(ops) : ops'[i] = ops[i]
      /\ ops'[Len(ops) + 1] = operation
  BY <1>1, AppendProperties
<1>3. ops' # <<>>
  BY <1>1, <1>2, EmptySeq
<1> QED
  BY <1>1, <1>2, <1>3, LenProperties

(* -------------------------------------------------------- the invariant    *)

(* The type of all but the history of the rollbacks.                         *)
StateOK ==
  /\ current \in Sessions
  /\ log \in [Sessions -> Records]
  /\ omp \in Settings
  /\ active \in Presets \cup {"none"}
  /\ ops \in Seq(Operations)
  /\ Len(ops) <= MaxWaiting
  /\ requests \in 0 .. MaxRequests
  /\ faults \in 0 .. MaxFaults
  /\ broken \in BOOLEAN

(* Only the first operation has begun.                                      *)
HeadFirst == \A i \in DOMAIN ops : i # 1 => ops[i].at = "begin"

(* How far an application is, and that the roles it may return to are those *)
(* of memory.                                                               *)
ApplyInv ==
  ops # <<>> /\ ops[1].kind \in {"apply", "initialize"} =>
    /\ ops[1].at \notin {"begin", "failed"} => Canonical(ops[1].name) \in Presets
    /\ ops[1].at \in Applying => omp.roles = Canonical(ops[1].name)
    /\ ops[1].at \in Applying \cup Undoing => ops[1].saved.roles = active
    /\ ~broken /\ ops[1].at \in {"undoModel", "undoThinking"} => omp.roles = ops[1].saved.roles
    /\ ~broken /\ ops[1].at = "failed" => ops[1].kind = "apply"

(* How far a reset or a restore is.                                         *)
OtherInv ==
  ops # <<>> /\ ops[1].kind \in {"reset", "restore"} =>
    /\ ops[1].at \in {"begin", "append", "done", "failed"}
    /\ ops[1].kind = "reset" /\ ops[1].at = "append" => omp.roles = "none"
    /\ ops[1].kind = "restore" /\ ops[1].at = "failed" => broken
    /\ ops[1].kind = "restore" /\ ops[1].at = "append" =>
         /\ ops[1].entries \in Names /\ Canonical(ops[1].entries) \in Presets
         /\ omp.roles = Canonical(ops[1].entries)

(* What a session switch asks for comes first, and then only what was asked *)
(* in the session shown; a restore in the queue has what its session's log  *)
(* says, or an alias of it.                                                 *)
SwitchesFirst ==
  \A i, j \in DOMAIN ops : i < j /\ ops[j].kind \in Switches => ops[i].kind = "restore"

InSession ==
  \A i \in DOMAIN ops :
    \/ ops[i].session = current
    \/ ops[i].kind = "restore" /\ \E j \in DOMAIN ops : i < j /\ ops[j].kind \in Switches

EntriesTrue ==
  \A i \in DOMAIN ops :
    ops[i].kind = "restore" =>
      log[ops[i].session] \in {ops[i].entries, Canonical(ops[i].entries)}

QueueInv == ~broken => SwitchesFirst /\ InSession /\ EntriesTrue

(* Between two steps of OMP's the roles are the active preset's, and once   *)
(* the session shown has had its preset restored, its log says the same.    *)
Pending == \E i \in DOMAIN ops : ops[i].kind \in Switches /\ ops[i].at # "done"

RolesTrue ==
  ~broken /\ (ops # <<>> => ops[1].at \in {"begin", "roles", "done", "failed"}) => omp.roles = active

LogTrue == ~broken /\ ~Pending => active = Effective(log[current])

IInv == StateOK /\ HeadFirst /\ ApplyInv /\ OtherInv /\ QueueInv /\ RolesTrue /\ LogTrue

(* ------------------------------------------------------------- the record  *)

LEMMA SettingsMove ==
  ASSUME omp \in Settings
  PROVE  /\ \A r \in Presets \cup {"none"} :
              /\ [omp EXCEPT !.roles = r] \in Settings /\ [omp EXCEPT !.roles = r].roles = r
              /\ [omp EXCEPT !.roles = r].model = omp.model
              /\ [omp EXCEPT !.roles = r].thinking = omp.thinking
              /\ omp.roles = r => [omp EXCEPT !.roles = r] = omp
         /\ \A m \in Presets \cup {"own"} :
              /\ [omp EXCEPT !.model = m] \in Settings /\ [omp EXCEPT !.model = m].model = m
              /\ [omp EXCEPT !.model = m].roles = omp.roles
              /\ [omp EXCEPT !.thinking = m] \in Settings /\ [omp EXCEPT !.thinking = m].thinking = m
              /\ [omp EXCEPT !.thinking = m].roles = omp.roles
              /\ [omp EXCEPT !.thinking = m].model = omp.model
              /\ [omp EXCEPT !.model = m, !.thinking = m] \in Settings
              /\ [omp EXCEPT !.model = m, !.thinking = m].roles = omp.roles
BY DEF Settings

At(o, place) == [o EXCEPT !.at = place]
AtSaved(o, place, settings) == [o EXCEPT !.at = place, !.saved = settings]
AtBefore(o, place, settings) == [o EXCEPT !.at = place, !.before = settings]

LEMMA GotoMoves ==
  \A o \in Operations, place \in Places :
    /\ At(o, place) \in Operations /\ At(o, place).at = place
    /\ At(o, place).saved = o.saved /\ At(o, place).before = o.before
    /\ At(o, place).kind = o.kind /\ At(o, place).name = o.name
    /\ At(o, place).entries = o.entries /\ At(o, place).session = o.session
BY DEF At, Operations, Places, Applying, Undoing

LEMMA SavedMoves ==
  \A o \in Operations, place \in Places, settings \in Settings :
    /\ AtSaved(o, place, settings) \in Operations /\ AtSaved(o, place, settings).at = place
    /\ AtSaved(o, place, settings).saved = settings /\ AtSaved(o, place, settings).before = o.before
    /\ AtSaved(o, place, settings).kind = o.kind /\ AtSaved(o, place, settings).name = o.name
    /\ AtSaved(o, place, settings).entries = o.entries /\ AtSaved(o, place, settings).session = o.session
<1> TAKE o \in Operations, place \in Places, settings \in Settings
<1>1. PICK h : h = AtSaved(o, place, settings)
  OBVIOUS
<1>2. h = [o EXCEPT !.at = place, !.saved = settings]
  BY <1>1 DEF AtSaved
<1>3. /\ h \in Operations /\ h.at = place /\ h.saved = settings /\ h.before = o.before
      /\ h.kind = o.kind /\ h.name = o.name /\ h.entries = o.entries /\ h.session = o.session
  BY <1>2 DEF Operations, Places, Applying, Undoing
<1> QED
  BY <1>1, <1>3

LEMMA BeforeMoves ==
  \A o \in Operations, place \in Places, settings \in Settings :
    /\ AtBefore(o, place, settings) \in Operations /\ AtBefore(o, place, settings).at = place
    /\ AtBefore(o, place, settings).before = settings
    /\ AtBefore(o, place, settings).kind = o.kind /\ AtBefore(o, place, settings).name = o.name
    /\ AtBefore(o, place, settings).entries = o.entries /\ AtBefore(o, place, settings).session = o.session
<1> TAKE o \in Operations, place \in Places, settings \in Settings
<1>1. PICK h : h = AtBefore(o, place, settings)
  OBVIOUS
<1>2. h = [o EXCEPT !.at = place, !.before = settings]
  BY <1>1 DEF AtBefore
<1>3. /\ h \in Operations /\ h.at = place /\ h.before = settings
      /\ h.kind = o.kind /\ h.name = o.name /\ h.entries = o.entries /\ h.session = o.session
  BY <1>2 DEF Operations, Places, Applying, Undoing
<1> QED
  BY <1>1, <1>3

LEMMA OperationFields ==
  ASSUME NEW o \in Operations
  PROVE  /\ o.kind \in {"apply", "reset", "initialize", "restore"} /\ o.at \in Places
         /\ o.name \in Names /\ o.entries \in Records /\ o.session \in Sessions
         /\ o.saved \in Settings /\ o.before \in Settings
BY DEF Operations, Places, Applying, Undoing

(* A step of the first operation that writes no entry.                      *)
LEMMA QueueMoves ==
  ASSUME IInv, ops # <<>>, NEW h \in Operations, ops' = [ops EXCEPT ![1] = h],
         h.kind = ops[1].kind, h.session = ops[1].session, h.entries = ops[1].entries,
         UNCHANGED <<current, log, requests>>, omp' \in Settings,
         active' \in Presets \cup {"none"}, faults' \in 0 .. MaxFaults, broken' \in BOOLEAN,
         broken => broken' \/ Mends(1)
  PROVE  StateOK' /\ HeadFirst' /\ QueueInv'
<1>1. /\ ops' \in Seq(Operations) /\ Len(ops') = Len(ops) /\ DOMAIN ops' = DOMAIN ops
      /\ 1 \in DOMAIN ops /\ ops'[1] = h /\ \A i \in DOMAIN ops : i # 1 => ops'[i] = ops[i]
  BY HeadMoves DEF IInv, StateOK
<1>2. StateOK'
  BY <1>1 DEF IInv, StateOK
<1>3. HeadFirst'
  BY <1>1 DEF IInv, HeadFirst
<1>4. \A i \in DOMAIN ops : ops'[i].kind = ops[i].kind /\ ops'[i].session = ops[i].session
                            /\ ops'[i].entries = ops[i].entries
  BY <1>1
<1>5. QueueInv'
  <2>1. CASE ~broken
    BY <1>1, <1>4, <2>1 DEF IInv, QueueInv, SwitchesFirst, InSession, EntriesTrue
  <2>2. CASE broken /\ ~broken'
    <3>1. Mends(1) /\ DOMAIN ops = {1}
      BY <2>2, QueueFacts DEF Mends, IInv, StateOK
    <3> QED
      BY <1>1, <1>4, <3>1 DEF Mends, QueueInv, SwitchesFirst, InSession, EntriesTrue
  <2>3. CASE broken'
    BY <2>3 DEF QueueInv
  <2> QED
    BY <2>1, <2>2, <2>3
<1> QED
  BY <1>2, <1>3, <1>5

(* One that writes its entry into the session shown.                        *)
LEMMA QueueWrites ==
  ASSUME IInv, ops # <<>>, NEW h \in Operations, ops' = [ops EXCEPT ![1] = h],
         h.kind = ops[1].kind, h.session = ops[1].session, h.entries = ops[1].entries,
         NEW entry \in Records, log' = [log EXCEPT ![current] = entry],
         UNCHANGED <<current, omp, requests>>,
         active' \in Presets \cup {"none"}, faults' \in 0 .. MaxFaults, broken' \in BOOLEAN,
         \/ h.kind # "restore" /\ (broken => broken' \/ Mends(1))
         \/ h.kind = "restore" /\ entry = Canonical(h.entries) /\ (broken \/ h.session # current => broken')
  PROVE  /\ StateOK' /\ HeadFirst' /\ QueueInv'
         /\ log'[current] = entry
<1>1. /\ ops' \in Seq(Operations) /\ Len(ops') = Len(ops) /\ DOMAIN ops' = DOMAIN ops
      /\ 1 \in DOMAIN ops /\ ops'[1] = h /\ \A i \in DOMAIN ops : i # 1 => ops'[i] = ops[i]
  BY HeadMoves DEF IInv, StateOK
<1>2. /\ log' \in [Sessions -> Records] /\ log'[current] = entry
      /\ \A s \in Sessions : s # current => log'[s] = log[s]
  BY DEF IInv, StateOK
<1>3. StateOK' /\ HeadFirst'
  BY <1>1, <1>2 DEF IInv, StateOK, HeadFirst
<1>4. \A i \in DOMAIN ops : ops'[i].kind = ops[i].kind /\ ops'[i].session = ops[i].session
                            /\ ops'[i].entries = ops[i].entries
  BY <1>1
<1>5. Len(ops) \in Nat /\ DOMAIN ops = 1 .. Len(ops) /\ \A i \in DOMAIN ops : ops[i] \in Operations
  BY QueueFacts DEF IInv, StateOK
<1>6. QueueInv'
  <2>1. CASE ~broken' /\ h.kind # "restore"
    <3>1. \A i \in DOMAIN ops : ops[i].kind # "restore" /\ ops[i].session = current
                                /\ (i # 1 => ops[i].kind \notin Switches)
      <4>1. CASE broken
        <5>1. Mends(1) /\ DOMAIN ops = {1}
          BY <1>5, <2>1, <4>1 DEF Mends
        <5> QED
          BY <2>1, <5>1 DEF Mends
      <4>2. CASE ~broken
        <5>1. SwitchesFirst /\ InSession
          BY <4>2 DEF IInv, QueueInv
        <5>2. \A i \in DOMAIN ops : i # 1 => 1 < i
          BY <1>5
        <5>3. \A i \in DOMAIN ops : i # 1 => ops[i].kind \notin Switches
          BY <1>1, <2>1, <5>1, <5>2 DEF SwitchesFirst
        <5> QED
          BY <2>1, <5>1, <5>3 DEF InSession, Switches
      <4> QED
        BY <4>1, <4>2
    <3> QED
      BY <1>1, <1>4, <1>5, <3>1 DEF QueueInv, SwitchesFirst, InSession, EntriesTrue
  <2>2. CASE ~broken' /\ h.kind = "restore"
    <3>1. ~broken /\ h.session = current /\ entry = Canonical(h.entries)
      BY <2>2
    <3>2. SwitchesFirst /\ InSession /\ EntriesTrue
      BY <3>1 DEF IInv, QueueInv
    <3>3. SwitchesFirst' /\ InSession'
      BY <1>1, <1>4, <3>2 DEF SwitchesFirst, InSession
    <3>4. EntriesTrue'
      <4> SUFFICES ASSUME NEW i \in DOMAIN ops, ops[i].kind = "restore"
                   PROVE  log'[ops[i].session] \in {ops[i].entries, Canonical(ops[i].entries)}
        BY <1>1, <1>4 DEF EntriesTrue
      <4>1. ops[i].session \in Sessions /\ ops[i].entries \in Records /\ h.entries \in Records
        BY <1>5, OperationFields
      <4>2. CASE ops[i].session # current
        BY <1>2, <3>2, <4>1, <4>2 DEF EntriesTrue
      <4>3. CASE ops[i].session = current
        <5>1. log[current] \in {ops[i].entries, Canonical(ops[i].entries)}
          BY <3>2, <4>3 DEF EntriesTrue
        <5>2. log[current] \in {h.entries, Canonical(h.entries)}
          BY <1>1, <2>2, <3>1, <3>2 DEF EntriesTrue
        <5>3. /\ Canonical(Canonical(ops[i].entries)) = Canonical(ops[i].entries)
              /\ Canonical(Canonical(h.entries)) = Canonical(h.entries)
          BY <4>1, CanonicalNames
        <5>4. Canonical(log[current]) = Canonical(ops[i].entries)
          BY <5>1, <5>3
        <5>5. Canonical(log[current]) = Canonical(h.entries)
          BY <5>2, <5>3
        <5> QED
          BY <1>2, <3>1, <4>3, <5>4, <5>5
      <4> QED
        BY <4>2, <4>3
    <3> QED
      BY <3>3, <3>4 DEF QueueInv
  <2>3. CASE broken'
    BY <2>3 DEF QueueInv
  <2> QED
    BY <2>1, <2>2, <2>3
<1> QED
  BY <1>2, <1>3, <1>6

LEMMA HeadFacts ==
  ASSUME IInv, ops # <<>>
  PROVE  /\ ops \in Seq(Operations) /\ 1 \in DOMAIN ops /\ ops[1] \in Operations
         /\ ops[1].kind \in {"apply", "reset", "initialize", "restore"} /\ ops[1].at \in Places
         /\ ops[1].name \in Names /\ ops[1].entries \in Records /\ ops[1].session \in Sessions
         /\ ops[1].saved \in Settings /\ ops[1].before \in Settings
         /\ omp \in Settings /\ active \in Presets \cup {"none"} /\ broken \in BOOLEAN
         /\ current \in Sessions /\ faults \in 0 .. MaxFaults
BY QueueFacts, OperationFields DEF IInv, StateOK

LEMMA FaultTypes ==
  ASSUME faults \in 0 .. MaxFaults, Works \/ Fails
  PROVE  faults' \in 0 .. MaxFaults /\ (Fails => faults' # faults)
BY BoundAssumption DEF Works, Fails

(* Another session's preset is still to be restored after the first         *)
(* operation.                                                               *)
Behind == \E i \in DOMAIN ops : i # 1 /\ ops[i].kind \in Switches

LEMMA BehindFacts ==
  ASSUME IInv, ops # <<>>
  PROVE  /\ Pending <=> Behind \/ (ops[1].kind \in Switches /\ ops[1].at # "done")
         /\ ~broken /\ ops[1].kind # "restore" => ~Behind
         /\ ~broken /\ ~Behind => ops[1].session = current
         /\ ~broken /\ ops[1].kind = "restore" =>
              log[ops[1].session] \in {ops[1].entries, Canonical(ops[1].entries)}
         /\ Mends(1) => ~Behind /\ ops[1].session = current
         /\ Mends(1) /\ ops[1].kind = "restore" => log[current] = ops[1].entries
<1>1. Len(ops) \in Nat /\ DOMAIN ops = 1 .. Len(ops) /\ 1 \in DOMAIN ops
  BY QueueFacts, HeadFacts
<1>2. Pending <=> Behind \/ (ops[1].kind \in Switches /\ ops[1].at # "done")
  BY <1>1 DEF Pending, Behind, IInv, HeadFirst
<1>3. \A i \in DOMAIN ops : i # 1 => 1 < i
  BY <1>1
<1>4. ~broken => SwitchesFirst /\ InSession /\ EntriesTrue
  BY DEF IInv, QueueInv
<1>5. Mends(1) => ~Behind
  BY <1>1 DEF Mends, Behind
<1>6. ~broken /\ ops[1].kind # "restore" => ~Behind
  BY <1>1, <1>3, <1>4 DEF SwitchesFirst, Behind
<1>7. ~broken /\ ~Behind => ops[1].session = current
  BY <1>1, <1>4 DEF InSession, Behind
<1>8. ~broken /\ ops[1].kind = "restore" =>
        log[ops[1].session] \in {ops[1].entries, Canonical(ops[1].entries)}
  BY <1>1, <1>4 DEF EntriesTrue
<1> QED
  BY <1>2, <1>5, <1>6, <1>7, <1>8 DEF Mends

LEMMA PendingMoves ==
  ASSUME IInv, ops # <<>>, NEW h \in Operations, ops' = [ops EXCEPT ![1] = h]
  PROVE  /\ ops'[1] = h /\ ops' # <<>>
         /\ Pending' <=> Behind \/ (h.kind \in Switches /\ h.at # "done")
<1>1. /\ ops' # <<>> /\ DOMAIN ops' = DOMAIN ops
      /\ 1 \in DOMAIN ops /\ ops'[1] = h /\ \A i \in DOMAIN ops : i # 1 => ops'[i] = ops[i]
  BY HeadMoves, HeadFacts
<1> QED
  BY <1>1 DEF Pending, Behind, IInv, HeadFirst

(* ------------------------------------------------- the steps of an         *)
(* application.                                                             *)

LEMMA ValidatedHolds == ASSUME IInv, ops # <<>>, Validated(1) PROVE IInv'
<1>1. PICK place \in {"roles", "failed"} :
        /\ place = "roles" => Canonical(ops[1].name) \in Presets
        /\ Works \/ Fails
        /\ ops' = [ops EXCEPT ![1].at = place, ![1].before = omp]
        /\ broken' = (broken \/ (place = "failed" /\ ops[1].kind = "initialize"))
  BY DEF Validated
<1> DEFINE h == AtBefore(ops[1], place, omp)
<1>2. place \in Places
  BY DEF Places
<1>3. /\ h \in Operations /\ h.at = place /\ h.before = omp
      /\ h.kind = ops[1].kind /\ h.name = ops[1].name /\ h.entries = ops[1].entries
      /\ h.session = ops[1].session
  BY <1>2, HeadFacts, BeforeMoves
<1>4. ops' = [ops EXCEPT ![1] = h]
  BY <1>1 DEF AtBefore
<1> HIDE DEF h
<1>5. /\ ops[1].at = "begin" /\ ops[1].kind \in {"apply", "initialize"}
      /\ UNCHANGED <<current, log, omp, active, requests>>
  BY DEF Validated
<1>6. faults' \in 0 .. MaxFaults
  BY <1>1, FaultTypes, HeadFacts
<1>7. StateOK' /\ HeadFirst' /\ QueueInv'
  BY <1>1, <1>3, <1>4, <1>5, <1>6, HeadFacts, QueueMoves
<1>8. ops'[1] = h /\ ops' # <<>> /\ (Pending' <=> Behind \/ (h.kind \in Switches /\ h.at # "done"))
  BY <1>3, <1>4, PendingMoves
<1>9. ApplyInv' /\ OtherInv'
  BY <1>1, <1>3, <1>5, <1>8 DEF ApplyInv, OtherInv, Applying, Undoing
<1>10. RolesTrue' /\ LogTrue'
  BY <1>1, <1>3, <1>5, <1>8, BehindFacts DEF IInv, RolesTrue, LogTrue
<1> QED
  BY <1>7, <1>9, <1>10 DEF IInv

LEMMA ReplaceRolesHolds == ASSUME IInv, ops # <<>>, ReplaceRoles(1) PROVE IInv'
<1>1. PICK ok \in BOOLEAN :
        /\ Works \/ Fails
        /\ omp' = IF ok THEN [omp EXCEPT !.roles = Canonical(ops[1].name)] ELSE omp
        /\ ops' = [ops EXCEPT ![1].at = IF ok THEN "model" ELSE "undoRoles",
                              ![1].saved = [omp EXCEPT !.roles = active]]
  BY DEF ReplaceRoles
<1> DEFINE place == IF ok THEN "model" ELSE "undoRoles"
           saved == [omp EXCEPT !.roles = active]
           h == AtSaved(ops[1], place, saved)
<1>2. place \in Places /\ place = IF ok THEN "model" ELSE "undoRoles"
  BY DEF Places, Applying, Undoing
<1>3. saved \in Settings /\ saved.roles = active /\ (omp.roles = active => saved = omp)
  BY HeadFacts, SettingsMove
<1>4. ops' = [ops EXCEPT ![1] = h]
  BY <1>1 DEF AtSaved
<1> HIDE DEF place, saved
<1>5. /\ h \in Operations /\ h.at = place /\ h.saved = saved /\ h.before = ops[1].before
      /\ h.kind = ops[1].kind /\ h.name = ops[1].name /\ h.entries = ops[1].entries
      /\ h.session = ops[1].session
  BY <1>2, <1>3, HeadFacts, SavedMoves
<1> HIDE DEF h
<1>6. ops[1].at = "roles" /\ UNCHANGED <<current, log, active, requests, broken>>
  BY DEF ReplaceRoles
<1>7. ops[1].kind \in {"apply", "initialize"} /\ Canonical(ops[1].name) \in Presets
  BY <1>6, HeadFacts DEF IInv, ApplyInv, OtherInv
<1>8. omp' \in Settings /\ (ok => omp'.roles = Canonical(ops[1].name))
  BY <1>1, <1>7, HeadFacts, SettingsMove
<1>9. faults' \in 0 .. MaxFaults
  BY <1>1, FaultTypes, HeadFacts
<1>10. StateOK' /\ HeadFirst' /\ QueueInv'
  BY <1>4, <1>5, <1>6, <1>8, <1>9, HeadFacts, QueueMoves
<1>11. ops'[1] = h /\ ops' # <<>> /\ (Pending' <=> Behind \/ (h.kind \in Switches /\ h.at # "done"))
  BY <1>4, <1>5, PendingMoves
<1>12. ApplyInv' /\ OtherInv'
  BY <1>2, <1>3, <1>5, <1>6, <1>7, <1>8, <1>11 DEF ApplyInv, OtherInv, Applying, Undoing
<1>13. RolesTrue' /\ LogTrue'
  BY <1>2, <1>5, <1>6, <1>11, BehindFacts DEF IInv, RolesTrue, LogTrue
<1> QED
  BY <1>10, <1>12, <1>13 DEF IInv

(* What a call into OMP leaves: the settings it makes, or those before it.  *)
LEMMA CallMoves ==
  ASSUME IInv, ops # <<>>, NEW place, NEW settings \in Settings, NEW next \in Places, NEW otherwise \in Places,
         Call(1, place, settings, next, otherwise), broken' \in BOOLEAN, broken => broken'
  PROVE  \E h \in Operations :
           /\ h.saved = ops[1].saved /\ h.before = ops[1].before
           /\ h.kind = ops[1].kind /\ h.name = ops[1].name /\ h.entries = ops[1].entries
           /\ \/ h.at = next /\ omp' = settings /\ faults' = faults
              \/ h.at = otherwise /\ omp' = omp /\ faults' # faults
           /\ ops'[1] = h /\ ops' # <<>>
           /\ Pending' <=> Behind \/ (h.kind \in Switches /\ h.at # "done")
           /\ UNCHANGED <<current, log, active, requests>>
           /\ StateOK' /\ HeadFirst' /\ QueueInv'
<1>1. PICK to \in {next, otherwise} :
        /\ \/ to = next /\ omp' = settings /\ Works
           \/ to = otherwise /\ omp' = omp /\ Fails
        /\ ops' = [ops EXCEPT ![1].at = to]
  BY DEF Call, Goto
<1> DEFINE h == At(ops[1], to)
<1>2. /\ h \in Operations /\ h.at = to /\ h.saved = ops[1].saved /\ h.before = ops[1].before
      /\ h.kind = ops[1].kind /\ h.name = ops[1].name /\ h.entries = ops[1].entries
      /\ h.session = ops[1].session
  BY HeadFacts, GotoMoves
<1>3. ops' = [ops EXCEPT ![1] = h]
  BY <1>1 DEF At
<1> HIDE DEF h
<1>4. UNCHANGED <<current, log, active, requests>>
  BY DEF Call
<1>5. /\ faults' \in 0 .. MaxFaults
      /\ \/ to = next /\ omp' = settings /\ faults' = faults
         \/ to = otherwise /\ omp' = omp /\ faults' # faults
  BY <1>1, FaultTypes, HeadFacts DEF Works
<1>6. StateOK' /\ HeadFirst' /\ QueueInv'
  BY <1>2, <1>3, <1>4, <1>5, HeadFacts, QueueMoves
<1>7. ops'[1] = h /\ ops' # <<>> /\ (Pending' <=> Behind \/ (h.kind \in Switches /\ h.at # "done"))
  BY <1>2, <1>3, PendingMoves
<1> QED
  BY <1>2, <1>4, <1>5, <1>6, <1>7

LEMMA SetHolds == ASSUME IInv, ops # <<>>, SetModel(1) \/ SetThinking(1) PROVE IInv'
<1>1. ops[1].at \in {"model", "thinking"} /\ broken' = broken
  BY DEF SetModel, SetThinking, Call
<1>2. ops[1].kind \in {"apply", "initialize"} /\ Canonical(ops[1].name) \in Presets
  BY <1>1, HeadFacts DEF IInv, ApplyInv, OtherInv
<1>3. PICK settings \in Settings, next \in {"thinking", "append"} :
        settings.roles = omp.roles /\ Call(1, ops[1].at, settings, next, "undoRoles")
  <2>1. CASE SetModel(1)
    BY <1>2, <2>1, HeadFacts, SettingsMove DEF SetModel, Call
  <2>2. CASE SetThinking(1)
    BY <1>2, <2>2, HeadFacts, SettingsMove DEF SetThinking, Call
  <2> QED
    BY <2>1, <2>2
<1>4. next \in Places /\ "undoRoles" \in Places
  BY DEF Places, Applying, Undoing
<1>5. PICK h \in Operations :
        /\ h.saved = ops[1].saved /\ h.before = ops[1].before
        /\ h.kind = ops[1].kind /\ h.name = ops[1].name
        /\ \/ h.at = next /\ omp' = settings
           \/ h.at = "undoRoles" /\ omp' = omp
        /\ ops'[1] = h /\ ops' # <<>>
        /\ Pending' <=> Behind \/ (h.kind \in Switches /\ h.at # "done")
        /\ UNCHANGED <<current, log, active, requests>>
        /\ StateOK' /\ HeadFirst' /\ QueueInv'
  BY <1>1, <1>3, <1>4, HeadFacts, CallMoves
<1>6. ops[1].saved.roles = active /\ omp.roles = Canonical(ops[1].name)
  BY <1>1, <1>2 DEF IInv, ApplyInv, Applying
<1>7. ApplyInv' /\ OtherInv'
  BY <1>1, <1>2, <1>3, <1>5, <1>6 DEF ApplyInv, OtherInv, Applying, Undoing
<1>8. RolesTrue' /\ LogTrue'
  BY <1>1, <1>5, BehindFacts DEF IInv, RolesTrue, LogTrue
<1> QED
  BY <1>5, <1>7, <1>8 DEF IInv

LEMMA UndoHolds == ASSUME IInv, ops # <<>>, RestoreRoles(1) \/ RestoreModel(1) PROVE IInv'
<1>1. ops[1].at \in {"undoRoles", "undoModel"} /\ broken' = (broken \/ faults' # faults)
  BY DEF RestoreRoles, RestoreModel, Call
<1>2. ops[1].kind \in {"apply", "initialize"} /\ Canonical(ops[1].name) \in Presets
  BY <1>1, HeadFacts DEF IInv, ApplyInv, OtherInv
<1>3. /\ ops[1].saved.roles \in Presets \cup {"none"} /\ ops[1].saved.model \in Presets \cup {"own"}
  BY HeadFacts DEF Settings
<1>4. PICK settings \in Settings, next \in {"undoModel", "undoThinking"} :
        /\ Call(1, ops[1].at, settings, next, next)
        /\ ops[1].at = "undoRoles" => next = "undoModel" /\ settings.roles = ops[1].saved.roles
        /\ ops[1].at = "undoModel" => /\ next = "undoThinking" /\ settings.roles = omp.roles
                                     /\ settings.model = ops[1].saved.model
  <2>1. CASE RestoreRoles(1)
    BY <1>3, <2>1, HeadFacts, SettingsMove DEF RestoreRoles, Call
  <2>2. CASE RestoreModel(1)
    BY <1>3, <2>2, HeadFacts, SettingsMove DEF RestoreModel, Call
  <2> QED
    BY <2>1, <2>2
<1>5. next \in Places
  BY DEF Places, Undoing
<1>6. PICK h \in Operations :
        /\ h.saved = ops[1].saved /\ h.before = ops[1].before
        /\ h.kind = ops[1].kind /\ h.name = ops[1].name /\ h.at = next
        /\ faults' = faults => omp' = settings
        /\ ops'[1] = h /\ ops' # <<>>
        /\ Pending' <=> Behind \/ (h.kind \in Switches /\ h.at # "done")
        /\ UNCHANGED <<current, log, active, requests>>
        /\ StateOK' /\ HeadFirst' /\ QueueInv'
  BY <1>1, <1>4, <1>5, HeadFacts, CallMoves
<1>7. /\ ops[1].saved.roles = active
      /\ ~broken /\ ops[1].at = "undoModel" => omp.roles = ops[1].saved.roles
  BY <1>1, <1>2 DEF IInv, ApplyInv, Undoing
<1>8. ApplyInv' /\ OtherInv'
  BY <1>1, <1>2, <1>4, <1>6, <1>7 DEF ApplyInv, OtherInv, Applying, Undoing
<1>9. RolesTrue' /\ LogTrue'
  BY <1>1, <1>6, BehindFacts DEF IInv, RolesTrue, LogTrue
<1> QED
  BY <1>6, <1>8, <1>9 DEF IInv

LEMMA RestoreThinkingHolds == ASSUME IInv, ops # <<>>, RestoreThinking(1) PROVE IInv'
<1>1. /\ ops[1].at = "undoThinking" /\ active' = ops[1].saved.roles
      /\ broken' = (broken \/ faults' # faults \/ ops[1].kind = "initialize")
      /\ ops' = [ops EXCEPT ![1].at = "failed"]
      /\ UNCHANGED <<current, log, requests>>
      /\ \/ Works /\ omp' = [omp EXCEPT !.thinking = ops[1].saved.thinking]
         \/ Fails /\ UNCHANGED omp
  BY DEF RestoreThinking, Goto
<1>2. ops[1].kind \in {"apply", "initialize"}
  BY <1>1, HeadFacts DEF IInv, OtherInv
<1>3. /\ ops[1].saved.roles = active /\ active' = active
      /\ ~broken => omp.roles = ops[1].saved.roles
  BY <1>1, <1>2 DEF IInv, ApplyInv, Undoing
<1>4. ops[1].saved.thinking \in Presets \cup {"own"}
  BY HeadFacts DEF Settings
<1>5. /\ faults' \in 0 .. MaxFaults
      /\ omp' \in Settings
      /\ faults' = faults => /\ omp'.thinking = ops[1].saved.thinking
                            /\ omp'.roles = omp.roles /\ omp'.model = omp.model
  BY <1>1, <1>4, HeadFacts, SettingsMove, FaultTypes
<1> DEFINE h == At(ops[1], "failed")
<1>6. /\ h \in Operations /\ h.at = "failed" /\ h.saved = ops[1].saved /\ h.before = ops[1].before
      /\ h.kind = ops[1].kind /\ h.name = ops[1].name /\ h.entries = ops[1].entries
      /\ h.session = ops[1].session
  BY HeadFacts, GotoMoves DEF Places
<1>7. ops' = [ops EXCEPT ![1] = h]
  BY <1>1 DEF At
<1> HIDE DEF h
<1>8. StateOK' /\ HeadFirst' /\ QueueInv'
  BY <1>1, <1>3, <1>5, <1>6, <1>7, HeadFacts, QueueMoves
<1>9. ops'[1] = h /\ ops' # <<>> /\ (Pending' <=> Behind \/ (h.kind \in Switches /\ h.at # "done"))
  BY <1>6, <1>7, PendingMoves
<1>10. ApplyInv' /\ OtherInv'
  BY <1>1, <1>2, <1>6, <1>9 DEF ApplyInv, OtherInv, Applying, Undoing
<1>11. RolesTrue' /\ LogTrue'
  BY <1>1, <1>2, <1>3, <1>5, <1>6, <1>9, BehindFacts DEF IInv, RolesTrue, LogTrue
<1> QED
  BY <1>8, <1>10, <1>11 DEF IInv

(* ---------------------------------------------------- what is written      *)

(* The first operation writes its entry and is done, or it fails.           *)
LEMMA EntryMoves ==
  ASSUME IInv, ops # <<>>, NEW entry \in Records, AppendState(entry),
         UNCHANGED <<current, omp, requests>>, active' \in Presets \cup {"none"}, broken' \in BOOLEAN,
         NEW otherwise \in Places,
         Goto(1, IF faults' = faults THEN "done" ELSE otherwise),
         faults' # faults => (broken => broken'),
         faults' = faults =>
           \/ ops[1].kind # "restore" /\ (broken => broken' \/ Mends(1))
           \/ /\ ops[1].kind = "restore" /\ entry = Canonical(ops[1].entries)
              /\ broken \/ ops[1].session # current => broken'
  PROVE  \E h \in Operations :
           /\ h.saved = ops[1].saved /\ h.before = ops[1].before
           /\ h.kind = ops[1].kind /\ h.name = ops[1].name /\ h.entries = ops[1].entries
           /\ \/ h.at = "done" /\ faults' = faults /\ log'[current] = entry
              \/ h.at = otherwise /\ faults' # faults /\ log' = log
           /\ ops'[1] = h /\ ops' # <<>>
           /\ Pending' <=> Behind \/ (h.kind \in Switches /\ h.at # "done")
           /\ StateOK' /\ HeadFirst' /\ QueueInv'
<1> DEFINE to == IF faults' = faults THEN "done" ELSE otherwise
           h == At(ops[1], to)
<1>1. to \in Places
  BY DEF Places
<1>2. /\ h \in Operations /\ h.at = to /\ h.saved = ops[1].saved /\ h.before = ops[1].before
      /\ h.kind = ops[1].kind /\ h.name = ops[1].name /\ h.entries = ops[1].entries
      /\ h.session = ops[1].session
  BY <1>1, HeadFacts, GotoMoves
<1>3. ops' = [ops EXCEPT ![1] = h]
  BY DEF Goto, At
<1> HIDE DEF h
<1>4. ops'[1] = h /\ ops' # <<>> /\ (Pending' <=> Behind \/ (h.kind \in Switches /\ h.at # "done"))
  BY <1>2, <1>3, PendingMoves
<1>5. CASE faults' = faults
  <2>1. log' = [log EXCEPT ![current] = entry] /\ faults' \in 0 .. MaxFaults
    BY <1>5, HeadFacts, FaultTypes DEF AppendState
  <2>2. StateOK' /\ HeadFirst' /\ QueueInv' /\ log'[current] = entry
    BY <1>2, <1>3, <1>5, <2>1, QueueWrites
  <2> QED
    BY <1>2, <1>4, <1>5, <2>2
<1>6. CASE faults' # faults
  <2>1. log' = log /\ faults' \in 0 .. MaxFaults
    BY <1>6, HeadFacts, FaultTypes DEF AppendState, Works
  <2>2. StateOK' /\ HeadFirst' /\ QueueInv'
    BY <1>2, <1>3, <1>6, <2>1, HeadFacts, QueueMoves
  <2> QED
    BY <1>2, <1>4, <1>6, <2>1, <2>2
<1> QED
  BY <1>5, <1>6

LEMMA RecordHolds == ASSUME IInv, ops # <<>>, Record(1) PROVE IInv'
<1> DEFINE name == Canonical(ops[1].name)
<1>1. /\ ops[1].at = "append" /\ ops[1].kind \in {"apply", "initialize"}
      /\ AppendState(name) /\ UNCHANGED <<current, omp, requests>>
      /\ faults' = faults => active' = name /\ broken' = (broken /\ ~Mends(1))
      /\ faults' # faults => active' = active /\ broken' = broken
      /\ Goto(1, IF faults' = faults THEN "done" ELSE "undoRoles")
  BY DEF Record
<1>2. /\ name \in Presets /\ name \in Records /\ Effective(name) = name
      /\ omp.roles = name /\ ops[1].saved.roles = active
  <2>1. name \in Presets /\ omp.roles = name /\ ops[1].saved.roles = active
    BY <1>1 DEF IInv, ApplyInv, Applying
  <2> QED
    BY <2>1, CanonicalNames DEF Records
<1>3. active' \in Presets \cup {"none"} /\ broken' \in BOOLEAN /\ "undoRoles" \in Places
  BY <1>1, <1>2, HeadFacts DEF Places, Undoing
<1> HIDE DEF name
<1>4. PICK h \in Operations :
           /\ h.saved = ops[1].saved /\ h.before = ops[1].before
           /\ h.kind = ops[1].kind /\ h.name = ops[1].name
           /\ \/ h.at = "done" /\ faults' = faults /\ log'[current] = name
              \/ h.at = "undoRoles" /\ faults' # faults /\ log' = log
           /\ ops'[1] = h /\ ops' # <<>>
           /\ Pending' <=> Behind \/ (h.kind \in Switches /\ h.at # "done")
           /\ StateOK' /\ HeadFirst' /\ QueueInv'
  <2>1. ops[1].kind # "restore" /\ (faults' # faults => (broken => broken'))
        /\ (faults' = faults => (broken => broken' \/ Mends(1)))
    BY <1>1, HeadFacts DEF Mends
  <2> QED
    BY <1>1, <1>2, <1>3, <2>1, EntryMoves
<1>5. ApplyInv' /\ OtherInv'
  BY <1>1, <1>2, <1>4 DEF ApplyInv, OtherInv, Applying, Undoing, name
<1>6. RolesTrue' /\ LogTrue'
  BY <1>1, <1>2, <1>4, BehindFacts DEF IInv, RolesTrue, LogTrue
<1> QED
  BY <1>4, <1>5, <1>6 DEF IInv

LEMMA RecordResetHolds == ASSUME IInv, ops # <<>>, RecordReset(1) PROVE IInv'
<1>1. /\ ops[1].at = "append" /\ ops[1].kind = "reset"
      /\ AppendState("reset") /\ UNCHANGED <<current, omp, requests>>
      /\ faults' = faults => active' = "none" /\ broken' = (broken /\ ~Mends(1))
      /\ faults' # faults => active' = active /\ broken' = TRUE
      /\ Goto(1, IF faults' = faults THEN "done" ELSE "failed")
  BY DEF RecordReset
<1>2. omp.roles = "none"
  BY <1>1 DEF IInv, OtherInv
<1>3. /\ active' \in Presets \cup {"none"} /\ broken' \in BOOLEAN /\ "failed" \in Places
      /\ "reset" \in Records /\ Effective("reset") = "none"
  BY <1>1, HeadFacts DEF Places, Records, Effective
<1>4. PICK h \in Operations :
           /\ h.kind = "reset"
           /\ \/ h.at = "done" /\ faults' = faults /\ log'[current] = "reset"
              \/ h.at = "failed" /\ faults' # faults /\ log' = log
           /\ ops'[1] = h /\ ops' # <<>>
           /\ StateOK' /\ HeadFirst' /\ QueueInv'
  <2>1. ops[1].kind # "restore" /\ (faults' # faults => (broken => broken'))
        /\ (faults' = faults => (broken => broken' \/ Mends(1)))
    BY <1>1, HeadFacts DEF Mends
  <2> QED
    BY <1>1, <1>3, <2>1, EntryMoves
<1>5. ApplyInv' /\ OtherInv'
  BY <1>4 DEF ApplyInv, OtherInv
<1>6. RolesTrue' /\ LogTrue'
  BY <1>1, <1>2, <1>3, <1>4 DEF RolesTrue, LogTrue
<1> QED
  BY <1>4, <1>5, <1>6 DEF IInv

LEMMA RewriteAliasHolds == ASSUME IInv, ops # <<>>, RewriteAlias(1) PROVE IInv'
<1> DEFINE name == Canonical(ops[1].entries)
<1>1. /\ ops[1].at = "append" /\ ops[1].kind = "restore"
      /\ AppendState(name) /\ UNCHANGED <<current, omp, requests>>
      /\ faults' = faults => active' = name /\ broken' = (broken \/ ops[1].session # current)
      /\ faults' # faults => active' = active /\ broken' = TRUE
      /\ Goto(1, IF faults' = faults THEN "done" ELSE "failed")
  BY DEF RewriteAlias
<1>2. name \in Presets /\ name \in Records /\ Effective(name) = name /\ omp.roles = name
  <2>1. name \in Presets /\ omp.roles = name
    BY <1>1 DEF IInv, OtherInv
  <2> QED
    BY <2>1, CanonicalNames DEF Records
<1>3. name = Canonical(ops[1].entries)
  OBVIOUS
<1> HIDE DEF name
<1>4. active' \in Presets \cup {"none"} /\ broken' \in BOOLEAN /\ "failed" \in Places
  BY <1>1, <1>2, HeadFacts DEF Places
<1>5. PICK h \in Operations :
           /\ h.kind = "restore"
           /\ \/ h.at = "done" /\ faults' = faults /\ log'[current] = name
              \/ h.at = "failed" /\ faults' # faults /\ log' = log
           /\ ops'[1] = h /\ ops' # <<>>
           /\ StateOK' /\ HeadFirst' /\ QueueInv'
  <2>1. /\ faults' # faults => (broken => broken')
        /\ faults' = faults => (broken \/ ops[1].session # current => broken')
    BY <1>1, HeadFacts
  <2> QED
    BY <1>1, <1>2, <1>3, <1>4, <2>1, EntryMoves
<1>6. ApplyInv' /\ OtherInv'
  BY <1>1, <1>5 DEF ApplyInv, OtherInv
<1>7. RolesTrue' /\ LogTrue'
  BY <1>1, <1>2, <1>5 DEF RolesTrue, LogTrue
<1> QED
  BY <1>5, <1>6, <1>7 DEF IInv

(* ---------------------------------------------------- reset and restore    *)

LEMMA ClearRolesHolds == ASSUME IInv, ops # <<>>, ClearRoles(1) PROVE IInv'
<1> DEFINE forget == ops[1].kind = "restore" /\ ops[1].entries \in {"none", "reset"}
           needed == ops[1].entries = "reset" \/ active # "none"
<1>1. /\ ops[1].at = "begin" /\ (ops[1].kind = "reset" \/ forget)
      /\ UNCHANGED <<current, log, requests>>
  BY DEF ClearRoles
<1>2. PICK place \in {"done", "append", "failed"} :
        /\ ops' = [ops EXCEPT ![1].at = place]
        /\ place = "failed" => /\ Fails /\ omp' = omp /\ active' = active
                               /\ broken' = (broken \/ forget)
        /\ place # "failed" =>
             /\ Works /\ (place = "done" <=> forget)
             /\ omp' = IF forget /\ ~needed THEN omp ELSE [omp EXCEPT !.roles = "none"]
             /\ active' = IF forget THEN "none" ELSE active
             /\ broken' = (broken /\ ~(forget /\ needed /\ Mends(1)))
  <2>1. CASE ops' = [ops EXCEPT ![1].at = "failed"] /\ Fails /\ omp' = omp /\ active' = active
             /\ broken' = (broken \/ forget)
    BY <2>1
  <2>2. CASE /\ Works
             /\ omp' = IF forget /\ ~needed THEN omp ELSE [omp EXCEPT !.roles = "none"]
             /\ active' = IF forget THEN "none" ELSE active
             /\ ops' = [ops EXCEPT ![1].at = IF forget THEN "done" ELSE "append"]
             /\ broken' = (broken /\ ~(forget /\ needed /\ Mends(1)))
    <3>1. CASE forget
      BY <2>2, <3>1
    <3>2. CASE ~forget
      BY <2>2, <3>2
    <3> QED
      BY <3>1, <3>2
  <2> QED
    BY <2>1, <2>2 DEF ClearRoles, Goto
<1>3. place \in Places
  BY DEF Places, Applying
<1> DEFINE h == At(ops[1], place)
<1>4. /\ h \in Operations /\ h.at = place
      /\ h.kind = ops[1].kind /\ h.name = ops[1].name /\ h.entries = ops[1].entries
      /\ h.session = ops[1].session
  BY <1>3, HeadFacts, GotoMoves
<1>5. ops' = [ops EXCEPT ![1] = h]
  BY <1>2 DEF At
<1> HIDE DEF h
<1>6. /\ faults' \in 0 .. MaxFaults /\ omp' \in Settings
      /\ place = "append" \/ (place = "done" /\ needed) => omp'.roles = "none"
      /\ place = "done" /\ ~needed => omp' = omp /\ active = "none"
      /\ active' \in Presets \cup {"none"}
  <2>1. faults' \in 0 .. MaxFaults
    BY <1>2, HeadFacts, FaultTypes
  <2>2. PICK cleared \in Settings : cleared = [omp EXCEPT !.roles = "none"] /\ cleared.roles = "none"
    BY HeadFacts, SettingsMove
  <2>3. omp' \in {omp, cleared} /\ (place = "append" \/ (place = "done" /\ needed) => omp' = cleared)
    BY <1>2, <2>2
  <2>4. place = "done" /\ ~needed => omp' = omp /\ active = "none"
    BY <1>2
  <2>5. active' \in Presets \cup {"none"}
    BY <1>2, HeadFacts
  <2> QED
    BY <2>1, <2>2, <2>3, <2>4, <2>5, HeadFacts
<1>7. /\ broken' \in BOOLEAN /\ (broken => broken' \/ Mends(1))
      /\ broken /\ ~broken' => Mends(1) /\ place = "done" /\ needed
      /\ place = "failed" /\ ops[1].kind = "restore" => broken'
  BY <1>1, <1>2, HeadFacts DEF Mends
<1>8. StateOK' /\ HeadFirst' /\ QueueInv'
  BY <1>1, <1>4, <1>5, <1>6, <1>7, QueueMoves
<1>9. ops'[1] = h /\ ops' # <<>> /\ (Pending' <=> Behind \/ (h.kind \in Switches /\ h.at # "done"))
  BY <1>4, <1>5, PendingMoves
<1>10. ApplyInv' /\ OtherInv'
  BY <1>1, <1>2, <1>4, <1>6, <1>7, <1>9 DEF ApplyInv, OtherInv
<1>11. ~broken => omp.roles = active
  BY <1>1 DEF IInv, RolesTrue
<1>12. CASE place = "done"
  <2>1. forget /\ active' = "none"
    BY <1>2, <1>12
  <2>2. RolesTrue'
    BY <1>6, <1>7, <1>11, <1>12, <2>1 DEF RolesTrue
  <2>3. ~broken' /\ ~Behind => log[current] \in {"none", "reset"}
    <3>1. Canonical(ops[1].entries) = ops[1].entries
      BY <2>1, CanonicalNames
    <3> QED
      BY <1>7, <2>1, <3>1, BehindFacts
  <2>4. LogTrue'
    BY <1>1, <1>9, <2>1, <2>3 DEF LogTrue, Effective
  <2> QED
    BY <1>8, <1>10, <2>2, <2>4 DEF IInv
<1>13. CASE place # "done"
  <2>1. RolesTrue'
    BY <1>2, <1>4, <1>7, <1>9, <1>11, <1>13 DEF RolesTrue
  <2>2. active' = active /\ (~broken' => ~broken)
    BY <1>2, <1>7, <1>13
  <2>3. LogTrue'
    BY <1>1, <1>4, <1>9, <1>13, <2>2, BehindFacts DEF IInv, LogTrue
  <2> QED
    BY <1>8, <1>10, <2>1, <2>3 DEF IInv
<1> QED
  BY <1>12, <1>13

LEMMA RestorePresetHolds == ASSUME IInv, ops # <<>>, RestorePreset(1) PROVE IInv'
<1> DEFINE name == Canonical(ops[1].entries)
<1>1. /\ ops[1].at = "begin" /\ ops[1].kind = "restore" /\ ops[1].entries \in Names
      /\ UNCHANGED <<current, log, requests>>
  BY DEF RestorePreset
<1>2. PICK place \in {"done", "append", "failed"} :
        /\ ops' = [ops EXCEPT ![1].at = place]
        /\ place = "failed" => (Works \/ Fails) /\ omp' = omp /\ active' = active /\ broken' = TRUE
        /\ place # "failed" =>
             /\ name \in Presets /\ Works /\ (place = "done" <=> name = ops[1].entries)
             /\ omp' = [omp EXCEPT !.roles = name]
             /\ active' = IF place = "done" THEN name ELSE active
             /\ broken' = (broken /\ ~(place = "done" /\ Mends(1)))
  <2>1. CASE /\ ops' = [ops EXCEPT ![1].at = "failed"] /\ broken' = TRUE
             /\ (Works \/ Fails) /\ omp' = omp /\ active' = active
    BY <2>1
  <2>2. CASE /\ name \in Presets /\ Works
             /\ omp' = [omp EXCEPT !.roles = name]
             /\ name # ops[1].entries
             /\ ops' = [ops EXCEPT ![1].at = "append"] /\ active' = active
             /\ broken' = (broken /\ ~(name = ops[1].entries /\ Mends(1)))
    BY <2>2
  <2>3. CASE /\ name \in Presets /\ Works
             /\ omp' = [omp EXCEPT !.roles = name]
             /\ name = ops[1].entries
             /\ ops' = [ops EXCEPT ![1].at = "done"] /\ active' = name
             /\ broken' = (broken /\ ~(name = ops[1].entries /\ Mends(1)))
    BY <2>3
  <2> QED
    BY <2>1, <2>2, <2>3 DEF RestorePreset, Goto
<1>3. place \in Places
  BY DEF Places, Applying
<1>4. /\ name \in Presets => Effective(name) = name
      /\ name = Canonical(ops[1].entries)
  BY CanonicalNames
<1> HIDE DEF name
<1> DEFINE h == At(ops[1], place)
<1>5. /\ h \in Operations /\ h.at = place
      /\ h.kind = ops[1].kind /\ h.name = ops[1].name /\ h.entries = ops[1].entries
      /\ h.session = ops[1].session
  BY <1>3, HeadFacts, GotoMoves
<1>6. ops' = [ops EXCEPT ![1] = h]
  BY <1>2 DEF At
<1> HIDE DEF h
<1>7. faults' \in 0 .. MaxFaults
  BY <1>2, HeadFacts, FaultTypes
<1>8. /\ omp' \in Settings /\ active' \in Presets \cup {"none"}
      /\ place # "failed" => omp'.roles = name
  <2>1. CASE place = "failed"
    BY <1>2, <2>1, HeadFacts
  <2>2. CASE place # "failed"
    <3>1. name \in Presets /\ omp' = [omp EXCEPT !.roles = name] /\ active' \in {name, active}
      BY <1>2, <2>2
    <3>2. omp' \in Settings /\ omp'.roles = name
      BY <3>1, HeadFacts, SettingsMove
    <3> QED
      BY <3>1, <3>2, HeadFacts
  <2> QED
    BY <2>1, <2>2
<1>9. /\ broken' \in BOOLEAN /\ (broken => broken' \/ Mends(1))
      /\ broken /\ ~broken' => Mends(1) /\ place = "done"
      /\ place = "failed" => broken'
  BY <1>2, HeadFacts DEF Mends
<1>10. StateOK' /\ HeadFirst' /\ QueueInv'
  BY <1>1, <1>5, <1>6, <1>7, <1>8, <1>9, QueueMoves
<1>11. ops'[1] = h /\ ops' # <<>> /\ (Pending' <=> Behind \/ (h.kind \in Switches /\ h.at # "done"))
  BY <1>5, <1>6, PendingMoves
<1>12. ApplyInv' /\ OtherInv'
  BY <1>1, <1>2, <1>4, <1>5, <1>8, <1>9, <1>11 DEF ApplyInv, OtherInv
<1>13. RolesTrue'
  BY <1>2, <1>5, <1>8, <1>9, <1>11 DEF RolesTrue
<1>14. LogTrue'
  <2> SUFFICES ASSUME ~broken', ~Pending' PROVE active' = Effective(log'[current'])
    BY DEF LogTrue
  <2>1. place = "done" /\ ~Behind /\ active' = name /\ name = ops[1].entries /\ name \in Presets
    BY <1>1, <1>2, <1>5, <1>9, <1>11 DEF Switches
  <2>2. log[current] = name
    BY <1>1, <1>4, <1>9, <2>1, BehindFacts
  <2> QED
    BY <1>1, <1>4, <2>1, <2>2
<1> QED
  BY <1>10, <1>12, <1>13, <1>14 DEF IInv

(* ---------------------------------------------- the queue and its users    *)

(* Every operation that settles has been undone, or what it changed counts; *)
(* the next one finds memory and log in agreement.                          *)
LEMMA SettleHolds == ASSUME IInv, ops # <<>>, Settle(1) PROVE IInv'
<1>1. /\ ops[1].at \in {"done", "failed"} /\ ops' = RemoveAt(ops, 1)
      /\ UNCHANGED <<current, log, omp, active, requests, faults, broken>>
  BY DEF Settle
<1>2. /\ ops' \in Seq(Operations) /\ Len(ops') = Len(ops) - 1 /\ DOMAIN ops' = 1 .. Len(ops) - 1
      /\ \A i \in DOMAIN ops' : i + 1 \in DOMAIN ops /\ ops'[i] = ops[i + 1]
  BY <1>1, HeadFacts, HeadLeaves
<1>3. Len(ops) \in Nat /\ DOMAIN ops = 1 .. Len(ops) /\ 1 \in DOMAIN ops
  BY HeadFacts, QueueFacts
<1>4. StateOK'
  BY <1>1, <1>2, <1>3, BoundAssumption DEF IInv, StateOK
<1>5. \A i \in DOMAIN ops' : ops'[i].at = "begin"
  BY <1>2, <1>3 DEF IInv, HeadFirst
<1>6. HeadFirst'
  BY <1>5 DEF HeadFirst
<1>7. QueueInv'
  <2> SUFFICES ASSUME ~broken PROVE SwitchesFirst' /\ InSession' /\ EntriesTrue'
    BY <1>1 DEF QueueInv
  <2>1. SwitchesFirst /\ InSession /\ EntriesTrue
    BY DEF IInv, QueueInv
  <2>2. SwitchesFirst'
    BY <1>2, <1>3, <2>1 DEF SwitchesFirst
  <2>3. InSession'
    <3> SUFFICES ASSUME NEW i \in DOMAIN ops', ops'[i].session # current
                 PROVE  /\ ops'[i].kind = "restore"
                        /\ \E j \in DOMAIN ops' : i < j /\ ops'[j].kind \in Switches
      BY <1>1 DEF InSession
    <3>1. PICK k \in DOMAIN ops : i + 1 < k /\ ops[k].kind \in Switches /\ ops[i + 1].kind = "restore"
      BY <1>2, <2>1 DEF InSession
    <3>2. k - 1 \in DOMAIN ops' /\ i < k - 1 /\ (k - 1) + 1 = k
      BY <1>2, <1>3, <3>1
    <3>3. ops'[k - 1] = ops[k]
      BY <1>2, <3>2
    <3> QED
      BY <1>2, <3>1, <3>2, <3>3
  <2>4. EntriesTrue'
    BY <1>1, <1>2, <2>1 DEF EntriesTrue
  <2> QED
    BY <2>2, <2>3, <2>4
<1>8. ops' # <<>> => 1 \in DOMAIN ops'
  BY <1>2, <1>3, EmptySeq
<1>9. ApplyInv' /\ OtherInv'
  BY <1>5, <1>8 DEF ApplyInv, OtherInv, Applying, Undoing
<1>10. RolesTrue'
  BY <1>1 DEF IInv, RolesTrue
<1>11. LogTrue'
  <2> SUFFICES ASSUME ~broken, ~Pending' PROVE active = Effective(log[current])
    BY <1>1 DEF LogTrue
  <2>1. ~Behind
    <3> SUFFICES ASSUME NEW k \in DOMAIN ops, k # 1, ops[k].kind \in Switches PROVE FALSE
      BY DEF Behind
    <3>1. k - 1 \in DOMAIN ops' /\ (k - 1) + 1 = k
      BY <1>2, <1>3
    <3>2. ops'[k - 1] = ops[k]
      BY <1>2, <3>1
    <3> QED
      BY <1>5, <3>1, <3>2 DEF Pending
  <2>2. ops[1].kind \in Switches => ops[1].at = "done"
    BY <1>1 DEF IInv, ApplyInv, OtherInv, Switches
  <2> QED
    BY <2>1, <2>2, BehindFacts DEF IInv, LogTrue
<1> QED
  BY <1>4, <1>6, <1>7, <1>9, <1>10, <1>11 DEF IInv

(* An operation that is asked for waits behind the others.                  *)
LEMMA EnqueueMoves ==
  ASSUME IInv, NEW kind \in {"apply", "reset", "initialize", "restore"}, NEW name \in Names,
         NEW session \in Sessions, Enqueue(Operation(kind, name, session)),
         UNCHANGED <<log, omp, active, faults>>, current' = session, broken' \in BOOLEAN,
         ~broken' => /\ ~broken
                     /\ \/ kind \notin Switches /\ current' = current
                        \/ kind \in Switches /\ \A i \in DOMAIN ops : ops[i].kind = "restore"
  PROVE  IInv'
<1> DEFINE new == Operation(kind, name, session)
<1>1. /\ new \in Operations /\ new.at = "begin" /\ new.kind = kind
      /\ new.session = session /\ new.entries = log[session]
  BY DocumentAssumption DEF IInv, StateOK, Operation, Operations, Settings, Fresh, Names, Records
<1> HIDE DEF new
<1>2. requests < MaxRequests /\ requests' = requests + 1 /\ Len(ops) < MaxWaiting /\ ops' = Append(ops, new)
  BY DEF Enqueue, new
<1>3. /\ ops' \in Seq(Operations) /\ Len(ops') = Len(ops) + 1 /\ ops' # <<>>
      /\ DOMAIN ops' = 1 .. Len(ops) + 1 /\ DOMAIN ops = 1 .. Len(ops)
      /\ \A i \in DOMAIN ops : ops'[i] = ops[i]
      /\ ops'[Len(ops) + 1] = new
  BY <1>1, <1>2, TailGrows DEF IInv, StateOK
<1>4. Len(ops) \in Nat /\ (ops # <<>> <=> 1 \in DOMAIN ops)
  BY QueueFacts DEF IInv, StateOK
<1>5. StateOK'
  <2>1. requests' \in 0 .. MaxRequests /\ Len(ops') <= MaxWaiting
    BY <1>2, <1>3, <1>4, BoundAssumption DEF IInv, StateOK
  <2> QED
    BY <1>3, <2>1 DEF IInv, StateOK
<1>6. \A i \in DOMAIN ops' : i \in DOMAIN ops \/ (i = Len(ops) + 1 /\ ops'[i] = new)
  BY <1>3, <1>4
<1>7. HeadFirst'
  BY <1>1, <1>3, <1>6 DEF IInv, HeadFirst
<1>8. QueueInv'
  <2> SUFFICES ASSUME ~broken' PROVE SwitchesFirst' /\ InSession' /\ EntriesTrue'
    BY DEF QueueInv
  <2>1. SwitchesFirst /\ InSession /\ EntriesTrue
    BY DEF IInv, QueueInv
  <2>2. \A i \in DOMAIN ops : i < Len(ops) + 1
    BY <1>3, <1>4
  <2>3. \A i, j \in DOMAIN ops' : i < j => i \in DOMAIN ops
    BY <1>3, <1>4
  <2>4. SwitchesFirst'
    BY <1>1, <1>3, <1>6, <2>1, <2>3 DEF SwitchesFirst
  <2>5. InSession'
    <3>1. CASE kind \notin Switches
      BY <1>1, <1>3, <1>6, <2>1, <3>1 DEF InSession
    <3>2. CASE kind \in Switches
      <4>1. Len(ops) + 1 \in DOMAIN ops'
        BY <1>3, <1>4
      <4> QED
        BY <1>1, <1>3, <1>6, <2>2, <3>2, <4>1 DEF InSession
    <3> QED
      BY <3>1, <3>2
  <2>6. EntriesTrue'
    BY <1>1, <1>3, <1>6, <2>1 DEF EntriesTrue
  <2> QED
    BY <2>4, <2>5, <2>6
<1>9. ops = <<>> => ops'[1] = new
  BY <1>3, EmptySeq
<1>10. ops # <<>> => ops'[1] = ops[1]
  BY <1>3, <1>4
<1>11. broken => broken'
  BY DEF IInv, StateOK
<1>12. ApplyInv' /\ OtherInv'
  <2>1. CASE ops = <<>>
    BY <1>1, <1>9, <2>1 DEF ApplyInv, OtherInv, Applying, Undoing
  <2>2. CASE ops # <<>>
    BY <1>10, <1>11, <2>2 DEF IInv, ApplyInv, OtherInv
  <2> QED
    BY <2>1, <2>2
<1>13. RolesTrue'
  BY <1>3, <1>9, <1>10, <1>11 DEF IInv, RolesTrue
<1>14. LogTrue'
  <2>1. kind \in Switches => Pending'
    <3>1. Len(ops) + 1 \in DOMAIN ops'
      BY <1>3, <1>4
    <3> QED
      BY <1>1, <1>3, <3>1 DEF Pending
  <2>2. Pending => Pending'
    BY <1>3, <1>4 DEF Pending
  <2> QED
    BY <1>11, <2>1, <2>2 DEF IInv, LogTrue
<1> QED
  BY <1>5, <1>7, <1>8, <1>12, <1>13, <1>14 DEF IInv

LEMMA RequestHolds ==
  ASSUME IInv, \/ \E argument \in Names \cup {"reset"} : PresetCommand(argument)
               \/ \E session \in Sessions : SessionSwitch(session)
  PROVE  IInv'
<1>1. Default \in Names /\ current \in Sessions /\ broken \in BOOLEAN
  BY DocumentAssumption DEF DocumentAssumption, Names, IInv, StateOK
<1>2. ASSUME NEW argument \in Names \cup {"reset"}, PresetCommand(argument) PROVE IInv'
  <2>1. PICK kind \in {"apply", "reset"}, name \in Names : Enqueue(Operation(kind, name, current))
    <3>1. CASE argument = "reset"
      BY <1>1, <1>2, <3>1 DEF PresetCommand
    <3>2. CASE argument # "reset"
      BY <1>2, <3>2 DEF PresetCommand
    <3> QED
      BY <3>1, <3>2
  <2>2. UNCHANGED <<current, log, omp, active, faults, broken>>
    BY <1>2 DEF PresetCommand
  <2>3. kind \notin Switches
    BY DEF Switches
  <2> QED
    BY <1>1, <2>1, <2>2, <2>3, EnqueueMoves
<1>3. ASSUME NEW session \in Sessions, SessionSwitch(session) PROVE IInv'
  <2>1. PICK kind \in {"initialize", "restore"} : Enqueue(Operation(kind, Default, session))
    BY <1>3 DEF SessionSwitch
  <2>2. /\ current' = session /\ UNCHANGED <<log, omp, active, faults>>
        /\ broken' = (broken \/ \E i \in DOMAIN ops : ops[i].kind # "restore")
    BY <1>3 DEF SessionSwitch
  <2>3. kind \in Switches
    BY DEF Switches
  <2>4. broken' \in BOOLEAN /\ (~broken' => ~broken /\ \A i \in DOMAIN ops : ops[i].kind = "restore")
    BY <1>1, <2>2
  <2> QED
    BY <1>1, <2>1, <2>2, <2>3, <2>4, EnqueueMoves
<1> QED
  BY <1>2, <1>3

LEMMA RetryHolds == ASSUME IInv, NEW session \in Sessions, RetryFails(session) PROVE IInv'
<1>1. /\ broken' = TRUE /\ current' = session /\ UNCHANGED <<log, omp, active, ops, requests>>
      /\ faults' \in 0 .. MaxFaults
  BY FaultTypes DEF RetryFails, IInv, StateOK
<1>2. StateOK' /\ HeadFirst' /\ QueueInv' /\ RolesTrue' /\ LogTrue'
  BY <1>1 DEF IInv, StateOK, HeadFirst, QueueInv, RolesTrue, LogTrue
<1>3. ApplyInv' /\ OtherInv'
  BY <1>1 DEF IInv, ApplyInv, OtherInv
<1> QED
  BY <1>2, <1>3 DEF IInv

LEMMA PickModelHolds == ASSUME IInv, NEW model \in Presets, PickModel(model) PROVE IInv'
<1>1. /\ ops = <<>> /\ UNCHANGED <<current, log, active, ops, requests, faults, broken>>
      /\ omp' \in Settings /\ omp'.roles = omp.roles
  BY SettingsMove DEF PickModel, Quiet, IInv, StateOK
<1>2. StateOK' /\ HeadFirst' /\ ApplyInv' /\ OtherInv'
  BY <1>1 DEF IInv, StateOK, HeadFirst, ApplyInv, OtherInv
<1>3. QueueInv'
  BY <1>1 DEF IInv, QueueInv, SwitchesFirst, InSession, EntriesTrue
<1>4. RolesTrue' /\ LogTrue'
  BY <1>1 DEF IInv, RolesTrue, LogTrue, Pending
<1> QED
  BY <1>2, <1>3, <1>4 DEF IInv

(* ------------------------------------------------- the inductive step      *)

LEMMA Starts == ASSUME Init PROVE IInv
<1>1. PICK kind \in {"initialize", "restore"} : ops = <<Operation(kind, Default, current)>>
  BY DEF Init
<1> DEFINE new == Operation(kind, Default, current)
<1>2. /\ new \in Operations /\ new.at = "begin" /\ new.kind = kind
      /\ new.session = current /\ new.entries = log[current]
  BY DocumentAssumption
     DEF DocumentAssumption, Init, Operation, Operations, Settings, Fresh, Names, Records
<1>3. ops = <<new>>
  BY <1>1
<1> HIDE DEF new
<1>4. ops \in Seq(Operations) /\ Len(ops) = 1 /\ DOMAIN ops = {1} /\ ops[1] = new /\ ops # <<>>
  BY <1>2, <1>3
<1>5. StateOK
  <2>1. omp \in Settings
    BY DEF Init, Settings, Fresh
  <2>2. 1 <= MaxWaiting /\ 0 \in 0 .. MaxRequests /\ 0 \in 0 .. MaxFaults
    BY BoundAssumption
  <2>3. requests \in 0 .. MaxRequests /\ faults \in 0 .. MaxFaults
    BY <2>2 DEF Init
  <2>4. current \in Sessions /\ log \in [Sessions -> Records] /\ active = "none" /\ broken = FALSE
    BY DEF Init
  <2> QED
    BY <1>4, <2>1, <2>2, <2>3, <2>4 DEF StateOK
<1>6. HeadFirst /\ ApplyInv /\ OtherInv
  BY <1>2, <1>4 DEF HeadFirst, ApplyInv, OtherInv, Applying, Undoing
<1>7. QueueInv
  BY <1>2, <1>4 DEF QueueInv, SwitchesFirst, InSession, EntriesTrue
<1>8. RolesTrue /\ LogTrue
  BY <1>2, <1>4 DEF RolesTrue, LogTrue, Pending, Switches, Init, Fresh
<1> QED
  BY <1>5, <1>6, <1>7, <1>8 DEF IInv

LEMMA Inductive == ASSUME IInv, [Next]_vars PROVE IInv'
<1>1. CASE \E i \in DOMAIN ops : Controller(i)
  <2>1. ops # <<>> /\ Controller(1)
    BY <1>1, QueueFacts DEF Controller, Turn, IInv, StateOK
  <2> QED
    BY <2>1, ValidatedHolds, ReplaceRolesHolds, SetHolds, RecordHolds, UndoHolds, RestoreThinkingHolds,
       ClearRolesHolds, RecordResetHolds, RestorePresetHolds, RewriteAliasHolds, SettleHolds
       DEF Controller
<1>2. CASE \/ \E argument \in Names \cup {"reset"} : PresetCommand(argument)
           \/ \E session \in Sessions : SessionSwitch(session)
  BY <1>2, RequestHolds
<1>3. CASE \E session \in Sessions : RetryFails(session)
  BY <1>3, RetryHolds
<1>4. CASE \E model \in Presets : PickModel(model)
  BY <1>4, PickModelHolds
<1>5. CASE UNCHANGED vars
  BY <1>5 DEF vars, IInv, StateOK, HeadFirst, ApplyInv, OtherInv, QueueInv, SwitchesFirst, InSession,
              EntriesTrue, RolesTrue, LogTrue, Pending
<1> QED
  BY <1>1, <1>2, <1>3, <1>4, <1>5 DEF Next

LEMMA Invariance == Spec => []IInv
<1>1. Init => IInv
  BY Starts
<1>2. IInv /\ [Next]_vars => IInv'
  BY Inductive
<1> QED
  BY <1>1, <1>2, PTL DEF Spec

(* ------------------------------------------- what a rollback puts back     *)

(* Memory names the roles OMP runs with, between two calls that change them, *)
(* unless one of the three failures `apart` records came in between.         *)
MemoryTrue ==
  ~apart /\ (ops # <<>> => ops[1].at \in {"begin", "roles", "done", "failed"}) => omp.roles = active

(* An application has noted what it was validated with, the roles excepted   *)
(* when they are lost; every part it has put back so far is as noted.        *)
NotedTrue ==
  ops # <<>> /\ ops[1].kind \in {"apply", "initialize"} =>
    /\ ops[1].at = "roles" => ops[1].before = omp /\ (apart => "roles" \in lost)
    /\ ops[1].at \in Applying \cup Undoing =>
         /\ ops[1].saved.model = ops[1].before.model
         /\ ops[1].saved.thinking = ops[1].before.thinking
         /\ "roles" \notin lost => ops[1].saved.roles = ops[1].before.roles
    /\ ops[1].at \in {"undoModel", "undoThinking"} =>
         (~apart \/ "roles" \notin lost => omp.roles = ops[1].saved.roles)
    /\ ops[1].at = "undoThinking" => ("model" \notin lost => omp.model = ops[1].saved.model)
    /\ ops[1].at = "failed" =>
         /\ "roles" \notin lost => omp.roles = ops[1].before.roles
         /\ "model" \notin lost => omp.model = ops[1].before.model
         /\ "thinking" \notin lost => omp.thinking = ops[1].before.thinking

HistoryOK == apart \in BOOLEAN /\ lost \in SUBSET {"roles", "model", "thinking"}

UndoInv == HistoryOK /\ MemoryTrue /\ NotedTrue

LEMMA HeadGoes ==
  ASSUME IInv, ops # <<>>, NEW place \in Places, Goto(1, place)
  PROVE  /\ ops' # <<>> /\ ops'[1].at = place /\ ops'[1].kind = ops[1].kind
         /\ ops'[1].saved = ops[1].saved /\ ops'[1].before = ops[1].before
<1> DEFINE h == At(ops[1], place)
<1>1. /\ h \in Operations /\ h.at = place /\ h.kind = ops[1].kind
      /\ h.saved = ops[1].saved /\ h.before = ops[1].before
  BY HeadFacts, GotoMoves
<1>2. ops' = [ops EXCEPT ![1] = h]
  BY DEF At, Goto
<1> HIDE DEF h
<1> QED
  BY <1>1, <1>2, HeadFacts, HeadMoves

LEMMA LoseMoves ==
  ASSUME HistoryOK, NEW part \in {"roles", "model", "thinking"}, Lose(part)
  PROVE  /\ lost' \in SUBSET {"roles", "model", "thinking"} /\ lost \subseteq lost'
         /\ faults' # faults => part \in lost'
         /\ \A other \in {"roles", "model", "thinking"} : other # part => (other \in lost' <=> other \in lost)
BY DEF HistoryOK, Lose

LEMMA ValidatedUndo == ASSUME IInv, UndoInv, ops # <<>>, Validated(1) PROVE UndoInv'
<1>1. PICK place \in {"roles", "failed"} : ops' = [ops EXCEPT ![1].at = place, ![1].before = omp]
  BY DEF Validated
<1>2. /\ ops[1].at = "begin" /\ UNCHANGED <<omp, active, apart>>
      /\ lost' = IF apart THEN {"roles"} ELSE {}
  BY DEF Validated
<1> DEFINE h == AtBefore(ops[1], place, omp)
<1>3. h \in Operations /\ h.at = place /\ h.before = omp /\ h.kind = ops[1].kind
  <2>1. place \in Places
    BY DEF Places
  <2> QED
    BY <2>1, HeadFacts, BeforeMoves
<1>4. ops' = [ops EXCEPT ![1] = h]
  BY <1>1 DEF AtBefore
<1> HIDE DEF h
<1>5. ops' # <<>> /\ ops'[1] = h
  BY <1>3, <1>4, HeadFacts, HeadMoves
<1> QED
  BY <1>2, <1>3, <1>5 DEF UndoInv, HistoryOK, MemoryTrue, NotedTrue, Applying, Undoing

LEMMA ReplaceRolesUndo == ASSUME IInv, UndoInv, ops # <<>>, ReplaceRoles(1) PROVE UndoInv'
<1> DEFINE saved == [omp EXCEPT !.roles = active]
<1>1. PICK place \in {"model", "undoRoles"} : ops' = [ops EXCEPT ![1].at = place, ![1].saved = saved]
  BY DEF ReplaceRoles
<1>2. /\ saved \in Settings /\ saved.roles = active
      /\ saved.model = omp.model /\ saved.thinking = omp.thinking
  BY HeadFacts, SettingsMove
<1> HIDE DEF saved
<1> DEFINE h == AtSaved(ops[1], place, saved)
<1>3. h \in Operations /\ h.at = place /\ h.saved = saved /\ h.before = ops[1].before /\ h.kind = ops[1].kind
  <2>1. place \in Places
    BY DEF Places, Applying, Undoing
  <2> QED
    BY <1>2, <2>1, HeadFacts, SavedMoves
<1>4. ops' = [ops EXCEPT ![1] = h]
  BY <1>1 DEF AtSaved
<1> HIDE DEF h
<1>5. ops' # <<>> /\ ops'[1] = h
  BY <1>3, <1>4, HeadFacts, HeadMoves
<1>6. ops[1].at = "roles" /\ UNCHANGED <<active, apart, lost>>
  BY DEF ReplaceRoles
<1>7. ops[1].kind \in {"apply", "initialize"}
  BY <1>6, HeadFacts DEF IInv, OtherInv
<1>8. ops[1].before = omp /\ ("roles" \notin lost => saved.roles = omp.roles)
  BY <1>2, <1>6, <1>7 DEF UndoInv, HistoryOK, MemoryTrue, NotedTrue
<1> QED
  BY <1>2, <1>3, <1>5, <1>6, <1>8 DEF UndoInv, HistoryOK, MemoryTrue, NotedTrue, Applying, Undoing

LEMMA SetUndo == ASSUME IInv, UndoInv, ops # <<>>, SetModel(1) \/ SetThinking(1) PROVE UndoInv'
<1>1. /\ ops[1].at \in Applying /\ UNCHANGED <<apart, lost>>
      /\ \E place \in {"thinking", "append", "undoRoles"} : Goto(1, place)
  BY DEF SetModel, SetThinking, Call, Applying
<1>2. PICK place \in {"thinking", "append", "undoRoles"} : Goto(1, place)
  BY <1>1
<1>3. place \in Places
  BY DEF Places, Applying, Undoing
<1>4. /\ ops' # <<>> /\ ops'[1].at = place /\ ops'[1].kind = ops[1].kind
      /\ ops'[1].saved = ops[1].saved /\ ops'[1].before = ops[1].before
  BY <1>2, <1>3, HeadGoes
<1> QED
  BY <1>1, <1>4 DEF UndoInv, HistoryOK, MemoryTrue, NotedTrue, Applying, Undoing

LEMMA RecordUndo == ASSUME IInv, UndoInv, ops # <<>>, Record(1) PROVE UndoInv'
<1>1. /\ ops[1].at = "append" /\ ops[1].kind \in {"apply", "initialize"} /\ UNCHANGED <<omp, lost>>
      /\ \/ active' = Canonical(ops[1].name) /\ apart' = FALSE /\ Goto(1, "done")
         \/ UNCHANGED <<active, apart>> /\ Goto(1, "undoRoles")
  BY DEF Record
<1>2. omp.roles = Canonical(ops[1].name)
  BY <1>1 DEF IInv, ApplyInv, Applying
<1>3. PICK place \in {"done", "undoRoles"} :
        /\ Goto(1, place)
        /\ place = "done" => active' = Canonical(ops[1].name) /\ apart' = FALSE
        /\ place = "undoRoles" => UNCHANGED <<active, apart>>
  BY <1>1
<1>4. place \in Places
  BY DEF Places, Undoing
<1>5. /\ ops' # <<>> /\ ops'[1].at = place /\ ops'[1].kind = ops[1].kind
      /\ ops'[1].saved = ops[1].saved /\ ops'[1].before = ops[1].before
  BY <1>3, <1>4, HeadGoes
<1> QED
  BY <1>1, <1>2, <1>3, <1>5 DEF UndoInv, HistoryOK, MemoryTrue, NotedTrue, Applying, Undoing

LEMMA RestoreRolesUndo == ASSUME IInv, UndoInv, ops # <<>>, RestoreRoles(1) PROVE UndoInv'
<1>1. /\ ops[1].at = "undoRoles" /\ active' = active /\ Goto(1, "undoModel")
      /\ apart' = (faults' # faults) /\ Lose("roles")
      /\ \/ Works /\ omp' = [omp EXCEPT !.roles = ops[1].saved.roles]
         \/ Fails /\ omp' = omp
  BY DEF RestoreRoles, Call
<1>2. ops[1].kind \in {"apply", "initialize"}
  BY <1>1, HeadFacts DEF IInv, OtherInv
<1>3. "undoModel" \in Places
  BY DEF Places, Undoing
<1>4. /\ ops' # <<>> /\ ops'[1].at = "undoModel" /\ ops'[1].kind = ops[1].kind
      /\ ops'[1].saved = ops[1].saved /\ ops'[1].before = ops[1].before
  BY <1>1, <1>3, HeadGoes
<1>5. ops[1].saved.roles \in Presets \cup {"none"}
  BY HeadFacts DEF Settings
<1>6. faults' = faults => omp'.roles = ops[1].saved.roles
  BY <1>1, <1>5, HeadFacts, SettingsMove, FaultTypes
<1>7. /\ lost' \in SUBSET {"roles", "model", "thinking"} /\ lost \subseteq lost'
      /\ faults' # faults => "roles" \in lost'
  BY <1>1, LoseMoves DEF UndoInv
<1> QED
  BY <1>1, <1>2, <1>4, <1>6, <1>7 DEF UndoInv, HistoryOK, MemoryTrue, NotedTrue, Applying, Undoing

LEMMA RestoreModelUndo == ASSUME IInv, UndoInv, ops # <<>>, RestoreModel(1) PROVE UndoInv'
<1>1. /\ ops[1].at = "undoModel" /\ active' = active /\ Goto(1, "undoThinking")
      /\ apart' = apart /\ Lose("model")
      /\ \/ Works /\ omp' = [omp EXCEPT !.model = ops[1].saved.model]
         \/ Fails /\ omp' = omp
  BY DEF RestoreModel, Call
<1>2. ops[1].kind \in {"apply", "initialize"}
  BY <1>1, HeadFacts DEF IInv, OtherInv
<1>3. "undoThinking" \in Places
  BY DEF Places, Undoing
<1>4. /\ ops' # <<>> /\ ops'[1].at = "undoThinking" /\ ops'[1].kind = ops[1].kind
      /\ ops'[1].saved = ops[1].saved /\ ops'[1].before = ops[1].before
  BY <1>1, <1>3, HeadGoes
<1>5. ops[1].saved.model \in Presets \cup {"own"}
  BY HeadFacts DEF Settings
<1>6. omp'.roles = omp.roles /\ (faults' = faults => omp'.model = ops[1].saved.model)
  BY <1>1, <1>5, HeadFacts, SettingsMove, FaultTypes
<1>7. /\ lost' \in SUBSET {"roles", "model", "thinking"} /\ lost \subseteq lost'
      /\ faults' # faults => "model" \in lost'
      /\ "roles" \in lost' <=> "roles" \in lost
  BY <1>1, LoseMoves DEF UndoInv
<1> QED
  BY <1>1, <1>2, <1>4, <1>6, <1>7 DEF UndoInv, HistoryOK, MemoryTrue, NotedTrue, Applying, Undoing

LEMMA RestoreThinkingUndo == ASSUME IInv, UndoInv, ops # <<>>, RestoreThinking(1) PROVE UndoInv'
<1>1. /\ ops[1].at = "undoThinking" /\ active' = ops[1].saved.roles /\ Goto(1, "failed")
      /\ apart' = apart /\ Lose("thinking")
      /\ \/ Works /\ omp' = [omp EXCEPT !.thinking = ops[1].saved.thinking]
         \/ Fails /\ omp' = omp
  BY DEF RestoreThinking
<1>2. ops[1].kind \in {"apply", "initialize"}
  BY <1>1, HeadFacts DEF IInv, OtherInv
<1>3. "failed" \in Places
  BY DEF Places
<1>4. /\ ops' # <<>> /\ ops'[1].at = "failed" /\ ops'[1].kind = ops[1].kind
      /\ ops'[1].saved = ops[1].saved /\ ops'[1].before = ops[1].before
  BY <1>1, <1>3, HeadGoes
<1>5. ops[1].saved.thinking \in Presets \cup {"own"}
  BY HeadFacts DEF Settings
<1>6. /\ omp'.roles = omp.roles /\ omp'.model = omp.model
      /\ faults' = faults => omp'.thinking = ops[1].saved.thinking
  BY <1>1, <1>5, HeadFacts, SettingsMove, FaultTypes
<1>7. /\ lost' \in SUBSET {"roles", "model", "thinking"} /\ lost \subseteq lost'
      /\ faults' # faults => "thinking" \in lost'
      /\ "roles" \in lost' <=> "roles" \in lost
      /\ "model" \in lost' <=> "model" \in lost
  BY <1>1, LoseMoves DEF UndoInv
<1>8. /\ ops[1].saved.model = ops[1].before.model /\ ops[1].saved.thinking = ops[1].before.thinking
      /\ "roles" \notin lost => ops[1].saved.roles = ops[1].before.roles
      /\ ~apart \/ "roles" \notin lost => omp.roles = ops[1].saved.roles
      /\ "model" \notin lost => omp.model = ops[1].saved.model
  BY <1>1, <1>2 DEF UndoInv, NotedTrue, Undoing
<1>9. HistoryOK'
  BY <1>1, <1>7 DEF UndoInv, HistoryOK
<1>10. MemoryTrue'
  BY <1>1, <1>6, <1>8 DEF MemoryTrue
<1>11. NotedTrue'
  BY <1>4, <1>6, <1>7, <1>8 DEF NotedTrue, Applying, Undoing
<1> QED
  BY <1>9, <1>10, <1>11 DEF UndoInv

(* A reset or a restore ends with memory and roles alike, or touches neither,  *)
(* or sets `apart`.                                                            *)
LEMMA OtherUndo ==
  ASSUME IInv, UndoInv, ops # <<>>,
         ClearRoles(1) \/ RecordReset(1) \/ RestorePreset(1) \/ RewriteAlias(1)
  PROVE  UndoInv'
<1>1. ops[1].kind \in {"reset", "restore"} /\ lost' = lost
  BY DEF ClearRoles, RecordReset, RestorePreset, RewriteAlias
<1>2. PICK place \in {"append", "done", "failed"} :
        /\ Goto(1, place) /\ apart' \in BOOLEAN
        /\ place = "append" \/ (~apart' => omp'.roles = active')
  <2>1. omp.roles = active \/ apart \/ ops[1].at = "append"
    BY <1>1 DEF UndoInv, MemoryTrue, IInv, OtherInv
  <2>2. CASE ClearRoles(1)
    <3>1. [omp EXCEPT !.roles = "none"].roles = "none" /\ apart \in BOOLEAN
      BY HeadFacts, SettingsMove DEF UndoInv, HistoryOK
    <3>2. ops[1].at = "begin"
      BY <2>2 DEF ClearRoles
    <3> DEFINE forget == ops[1].kind = "restore" /\ ops[1].entries \in {"none", "reset"}
               needed == ops[1].entries = "reset" \/ active # "none"
    <3>3. CASE /\ omp' = IF forget /\ ~needed THEN omp ELSE [omp EXCEPT !.roles = "none"]
               /\ active' = IF forget THEN "none" ELSE active
               /\ Goto(1, IF forget THEN "done" ELSE "append")
               /\ apart' = (apart /\ ~(forget /\ needed))
      <4>1. CASE forget
        BY <2>1, <3>1, <3>2, <3>3, <4>1
      <4>2. CASE ~forget
        BY <3>1, <3>3, <4>2
      <4> QED
        BY <4>1, <4>2
    <3>4. CASE Goto(1, "failed") /\ UNCHANGED <<omp, active, apart>>
      BY <2>1, <3>1, <3>2, <3>4
    <3> HIDE DEF forget, needed
    <3> QED
      BY <2>2, <3>3, <3>4 DEF ClearRoles, forget, needed
  <2>3. CASE RecordReset(1)
    BY <2>3 DEF RecordReset, IInv, OtherInv
  <2>4. CASE RestorePreset(1)
    <3>1. /\ Canonical(ops[1].entries) \in Presets =>
               [omp EXCEPT !.roles = Canonical(ops[1].entries)].roles = Canonical(ops[1].entries)
          /\ apart \in BOOLEAN
      BY HeadFacts, SettingsMove DEF UndoInv, HistoryOK
    <3>2. ops[1].at = "begin"
      BY <2>4 DEF RestorePreset
    <3> QED
      BY <2>1, <2>4, <3>1, <3>2 DEF RestorePreset
  <2>5. CASE RewriteAlias(1)
    BY <2>5 DEF RewriteAlias, IInv, OtherInv
  <2> QED
    BY <2>2, <2>3, <2>4, <2>5
<1>3. place \in Places
  BY DEF Places, Applying
<1>4. ops' # <<>> /\ ops'[1].at = place /\ ops'[1].kind = ops[1].kind
  BY <1>2, <1>3, HeadGoes
<1> QED
  BY <1>1, <1>2, <1>4 DEF UndoInv, HistoryOK, MemoryTrue, NotedTrue

LEMMA SettleUndo == ASSUME IInv, UndoInv, ops # <<>>, Settle(1) PROVE UndoInv'
<1>1. /\ ops[1].at \in {"done", "failed"} /\ ops' = RemoveAt(ops, 1)
      /\ UNCHANGED <<omp, active, apart, lost>>
  BY DEF Settle
<1>2. /\ ops' \in Seq(Operations) /\ DOMAIN ops' = 1 .. Len(ops) - 1
      /\ \A i \in DOMAIN ops' : i + 1 \in DOMAIN ops /\ ops'[i] = ops[i + 1]
  BY <1>1, HeadFacts, HeadLeaves
<1>3. Len(ops) \in Nat /\ DOMAIN ops = 1 .. Len(ops)
  BY HeadFacts, QueueFacts
<1>4. \A i \in DOMAIN ops' : ops'[i].at = "begin"
  BY <1>2, <1>3 DEF IInv, HeadFirst
<1>5. ops' # <<>> => ops'[1].at = "begin"
  <2>1. ops' # <<>> => Len(ops') \in Nat \ {0} /\ DOMAIN ops' = 1 .. Len(ops')
    BY <1>2, EmptySeq, LenProperties
  <2> QED
    BY <1>4, <2>1
<1> QED
  BY <1>1, <1>5 DEF UndoInv, HistoryOK, MemoryTrue, NotedTrue, Applying, Undoing

LEMMA RequestUndo ==
  ASSUME IInv, UndoInv,
         \/ \E argument \in Names \cup {"reset"} : PresetCommand(argument)
         \/ \E session \in Sessions : SessionSwitch(session)
  PROVE  UndoInv'
<1>1. UNCHANGED <<omp, active, apart, lost>>
  BY DEF PresetCommand, SessionSwitch
<1>2. PICK kind \in {"apply", "reset", "initialize", "restore"}, name \in Names, session \in Sessions :
        ops' = Append(ops, Operation(kind, name, session))
  <2>1. Default \in Names /\ current \in Sessions
    BY DocumentAssumption DEF DocumentAssumption, Names, IInv, StateOK
  <2>2. ASSUME NEW argument \in Names \cup {"reset"}, PresetCommand(argument)
        PROVE  \E kind \in {"apply", "reset"}, name \in Names :
                 ops' = Append(ops, Operation(kind, name, current))
    <3>1. CASE argument = "reset"
      BY <2>1, <2>2, <3>1 DEF PresetCommand, Enqueue
    <3>2. CASE argument # "reset"
      BY <2>1, <2>2, <3>2 DEF PresetCommand, Enqueue
    <3> QED
      BY <3>1, <3>2
  <2>3. ASSUME NEW session \in Sessions, SessionSwitch(session)
        PROVE  \E kind \in {"initialize", "restore"} :
                 ops' = Append(ops, Operation(kind, Default, session))
    BY <2>3 DEF SessionSwitch, Enqueue
  <2> QED
    BY <2>1, <2>2, <2>3
<1> DEFINE new == Operation(kind, name, session)
<1>3. new \in Operations /\ new.at = "begin"
  BY DocumentAssumption DEF IInv, StateOK, Operation, Operations, Settings, Fresh, Names, Records
<1> HIDE DEF new
<1>4. /\ DOMAIN ops = 1 .. Len(ops) /\ \A i \in DOMAIN ops : ops'[i] = ops[i]
      /\ ops'[Len(ops) + 1] = new /\ ops' # <<>>
  BY <1>2, <1>3, TailGrows DEF IInv, StateOK, new
<1>5. ops = <<>> => ops'[1] = new
  BY <1>4, EmptySeq
<1>6. ops # <<>> => ops'[1] = ops[1]
  BY <1>4, QueueFacts DEF IInv, StateOK
<1> QED
  BY <1>1, <1>3, <1>4, <1>5, <1>6 DEF UndoInv, HistoryOK, MemoryTrue, NotedTrue, Applying, Undoing

LEMMA UndoInductive == ASSUME IInv, UndoInv, [Next]_vars PROVE UndoInv'
<1>1. CASE \E i \in DOMAIN ops : Controller(i)
  <2>1. ops # <<>> /\ Controller(1)
    BY <1>1, QueueFacts DEF Controller, Turn, IInv, StateOK
  <2> QED
    BY <2>1, ValidatedUndo, ReplaceRolesUndo, SetUndo, RecordUndo, RestoreRolesUndo, RestoreModelUndo,
       RestoreThinkingUndo, OtherUndo, SettleUndo
       DEF Controller
<1>2. CASE \/ \E argument \in Names \cup {"reset"} : PresetCommand(argument)
           \/ \E session \in Sessions : SessionSwitch(session)
  BY <1>2, RequestUndo
<1>3. CASE \E session \in Sessions : RetryFails(session)
  <2>1. UNCHANGED <<omp, active, ops, apart, lost>>
    BY <1>3 DEF RetryFails
  <2> QED
    BY <2>1 DEF UndoInv, HistoryOK, MemoryTrue, NotedTrue
<1>4. CASE \E model \in Presets : PickModel(model)
  <2>1. ops = <<>> /\ UNCHANGED <<active, ops, apart, lost>> /\ omp'.roles = omp.roles
    <3>1. PICK model \in Presets : PickModel(model)
      BY <1>4
    <3> QED
      BY <3>1, SettingsMove DEF PickModel, Quiet, IInv, StateOK
  <2> QED
    BY <2>1 DEF UndoInv, HistoryOK, MemoryTrue, NotedTrue
<1>5. CASE UNCHANGED vars
  BY <1>5 DEF vars, UndoInv, HistoryOK, MemoryTrue, NotedTrue
<1> QED
  BY <1>1, <1>2, <1>3, <1>4, <1>5 DEF Next

LEMMA UndoInvariance == Spec => []UndoInv
<1>1. Init => UndoInv
  <2> SUFFICES ASSUME Init PROVE UndoInv
    OBVIOUS
  <2>1. omp.roles = "none" /\ active = "none" /\ apart = FALSE /\ lost = {} /\ ops[1].at = "begin"
    BY DEF Init, Fresh, Operation
  <2> QED
    BY <2>1 DEF UndoInv, HistoryOK, MemoryTrue, NotedTrue, Applying, Undoing
<1>2. IInv /\ UndoInv /\ [Next]_vars => UndoInv'
  BY UndoInductive
<1> QED
  BY <1>1, <1>2, Invariance, PTL DEF Spec

(* Every queue, entry and setting is one the controller knows, and no more  *)
(* operations wait than the bound allows (core.ts, exclusive).              *)
THEOREM TypeCorrect == Spec => []TypeOK
<1>1. IInv /\ UndoInv => TypeOK
  BY DEF IInv, StateOK, UndoInv, HistoryOK, TypeOK
<1> QED
  BY <1>1, Invariance, UndoInvariance, PTL

(* Whenever nothing is queued, the roles OMP runs with, activePreset and    *)
(* the latest entry of the session shown name one preset (core.ts,          *)
(* applyUnlocked, reset and restore), whatever document, sessions, commands *)
(* and failing calls there were; excepted are only the ways `broken` names. *)
THEOREM RecordIsTrue == Spec => []RecordTrue
<1>1. IInv => RecordTrue
  <2> SUFFICES ASSUME IInv, Quiet, ~broken
               PROVE  omp.roles = active /\ active = Effective(log[current])
    BY DEF RecordTrue, Effective
  <2>1. omp.roles = active
    BY DEF IInv, RolesTrue, Quiet
  <2>2. ~Pending
    BY DEF Pending, Quiet
  <2> QED
    BY <2>1, <2>2 DEF IInv, LogTrue
<1> QED
  BY <1>1, Invariance, PTL

(* An application that failed, at whatever call, has left roles, main model *)
(* and thinking level each as it found it (core.ts, the catch of            *)
(* applyUnlocked), whatever was asked, switched to and failed before it.    *)
(* Excepted are a part whose own rollback call failed, and the roles of an  *)
(* application that began after memory and OMP's roles had come apart: by   *)
(* the unwritten entry of a reset or of an alias, or by an earlier rollback *)
(* that could not put the roles back (`apart`).                             *)
THEOREM FailureIsUndone == Spec => []FailureUndone
<1>1. IInv /\ UndoInv => FailureUndone
  <2> SUFFICES ASSUME IInv, UndoInv, NEW i \in DOMAIN ops, ops[i].kind = "apply", ops[i].at = "failed",
                      NEW part \in {"roles", "model", "thinking"} \ lost
               PROVE  omp[part] = ops[i].before[part]
    BY DEF FailureUndone
  <2>1. i = 1
    BY DEF IInv, HeadFirst
  <2>2. ops # <<>>
    BY QueueFacts, <2>1 DEF IInv, StateOK
  <2>3. /\ "roles" \notin lost => omp.roles = ops[1].before.roles
        /\ "model" \notin lost => omp.model = ops[1].before.model
        /\ "thinking" \notin lost => omp.thinking = ops[1].before.thinking
    BY <2>1, <2>2 DEF UndoInv, NotedTrue
  <2>4. CASE part = "roles"
    BY <2>1, <2>3, <2>4
  <2>5. CASE part = "model"
    BY <2>1, <2>3, <2>5
  <2>6. CASE part = "thinking"
    BY <2>1, <2>3, <2>6
  <2> QED
    BY <2>4, <2>5, <2>6
<1> QED
  BY <1>1, Invariance, UndoInvariance, PTL
=============================================================================
