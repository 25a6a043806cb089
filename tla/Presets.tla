------------------------------ MODULE Presets ------------------------------
(***************************************************************************)
(* The model presets of an OMP process                                     *)
(* (clients/devbox/src/omp-model-presets/core.ts and the extension         *)
(* ansible/roles/agent_profiles/files/omp-model-presets/index.ts).         *)
(*                                                                         *)
(* A preset gives every model role a selector.  The controller replaces    *)
(* the roles of the running process, selects the main model and its        *)
(* thinking level, and appends the preset's name to the session, where the *)
(* next process finds it.  It keeps in memory which preset is active.      *)
(* Applying is a sequence of calls into OMP, each of which may fail; a     *)
(* failed application is rolled back call by call.  Commands and session   *)
(* switches arrive at any time and wait for each other in a promise queue. *)
(*                                                                         *)
(* One step is the code between two awaits that touches state.  A session  *)
(* is the last preset entry of its log.  activePreset and activeRoles are  *)
(* always assigned together and are one variable.  All sessions share one  *)
(* settings object, as the sessions of one directory do.                   *)
(***************************************************************************)
EXTENDS Integers, Sequences, SequencesExt

CONSTANTS Presets,      \* the canonical names of the document
          Aliases,      \* alias -> canonical name
          Default,      \* default_preset
          Undeclared,   \* names that are neither
          Sessions,
          MaxRequests,  \* bound: commands and session switches
          MaxWaiting,   \* bound: operations in the promise queue
          MaxFaults     \* bound: calls into OMP that fail

Reserved == {"status", "list", "show", "reset"}

\* What parsePresetDocument accepts.  Only aliases are compared with the words
\* of the command: a canonical preset may be called "list".  "none" and "reset"
\* stand here for an absent entry and for the null of a reset.
DocumentAssumption ==
  /\ Default \in Presets
  /\ DOMAIN Aliases \cap (Presets \cup Reserved) = {}
  /\ \A alias \in DOMAIN Aliases : Aliases[alias] \in Presets
  /\ Undeclared \cap (Presets \cup DOMAIN Aliases) = {}
  /\ {"none", "reset"} \cap (Presets \cup DOMAIN Aliases \cup Undeclared) = {}
ASSUME DocumentAssumption

ASSUME BoundAssumption ==
  MaxRequests \in Nat /\ MaxWaiting \in Nat \ {0} /\ MaxFaults \in Nat

Names == Presets \cup DOMAIN Aliases \cup Undeclared

Canonical(name) == IF name \in DOMAIN Aliases THEN Aliases[name] ELSE name

VARIABLES current,    \* the session the process shows
          log,        \* log[s]: the latest preset entry of s
          omp,        \* what OMP runs with: roles override, main model, thinking
          active,     \* activePreset and activeRoles
          ops,        \* the operations of the queue, the oldest first
          requests, faults,
          broken,     \* history: one of the ways to lose the record was taken
          apart,      \* history: memory no longer names the roles OMP runs with
          lost        \* history: what the application that has its turn cannot
                      \* put back

vars == <<current, log, omp, active, ops, requests, faults, broken, apart, lost>>

\* A preset's name also stands for its role selectors, its main model and that
\* model's thinking level.
Settings == [roles : Presets \cup {"none"}, model : Presets \cup {"own"},
             thinking : Presets \cup {"own"}]
Fresh    == [roles |-> "none", model |-> "own", thinking |-> "own"]
Records  == Names \cup {"none", "reset"}

\* An operation: entries is the preset state of the log it was given, session
\* the one it was asked in; saved is what a rollback returns to and before, a
\* history, what OMP ran with when it was validated.
Operations ==
  [kind : {"apply", "reset", "initialize", "restore"},
   at : {"begin", "roles", "model", "thinking", "append", "undoRoles",
         "undoModel", "undoThinking", "done", "failed"},
   name : Names, entries : Records, session : Sessions,
   saved : Settings, before : Settings]

TypeOK ==
  /\ current \in Sessions
  /\ log \in [Sessions -> Records]
  /\ omp \in Settings
  /\ active \in Presets \cup {"none"}
  /\ ops \in Seq(Operations)
  /\ Len(ops) <= MaxWaiting
  /\ requests \in 0 .. MaxRequests
  /\ faults \in 0 .. MaxFaults
  /\ broken \in BOOLEAN
  /\ apart \in BOOLEAN
  /\ lost \in SUBSET {"roles", "model", "thinking"}

-----------------------------------------------------------------------------
(* The queue.                                                               *)

Quiet == ops = <<>>

\* Mutant: operations run as they are asked for, not one after the other.
TurnNow(i) == TRUE

\* exclusive: an operation starts when all before it have settled, well or not.
Turn(i) == i = 1

Goto(i, place) == ops' = [ops EXCEPT ![i].at = place]

\* A call into OMP takes effect, or throws (setModel: or answers false).
Works == UNCHANGED faults
Fails ==
  /\ faults < MaxFaults
  /\ faults' = faults + 1

\* The call made at `place` leaves OMP with `settings`, or fails.
Call(i, place, settings, next, otherwise) ==
  /\ ops[i].at = place
  /\ UNCHANGED <<current, log, active, requests>>
  /\ \/ Works /\ omp' = settings /\ Goto(i, next)
     \/ Fails /\ UNCHANGED omp /\ Goto(i, otherwise)

\* appendState: the entry goes to the session OMP shows now.
AppendState(entry) ==
  \/ Works /\ log' = [log EXCEPT ![current] = entry]
  \/ Fails /\ UNCHANGED log

\* (History.)  Alone in the queue, in the session it was asked in and with what
\* that session's log says, an operation that succeeds sets everything right.
Mends(i) ==
  /\ Len(ops) = 1
  /\ ops[i].session = current
  /\ ops[i].kind = "restore" => ops[i].entries = log[current]

\* (History.)  A call of the rollback failed: this part stays as it is.
Lose(part) == lost' = IF faults' # faults THEN lost \cup {part} ELSE lost

\* The promise settles, and the next operation has its turn.
Settle(i) ==
  /\ ops[i].at \in {"done", "failed"}
  /\ ops' = RemoveAt(ops, i)
  /\ UNCHANGED <<current, log, omp, active, requests, faults, broken, apart, lost>>

-----------------------------------------------------------------------------
(* applyUnlocked, for a command and for the default preset of a session that *)
(* has no entry: initializeNewSession is not called for any other.           *)

\* validated: the name must be declared, and each role's model available with
\* its thinking level.  Nothing has been touched when it throws; a new session
\* is then left with the preset of the one before it.
Validated(i) ==
  LET known == Canonical(ops[i].name) \in Presets
  IN /\ ops[i].at = "begin"
     /\ ops[i].kind \in {"apply", "initialize"}
     /\ UNCHANGED <<current, log, omp, active, requests, apart>>
     /\ lost' = IF apart THEN {"roles"} ELSE {}
     /\ \E place \in {"roles", "failed"} :
          /\ place = "roles" => known
          /\ IF known /\ place = "failed" THEN Fails ELSE Works
          /\ ops' = [ops EXCEPT ![i].at = place, ![i].before = omp]
          /\ broken' = (broken \/ (place = "failed" /\ ops[i].kind = "initialize"))

\* Notes what OMP runs with, and replaces the roles.  What the roles were is
\* taken from memory.
ReplaceRoles(i) ==
  /\ ops[i].at = "roles"
  /\ UNCHANGED <<current, log, active, requests, broken, apart, lost>>
  /\ \E ok \in BOOLEAN :
       /\ IF ok THEN Works ELSE Fails
       /\ omp' = IF ok THEN [omp EXCEPT !.roles = Canonical(ops[i].name)] ELSE omp
       /\ ops' = [ops EXCEPT ![i].at = IF ok THEN "model" ELSE "undoRoles",
                             ![i].saved = [omp EXCEPT !.roles = active]]

SetModel(i) ==
  /\ Call(i, "model", [omp EXCEPT !.model = Canonical(ops[i].name)],
          "thinking", "undoRoles")
  /\ UNCHANGED <<broken, apart, lost>>

SetThinking(i) ==
  /\ Call(i, "thinking", [omp EXCEPT !.thinking = Canonical(ops[i].name)],
          "append", "undoRoles")
  /\ UNCHANGED <<broken, apart, lost>>

\* The application counts from the moment its entry is in the log.
Record(i) ==
  /\ ops[i].at = "append" /\ ops[i].kind \in {"apply", "initialize"}
  /\ AppendState(Canonical(ops[i].name))
  /\ UNCHANGED <<current, omp, requests, lost>>
  /\ IF faults' = faults
       THEN /\ active' = Canonical(ops[i].name)
            /\ Goto(i, "done")
            /\ broken' = (broken /\ ~Mends(i))
            /\ apart' = FALSE
       ELSE /\ Goto(i, "undoRoles")
            /\ UNCHANGED <<active, broken, apart>>

\* Mutant: the rollback clears the roles instead of putting the old ones back.
RolesCleared(i) ==
  /\ Call(i, "undoRoles", [omp EXCEPT !.roles = "none"], "undoModel", "undoModel")
  /\ broken' = (broken \/ faults' # faults)
  /\ apart' = (faults' # faults)
  /\ Lose("roles")

\* The rollback, call by call; one that fails does not stop the others.  The
\* roles it puts back are those of memory.
RestoreRoles(i) ==
  /\ Call(i, "undoRoles", [omp EXCEPT !.roles = ops[i].saved.roles],
          "undoModel", "undoModel")
  /\ broken' = (broken \/ faults' # faults)
  /\ apart' = (faults' # faults)
  /\ Lose("roles")

RestoreModel(i) ==
  /\ Call(i, "undoModel", [omp EXCEPT !.model = ops[i].saved.model],
          "undoThinking", "undoThinking")
  /\ broken' = (broken \/ faults' # faults)
  /\ Lose("model")
  /\ UNCHANGED apart

RestoreThinking(i) ==
  /\ ops[i].at = "undoThinking"
  /\ \/ Works /\ omp' = [omp EXCEPT !.thinking = ops[i].saved.thinking]
     \/ Fails /\ UNCHANGED omp
  /\ active' = ops[i].saved.roles
  /\ broken' = (broken \/ faults' # faults \/ ops[i].kind = "initialize")
  /\ Lose("thinking")
  /\ Goto(i, "failed")
  /\ UNCHANGED <<current, log, requests, apart>>

-----------------------------------------------------------------------------
(* reset, and restore: the preset of the session's log without its main     *)
(* model, which OMP restores itself.                                        *)

\* clearRoles, for a reset, and for a session that has no preset or a reset.
ClearRoles(i) ==
  LET forget == ops[i].kind = "restore" /\ ops[i].entries \in {"none", "reset"}
      needed == ops[i].entries = "reset" \/ active # "none"
  IN /\ ops[i].at = "begin"
     /\ ops[i].kind = "reset" \/ forget
     /\ UNCHANGED <<current, log, requests, lost>>
     /\ \/ /\ Works
           /\ omp' = IF forget /\ ~needed THEN omp ELSE [omp EXCEPT !.roles = "none"]
           /\ active' = IF forget THEN "none" ELSE active
           /\ Goto(i, IF forget THEN "done" ELSE "append")
           /\ broken' = (broken /\ ~(forget /\ needed /\ Mends(i)))
           /\ apart' = (apart /\ ~(forget /\ needed))
        \/ /\ forget => needed
           /\ Fails
           /\ broken' = (broken \/ forget)
           /\ Goto(i, "failed")
           /\ UNCHANGED <<omp, active, apart>>

\* A reset whose entry is not written leaves memory and log with the preset
\* whose roles are gone.
RecordReset(i) ==
  /\ ops[i].at = "append" /\ ops[i].kind = "reset"
  /\ AppendState("reset")
  /\ apart' = (faults' # faults)
  /\ UNCHANGED <<current, omp, requests, lost>>
  /\ IF faults' = faults
       THEN /\ active' = "none"
            /\ Goto(i, "done")
            /\ broken' = (broken /\ ~Mends(i))
       ELSE /\ broken' = TRUE
            /\ Goto(i, "failed")
            /\ UNCHANGED active

\* A session's preset: validated, then its roles replaced.
RestorePreset(i) ==
  LET name == Canonical(ops[i].entries)
  IN /\ ops[i].at = "begin" /\ ops[i].kind = "restore"
     /\ ops[i].entries \in Names
     /\ UNCHANGED <<current, log, requests, lost>>
     /\ \/ /\ name \in Presets /\ Works
           /\ omp' = [omp EXCEPT !.roles = name]
           /\ IF name # ops[i].entries
                THEN Goto(i, "append") /\ UNCHANGED active
                ELSE Goto(i, "done") /\ active' = name
           /\ broken' = (broken /\ ~(name = ops[i].entries /\ Mends(i)))
           /\ apart' = (apart /\ name # ops[i].entries)
        \/ /\ IF name \in Presets THEN Fails ELSE Works
           /\ Goto(i, "failed")
           /\ broken' = TRUE
           /\ UNCHANGED <<omp, active, apart>>

\* The entry names an alias: the canonical name is appended.
RewriteAlias(i) ==
  /\ ops[i].at = "append" /\ ops[i].kind = "restore"
  /\ AppendState(Canonical(ops[i].entries))
  /\ apart' = (faults' # faults)
  /\ UNCHANGED <<current, omp, requests, lost>>
  /\ IF faults' = faults
       THEN /\ active' = Canonical(ops[i].entries)
            /\ Goto(i, "done")
            /\ broken' = (broken \/ ops[i].session # current)
       ELSE /\ Goto(i, "failed")
            /\ broken' = TRUE
            /\ UNCHANGED active

-----------------------------------------------------------------------------
(* What asks for operations.                                                *)

\* A preset operation, with what the session's entries say when it is asked for.
Operation(kind, name, session) ==
  [kind |-> kind, at |-> "begin", name |-> name, entries |-> log[session],
   session |-> session, saved |-> Fresh, before |-> Fresh]

Enqueue(operation) ==
  /\ requests < MaxRequests
  /\ requests' = requests + 1
  /\ Len(ops) < MaxWaiting
  /\ ops' = Append(ops, operation)

\* /preset: the words of the command come first, anything else is a name.
PresetCommand(argument) ==
  /\ argument \notin Reserved \ {"reset"}
  /\ Enqueue(IF argument = "reset" THEN Operation("reset", Default, current)
                                   ELSE Operation("apply", argument, current))
  /\ UNCHANGED <<current, log, omp, active, faults, broken, apart, lost>>

\* session_switch.  A session without a single entry is initialized if it is new.
\* The user turns to another session.  What an operation still in the queue
\* writes from now on goes to that session, whose entries were read before it.
SessionSwitch(session) ==
  /\ session # current
  /\ current' = session
  /\ \E kind \in {"initialize", "restore"} :
       /\ kind = "initialize" => log[session] = "none"
       /\ Enqueue(Operation(kind, Default, session))
  /\ broken' = (broken \/ \E i \in DOMAIN ops : ops[i].kind # "restore")
  /\ UNCHANGED <<log, omp, active, faults, apart, lost>>

\* applyRetry comes first; when it throws, nothing is restored.
RetryFails(session) ==
  /\ session # current
  /\ current' = session
  /\ Fails
  /\ broken' = TRUE
  /\ UNCHANGED <<log, omp, active, ops, requests, apart, lost>>

\* External: the user selects a main model by hand.
PickModel(model) ==
  /\ Quiet
  /\ omp' = [omp EXCEPT !.model = model, !.thinking = model]
  /\ UNCHANGED <<current, log, active, ops, requests, faults, broken, apart, lost>>

-----------------------------------------------------------------------------

\* session_start: the process has no override and no preset yet.
Init ==
  /\ current \in Sessions
  /\ log \in [Sessions -> Records]
  /\ omp = Fresh
  /\ active = "none"
  /\ \E kind \in {"initialize", "restore"} :
       /\ kind = "initialize" => log[current] = "none"
       /\ ops = <<Operation(kind, Default, current)>>
  /\ requests = 0
  /\ faults = 0
  /\ broken = FALSE
  /\ apart = FALSE
  /\ lost = {}

Controller(i) ==
  /\ Turn(i)
  /\ \/ Validated(i)
     \/ ReplaceRoles(i)
     \/ SetModel(i)
     \/ SetThinking(i)
     \/ Record(i)
     \/ RestoreRoles(i)
     \/ RestoreModel(i)
     \/ RestoreThinking(i)
     \/ ClearRoles(i)
     \/ RecordReset(i)
     \/ RestorePreset(i)
     \/ RewriteAlias(i)
     \/ Settle(i)

Next ==
  \/ \E i \in DOMAIN ops : Controller(i)
  \/ \E argument \in Names \cup {"reset"} : PresetCommand(argument)
  \/ \E session \in Sessions : SessionSwitch(session) \/ RetryFails(session)
  \/ \E model \in Presets : PickModel(model)

Spec == Init /\ [][Next]_vars

-----------------------------------------------------------------------------
(* Properties.                                                              *)

\* Between operations the roles OMP runs with, the preset the controller calls
\* active and the latest entry of the session shown are one: the next process
\* restores what this one runs with.  Operations overlap, fail and follow each
\* other in any order; only a failed rollback, a restore or reset that failed
\* half-way and a session switch during an operation are excepted.
RecordTrue ==
  Quiet /\ ~broken =>
    /\ omp.roles = active
    /\ active = IF log[current] \in {"none", "reset"} THEN "none"
                                                      ELSE log[current]

\* applyUnlocked's rollback: an application that failed, at whatever call and
\* after whatever switches, resets, restores and failures, leaves roles, main
\* model and thinking level each as it was before it.  Two cases are excepted,
\* part by part: the part whose own rollback call failed, and the roles, when
\* the application began while memory named other roles than OMP ran with.
\* Only three failures bring that about: of the entry of a reset (421-424), of
\* the entry that rewrites an alias, and of putting the roles back in an
\* earlier rollback; the next success that sets both ends it.  The code then
\* puts back the roles of memory, though every call of the rollback succeeds.
FailureUndone ==
  \A i \in DOMAIN ops :
    ops[i].kind = "apply" /\ ops[i].at = "failed" =>
      \A part \in {"roles", "model", "thinking"} \ lost :
        omp[part] = ops[i].before[part]

=============================================================================
