----------------------------- MODULE AccountSwap ----------------------------
(***************************************************************************)
(* Manual Claude account swapping, scripts/devbox-account.sh.  One config  *)
(* tree holds the logged-in account as two files - the identity keys of    *)
(* .claude.json and the credential - and a vault beside it holds one       *)
(* parked pair per label, a registry (rows, `active`), a mkdir lock and a  *)
(* few backups.  `use` parks the active pair and restores another;  `add`  *)
(* adopts what is logged in; `rm` forgets a label.                         *)
(*                                                                         *)
(* Several invocations can run at once, and each can be killed between any *)
(* two of its writes.  Claude itself logs in, and refreshes its token: the *)
(* refreshed-away token is dead, so a stale copy of it is worth nothing.   *)
(* Sessions start, end and write to the tree at any time: the one question *)
(* whether a `claude` runs is asked before the lock is taken.              *)
(***************************************************************************)
EXTENDS Integers, Sequences, FiniteSets

CONSTANTS
    Procs,        \* concurrent invocations
    Labels,       \* labels a developer uses
    Accounts,     \* accounts; each bills an org of its own
    None,         \* no account, label, process or token
    Stale,        \* the lock directory of a killed invocation
    Keep,         \* DEVBOX_ACCOUNT_BACKUP_KEEP
    MaxIssued,    \* bound: tokens issued per account
    Kills,        \* invocations can be killed half-way
    Online        \* the org check can always reach Anthropic

ASSUME KeepAssumption == Keep \in Nat
ASSUME MaxIssuedAssumption == MaxIssued \in Nat \ {0}
ASSUME NoneAssumption ==
    /\ None \notin Procs \cup Labels \cup Accounts \cup {Stale}
    /\ Stale \notin Procs
ASSUME AccountSwitchAssumption == {Kills, Online} \subseteq BOOLEAN

Tokens == [acct : Accounts, gen : 1..MaxIssued]
NoToken == [acct |-> None, gen |-> 0]

VARIABLES
    treeId,       \* oauthAccount & co. of .claude.json
    treeCred,     \* the credential store of the tree
    vid, vcred,   \* vid[l], vcred[l]: $VAULT/<l>/identity.json, credentials.json
    rows,         \* rows[l]: the account the registry row of l describes
    active,       \* the registry's `active`
    lock,         \* $VAULT/.lock: None, its owner, or Stale
    backups,      \* $VAULT/.backups, oldest first
    job,          \* job[p]: an invocation and its shell variables
    running,      \* a `claude` process lives on this tree
    issued,       \* issued[a]: tokens Anthropic has issued to a
    live,         \* the tokens that still work
    slips         \* history, read by the properties only: what the script does
                  \* not guard against has happened (see Slips)

tree == <<treeId, treeCred>>
vault == <<vid, vcred>>
registry == <<rows, active>>
claude == <<running, issued, live, slips>>
vars == <<treeId, treeCred, vid, vcred, rows, active, lock, backups, job,
          running, issued, live, slips>>

Idle == [pc |-> "idle", verb |-> "use", label |-> None, force |-> FALSE,
         active |-> None, heal |-> FALSE, id |-> None, cred |-> NoToken]

Jobs == [pc : {"idle", "early", "lock", "capture", "save", "verify", "commitId",
               "commitCred", "snapshot", "apply", "load", "activate", "register",
               "remove", "forget"},
         verb : {"use", "add", "rm"},
         label : Labels \cup {None},
         force : BOOLEAN,
         active : Labels \cup {None},     \* read BEFORE the lock is taken
         heal : BOOLEAN,                  \* heal_only
         id : Accounts \cup {None},       \* identity.json.new
         cred : Tokens \cup {NoToken}]    \* credentials.json.new

TypeOK ==
    /\ treeId \in Accounts \cup {None}
    /\ treeCred \in Tokens \cup {NoToken}
    /\ vid \in [Labels -> Accounts \cup {None}]
    /\ vcred \in [Labels -> Tokens \cup {NoToken}]
    /\ rows \in [Labels -> Accounts \cup {None}]
    /\ active \in Labels \cup {None}
    /\ lock \in Procs \cup {None, Stale}
    /\ backups \in Seq([label : Labels, id : Accounts \cup {None},
                        cred : Tokens \cup {NoToken}])
    /\ Len(backups) <= Keep
    /\ job \in [Procs -> Jobs]
    /\ running \in BOOLEAN
    /\ issued \in [Accounts -> 0..MaxIssued]
    /\ live \subseteq Tokens
    /\ slips \subseteq {"account", "token"}

Init ==
    /\ treeId = None
    /\ treeCred = NoToken
    /\ vid = [l \in Labels |-> None]
    /\ vcred = [l \in Labels |-> NoToken]
    /\ rows = [l \in Labels |-> None]
    /\ active = None
    /\ lock = None
    /\ backups = <<>>
    /\ job = [p \in Procs |-> Idle]
    /\ running = FALSE
    /\ issued = [a \in Accounts |-> 0]
    /\ live = {}
    /\ slips = {}

-----------------------------------------------------------------------------
(* Helpers.                                                                *)

At(p, phase) == job[p].pc = phase

Goto(p, phase) == job' = [job EXCEPT ![p].pc = phase]

Parked(l) == vid[l] # None /\ vcred[l] # NoToken

(* tree_matches_registry: only two named accounts can disagree.             *)
Differ(a, b) == a # None /\ b # None /\ a # b

(* The one state in which `status` warns: the tree holds an account the     *)
(* registry does not point at.                                              *)
Drifted == active # None /\ Differ(treeId, rows[active])

(* The invocation ends and its EXIT trap removes the lock it made.          *)
Finish(p) ==
    /\ job' = [job EXCEPT ![p] = Idle]
    /\ lock' = IF lock = p THEN None ELSE lock

(* prune: the newest Keep entries stay.                                     *)
Newest(s, n) == IF Len(s) <= n THEN s ELSE SubSeq(s, Len(s) - n + 1, Len(s))

Prune(s) == Newest(s, Keep)

(* The label a capture writes to.                                           *)
Target(p) == IF job[p].verb = "add" THEN job[p].label ELSE job[p].active

-----------------------------------------------------------------------------
(* Slips.  Each is a thing the code lets happen, and after it the account   *)
(* of a label ("account") or a working token ("token") can be lost.         *)

Quiet == \A p \in Procs : At(p, "idle")

Mark(slip, happens) == IF happens THEN {slip} ELSE {}

(* The tree has the only working token of an adopted account: Claude has    *)
(* refreshed it since it was parked.                                        *)
Sole ==
    /\ treeCred \in live
    /\ \E l \in Labels : Parked(l) /\ rows[l] = treeCred.acct /\ vcred[l] \notin live

(* `use` of another label while `status` warns parks the foreign login      *)
(* under the active label, also when it repeats a `use` that was killed     *)
(* between identity-apply and reg-activate.  The only working token goes    *)
(* when `use` of the active label installs the parked one over it, or when  *)
(* it lies beside the identity of another account (a killed heal) and       *)
(* `use` moves the pair to a backup.  A label that a killed `add` left      *)
(* without a row takes the tree and leaves the registry behind.             *)
UseSlips(l) ==
    Mark("account", Drifted /\ active # l)
        \cup Mark("token", \/ Sole /\ (active = l \/ treeCred.acct # treeId)
                          \/ rows[l] = None)

(* `add` under a label adopted for another account can be killed before the *)
(* row follows; a second label for one account has the same token twice.    *)
AddSlips(l) ==
    Mark("account", ~({rows[l], vid[l]} \subseteq {None, treeId}))
        \cup Mark("token", \E m \in Labels \ {l} : rows[m] # None /\ rows[m] = treeId)

(* /login over the only working token, or while an invocation runs.         *)
LoginSlips(complete) ==
    Mark("account", complete /\ ~Quiet) \cup Mark("token", Sole \/ ~Quiet)

(* Claude refreshes the token an invocation is about to park or restore: a  *)
(* session beside `add` or `use --force`, or started after the question.    *)
RefreshSlips == Mark("token", ~Quiet)

-----------------------------------------------------------------------------
(* Before the lock.                                                        *)

(* cmd_use up to `lock`: the parked pair exists; the active label with a    *)
(* matching tree is only re-installed; otherwise a live claude refuses the  *)
(* swap unless forced.  `active` is read here and not again.                *)
UseCheck(p, l, force) ==
    LET same == active = l /\ treeCred # NoToken
        early == same /\ ~Differ(treeId, vid[l]) /\ ~force
    IN  /\ At(p, "idle")
        /\ Parked(l)
        /\ early \/ force \/ ~running
        /\ job' = [job EXCEPT ![p] =
              [Idle EXCEPT !.pc = IF early THEN "early" ELSE "lock",
                           !.label = l, !.force = force,
                           !.active = active, !.heal = same]]
        /\ slips' = slips \cup UseSlips(l)
        /\ UNCHANGED <<tree, vault, registry, lock, backups, running, issued, live>>

(* "'<label>' is already active": the parked credential is installed, with  *)
(* neither the lock nor the question whether claude runs.                   *)
UseActive(p) ==
    /\ At(p, "early")
    /\ treeCred' = IF vcred[job[p].label] # NoToken THEN vcred[job[p].label] ELSE treeCred
    /\ Finish(p)
    /\ UNCHANGED <<treeId, vault, registry, backups, claude>>

AddCheck(p, l) ==
    /\ At(p, "idle")
    /\ treeCred # NoToken
    /\ job' = [job EXCEPT ![p] = [Idle EXCEPT !.pc = "lock", !.verb = "add", !.label = l]]
    /\ slips' = slips \cup AddSlips(l)
    /\ UNCHANGED <<tree, vault, registry, lock, backups, running, issued, live>>

RmCheck(p, l) ==
    /\ At(p, "idle")
    /\ vid[l] # None \/ vcred[l] # NoToken
    /\ active # l
    /\ job' = [job EXCEPT ![p] = [Idle EXCEPT !.pc = "lock", !.verb = "rm", !.label = l]]
    /\ UNCHANGED <<tree, vault, registry, lock, backups, claude>>

(* Mutant: mkdir -p, which succeeds on a directory that exists.             *)
LockAlways(p) ==
    /\ At(p, "lock")
    /\ lock' = p
    /\ Goto(p, IF job[p].verb = "rm" THEN "remove" ELSE "capture")
    /\ UNCHANGED <<tree, vault, registry, backups, claude>>

(* Mutant: a forced swap does not park what it replaces.                    *)
LockUnparked(p) ==
    /\ At(p, "lock")
    /\ lock = None
    /\ lock' = p
    /\ Goto(p, CASE job[p].verb = "add" -> "capture"
                 [] job[p].verb = "rm"  -> "remove"
                 [] OTHER -> IF treeCred # NoToken /\ ~job[p].heal /\ ~job[p].force
                               THEN "capture" ELSE "apply")
    /\ UNCHANGED <<tree, vault, registry, backups, claude>>

(* Mutant: healing the active label parks the drifted tree first.           *)
LockParksDrift(p) ==
    /\ At(p, "lock")
    /\ lock = None
    /\ lock' = p
    /\ Goto(p, CASE job[p].verb = "add" -> "capture"
                 [] job[p].verb = "rm"  -> "remove"
                 [] OTHER -> IF treeCred # NoToken THEN "capture" ELSE "apply")
    /\ UNCHANGED <<tree, vault, registry, backups, claude>>

(* mkdir "$VAULT/.lock", or "another swap is in progress".                  *)
Lock(p) ==
    /\ At(p, "lock")
    /\ IF lock # None
         THEN Finish(p)
         ELSE /\ lock' = p
              /\ Goto(p, CASE job[p].verb = "add" -> "capture"
                           [] job[p].verb = "rm"  -> "remove"
                           [] OTHER -> IF treeCred # NoToken /\ ~job[p].heal
                                         THEN "capture" ELSE "apply")
    /\ UNCHANGED <<tree, vault, registry, backups, claude>>

-----------------------------------------------------------------------------
(* Parking: capture, then the snapshot.                                    *)

(* identity-extract.  A swap away from an untracked login, or a tree that   *)
(* names no account, ends the invocation.                                   *)
Extract(p) ==
    /\ At(p, "capture")
    /\ IF Target(p) = None \/ treeId = None
         THEN Finish(p)
         ELSE /\ job' = [job EXCEPT ![p].pc = "save", ![p].id = treeId]
              /\ UNCHANGED lock
    /\ UNCHANGED <<tree, vault, registry, backups, claude>>

(* store_save: the credential is read after, and apart from, the identity.  *)
Save(p) ==
    /\ At(p, "save")
    /\ IF treeCred = NoToken
         THEN Finish(p)
         ELSE /\ job' = [job EXCEPT ![p].pc = "verify", ![p].cred = treeCred]
              /\ UNCHANGED lock
    /\ UNCHANGED <<tree, vault, registry, backups, claude>>

(* Mutant: the org is not compared.                                         *)
VerifyNever(p) ==
    /\ At(p, "verify")
    /\ Goto(p, "commitId")
    /\ UNCHANGED <<tree, vault, registry, lock, backups, claude>>

(* verify-org says the token bills the org the identity names, or could not *)
(* be asked and only warns.                                                 *)
VerifyOk(p) ==
    /\ At(p, "verify")
    /\ job[p].cred.acct = job[p].id \/ ~Online
    /\ Goto(p, "commitId")
    /\ UNCHANGED <<tree, vault, registry, lock, backups, claude>>

(* It bills another org: `add` refuses; `use` keeps the label's last pair,  *)
(* moves the mismatched one aside, and carries on with the swap.            *)
VerifyMismatch(p) ==
    /\ At(p, "verify")
    /\ job[p].cred.acct # job[p].id
    /\ IF job[p].verb = "add"
         THEN Finish(p) /\ UNCHANGED backups
         ELSE /\ backups' = Prune(Append(backups,
                     [label |-> Target(p), id |-> job[p].id, cred |-> job[p].cred]))
              /\ Goto(p, "apply")
              /\ UNCHANGED lock
    /\ UNCHANGED <<tree, vault, registry, claude>>

(* mv identity.json.new, then mv credentials.json.new.                      *)
CommitId(p) ==
    /\ At(p, "commitId")
    /\ vid' = [vid EXCEPT ![Target(p)] = job[p].id]
    /\ Goto(p, "commitCred")
    /\ UNCHANGED <<tree, vcred, registry, lock, backups, claude>>

CommitCred(p) ==
    /\ At(p, "commitCred")
    /\ vcred' = [vcred EXCEPT ![Target(p)] = job[p].cred]
    /\ Goto(p, IF job[p].verb = "add" THEN "register" ELSE "snapshot")
    /\ UNCHANGED <<tree, vid, registry, lock, backups, claude>>

(* snapshot: taken after the capture, so of the pair just parked.           *)
Snapshot(p) ==
    LET a == job[p].active
    IN  /\ At(p, "snapshot")
        /\ backups' = Prune(Append(backups,
                [label |-> a, id |-> vid[a], cred |-> vcred[a]]))
        /\ Goto(p, "apply")
        /\ UNCHANGED <<tree, vault, registry, lock, claude>>

-----------------------------------------------------------------------------
(* Restoring.                                                              *)

(* Mutant: merge - a logged-in tree keeps its identity.                     *)
ApplyMerge(p) ==
    /\ At(p, "apply")
    /\ treeId' = IF treeId = None THEN vid[job[p].label] ELSE treeId
    /\ Goto(p, "load")
    /\ UNCHANGED <<treeCred, vault, registry, lock, backups, claude>>

(* identity-apply, set-or-delete; a missing identity.json loads as {}.      *)
Apply(p) ==
    /\ At(p, "apply")
    /\ treeId' = vid[job[p].label]
    /\ Goto(p, "load")
    /\ UNCHANGED <<treeCred, vault, registry, lock, backups, claude>>

(* store_load; `cp` of a missing credential ends the script.                *)
Load(p) ==
    LET c == vcred[job[p].label]
    IN  /\ At(p, "load")
        /\ IF c = NoToken
             THEN Finish(p) /\ UNCHANGED treeCred
             ELSE /\ treeCred' = c
                  /\ Goto(p, "activate")
                  /\ UNCHANGED lock
        /\ UNCHANGED <<treeId, vault, registry, backups, claude>>

(* reg-activate; an unknown label ends the script with an error.            *)
Activate(p) ==
    /\ At(p, "activate")
    /\ active' = IF rows[job[p].label] # None THEN job[p].label ELSE active
    /\ Finish(p)
    /\ UNCHANGED <<tree, vault, rows, backups, claude>>

(* reg-upsert, from the identity now in the vault.                          *)
Register(p) ==
    LET l == job[p].label
    IN  /\ At(p, "register")
        /\ rows' = [rows EXCEPT ![l] = vid[l]]
        /\ active' = l
        /\ Finish(p)
        /\ UNCHANGED <<tree, vault, backups, claude>>

(* rm -rf "$VAULT/<label>", then reg-forget.                                *)
Remove(p) ==
    LET l == job[p].label
    IN  /\ At(p, "remove")
        /\ vid' = [vid EXCEPT ![l] = None]
        /\ vcred' = [vcred EXCEPT ![l] = NoToken]
        /\ Goto(p, "forget")
        /\ UNCHANGED <<tree, registry, lock, backups, claude>>

Forget(p) ==
    LET l == job[p].label
    IN  /\ At(p, "forget")
        /\ rows' = [rows EXCEPT ![l] = None]
        /\ active' = IF active = l THEN None ELSE active
        /\ Finish(p)
        /\ UNCHANGED <<tree, vault, backups, claude>>

(* gc --keep n, which takes no lock.                                        *)
Gc(n) ==
    /\ Len(backups) > n
    /\ backups' = Newest(backups, n)
    /\ UNCHANGED <<tree, vault, registry, lock, job, claude>>

-----------------------------------------------------------------------------
(* Failures, and the operator.                                             *)

(* SIGKILL leaves the lock directory; any other death runs the trap.        *)
Crash(p) ==
    /\ Kills
    /\ ~At(p, "idle")
    /\ \/ Finish(p)
       \/ /\ lock = p
          /\ lock' = Stale
          /\ job' = [job EXCEPT ![p] = Idle]
    /\ UNCHANGED <<tree, vault, registry, backups, claude>>

(* "remove it if that is stale".                                            *)
RemoveStaleLock ==
    /\ lock = Stale
    /\ lock' = None
    /\ UNCHANGED <<tree, vault, registry, backups, job, claude>>

-----------------------------------------------------------------------------
(* Claude on the tree.                                                     *)

NextToken(a) == [acct |-> a, gen |-> issued[a] + 1]

(* /login: a fresh token.  `complete` is FALSE when only the credential is  *)
(* written - a half-finished /login, or one that picked another org.        *)
Login(a, complete) ==
    /\ issued[a] < MaxIssued
    /\ treeCred' = NextToken(a)
    /\ treeId' = IF complete THEN a ELSE treeId
    /\ issued' = [issued EXCEPT ![a] = @ + 1]
    /\ live' = live \cup {NextToken(a)}
    /\ slips' = slips \cup LoginSlips(complete)
    /\ UNCHANGED <<vault, registry, lock, backups, job, running>>

SetRunning(b) ==
    /\ running # b
    /\ running' = b
    /\ UNCHANGED <<tree, vault, registry, lock, backups, job, issued, live, slips>>

(* A refresh token works once.                                              *)
Refresh ==
    LET a == treeCred.acct
    IN  /\ running
        /\ treeCred \in live
        /\ issued[a] < MaxIssued
        /\ treeCred' = NextToken(a)
        /\ issued' = [issued EXCEPT ![a] = @ + 1]
        /\ live' = (live \ {treeCred}) \cup {NextToken(a)}
        /\ slips' = slips \cup RefreshSlips
        /\ UNCHANGED <<treeId, vault, registry, lock, backups, job, running>>

-----------------------------------------------------------------------------
Step(p) ==
    \/ UseActive(p) \/ Lock(p)
    \/ Extract(p) \/ Save(p) \/ VerifyOk(p) \/ VerifyMismatch(p)
    \/ CommitId(p) \/ CommitCred(p) \/ Snapshot(p)
    \/ Apply(p) \/ Load(p) \/ Activate(p) \/ Register(p)
    \/ Remove(p) \/ Forget(p)

Invoke(p) ==
    \E l \in Labels :
        \/ \E force \in BOOLEAN : UseCheck(p, l, force)
        \/ AddCheck(p, l)
        \/ RmCheck(p, l)

Next ==
    \/ \E p \in Procs : Invoke(p) \/ Step(p) \/ Crash(p)
    \/ \E n \in 0..Keep : Gc(n)
    \/ RemoveStaleLock
    \/ \E a \in Accounts, complete \in BOOLEAN : Login(a, complete)
    \/ \E b \in BOOLEAN : SetRunning(b)
    \/ Refresh

Spec == Init /\ [][Next]_vars

-----------------------------------------------------------------------------
(* Properties.                                                             *)

(* A parked identity is the account its label was adopted for, whatever is  *)
(* killed or refreshed when, until an "account" slip.  (cmd_use: "Park what *)
(* is there BEFORE touching anything, and refuse rather than destroy a      *)
(* login the registry does not know about.")                                *)
LabelsTrue ==
    Quiet /\ "account" \notin slips =>
        \A l \in Labels : rows[l] # None /\ vid[l] # None => vid[l] = rows[l]

(* "A label only holds a token for its own org" (docs/multi-account.md:170):*)
(* the two halves of a parked pair agree, crashes between the two mv's      *)
(* included.                                                                *)
PairsMatch ==
    Quiet => \A l \in Labels : Parked(l) => vcred[l].acct = vid[l]

(* No adopted account is lost before `rm`: until a slip, a token of it that *)
(* still works is in the tree or in the vault - not merely in a backup that *)
(* the next swaps prune - at every step of an invocation, wherever it is    *)
(* killed and however often Claude has refreshed in between.                *)
Kept(t) == treeCred = t \/ \E l \in Labels : vcred[l] = t

LoginsKept ==
    slips = {} =>
        \A l \in Labels : rows[l] # None /\ Parked(l) =>
            \E t \in live : t.acct = rows[l] /\ Kept(t)

(* A swap that completes leaves the tree logged in to the label's account,  *)
(* identity and credential alike, with a token that works, and the registry *)
(* pointing at the label - until a slip.                                    *)
SwapLands ==
    [][\A p \in Procs :
          slips = {} /\ At(p, "activate") /\ lock' # Stale /\ active' = job[p].label =>
              /\ treeId = rows[active']
              /\ treeCred.acct = rows[active']
              /\ treeCred \in live]_vars

(* The critical sections exclude each other.                                *)
InLock(p) == job[p].pc \notin {"idle", "early", "lock"}

LockExcludes == \A p \in Procs : InLock(p) => lock = p
=============================================================================
