------------------------------ MODULE AppConfigs ------------------------------
(* One application's configuration, shared between the client and the box by *)
(* `devbox config link` and given back by `devbox config unlink`             *)
(* (app-configs/run.ts, plan.ts, registry.ts; on the box                     *)
(* remote-app-configs.sh).                                                   *)
(*                                                                           *)
(* Each side has the path the application reads and a store inside the sync  *)
(* disk; the sync engine (Mutagen, two-way-safe) reconciles the two stores   *)
(* whenever its session runs. Contents are sets of texts: a path holds one,  *)
(* an ssh file what its unlink joined. A directory counts as its one file    *)
(* that both sides have, and machine-local excludes are left out. A command  *)
(* is a list of steps, one call each, and may be cut between any two; every  *)
(* write of a file is one step.                                              *)
EXTENDS Sequences, FiniteSets

CONSTANTS
    Modes,      \* the link modes to consider: dir, file, ssh-include
    Texts,      \* what the user may write; every edit is a text that is nowhere yet
    NoFile,     \* no text
    Careful     \* the four holes `Hole...` below are avoided by whoever could avoid them

ASSUME ModesAssumption == Modes \subseteq {"dir", "file", "ssh-include"}
ASSUME CarefulAssumption == Careful \in BOOLEAN
ASSUME TextsAssumption == NoFile \notin Texts

Sides == {"client", "box"}
Contents == SUBSET Texts
Nothing == {NoFile}

VARIABLES
    mode,     \* the entry's link mode
    own,      \* own[s]: what the application reads, [kind, text]
    store,    \* store[s]: the payload in the sync disk, or Nothing
    aside,    \* aside[s]: texts in copies named .pre-devbox-<stamp>
    base,     \* the payload the engine last saw on both sides
    op,       \* the running command: idle, link, unlink
    todo,     \* its steps left, <<what, side>>
    has,      \* boxHasContent, as probed
    done,     \* what the last command completed: none, linked, unlinked
    killed,   \* history: a command was cut
    edited,   \* history: an edit was made
    swept,    \* history: while this command ran, the engine deleted the client's payload
    live      \* history: texts nobody replaced or gave up

files == <<own, store, aside>>
cli == <<op, todo, has, done, killed, edited>>
configVars == <<mode, own, store, aside, base, op, todo, has, done, killed, edited, swept, live>>

Absent == [kind |-> "absent", text |-> {}]
Plain(t) == [kind |-> "plain", text |-> t]
\* A symlink to the payload; for ssh the managed Include block above the file's own text.
Link(t) == [kind |-> "link", text |-> t]
Foreign == [kind |-> "foreign", text |-> {}]

Exists(s) == store[s] # Nothing
HasText(s) == Exists(s) /\ store[s] # {}

\* ------------------------------------------------------------------ decisions

\* inspectClient, and the helper's inspect on the box.
Kind(s) ==
    CASE own[s].kind = "plain" -> IF own[s].text = {} THEN "empty" ELSE "content"
      [] own[s].kind = "link" -> "linked"
      [] own[s].kind = "foreign" -> "foreign-link"
      [] OTHER -> "absent"

\* Mutant: the store's directory counts as its payload.
StoreDirectoryExists == TRUE
ComputeStoreKind == Exists("client")

Bare(kind) == kind \in {"absent", "empty", "linked"}

\* planAppConfigLink; the store's kind is the client's copy of it.
PlanAppConfigLink(client, box, stored) ==
    CASE "foreign-link" \in {client, box} -> "refuse"
      [] client = "linked" /\ box = "linked" -> "already-linked"
      [] stored /\ Bare(client) /\ Bare(box) -> "use-client"
      [] stored /\ ~(Bare(client) /\ Bare(box)) -> "ask"
      [] ~stored /\ client = "content" /\ box = "content" -> "ask"
      [] ~stored /\ client = "content" /\ box # "content" -> "use-client"
      [] ~stored /\ client # "content" /\ box = "content" -> "use-box"
      [] OTHER -> "seed-empty"

OneFile == mode # "dir"
OnlyOneFile(steps) == IF OneFile THEN steps ELSE <<>>

Steps(decision) ==
    LET links == <<<<"clear", "client">>, <<"link", "client">>, <<"clear", "box">>, <<"link", "box">>>>
    IN CASE decision = "use-box" ->
              <<<<"seed", "box">>, <<"shelve", "box">>>> \o OnlyOneFile(<<<<"pull", "client">>>>) \o links
         [] decision = "use-client" /\ Kind("client") = "content" ->
              <<<<"copy", "client">>, <<"shelve", "client">>>>
              \o OnlyOneFile(<<<<"probe", "box">>, <<"spare", "box">>, <<"push", "box">>>>) \o links
         [] decision = "use-client" /\ Kind("client") # "content" -> links
         [] decision = "seed-empty" ->
              OnlyOneFile(<<<<"probe", "box">>, <<"guard", "client">>>>) \o <<<<"blank", "client">>>>
              \o OnlyOneFile(<<<<"push", "box">>>>) \o links
         [] OTHER -> <<>>

\* The helper's seed copies whatever is at the box's path and is no symlink.
Seeds == own["box"].kind = "plain" \/ (own["box"].kind = "link" /\ mode = "ssh-include")
\* It does so unasked over a payload that this client has never seen ...
HoleUnseen(decision) == decision = "use-box" /\ HasText("box") /\ ~Exists("client")
\* ... and, told to keep the synced copy (the question's other side when the box has no
\* content of its own), with an empty file or with the file that holds the managed block.
HoleSynced(decision) == decision = "use-box" /\ Seeds /\ Kind("box") # "content" /\ OneFile
\* Told the same, it pulls the box's copy over the client's, which an edit may have made
\* the newer one.
HoleStale(decision) ==
    decision = "use-box" /\ Kind("box") # "content" /\ OneFile /\ store["client"] # store["box"]
\* The engine brings the box's payload between the look and the copy over it.
HoleCopy == todo # <<>> /\ Head(todo)[1] = "copy"

\* ------------------------------------------------------------------- commands

Idle == op = "idle"

\* Which side wins is the user's word when both, or one and the store, have content:
\* the synced copy is given up to a winner with content of its own.
GivenUp(decision) ==
    IF \/ decision = "use-client" /\ Kind("client") = "content"
       \/ decision = "use-box" /\ Kind("box") = "content"
    THEN UNION {store[s] : s \in Sides} ELSE {}

RunConfigLink ==
    /\ Idle
    /\ LET plan == PlanAppConfigLink(Kind("client"), Kind("box"), ComputeStoreKind) IN
       \E decision \in (IF plan = "ask" THEN {"use-client", "use-box", "refuse"} ELSE {plan}) :
         /\ Careful => ~HoleUnseen(decision) /\ ~HoleSynced(decision) /\ ~HoleStale(decision)
         /\ live' = IF plan = "ask" THEN live \ GivenUp(decision) ELSE live
         /\ todo' = Steps(decision)
         /\ op' = IF Steps(decision) = <<>> THEN "idle" ELSE "link"
    /\ done' = "none" /\ has' = FALSE /\ swept' = FALSE
    /\ UNCHANGED <<mode, files, base, killed, edited>>

RunConfigUnlink ==
    /\ Idle
    /\ op' = "unlink" /\ done' = "none" /\ has' = FALSE /\ swept' = FALSE
    /\ todo' = (IF Kind("client") = "linked"
                THEN <<<<"remove", "client">>, <<"restore", "client">>>> ELSE <<>>)
               \o <<<<"remove", "box">>, <<"restore", "box">>>>
    /\ UNCHANGED <<mode, files, base, killed, edited, live>>

Step(what, side) == ~Idle /\ todo # <<>> /\ Head(todo) = <<what, side>>
Go == todo' = Tail(todo) /\ UNCHANGED <<mode, base, op, has, done, killed, edited, swept, live>>
\* die(), a failed call, or an exception: the rest is not done.
Die ==
    /\ op' = "idle" /\ todo' = <<>>
    /\ UNCHANGED <<mode, base, has, done, killed, edited, swept, live>>

Put(s, text) == store' = [store EXCEPT ![s] = text]
KeepAside(s, text) == aside' = [aside EXCEPT ![s] = @ \cup text]

\* A copy of an empty directory adds nothing to the payload.
CopyOwn(s) == Put(s, IF mode = "dir" /\ own[s].text = {} /\ Exists(s) THEN store[s] ELSE own[s].text)

\* ------------------------------------------------------------- the link's steps

Seed ==
    /\ Step("seed", "box")
    /\ IF Seeds THEN CopyOwn("box") ELSE UNCHANGED store
    /\ Go /\ UNCHANGED <<own, aside>>

SeedFromClient ==
    /\ Step("copy", "client")
    /\ CopyOwn("client")
    /\ Go /\ UNCHANGED <<own, aside>>

\* The seeding side's own file moves aside.
Shelve(s) ==
    /\ Step("shelve", s)
    /\ IF s = "client" \/ Seeds
       THEN own' = [own EXCEPT ![s] = Absent] /\ KeepAside(s, own[s].text)
       ELSE UNCHANGED <<own, aside>>
    /\ Go /\ UNCHANGED store

PullPayloadToClient ==
    /\ Step("pull", "client")
    /\ IF Exists("box") THEN Put("client", store["box"]) /\ Go ELSE Die /\ UNCHANGED store
    /\ UNCHANGED <<own, aside>>

BoxPayloadHasContent ==
    /\ Step("probe", "box")
    /\ has' = HasText("box")
    /\ todo' = Tail(todo)
    /\ UNCHANGED <<mode, files, base, op, done, killed, edited, swept, live>>

\* pushPayloadToBox, rename-then-write: fails if the payload has gone since the probe.
RenameAside ==
    /\ Step("spare", "box")
    /\ CASE ~has -> Go /\ UNCHANGED <<store, aside>>
         [] has /\ Exists("box") -> Put("box", Nothing) /\ KeepAside("box", store["box"]) /\ Go
         [] OTHER -> Die /\ UNCHANGED <<store, aside>>
    /\ UNCHANGED own

PushPayloadToBox ==
    /\ Step("push", "box")
    /\ IF Exists("client") THEN Put("box", store["client"]) /\ Go ELSE Die /\ UNCHANGED store
    /\ UNCHANGED <<own, aside>>

\* Mutant: the empty payload is written before the refusal.
RefuseAfterwards ==
    /\ Step("guard", "client")
    /\ Put("client", {})
    /\ (IF has THEN Die ELSE Go)
    /\ UNCHANGED <<own, aside>>

\* seedEmptyGuarded refuses before anything is written.
SeedEmptyGuarded ==
    /\ Step("guard", "client")
    /\ (IF has THEN Die ELSE Go)
    /\ UNCHANGED files

\* Writes an empty file over whatever is there; a directory is only made.
SeedEmpty ==
    /\ Step("blank", "client")
    /\ IF mode = "dir" /\ Exists("client") THEN UNCHANGED store ELSE Put("client", {})
    /\ Go /\ UNCHANGED <<own, aside>>

\* Mutant: whatever else occupies the path is removed.
ClearAway(s) ==
    /\ Step("clear", s)
    /\ own' = [own EXCEPT ![s] = IF mode # "ssh-include" /\ @.kind \in {"plain", "foreign"} THEN Absent ELSE @]
    /\ Go /\ UNCHANGED <<store, aside>>

\* Whatever else occupies the path moves aside; an ssh file stays where it is.
Clear(s) ==
    /\ Step("clear", s)
    /\ IF mode # "ssh-include" /\ own[s].kind \in {"plain", "foreign"}
       THEN own' = [own EXCEPT ![s] = Absent] /\ KeepAside(s, own[s].text)
       ELSE UNCHANGED <<own, aside>>
    /\ Go /\ UNCHANGED store

LinkSide(s) ==
    /\ Step("link", s)
    /\ own' = [own EXCEPT ![s] = Link(own[s].text)]
    /\ IF mode = "dir" /\ ~Exists(s) THEN Put(s, {}) ELSE UNCHANGED store
    /\ Go /\ UNCHANGED aside

\* ----------------------------------------------------------- the unlink's steps

\* Only a link with a payload behind it is taken away; otherwise the side is done. An
\* ssh file loses its block in the one write of the next step.
Remove(s) ==
    /\ Step("remove", s)
    /\ IF own[s].kind = "link" /\ (Exists(s) \/ mode = "ssh-include")
       THEN /\ own' = [own EXCEPT ![s] = IF mode = "ssh-include" THEN @ ELSE Absent]
            /\ Go
       ELSE /\ todo' = Tail(Tail(todo))
            /\ UNCHANGED <<own, mode, base, op, has, done, killed, edited, swept, live>>
    /\ UNCHANGED <<store, aside>>

\* On the box the copy was made first and only moves; on the client cp may find the
\* payload gone and throw.
Restore(s) ==
    /\ Step("restore", s)
    /\ IF Exists(s) \/ mode = "ssh-include"
       THEN own' = [own EXCEPT ![s] = Plain(own[s].text \cup (store[s] \ Nothing))] /\ Go
       ELSE Die /\ UNCHANGED own
    /\ UNCHANGED <<store, aside>>

Finish ==
    /\ ~Idle /\ todo = <<>>
    /\ op' = "idle"
    /\ done' = IF op = "link" THEN "linked" ELSE "unlinked"
    /\ UNCHANGED <<mode, files, base, todo, has, killed, edited, swept, live>>

Kill ==
    /\ ~Idle
    /\ op' = "idle" /\ todo' = <<>> /\ killed' = TRUE
    /\ UNCHANGED <<mode, files, base, has, done, edited, swept, live>>

\* ------------------------------------------------------ the engine and the users

\* What the engine makes of two payloads: a change of one side goes to the other, a
\* deletion loses to a change and an empty directory to a full one. Two different
\* changes are a conflict, which it leaves.
Reconciled ==
    LET c == store["client"] b == store["box"]
        Loses(v) == v = base \/ v = Nothing \/ (mode = "dir" /\ v = {})
    IN CASE c = b -> {c}
         [] c # b /\ c = base -> {b}
         [] c # b /\ c # base /\ b = base -> {c}
         [] OTHER -> (IF Loses(c) THEN {b} ELSE {}) \cup (IF Loses(b) THEN {c} ELSE {})

Deliver ==
    /\ Careful => ~HoleCopy
    /\ \E v \in Reconciled :
         /\ v # base \/ store["client"] # store["box"]
         /\ store' = [s \in Sides |-> v]
         /\ base' = v
         /\ swept' = (swept \/ (~Idle /\ Exists("client") /\ v = Nothing))
    /\ UNCHANGED <<mode, own, aside, cli, live>>

Kept == UNION {own[s].text \cup store[s] \cup aside[s] : s \in Sides}

\* The application, or the user, writes its configuration between two commands: into
\* its own file, or through the link into the payload. What it writes is a new text.
Edit(s, t) ==
    /\ Idle
    /\ own[s].kind # "foreign"
    /\ t \notin Kept \cup base
    /\ IF own[s].kind = "link"
       THEN /\ Put(s, {t}) /\ UNCHANGED own
            /\ live' = (live \ store[s]) \cup {t}
       ELSE /\ own' = [own EXCEPT ![s] = Plain({t})] /\ UNCHANGED store
            /\ live' = (live \ own[s].text) \cup {t}
    /\ edited' = TRUE /\ done' = "none"
    /\ UNCHANGED <<mode, aside, base, op, todo, has, killed, swept>>

\* -------------------------------------------------------------- specification

\* A client that has not linked yet, perhaps newly installed while its box still is.
ConfigInit ==
    /\ mode \in Modes
    /\ own \in [Sides -> {Absent, Plain({}), Link({}), Foreign} \cup {Plain({t}) : t \in Texts}]
    /\ own["client"] # Link({})
    /\ mode = "ssh-include" => Foreign \notin {own[s] : s \in Sides}
    /\ store \in [Sides -> {Nothing} \cup {{t} : t \in Texts}] /\ store["client"] = Nothing
    /\ aside = [s \in Sides |-> {}]
    /\ base = Nothing
    /\ op = "idle" /\ todo = <<>> /\ has = FALSE
    /\ done = "none" /\ killed = FALSE /\ edited = FALSE /\ swept = FALSE
    /\ live = own["client"].text \cup own["box"].text \cup (store["box"] \ Nothing)

ConfigNext ==
    \/ RunConfigLink \/ RunConfigUnlink
    \/ Seed \/ SeedFromClient \/ PullPayloadToClient \/ BoxPayloadHasContent
    \/ RenameAside \/ PushPayloadToBox \/ SeedEmptyGuarded \/ SeedEmpty
    \/ \E s \in Sides : Shelve(s) \/ Clear(s) \/ LinkSide(s) \/ Remove(s) \/ Restore(s)
    \/ \E s \in Sides, t \in Texts : Edit(s, t)
    \/ Finish \/ Kill \/ Deliver

ConfigSpec == ConfigInit /\ [][ConfigNext]_configVars

\* ----------------------------------------------------------------- properties

\* Nothing is ever lost: every text that nobody replaced by an edit or gave up in
\* answer to a question is somewhere, in an application's file, a payload or a copy
\* aside, whatever is linked, unlinked, cut and synced in which order. Careful leaves out
\* four orders in which the code does lose one: the box's own file seeded over a payload
\* this client has not seen yet (HoleUnseen), or, against the answer to keep the synced
\* copy, an empty file seeded over it (HoleSynced); an older copy of the box pulled over
\* an edit (HoleStale); and a payload the engine brings just before the copy over it
\* (HoleCopy).
NothingLost == live \subseteq Kept

\* A completed link leaves both sides linked, and a payload behind the client's link:
\* never a link to nothing, which the application would fill with a fresh configuration.
\* Edits, cuts and re-runs come before it and the engine delivers between any two calls.
\* Only if the engine deleted the client's payload while this very command ran is none
\* promised: the box's had been renamed by an earlier command that was cut.
LinkHasTarget ==
    [][done' = "linked" /\ done # "linked" =>
        (~swept => Exists("client")) /\ \A s \in Sides : own[s].kind = "link"]_configVars

\* A completed link ends with the same payload on both sides, be it the first or one
\* repeated after a refusal, asked or not: neither reads an empty copy while the other's
\* content stays behind. (A directory, and what an edit or a cut leaves different, is
\* left to the engine; Careful as for NothingLost.)
LinksAgree ==
    [][done' = "linked" /\ done # "linked" /\ OneFile /\ ~killed /\ ~edited =>
        store["client"] = store["box"]]_configVars
=============================================================================
