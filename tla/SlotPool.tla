------------------------------ MODULE SlotPool ------------------------------
(***************************************************************************)
(* What the heavy-command gate promises its callers, with no processes     *)
(* polling, probing or being reparented: a pool of slots, each occupied by *)
(* at most one job.  A job is the set of processes that keep it alive; it  *)
(* is admitted to an EMPTY slot by one process, grows only from inside,    *)
(* and frees the slot when its last process leaves.                        *)
(***************************************************************************)
CONSTANTS Slots, Procs

VARIABLE jobs      \* jobs[s]: the processes of the job that occupies slot s

PoolTypeOK == jobs \in [Slots -> SUBSET Procs]

Init == jobs = [s \in Slots |-> {}]

Admit(s, p) ==
    /\ jobs[s] = {}
    /\ jobs' = [jobs EXCEPT ![s] = {p}]

(* A child inherits the membership of its parent, in every slot the parent  *)
(* occupies: a nested job can sit inside a hand-locked one.                 *)
Join(p, q) ==
    jobs' = [s \in Slots |-> IF p \in jobs[s] THEN jobs[s] \cup {q} ELSE jobs[s]]

Leave(p) ==
    jobs' = [s \in Slots |-> jobs[s] \ {p}]

(* The lock is given back while its holder lives (a script's `flock -u`).   *)
GiveBack(s) ==
    jobs' = [jobs EXCEPT ![s] = {}]

Next ==
    \/ \E s \in Slots, p \in Procs : Admit(s, p)
    \/ \E p, q \in Procs : Join(p, q)
    \/ \E p \in Procs : Leave(p)
    \/ \E s \in Slots : GiveBack(s)

Spec == Init /\ [][Next]_jobs
=============================================================================
