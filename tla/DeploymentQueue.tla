---------------------------- MODULE DeploymentQueue ----------------------------
(***************************************************************************)
(* The persistent deployment queue: workers (CLI processes in run_next)    *)
(* share a directory of job files and a directory of lock files.  Every    *)
(* file operation of a claim is a step of its own; the jobs a worker has   *)
(* claimed then run in its threads.                                        *)
(***************************************************************************)
EXTENDS Integers, FiniteSets

CONSTANTS
    Workers,
    Jobs,      \* the jobs, numbered in the order of priority and age
    GpuJobs,   \* those with require_gpu
    GpuSlots,  \* slots every worker's probe reports
    MaxJobs,   \* max_jobs of run_next
    MaxCrash   \* bound on the crashes

ASSUME QueueAssumption ==
    /\ Jobs \subseteq Nat /\ IsFiniteSet(Jobs) /\ GpuJobs \subseteq Jobs
    /\ {"free", "dead"} \cap Workers = {}
    /\ GpuSlots \in Nat /\ MaxJobs \in Nat \ {0} /\ MaxCrash \in Nat

VARIABLES
    item,     \* item[j]: status in items/<job>.json, "none" before submit
    lockfile, \* lockfile[j]: who made locks/<job>.lock, Free when there is none
    old,      \* the jobs whose lock is older than claim_ttl_seconds
    pc,       \* pc[w]: where worker w is
    todo,     \* todo[w]: rest of the queued items w listed
    cur,      \* cur[w]: the job w is claiming
    mine,     \* mine[w][j]: step of job j in worker w's threads
    execs,    \* history: execs[j] counts the deployments of j
    tornClaim, \* history: a worker died between its lock and its item
    crashes

queue_vars == <<item, lockfile, old, pc, todo, cur, mine, execs, tornClaim, crashes>>
ends == <<tornClaim, crashes>>

Free == "free"
Dead == "dead"   \* maker of the locks dead workers left
Claiming == {"check", "unlink", "create", "read", "write"}
Threads == {"none", "claimed", "deploying", "deployed", "saved", "done"}

QueueInit ==
    /\ item = [j \in Jobs |-> "none"]
    /\ lockfile = [j \in Jobs |-> Free] /\ old = {}
    /\ pc = [w \in Workers |-> "idle"]
    /\ todo = [w \in Workers |-> {}] /\ cur = [w \in Workers |-> 0]
    /\ mine = [w \in Workers |-> [j \in Jobs |-> "none"]]
    /\ execs = [j \in Jobs |-> 0] /\ tornClaim = FALSE /\ crashes = 0

Selected(w) == {j \in Jobs : mine[w][j] # "none"}
Goto(w, l) == pc' = [pc EXCEPT ![w] = l]

Submit(j) ==
    /\ item[j] = "none" /\ item' = [item EXCEPT ![j] = "queued"]
    /\ UNCHANGED <<lockfile, old, pc, todo, cur, mine, execs, ends>>

-----------------------------------------------------------------------------
(* run_next                                                                *)

\* _queued_items: a list of what is queued now.
List(w) ==
    /\ pc[w] = "idle"
    /\ todo' = [todo EXCEPT ![w] = {j \in Jobs : item[j] = "queued"}]
    /\ mine' = [mine EXCEPT ![w] = [j \in Jobs |-> "none"]]
    /\ Goto(w, "next")
    /\ UNCHANGED <<item, lockfile, old, cur, execs, ends>>

GpuFull(w) == Cardinality(Selected(w) \cap GpuJobs) >= GpuSlots

\* The next listed item; a GPU job is skipped when the slots are used up.
NextItem(w) ==
    /\ pc[w] = "next"
    /\ IF todo[w] = {} \/ Cardinality(Selected(w)) >= MaxJobs
         THEN Goto(w, "run") /\ UNCHANGED <<todo, cur>>
         ELSE \E j \in todo[w] :
              /\ \A k \in todo[w] : j <= k
              /\ todo' = [todo EXCEPT ![w] = @ \ {j}]
              /\ IF j \in GpuJobs /\ GpuFull(w)
                   THEN UNCHANGED <<pc, cur>>
                   ELSE Goto(w, "check") /\ cur' = [cur EXCEPT ![w] = j]
    /\ UNCHANGED <<item, lockfile, old, mine, execs, ends>>

\* Fault: an old lock is never recovered.
CheckLock_NoRecovery(w) ==
    /\ pc[w] = "check" /\ Goto(w, "create")
    /\ UNCHANGED <<item, lockfile, old, todo, cur, mine, execs, ends>>

\* _recover_stale_lock looks at the age ...
CheckLock(w) ==
    /\ pc[w] = "check"
    /\ Goto(w, IF lockfile[cur[w]] # Free /\ cur[w] \in old THEN "unlink" ELSE "create")
    /\ UNCHANGED <<item, lockfile, old, todo, cur, mine, execs, ends>>

\* ... and removes whatever lock is there by then.
Unlink(j) == lockfile' = [lockfile EXCEPT ![j] = Free] /\ old' = old \ {j}

UnlinkStale(w) ==
    /\ pc[w] = "unlink" /\ Unlink(cur[w])
    /\ Goto(w, "create")
    /\ UNCHANGED <<item, todo, cur, mine, execs, ends>>

\* os.open with O_CREAT | O_EXCL.
CreateLock(w) ==
    /\ pc[w] = "create"
    /\ IF lockfile[cur[w]] = Free
         THEN lockfile' = [lockfile EXCEPT ![cur[w]] = w] /\ Goto(w, "read")
         ELSE UNCHANGED lockfile /\ Goto(w, "next")
    /\ UNCHANGED <<item, old, todo, cur, mine, execs, ends>>

\* Fault: the item is not read again under the lock.
ReadItem_Trusting(w) ==
    /\ pc[w] = "read" /\ Goto(w, "write")
    /\ UNCHANGED <<item, lockfile, old, todo, cur, mine, execs, ends>>

\* The item is read again; one that is no longer queued is left.
ReadItem(w) ==
    /\ pc[w] = "read"
    /\ IF item[cur[w]] = "queued"
         THEN Goto(w, "write") /\ UNCHANGED <<lockfile, old>>
         ELSE Goto(w, "next") /\ Unlink(cur[w])
    /\ UNCHANGED <<item, todo, cur, mine, execs, ends>>

WriteRunning(w) ==
    /\ pc[w] = "write"
    /\ item' = [item EXCEPT ![cur[w]] = "running"]
    /\ mine' = [mine EXCEPT ![w][cur[w]] = "claimed"]
    /\ Goto(w, "next")
    /\ UNCHANGED <<lockfile, old, todo, cur, execs, ends>>

-----------------------------------------------------------------------------
(* _run_item, in a thread per claimed job                                  *)

Deploy(w, j) ==
    /\ pc[w] = "run" /\ mine[w][j] = "claimed"
    /\ mine' = [mine EXCEPT ![w][j] = "deploying"]
    /\ execs' = [execs EXCEPT ![j] = @ + 1]
    /\ UNCHANGED <<item, lockfile, old, pc, todo, cur, ends>>

Deployed(w, j) ==
    /\ mine[w][j] = "deploying"
    /\ mine' = [mine EXCEPT ![w][j] = "deployed"]
    /\ UNCHANGED <<item, lockfile, old, pc, todo, cur, execs, ends>>

\* completed, or failed after an exception.
SaveItem(w, j) ==
    /\ mine[w][j] = "deployed"
    /\ \E s \in {"completed", "failed"} : item' = [item EXCEPT ![j] = s]
    /\ mine' = [mine EXCEPT ![w][j] = "saved"]
    /\ UNCHANGED <<lockfile, old, pc, todo, cur, execs, ends>>

ReleaseLock(w, j) ==
    /\ mine[w][j] = "saved" /\ Unlink(j)
    /\ mine' = [mine EXCEPT ![w][j] = "done"]
    /\ UNCHANGED <<item, pc, todo, cur, execs, ends>>

\* run_next returns when every thread has ended.
Return(w) ==
    /\ pc[w] = "run" /\ \A j \in Selected(w) : mine[w][j] = "done"
    /\ Goto(w, "idle")
    /\ UNCHANGED <<item, lockfile, old, todo, cur, mine, execs, ends>>

-----------------------------------------------------------------------------
\* The worker dies with its threads; its files stay.
WorkerCrash(w) ==
    /\ pc[w] # "idle" /\ crashes < MaxCrash
    /\ crashes' = crashes + 1
    /\ tornClaim' = (tornClaim \/ pc[w] \in {"read", "write"})
    /\ Goto(w, "idle")
    /\ mine' = [mine EXCEPT ![w] = [j \in Jobs |-> "none"]]
    /\ lockfile' = [j \in Jobs |-> IF lockfile[j] = w THEN Dead ELSE lockfile[j]]
    /\ UNCHANGED <<item, old, todo, cur, execs>>

\* KeyboardInterrupt in a job that runs in the main thread is no Exception:
\* the item is written back as running and the lock is released.
Interrupt(w, j) ==
    /\ mine[w][j] = "deploying" /\ Selected(w) = {j} /\ crashes < MaxCrash
    /\ crashes' = crashes + 1
    /\ item' = [item EXCEPT ![j] = "running"]
    /\ mine' = [mine EXCEPT ![w][j] = "saved"]
    /\ UNCHANGED <<lockfile, old, pc, todo, cur, execs, tornClaim>>

\* A claim takes less than claim_ttl_seconds; only the lock of a deployment or
\* of a dead worker grows old.
Age(j) ==
    /\ lockfile[j] # Free /\ j \notin old
    /\ ~\E w \in Workers : pc[w] \in Claiming /\ cur[w] = j /\ lockfile[j] = w
    /\ old' = old \cup {j}
    /\ UNCHANGED <<item, lockfile, pc, todo, cur, mine, execs, ends>>

Claim(w) == \/ NextItem(w) \/ CheckLock(w) \/ UnlinkStale(w) \/ CreateLock(w)
            \/ ReadItem(w) \/ WriteRunning(w)
Thread(w, j) == Deploy(w, j) \/ Deployed(w, j) \/ SaveItem(w, j) \/ ReleaseLock(w, j)

QueueNext == \/ \E j \in Jobs : Submit(j) \/ Age(j)
             \/ \E w \in Workers : \/ List(w) \/ Claim(w) \/ Return(w) \/ WorkerCrash(w)
                                   \/ \E j \in Jobs : Thread(w, j) \/ Interrupt(w, j)

QueueSpec == QueueInit /\ [][QueueNext]_queue_vars

\* Workers are started again and again and every deployment returns (its
\* commands have timeouts); time passes.
QueueFairness ==
    /\ \A w \in Workers :
          /\ WF_queue_vars(List(w)) /\ WF_queue_vars(Claim(w)) /\ WF_queue_vars(Return(w))
          /\ \A j \in Jobs : WF_queue_vars(Thread(w, j))
    /\ \A j \in Jobs : WF_queue_vars(Age(j))

QueueFairSpec == QueueSpec /\ QueueFairness

-----------------------------------------------------------------------------
\* Every variable has its type.
QueueTypeOK ==
    /\ item \in [Jobs -> {"none", "queued", "running", "completed", "failed"}]
    /\ lockfile \in [Jobs -> Workers \cup {Free, Dead}] /\ old \subseteq Jobs
    /\ pc \in [Workers -> Claiming \cup {"idle", "next", "run"}]
    /\ todo \in [Workers -> SUBSET Jobs] /\ cur \in [Workers -> Jobs \cup {0}]
    /\ mine \in [Workers -> [Jobs -> Threads]]
    /\ execs \in [Jobs -> Nat] /\ tornClaim \in BOOLEAN /\ crashes \in 0..MaxCrash

\* A job is deployed at most once: the lock and the second reading of the item
\* keep workers that listed the same job from both running it.
RunOnce == \A j \in Jobs : execs[j] <= 1

\* The same for as long as no worker has died in the middle of a claim: locks
\* of long or dead deployments that grow old, and late releases, do no harm.
RunOnceUnlessTorn == tornClaim \/ RunOnce

\* A worker that has seen the item queued under its lock still has that lock
\* when it writes the item as running, and the item is still queued, unless a
\* worker has died in the middle of a claim: no stale-lock recovery and no
\* late release takes the lock away in between.
ClaimIsLocked ==
    tornClaim \/ \A w \in Workers : pc[w] = "write" => lockfile[cur[w]] = w /\ item[cur[w]] = "queued"

\* The strengthening of RunOnceUnlessTorn and ClaimIsLocked that is inductive.  The
\* lock of a queued job belongs to a worker that is claiming it, so it is
\* never old and nobody is about to remove it; a job has one thread.
Pending(j) == item[j] \in {"none", "queued"}
ClaimsSubmitted ==
    \A w \in Workers :
        /\ pc[w] \in Claiming => cur[w] \in Jobs /\ item[cur[w]] # "none"
        /\ \A j \in todo[w] : item[j] # "none"
LockSafe ==
    \A w \in Workers : /\ pc[w] = "unlink" => ~Pending(cur[w])
                       /\ pc[w] = "read" /\ Pending(cur[w]) => lockfile[cur[w]] = w
PendingUntouched ==
    \A j \in Jobs : Pending(j) =>
        /\ j \notin old /\ execs[j] = 0
        /\ \A w \in Workers : mine[w][j] = "none"
PendingLock ==
    \A j \in Jobs : Pending(j) /\ lockfile[j] # Free =>
        \E w \in Workers : lockfile[j] = w /\ pc[w] \in {"read", "write"} /\ cur[w] = j
OneThread ==
    \A w \in Workers, j \in Jobs :
        /\ mine[w][j] = "claimed" => execs[j] = 0
        /\ \A v \in Workers : mine[w][j] # "none" /\ mine[v][j] # "none" => w = v
Exclusive == /\ RunOnce /\ ClaimIsLocked /\ LockSafe
             /\ PendingUntouched /\ PendingLock /\ OneThread
QueueInv == QueueTypeOK /\ ClaimsSubmitted /\ (tornClaim \/ Exclusive)

\* Every job that is submitted is deployed to an outcome, or it was running in
\* a worker that died or was interrupted: a crashed claim is recovered, a
\* crashed deployment stays running for good.
JobsFinish ==
    \A j \in Jobs : (item[j] = "queued") ~>
        \/ item[j] \in {"completed", "failed"}
        \/ item[j] = "running" /\ \A w \in Workers : mine[w][j] = "none"

=============================================================================
