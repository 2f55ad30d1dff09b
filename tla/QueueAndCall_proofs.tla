------------------------- MODULE QueueAndCall_proofs -------------------------
(***************************************************************************)
(* Two components that share no state.                                     *)
(*                                                                         *)
(* The deployment queue: no job is deployed twice unless a worker died in  *)
(* the middle of a claim, for any number of workers, jobs and slots.       *)
(*                                                                         *)
(* The call of a model: its requests are sent in time and their number is  *)
(* bounded.  CallInv accounts for each request by the attempt, the         *)
(* transient retry or the empty answer that led to it.                     *)
(***************************************************************************)
EXTENDS DeploymentQueue, LLMCall, TLAPS

-----------------------------------------------------------------------------
(* The deployment queue                                                    *)

\* Init establishes the invariant: nothing is submitted, claimed or locked.
LEMMA QueueStarts == QueueInit => QueueInv
<1> SUFFICES ASSUME QueueInit PROVE QueueInv
    OBVIOUS
<1>1. QueueTypeOK
  <2>1. tornClaim \in BOOLEAN
      BY Zenon DEF QueueInit
  <2>2. /\ item \in [Jobs -> {"none", "queued", "running", "completed", "failed"}]
        /\ pc \in [Workers -> Claiming \cup {"idle", "next", "run"}]
        /\ lockfile \in [Jobs -> Workers \cup {Free, Dead}] /\ old \subseteq Jobs
      BY DEF QueueInit, Claiming, Free
  <2>3. /\ todo \in [Workers -> SUBSET Jobs] /\ cur \in [Workers -> Jobs \cup {0}]
        /\ mine \in [Workers -> [Jobs -> Threads]]
        /\ execs \in [Jobs -> Nat] /\ crashes \in 0..MaxCrash
      BY QueueAssumption DEF QueueInit, Threads
  <2> QED BY <2>1, <2>2, <2>3, Zenon DEF QueueTypeOK
<1> QED BY <1>1 DEF QueueInit, QueueInv, Exclusive, RunOnce, ClaimIsLocked, Pending, ClaimsSubmitted,
    LockSafe, PendingUntouched, PendingLock, OneThread, Claiming, Free

\* What the two outcomes of ReadItem do: the item is claimed, or its lock is
\* removed and the worker goes on.
LEMMA ReadItemSteps ==
    ASSUME NEW w \in Workers, ReadItem(w)
    PROVE  /\ pc[w] = "read" /\ UNCHANGED <<item, todo, cur, mine, execs, tornClaim, crashes>>
           /\ \/ /\ item[cur[w]] = "queued"
                 /\ pc' = [pc EXCEPT ![w] = "write"] /\ lockfile' = lockfile /\ old' = old
              \/ /\ item[cur[w]] # "queued"
                 /\ pc' = [pc EXCEPT ![w] = "next"]
                 /\ lockfile' = [lockfile EXCEPT ![cur[w]] = Free] /\ old' = old \ {cur[w]}
BY Zenon DEF ReadItem, Goto, Unlink, ends

\* What NextItem does: the list is done, or an item leaves it, to be skipped
\* or claimed.
LEMMA NextItemSteps ==
    ASSUME NEW w \in Workers, NextItem(w)
    PROVE  /\ pc[w] = "next" /\ UNCHANGED <<item, lockfile, old, mine, execs, tornClaim, crashes>>
           /\ \/ pc' = [pc EXCEPT ![w] = "run"] /\ todo' = todo /\ cur' = cur
              \/ \E j \in todo[w] :
                   /\ todo' = [todo EXCEPT ![w] = todo[w] \ {j}]
                   /\ \/ pc' = pc /\ cur' = cur
                      \/ pc' = [pc EXCEPT ![w] = "check"] /\ cur' = [cur EXCEPT ![w] = j]
BY Zenon DEF NextItem, Goto, ends

\* Every step keeps the types.
LEMMA QueueTypes == QueueInv /\ [QueueNext]_queue_vars => QueueTypeOK'
<1> SUFFICES ASSUME QueueInv, [QueueNext]_queue_vars PROVE QueueTypeOK'
    OBVIOUS
<1>0. QueueTypeOK /\ \A w \in Workers : pc[w] \in Claiming => cur[w] \in Jobs
    BY DEF QueueInv, ClaimsSubmitted
<1> USE QueueAssumption, <1>0 DEF QueueTypeOK, Threads, Claiming, Free, Dead, Goto, ends
<1>1. ASSUME NEW j \in Jobs, Submit(j) PROVE QueueTypeOK'
    BY <1>1 DEF Submit
<1>2. ASSUME NEW j \in Jobs, Age(j) PROVE QueueTypeOK'
    BY <1>2 DEF Age
<1>3. ASSUME NEW w \in Workers, List(w) PROVE QueueTypeOK'
    BY <1>3 DEF List
<1>4. ASSUME NEW w \in Workers, NextItem(w) PROVE QueueTypeOK'
  <2>1. CASE pc' = [pc EXCEPT ![w] = "run"] /\ todo' = todo /\ cur' = cur
      BY Zenon, <1>4, <2>1, NextItemSteps
  <2>2. ASSUME NEW j \in todo[w], todo' = [todo EXCEPT ![w] = todo[w] \ {j}],
               \/ pc' = pc /\ cur' = cur
               \/ pc' = [pc EXCEPT ![w] = "check"] /\ cur' = [cur EXCEPT ![w] = j]
        PROVE  QueueTypeOK'
    <3>1. j \in Jobs /\ todo[w] \ {j} \in SUBSET Jobs
        OBVIOUS
    <3>2. pc' \in [Workers -> Claiming \cup {"idle", "next", "run"}] /\ cur' \in [Workers -> Jobs \cup {0}]
        BY ZenonT(30), <2>2, <3>1
    <3>3. todo' \in [Workers -> SUBSET Jobs]
        BY <2>2, <3>1
    <3> QED BY Zenon, <1>4, <3>2, <3>3, NextItemSteps
  <2> QED BY <1>4, <2>1, <2>2, NextItemSteps
<1>5. ASSUME NEW w \in Workers, CheckLock(w) PROVE QueueTypeOK'
    BY <1>5 DEF CheckLock
<1>6. ASSUME NEW w \in Workers, UnlinkStale(w) PROVE QueueTypeOK'
    BY Zenon, <1>6 DEF UnlinkStale, Unlink
<1>7. ASSUME NEW w \in Workers, CreateLock(w) PROVE QueueTypeOK'
  <2>1. CASE lockfile[cur[w]] = Free
    <3>1. lockfile' = [lockfile EXCEPT ![cur[w]] = w] /\ pc' = [pc EXCEPT ![w] = "read"]
        BY <1>7, <2>1, Zenon DEF CreateLock
    <3>2. UNCHANGED <<item, old, todo, cur, mine, execs, tornClaim, crashes>>
        BY <1>7, Zenon DEF CreateLock
    <3> QED BY Zenon, <3>1, <3>2
  <2>2. CASE lockfile[cur[w]] # Free
      BY <1>7, <2>2 DEF CreateLock
  <2> QED BY <2>1, <2>2
<1>8. ASSUME NEW w \in Workers, ReadItem(w) PROVE QueueTypeOK'
  <2>1. CASE item[cur[w]] = "queued"
      BY Zenon, <1>8, <2>1, ReadItemSteps
  <2>2. CASE item[cur[w]] # "queued"
      BY Zenon, <1>8, <2>2, ReadItemSteps
  <2> QED BY <2>1, <2>2
<1>9. ASSUME NEW w \in Workers, WriteRunning(w) PROVE QueueTypeOK'
    BY <1>9 DEF WriteRunning
<1>10. ASSUME NEW w \in Workers, NEW j \in Jobs, Thread(w, j) PROVE QueueTypeOK'
  <2>1. CASE Deploy(w, j)
      BY <2>1 DEF Deploy
  <2>2. CASE Deployed(w, j)
      BY <2>2 DEF Deployed
  <2>3. CASE SaveItem(w, j)
      BY <2>3 DEF SaveItem
  <2>4. CASE ReleaseLock(w, j)
      BY <2>4 DEF ReleaseLock, Unlink
  <2> QED BY <1>10, <2>1, <2>2, <2>3, <2>4 DEF Thread
<1>11. ASSUME NEW w \in Workers, Return(w) PROVE QueueTypeOK'
    BY <1>11 DEF Return
<1>12. ASSUME NEW w \in Workers, WorkerCrash(w) PROVE QueueTypeOK'
    BY <1>12 DEF WorkerCrash, ends
<1>13. ASSUME NEW w \in Workers, NEW j \in Jobs, Interrupt(w, j) PROVE QueueTypeOK'
    BY <1>13 DEF Interrupt
<1>14. CASE UNCHANGED queue_vars
    BY <1>14 DEF queue_vars
<1> QED BY <1>1, <1>2, <1>3, <1>4, <1>5, <1>6, <1>7, <1>8, <1>9, <1>10, <1>11,
           <1>12, <1>13, <1>14 DEF QueueNext, Claim

\* Every step keeps what is listed or claimed among the submitted jobs.
LEMMA QueueSubmitted == QueueInv /\ [QueueNext]_queue_vars => ClaimsSubmitted'
<1> SUFFICES ASSUME QueueInv, [QueueNext]_queue_vars PROVE ClaimsSubmitted'
    OBVIOUS
<1>0. QueueTypeOK /\ QueueTypeOK' /\ ClaimsSubmitted
    BY QueueTypes DEF QueueInv
<1> USE <1>0 DEF ClaimsSubmitted, QueueTypeOK, Claiming, Goto, ends
<1>1. ASSUME NEW j \in Jobs, Submit(j) PROVE ClaimsSubmitted'
    BY <1>1 DEF Submit
<1>2. ASSUME NEW j \in Jobs, Age(j) PROVE ClaimsSubmitted'
    BY <1>2 DEF Age
<1>3. ASSUME NEW w \in Workers, List(w) PROVE ClaimsSubmitted'
    BY <1>3 DEF List
<1>4. ASSUME NEW w \in Workers, NextItem(w) PROVE ClaimsSubmitted'
  <2>1. CASE pc' = [pc EXCEPT ![w] = "run"] /\ todo' = todo /\ cur' = cur
      BY ZenonT(30), <1>4, <2>1, NextItemSteps
  <2>2. ASSUME NEW j \in todo[w], todo' = [todo EXCEPT ![w] = todo[w] \ {j}],
               pc' = pc /\ cur' = cur
        PROVE  ClaimsSubmitted'
      BY <1>4, <2>2, NextItemSteps
  <2>3. ASSUME NEW j \in todo[w], todo' = [todo EXCEPT ![w] = todo[w] \ {j}],
               pc' = [pc EXCEPT ![w] = "check"], cur' = [cur EXCEPT ![w] = j]
        PROVE  ClaimsSubmitted'
    <3>1. item' = item /\ j \in Jobs /\ item[j] # "none"
        BY Zenon, <1>4, <2>3, NextItemSteps
    <3>2. \A v \in Workers : pc'[v] \in Claiming => cur'[v] \in Jobs /\ item[cur'[v]] # "none"
        BY <2>3, <3>1
    <3>3. \A v \in Workers : todo'[v] \subseteq todo[v]
        BY <2>3
    <3> QED BY <3>1, <3>2, <3>3
  <2> QED BY <1>4, <2>1, <2>2, <2>3, NextItemSteps
<1>5. ASSUME NEW w \in Workers, CheckLock(w) PROVE ClaimsSubmitted'
    BY <1>5 DEF CheckLock
<1>6. ASSUME NEW w \in Workers, UnlinkStale(w) PROVE ClaimsSubmitted'
    BY <1>6 DEF UnlinkStale
<1>7. ASSUME NEW w \in Workers, CreateLock(w) PROVE ClaimsSubmitted'
    BY <1>7 DEF CreateLock
<1>8. ASSUME NEW w \in Workers, ReadItem(w) PROVE ClaimsSubmitted'
    BY <1>8, ReadItemSteps
<1>9. ASSUME NEW w \in Workers, WriteRunning(w) PROVE ClaimsSubmitted'
    BY <1>9 DEF WriteRunning
<1>10. ASSUME NEW w \in Workers, NEW j \in Jobs, Deploy(w, j) PROVE ClaimsSubmitted'
    BY <1>10 DEF Deploy
<1>11. ASSUME NEW w \in Workers, NEW j \in Jobs, Deployed(w, j) PROVE ClaimsSubmitted'
    BY <1>11 DEF Deployed
<1>12. ASSUME NEW w \in Workers, NEW j \in Jobs, SaveItem(w, j) PROVE ClaimsSubmitted'
    BY <1>12 DEF SaveItem
<1>13. ASSUME NEW w \in Workers, NEW j \in Jobs, ReleaseLock(w, j) PROVE ClaimsSubmitted'
    BY <1>13 DEF ReleaseLock
<1>14. ASSUME NEW w \in Workers, Return(w) PROVE ClaimsSubmitted'
    BY <1>14 DEF Return
<1>15. ASSUME NEW w \in Workers, WorkerCrash(w) PROVE ClaimsSubmitted'
    BY <1>15 DEF WorkerCrash
<1>16. ASSUME NEW w \in Workers, NEW j \in Jobs, Interrupt(w, j) PROVE ClaimsSubmitted'
    BY <1>16 DEF Interrupt
<1>17. CASE UNCHANGED queue_vars
    BY SMTT(30), <1>17 DEF queue_vars
<1> QED BY <1>1, <1>2, <1>3, <1>4, <1>5, <1>6, <1>7, <1>8, <1>9, <1>10, <1>11, <1>12, <1>13, <1>14, <1>15, <1>16, <1>17 DEF QueueNext, Claim, Thread

\* A step that leaves no claim torn keeps the rest of the invariant.
LEMMA QueueExclusive == QueueInv /\ [QueueNext]_queue_vars /\ ~tornClaim' => Exclusive'
<1> SUFFICES ASSUME QueueInv, [QueueNext]_queue_vars, ~tornClaim' PROVE Exclusive'
    OBVIOUS
<1>0. QueueTypeOK /\ QueueTypeOK' /\ ClaimsSubmitted /\ ClaimsSubmitted'
    BY QueueTypes, QueueSubmitted DEF QueueInv
<1>a. ~tornClaim
  <2>1. ASSUME NEW w \in Workers, WorkerCrash(w) PROVE ~tornClaim
      BY Zenon, <2>1 DEF WorkerCrash
  <2>2. ASSUME ~\E w \in Workers : WorkerCrash(w) PROVE tornClaim' = tornClaim
      BY <2>2, NextItemSteps, ReadItemSteps DEF QueueNext, Claim, Thread, queue_vars, ends, Submit, Age, List,
         CheckLock, UnlinkStale, CreateLock, WriteRunning, Deploy, Deployed, SaveItem, ReleaseLock,
         Return, Interrupt
  <2> QED BY <2>1, <2>2
<1>b. Exclusive
    BY <1>a DEF QueueInv
<1> USE QueueAssumption, <1>0, <1>a, <1>b
    DEF Exclusive, RunOnce, ClaimIsLocked, Pending, ClaimsSubmitted, LockSafe, PendingUntouched,
        PendingLock, OneThread, QueueTypeOK, Claiming, Threads, Free, Dead, Goto, ends
<1>1. ASSUME NEW j \in Jobs, Submit(j) PROVE Exclusive'
    BY <1>1 DEF Submit
<1>2. ASSUME NEW j \in Jobs, Age(j) PROVE Exclusive'
    BY <1>2 DEF Age
<1>3. ASSUME NEW w \in Workers, List(w) PROVE Exclusive'
    BY <1>3 DEF List
<1>4. ASSUME NEW w \in Workers, NextItem(w) PROVE Exclusive'
  <2>1. RunOnce'
      BY <1>4, NextItemSteps
  <2>2. ClaimIsLocked'
    <3>1. ASSUME NEW v \in Workers, pc'[v] = "write"
          PROVE  pc[v] = "write" /\ cur'[v] = cur[v]
        BY <1>4, <3>1, NextItemSteps
    <3>2. lockfile' = lockfile /\ item' = item
        BY <1>4, NextItemSteps
    <3> QED BY <3>1, <3>2
  <2>4. LockSafe'
      BY <1>4, NextItemSteps
  <2>5. PendingUntouched'
      BY <1>4, NextItemSteps
  <2>6. PendingLock'
      BY <1>4, NextItemSteps
  <2>7. OneThread'
      BY <1>4, NextItemSteps
  <2> QED BY <2>1, <2>2, <2>4, <2>5, <2>6, <2>7
<1>5. ASSUME NEW w \in Workers, CheckLock(w) PROVE Exclusive'
  <2>1. CASE lockfile[cur[w]] # Free /\ cur[w] \in old
    <3>1. RunOnce'
        BY <1>5, <2>1 DEF CheckLock
    <3>2. ClaimIsLocked'
        BY <1>5, <2>1 DEF CheckLock
    <3>0. ~Pending(cur[w]) /\ pc' = [pc EXCEPT ![w] = "unlink"]
        BY Zenon, <1>5, <2>1 DEF CheckLock
    <3>4. LockSafe'
      <4> SUFFICES ASSUME NEW v \in Workers
                   PROVE  /\ pc'[v] = "unlink" => ~Pending(cur[v])'
                          /\ pc'[v] = "read" /\ Pending(cur[v])' => lockfile'[cur'[v]] = v
          BY DEF LockSafe
      <4>1. CASE v = w
          BY <1>5, <3>0, <4>1 DEF CheckLock
      <4>2. CASE v # w
          BY <1>5, <3>0, <4>2 DEF CheckLock
      <4> QED BY <4>1, <4>2
    <3>5. PendingUntouched'
        BY <1>5, <2>1 DEF CheckLock
    <3>6. PendingLock'
        BY <1>5, <2>1 DEF CheckLock
    <3>7. OneThread'
        BY <1>5, <2>1 DEF CheckLock
    <3> QED BY <3>1, <3>2, <3>4, <3>5, <3>6, <3>7
  <2>2. CASE ~(lockfile[cur[w]] # Free /\ cur[w] \in old)
      BY <1>5, <2>2 DEF CheckLock
  <2> QED BY <2>1, <2>2
<1>6. ASSUME NEW w \in Workers, UnlinkStale(w) PROVE Exclusive'
    BY <1>6 DEF UnlinkStale, Unlink
<1>7. ASSUME NEW w \in Workers, CreateLock(w) PROVE Exclusive'
  <2>1. CASE lockfile[cur[w]] = Free
    <3>1. RunOnce'
        BY <1>7, <2>1 DEF CreateLock
    <3>0. cur[w] \in Jobs /\ \A j \in Jobs : j # cur[w] => lockfile'[j] = lockfile[j]
        BY <1>7, <2>1 DEF CreateLock
    <3>2. ClaimIsLocked'
      <4> SUFFICES ASSUME NEW v \in Workers, pc'[v] = "write"
                   PROVE  lockfile'[cur'[v]] = v /\ item'[cur'[v]] = "queued"
          BY DEF ClaimIsLocked
      <4>1. v # w /\ pc[v] = "write" /\ cur' = cur /\ item' = item
          BY <1>7, <2>1 DEF CreateLock
      <4>2. cur[v] # cur[w] /\ cur[v] \in Jobs
          BY <1>7, <2>1, <4>1 DEF CreateLock
      <4>3. lockfile'[cur[v]] = lockfile[cur[v]]
          BY <3>0, <4>2, Zenon
      <4>4. lockfile[cur[v]] = v /\ item[cur[v]] = "queued"
          BY <4>1
      <4> QED BY <4>1, <4>3, <4>4, Zenon
    <3>4. LockSafe'
      <4> SUFFICES ASSUME NEW v \in Workers
                   PROVE  /\ pc'[v] = "unlink" => ~Pending(cur[v])'
                          /\ pc'[v] = "read" /\ Pending(cur[v])' => lockfile'[cur'[v]] = v
          BY DEF LockSafe
      <4>1. CASE v = w
          BY <1>7, <2>1, <4>1 DEF CreateLock
      <4>2. CASE v # w
        <5>1. pc'[v] = pc[v] /\ cur' = cur /\ item' = item
            BY <1>7, <2>1, <4>2 DEF CreateLock
        <5>2. pc[v] = "unlink" => ~Pending(cur[v])'
            BY <5>1
        <5>3. ASSUME pc[v] = "read", Pending(cur[v]) PROVE cur[v] \in Jobs /\ cur[v] # cur[w]
            BY <1>7, <2>1, <4>2, <5>3 DEF CreateLock
        <5>4. ASSUME pc[v] = "read", Pending(cur[v]) PROVE lockfile'[cur[v]] = v
          <6>1. lockfile'[cur[v]] = lockfile[cur[v]]
              BY <3>0, <5>3, <5>4, Zenon
          <6>2. lockfile[cur[v]] = v
              BY <5>4
          <6> QED BY <6>1, <6>2, Zenon
        <5> QED BY <5>1, <5>2, <5>4
      <4> QED BY <4>1, <4>2
    <3>5. PendingUntouched'
        BY <1>7, <2>1 DEF CreateLock
    <3>6. PendingLock'
        BY <1>7, <2>1 DEF CreateLock
    <3>7. OneThread'
        BY <1>7, <2>1 DEF CreateLock
    <3> QED BY <3>1, <3>2, <3>4, <3>5, <3>6, <3>7
  <2>2. CASE lockfile[cur[w]] # Free
      BY <1>7, <2>2 DEF CreateLock
  <2> QED BY <2>1, <2>2
<1>8. ASSUME NEW w \in Workers, ReadItem(w) PROVE Exclusive'
  <2>1. CASE item[cur[w]] = "queued"
      BY <1>8, <2>1, ReadItemSteps
  <2>2. CASE item[cur[w]] # "queued"
    <3>1. RunOnce'
        BY <1>8, <2>2, ReadItemSteps
    <3>0. cur[w] \in Jobs /\ \A j \in Jobs : j # cur[w] => lockfile'[j] = lockfile[j]
        BY <1>8, <2>2, ReadItemSteps
    <3>2. ClaimIsLocked'
      <4> SUFFICES ASSUME NEW v \in Workers, pc'[v] = "write"
                   PROVE  lockfile'[cur'[v]] = v /\ item'[cur'[v]] = "queued"
          BY DEF ClaimIsLocked
      <4>1. v # w /\ pc[v] = "write" /\ cur' = cur /\ item' = item
          BY <1>8, <2>2, ReadItemSteps
      <4>2. cur[v] # cur[w] /\ cur[v] \in Jobs
          BY <1>8, <2>2, ReadItemSteps, <4>1
      <4>3. lockfile'[cur[v]] = lockfile[cur[v]]
          BY <3>0, <4>2, Zenon
      <4>4. lockfile[cur[v]] = v /\ item[cur[v]] = "queued"
          BY <4>1
      <4> QED BY <4>1, <4>3, <4>4, Zenon
    <3>4. LockSafe'
      <4> SUFFICES ASSUME NEW v \in Workers
                   PROVE  /\ pc'[v] = "unlink" => ~Pending(cur[v])'
                          /\ pc'[v] = "read" /\ Pending(cur[v])' => lockfile'[cur'[v]] = v
          BY DEF LockSafe
      <4>1. CASE v = w
          BY <1>8, <2>2, ReadItemSteps, <4>1
      <4>2. CASE v # w
        <5>1. pc'[v] = pc[v] /\ cur' = cur /\ item' = item
            BY <1>8, <2>2, ReadItemSteps, <4>2
        <5>2. pc[v] = "unlink" => ~Pending(cur[v])'
            BY <5>1
        <5>3. ASSUME pc[v] = "read", Pending(cur[v]) PROVE cur[v] \in Jobs /\ cur[v] # cur[w]
            BY <1>8, <2>2, ReadItemSteps, <4>2, <5>3
        <5>4. ASSUME pc[v] = "read", Pending(cur[v]) PROVE lockfile'[cur[v]] = v
          <6>1. lockfile'[cur[v]] = lockfile[cur[v]]
              BY <3>0, <5>3, <5>4, Zenon
          <6>2. lockfile[cur[v]] = v
              BY <5>4
          <6> QED BY <6>1, <6>2, Zenon
        <5> QED BY <5>1, <5>2, <5>4
      <4> QED BY <4>1, <4>2
    <3>5. PendingUntouched'
        BY <1>8, <2>2, ReadItemSteps
    <3>6. PendingLock'
        BY <1>8, <2>2, ReadItemSteps
    <3>7. OneThread'
        BY <1>8, <2>2, ReadItemSteps
    <3> QED BY <3>1, <3>2, <3>4, <3>5, <3>6, <3>7
  <2> QED BY <2>1, <2>2
<1>9. ASSUME NEW w \in Workers, WriteRunning(w) PROVE Exclusive'
    BY <1>9 DEF WriteRunning
<1>10. ASSUME NEW w \in Workers, NEW j \in Jobs, Deploy(w, j) PROVE Exclusive'
    BY <1>10 DEF Deploy
<1>11. ASSUME NEW w \in Workers, NEW j \in Jobs, Deployed(w, j) PROVE Exclusive'
    BY <1>11 DEF Deployed
<1>12. ASSUME NEW w \in Workers, NEW j \in Jobs, SaveItem(w, j) PROVE Exclusive'
    BY <1>12 DEF SaveItem
<1>13. ASSUME NEW w \in Workers, NEW j \in Jobs, ReleaseLock(w, j) PROVE Exclusive'
    BY <1>13 DEF ReleaseLock, Unlink
<1>14. ASSUME NEW w \in Workers, Return(w) PROVE Exclusive'
    BY <1>14 DEF Return
<1>15. ASSUME NEW w \in Workers, WorkerCrash(w) PROVE Exclusive'
  <2>1. pc[w] \notin {"read", "write"} /\ item' = item /\ execs' = execs /\ cur' = cur /\ old' = old
      BY Zenon, <1>15 DEF WorkerCrash
  <2>2. \A v \in Workers : pc'[v] = (IF v = w THEN "idle" ELSE pc[v])
      BY <1>15 DEF WorkerCrash
  <2>3. \A j \in Jobs : lockfile'[j] = (IF lockfile[j] = w THEN Dead ELSE lockfile[j])
      BY <1>15 DEF WorkerCrash
  <2>4. \A v \in Workers, j \in Jobs : mine'[v][j] = (IF v = w THEN "none" ELSE mine[v][j])
      BY <1>15 DEF WorkerCrash
  <2>5. RunOnce'
      BY <2>1
  <2>a. ASSUME NEW v \in Workers, pc'[v] \in Claiming, lockfile[cur[v]] = v
        PROVE  v # w /\ cur[v] \in Jobs /\ lockfile'[cur[v]] = v
    <3>1. v # w /\ pc[v] = pc'[v]
        BY <2>a, <2>2
    <3>2. cur[v] \in Jobs
        BY <2>a, <3>1
    <3> QED BY Zenon, <2>a, <2>3, <3>1, <3>2
  <2>6. ClaimIsLocked'
    <3> SUFFICES ASSUME NEW v \in Workers, pc'[v] = "write"
                 PROVE  lockfile'[cur[v]] = v /\ item[cur[v]] = "queued"
        BY <2>1
    <3>1. pc[v] = "write"
        BY <2>2
    <3>2. lockfile[cur[v]] = v /\ item[cur[v]] = "queued"
        BY <3>1
    <3> QED BY <2>a, <3>2
  <2>7. LockSafe'
    <3> SUFFICES ASSUME NEW v \in Workers
                 PROVE  /\ pc'[v] = "unlink" => ~Pending(cur[v])
                        /\ pc'[v] = "read" /\ Pending(cur[v]) => lockfile'[cur[v]] = v
        BY <2>1
    <3>1. pc'[v] \in {"unlink", "read"} => pc[v] = pc'[v]
        BY <2>2
    <3> QED BY <2>a, <3>1
  <2>8. PendingUntouched'
      BY <2>1, <2>4
  <2>9. PendingLock'
    <3> SUFFICES ASSUME NEW j \in Jobs, Pending(j), lockfile'[j] # Free
                 PROVE  \E v \in Workers : /\ lockfile'[j] = v /\ pc'[v] \in {"read", "write"}
                                           /\ cur'[v] = j
        BY <2>1
    <3>1. lockfile[j] # Free
        BY <2>3
    <3>2. PICK v \in Workers : lockfile[j] = v /\ pc[v] \in {"read", "write"} /\ cur[v] = j
        BY <3>1
    <3> QED BY <3>2, <2>1, <2>2, <2>3
  <2>10. OneThread'
      BY <2>1, <2>4
  <2> QED BY <2>5, <2>6, <2>7, <2>8, <2>9, <2>10
<1>16. ASSUME NEW w \in Workers, NEW j \in Jobs, Interrupt(w, j) PROVE Exclusive'
    BY <1>16 DEF Interrupt
<1>17. CASE UNCHANGED queue_vars
    BY <1>17 DEF queue_vars
<1> QED BY Zenon, <1>1, <1>2, <1>3, <1>4, <1>5, <1>6, <1>7, <1>8, <1>9, <1>10, <1>11,
           <1>12, <1>13, <1>14, <1>15, <1>16, <1>17 DEF QueueNext, Claim, Thread

\* QueueInv is an invariant.
LEMMA QueueInvariant == QueueSpec => []QueueInv
<1>1. QueueInv /\ [QueueNext]_queue_vars => QueueInv'
    BY QueueTypes, QueueSubmitted, QueueExclusive DEF QueueInv
<1> QED BY <1>1, QueueStarts, PTL DEF QueueSpec

\* Unless a worker died in the middle of a claim no job is deployed twice: the
\* claim lock, the stale-lock recovery and the second reading of the item in
\* _claim_item keep run_next in any number of workers from running a job twice.
THEOREM DeployedOnce == QueueSpec => []RunOnceUnlessTorn
<1>1. QueueInv => RunOnceUnlessTorn
    BY DEF QueueInv, Exclusive, RunOnceUnlessTorn
<1> QED BY <1>1, QueueInvariant, PTL

\* Under the same condition a claim that saw its item queued still has the lock
\* when _claim_item writes the item as running.
THEOREM ClaimKeepsLock == QueueSpec => []ClaimIsLocked
<1>1. QueueInv => ClaimIsLocked
    BY DEF QueueInv, Exclusive, ClaimIsLocked
<1> QED BY <1>1, QueueInvariant, PTL


-----------------------------------------------------------------------------
(* The call of a model: its inductive invariant                            *)

RunFields == {"variant", "sent", "messages", "attempts", "transport", "transient", "emptied",
              "deadline", "estimate", "stop", "total"}

\* The requests that one attempt of the executor may send.
PerAttempt(retries) == retries + 2

\* The requests the rounds so far account for.
Accounted(r, retries) ==
    (IF r.attempts = 1 THEN 0 ELSE PerAttempt(retries))
        + r.transient + (IF r.emptied THEN 1 ELSE 0)

\* A call on its way: its counters, and the deadline it was given when it started.
Going(r, retries) ==
    /\ r.attempts \in {1, 2} /\ r.transient \in 0 .. retries /\ r.emptied \in BOOLEAN
    /\ r.deadline \in {-1, DecisionTimeout}

\* The request on the wire, when there is a deadline.
InTime(request) ==
    request.at < DecisionTimeout /\ request.at + request.timeout <= DecisionTimeout

CallInv ==
    /\ asked \in Calls /\ now \in Int /\ DOMAIN run = RunFields /\ run.total \in Nat
    /\ phase \in {"new", "ready", "ask", "wire", "answered", "stopped"}
    /\ phase \in {"new", "ready"} => now = 0 /\ run.total = 0
    /\ phase = "new" => provider = <<>>
    /\ phase \in {"ready", "ask", "wire"} => provider # <<>>
    /\ provider # <<>> => P.retries \in Nat /\ P.max \in Int
                          /\ run.total <= 2 * PerAttempt(P.retries)
    /\ phase \in {"ask", "wire"} => Going(run, P.retries)
    /\ phase = "ask" => run.total <= Accounted(run, P.retries)
    /\ phase = "wire" => /\ run.total <= Accounted(run, P.retries) + 1
                         /\ req[1].timeout \in Int
                         /\ Bounded => InTime(req[1])

\* Whatever configuration is accepted, the retries are not negative (RetrySettings).
LEMMA CreatedNumbers ==
  ASSUME NEW call \in Calls, Constructs(call.config)
  PROVE  create(call.config).retries \in Nat /\ create(call.config).max \in Int
<1> DEFINE c == call.config
           s == c.settings
<1>1. s.retries \in Int /\ s.max \in Int BY CallBounds
<1> HIDE DEF s
<1>2. OpenAI(c).retries = 0 /\ OpenAI(c).max = 0 BY DEF OpenAI
<1>3. CASE c.name = "xunfei"
  <2>1. Xunfei(c).retries = 0 /\ Xunfei(c).max = 0 BY DEF Xunfei, OpenAI
  <2> QED BY <1>3, <2>1 DEF create
<1>4. CASE c.name = "deepseek"
  <2>1. s.retries >= 0 BY <1>4 DEF Constructs, RetrySettings, s
  <2>2. DeepSeek(c).retries = s.retries /\ DeepSeek(c).max = s.max BY DEF DeepSeek, OpenAI, s
  <2> QED BY <1>1, <1>4, <2>1, <2>2 DEF create
<1>5. CASE c.name \notin {"xunfei", "deepseek"} BY <1>2, <1>5 DEF create
<1> QED BY <1>3, <1>4, <1>5

\* The counters of a call on its way are within what its rounds may send.
LEMMA AccountedWithin ==
  ASSUME NEW r, NEW R \in Nat, Going(r, R)
  PROVE  /\ Accounted(r, R) \in Nat
         /\ Accounted(r, R) + 1 <= 2 * PerAttempt(R)
         /\ r.attempts = 1 => Accounted(r, R) + 1 <= PerAttempt(R)
<1> DEFINE a == IF r.attempts = 1 THEN 0 ELSE R + 2
           e == IF r.emptied THEN 1 ELSE 0
<1>1. a \in {0, R + 2} /\ e \in {0, 1} /\ r.transient \in Nat /\ r.transient <= R
  BY DEF Going
<1>2. r.attempts = 1 => a = 0 OBVIOUS
<1>3. Accounted(r, R) = a + r.transient + e BY DEF Accounted, PerAttempt
<1> HIDE DEF a, e
<1> QED BY <1>1, <1>2, <1>3 DEF PerAttempt

LEMMA ProviderKept ==
  ASSUME UNCHANGED provider
  PROVE  P' = P
BY DEF P

\* A call that ends sends nothing more.
LEMMA OverKeeps ==
  ASSUME CallInv, phase' \in {"answered", "stopped"}, DOMAIN run' = RunFields,
         run'.total = run.total, now' \in Int, UNCHANGED <<asked, provider>>
  PROVE  CallInv'
<1>1. P' = P BY ProviderKept
<1>2. asked' \in Calls /\ run'.total \in Nat BY DEF CallInv
<1>3. provider' # <<>> => P'.retries \in Nat /\ P'.max \in Int
                          /\ run'.total <= 2 * PerAttempt(P'.retries)
  BY <1>1 DEF CallInv
<1> QED BY <1>2, <1>3 DEF CallInv

\* A call that asks again has accounted for what it has sent.
LEMMA AskKeeps ==
  ASSUME CallInv, phase' = "ask", provider # <<>>, DOMAIN run' = RunFields,
         run'.total = run.total, now' \in Int, UNCHANGED <<asked, provider>>,
         Going(run', P.retries), run.total <= Accounted(run', P.retries)
  PROVE  CallInv'
<1>1. P' = P BY ProviderKept
<1>2. asked' \in Calls /\ run'.total \in Nat BY SMTT(30) DEF CallInv
<1>3. provider' # <<>> /\ P'.retries \in Nat /\ P'.max \in Int
      /\ run'.total <= 2 * PerAttempt(P'.retries)
  BY <1>1 DEF CallInv
<1>4. Going(run', P'.retries) /\ run'.total <= Accounted(run', P'.retries) BY <1>1
<1>5. Going(run, P.retries)' /\ (run.total <= Accounted(run, P.retries))'
  BY <1>4 DEF Going, Accounted, PerAttempt
<1> QED BY <1>2, <1>3, <1>5 DEF CallInv

LEMMA StopsKeeps ==
  ASSUME CallInv, NEW why, Stops(why), now' \in Int, UNCHANGED <<asked, provider>>
  PROVE  CallInv'
<1>1. phase' = "stopped" /\ DOMAIN run' = RunFields /\ run'.total = run.total
  BY DEF Stops, CallInv, RunFields
<1> QED BY <1>1, OverKeeps

\* An attempt of the executor starts with fresh counters and a deadline.
LEMMA BeginsKeeps ==
  ASSUME CallInv, provider # <<>>, NEW name, NEW messages, NEW attempts \in {1, 2}, NEW variant,
         NEW deadline \in {-1, DecisionTimeout},
         Begins(name, messages, attempts, variant, deadline),
         run.total <= IF attempts = 1 THEN 0 ELSE PerAttempt(P.retries),
         now' \in Int, UNCHANGED <<asked, provider>>
  PROVE  CallInv'
<1> DEFINE started == [run EXCEPT !.sent = name, !.variant = variant, !.messages = messages,
                               !.attempts = attempts, !.transport = 0, !.transient = 0,
                               !.emptied = FALSE, !.deadline = deadline,
                               !.estimate = estimate_request(Variant(variant))]
           failed == [started EXCEPT !.stop = "configuration_error"]
<1>1. \/ phase' = "stopped" /\ run' = failed
      \/ phase' = "ask" /\ run' = started
  BY DEF Begins
<1>2. /\ DOMAIN started = RunFields /\ started.total = run.total
      /\ started.attempts = attempts /\ started.transient = 0 /\ started.emptied = FALSE
      /\ started.deadline = deadline
  BY Zenon DEF CallInv, RunFields
<1> HIDE DEF started
<1>3. DOMAIN failed = RunFields /\ failed.total = run.total BY <1>2 DEF RunFields
<1>4. CASE phase' = "stopped" /\ run' = failed
  <2> HIDE DEF failed
  <2> QED BY <1>3, <1>4, OverKeeps
<1>5. CASE phase' = "ask" /\ run' = started
  <2>1. P.retries \in Nat BY DEF CallInv
  <2>2. 0 \in 0 .. P.retries BY <2>1
  <2>3. Going(run', P.retries) BY Zenon, <1>2, <1>5, <2>2 DEF Going
  <2>4. Accounted(run', P.retries) = IF attempts = 1 THEN 0 ELSE PerAttempt(P.retries)
    BY <1>2, <1>5, <2>1 DEF Accounted, PerAttempt
  <2> QED BY <1>2, <1>5, <2>3, <2>4, AskKeeps
<1> QED BY <1>1, <1>4, <1>5

LEMMA CreateKeeps ==
  ASSUME CallInv, CreateProvider
  PROVE  CallInv'
<1>1. phase = "new" /\ UNCHANGED <<asked, now>> BY DEF CreateProvider
<1>2. asked \in Calls /\ now = 0 /\ run.total = 0 /\ DOMAIN run = RunFields BY <1>1 DEF CallInv
<1>3. CASE Stops("configuration_error") /\ UNCHANGED provider
  BY <1>1, <1>2, <1>3, StopsKeeps
<1>4. CASE /\ phase' = "ready" /\ provider' = <<create(asked.config)>> /\ UNCHANGED run
           /\ Constructs(asked.config)
  <2> DEFINE made == create(asked.config)
  <2>1. made.retries \in Nat /\ made.max \in Int BY <1>2, <1>4, CreatedNumbers
  <2> HIDE DEF made
  <2>2. provider' = <<made>> BY <1>4 DEF made
  <2>3. provider' # <<>> /\ P' = made BY <2>2 DEF P
  <2>4. 0 <= 2 * PerAttempt(made.retries) BY <2>1 DEF PerAttempt
  <2>5. provider' # <<>> => P'.retries \in Nat /\ P'.max \in Int
                            /\ run'.total <= 2 * PerAttempt(P'.retries)
    BY <1>2, <1>4, <2>1, <2>3, <2>4
  <2> QED BY <1>1, <1>2, <1>4, <2>3, <2>5 DEF CallInv
<1> QED BY <1>3, <1>4 DEF CreateProvider

LEMMA ExecuteKeeps ==
  ASSUME CallInv, execute \/ execute_native_tool_turn
  PROVE  CallInv'
<1>1. phase = "ready" /\ UNCHANGED <<asked, provider, now>>
  BY Zenon DEF execute, execute_native_tool_turn
<1>2. now = 0 /\ run.total = 0 /\ provider # <<>> /\ now' \in Int BY <1>1 DEF CallInv
<1>3. now + DecisionTimeout = DecisionTimeout BY <1>2, CallBounds
<1>4. \/ \E why : Stops(why)
      \/ \E name, messages : Begins(name, messages, 1, name, now + DecisionTimeout)
      \/ \E name, messages : Begins(name, messages, 1, name, -1)
  BY Zenon DEF execute, execute_native_tool_turn
<1>5. CASE \E why : Stops(why) BY <1>1, <1>2, <1>5, StopsKeeps
<1>6. CASE \E name, messages : Begins(name, messages, 1, name, now + DecisionTimeout)
  <2>1. PICK name, messages : Begins(name, messages, 1, name, DecisionTimeout)
    BY <1>3, <1>6
  <2> QED BY <1>1, <1>2, <2>1, BeginsKeeps
<1>7. CASE \E name, messages : Begins(name, messages, 1, name, -1)
  <2>1. PICK name, messages : Begins(name, messages, 1, name, -1) BY <1>7
  <2> QED BY <1>1, <1>2, <2>1, BeginsKeeps
<1> QED BY <1>4, <1>5, <1>6, <1>7

\* A request that is sent counts, and its timeout ends by the deadline.
LEMMA SendKeeps ==
  ASSUME CallInv, Send
  PROVE  CallInv'
<1>1. phase = "ask" /\ UNCHANGED <<asked, provider, now>> BY DEF Send
<1>2. /\ now \in Int /\ asked \in Calls /\ DOMAIN run = RunFields /\ run.total \in Nat
      /\ provider # <<>> /\ P.retries \in Nat /\ P.max \in Int /\ Going(run, P.retries)
      /\ run.total <= Accounted(run, P.retries)
  BY <1>1 DEF CallInv
<1>3. CASE Stops("deadline_exceeded") BY <1>1, <1>2, <1>3, StopsKeeps
<1> DEFINE out == [messages |-> _build_payload(run.messages), at |-> now,
                   timeout |-> _request_timeout, output |-> Least(P.output, Reserved)]
<1>4. CASE /\ ~(Bounded /\ _remaining_seconds <= 0)
           /\ phase' = "wire" /\ req' = <<out>> /\ run' = [run EXCEPT !.total = @ + 1]
  <2>1. req'[1] = out BY <1>4
  <2>2. out.at = now /\ out.timeout = _request_timeout OBVIOUS
  <2> HIDE DEF out
  <2>3. /\ DOMAIN run' = RunFields /\ run'.total = run.total + 1
        /\ run'.attempts = run.attempts /\ run'.transient = run.transient
        /\ run'.emptied = run.emptied /\ run'.deadline = run.deadline
    BY <1>2, <1>4 DEF RunFields
  <2>4. P' = P /\ provider' # <<>> BY <1>1, <1>2, ProviderKept
  <2>5. Bounded' => Bounded BY <1>1, <2>3, <2>4 DEF Bounded
  <2>6. Going(run', P.retries) /\ Accounted(run', P.retries) = Accounted(run, P.retries)
    BY <1>2, <2>3 DEF Going, Accounted
  <2>7. /\ Accounted(run, P.retries) \in Nat
        /\ Accounted(run, P.retries) + 1 <= 2 * PerAttempt(P.retries)
    BY <1>2, AccountedWithin
  <2>8. run'.total \in Nat /\ run'.total <= Accounted(run', P.retries) + 1
    BY <1>2, <2>3, <2>6, <2>7
  <2>9. run'.total <= 2 * PerAttempt(P.retries)
    <3>1. PerAttempt(P.retries) \in Nat BY <1>2 DEF PerAttempt
    <3> QED BY <2>6, <2>7, <2>8, <3>1
  <2>10. run.deadline \in Int BY <1>2, CallBounds DEF Going
  <2>11. out.timeout \in Int
    BY <1>2, <2>2, <2>10, CallBounds DEF _request_timeout, Least, _remaining_seconds
  <2>12. ASSUME Bounded PROVE InTime(out)
    <3>1. run.deadline = DecisionTimeout BY <1>2, <2>12 DEF Bounded, Going
    <3>2. ~(DecisionTimeout - now <= 0) BY <1>4, <2>12, <3>1 DEF _remaining_seconds
    <3>3. out.timeout <= DecisionTimeout - now
      BY <1>2, <2>2, <2>12, <3>1, CallBounds DEF _request_timeout, Least, _remaining_seconds
    <3>4. now < DecisionTimeout /\ now + out.timeout <= DecisionTimeout
      BY <1>2, <2>11, <3>2, <3>3, CallBounds
    <3> QED BY <2>2, <3>4 DEF InTime
  <2>13. Going(run, P.retries)' /\ (run.total <= Accounted(run, P.retries) + 1)'
    BY <2>4, <2>6, <2>8 DEF Going, Accounted, PerAttempt
  <2>14. (Bounded => InTime(req[1]))' /\ (req[1].timeout \in Int)'
    BY <2>1, <2>5, <2>11, <2>12 DEF InTime
  <2>15. asked' \in Calls /\ now' \in Int BY SMTT(30), <1>1, <1>2
  <2> QED BY <1>2, <1>4, <2>3, <2>4, <2>8, <2>9, <2>13, <2>14, <2>15 DEF CallInv
<1> QED BY <1>3, <1>4 DEF Send

LEMMA RaisesKeeps ==
  ASSUME CallInv, phase = "wire", NEW category, NEW answer, Raises(category, answer), now' \in Int,
         UNCHANGED <<asked, provider>>
  PROVE  CallInv'
<1>1. /\ provider # <<>> /\ Going(run, P.retries) /\ P.retries \in Nat
      /\ run.total \in Nat /\ run.total <= Accounted(run, P.retries) + 1
      /\ DOMAIN run = RunFields
  BY SMTT(30) DEF CallInv
<1>2. \/ \E why : Stops(why)
      \/ /\ phase' = "stopped"
         /\ \E r, v : run' = [run EXCEPT !.stop = r, !.variant = v]
      \/ /\ phase' = "stopped"
         /\ \E r : run' = [run EXCEPT !.stop = r]
      \/ ~(run.attempts > 1) /\ Begins("retry", Envelope.retry, 2, run.variant, run.deadline)
  BY Zenon DEF Raises, OverflowRetry
<1>3. CASE \E why : Stops(why) BY <1>3, StopsKeeps
<1>4. CASE phase' = "stopped" /\ \E r, v : run' = [run EXCEPT !.stop = r, !.variant = v]
  <2>1. DOMAIN run' = RunFields /\ run'.total = run.total BY <1>1, <1>4 DEF RunFields
  <2> QED BY <1>4, <2>1, OverKeeps
<1>5. CASE phase' = "stopped" /\ \E r : run' = [run EXCEPT !.stop = r]
  <2>1. DOMAIN run' = RunFields /\ run'.total = run.total BY <1>1, <1>5 DEF RunFields
  <2> QED BY <1>5, <2>1, OverKeeps
<1>6. CASE ~(run.attempts > 1) /\ Begins("retry", Envelope.retry, 2, run.variant, run.deadline)
  <2>1. run.attempts = 1 /\ run.deadline \in {-1, DecisionTimeout} BY <1>1, <1>6 DEF Going
  <2>2. Accounted(run, P.retries) \in Nat /\ Accounted(run, P.retries) + 1 <= PerAttempt(P.retries)
    BY <1>1, <2>1, AccountedWithin
  <2>3. PerAttempt(P.retries) \in Nat BY <1>1 DEF PerAttempt
  <2>4. run.total <= PerAttempt(P.retries) BY <1>1, <2>2, <2>3
  <2>5. run.total <= IF 2 = 1 THEN 0 ELSE PerAttempt(P.retries) BY <2>4
  <2> QED BY <1>1, <1>6, <2>1, <2>5, BeginsKeeps
<1> QED BY ZenonT(30), <1>2, <1>3, <1>4, <1>5, <1>6

\* One more retry, of either kind, pays for the request that failed.
LEMMA RetryKeeps ==
  ASSUME CallInv, phase = "wire", phase' = "ask", DOMAIN run' = RunFields,
         run'.total = run.total, run'.attempts = run.attempts, run'.deadline = run.deadline,
         \/ run'.transient = run.transient + 1 /\ run.transient < P.retries
            /\ run'.emptied = run.emptied
         \/ run'.transient = run.transient /\ ~run.emptied /\ run'.emptied = TRUE,
         now' \in Int, UNCHANGED <<asked, provider>>
  PROVE  CallInv'
<1>1. /\ provider # <<>> /\ Going(run, P.retries) /\ P.retries \in Nat
      /\ run.total \in Nat /\ run.total <= Accounted(run, P.retries) + 1
  BY DEF CallInv
<1>2. run.transient \in Nat /\ run.transient <= P.retries /\ run.attempts \in {1, 2} BY <1>1 DEF Going
<1>3. run'.transient \in 0 .. P.retries BY <1>1, <1>2
<1>4. Going(run', P.retries) BY Zenon, <1>1, <1>3 DEF Going
<1>5. Accounted(run', P.retries) = Accounted(run, P.retries) + 1
  <2> DEFINE a == IF run.attempts = 1 THEN 0 ELSE PerAttempt(P.retries)
             e == IF run.emptied THEN 1 ELSE 0
             f == IF run'.emptied THEN 1 ELSE 0
  <2>1. a \in Nat /\ e \in Nat BY <1>1 DEF PerAttempt
  <2>2. Accounted(run, P.retries) = a + run.transient + e BY DEF Accounted
  <2>3. Accounted(run', P.retries) = a + run'.transient + f BY DEF Accounted
  <2>4. (run'.transient = run.transient + 1 /\ f = e) \/ (run'.transient = run.transient /\ e = 0 /\ f = 1)
    OBVIOUS
  <2> HIDE DEF a, e, f
  <2> QED BY <1>2, <2>1, <2>2, <2>3, <2>4
<1>6. run.total <= Accounted(run', P.retries) BY <1>1, <1>5
<1> QED BY <1>1, <1>4, <1>6, AskKeeps

LEMMA DelayIsInteger ==
  ASSUME CallInv, provider # <<>>, NEW answer \in Answers, NEW attempt,
         NEW delay \in _retry_delay(attempt, answer)
  PROVE  delay \in Int
<1> DEFINE backoff == Least(P.max, P.base * (2 ^ attempt))
           lo == (3 * backoff) \div 4
           hi == (5 * backoff + 3) \div 4
<1>1. \/ answer.kind = "http" /\ delay = Most(1, Least(answer.after, P.max))
      \/ \E d \in lo .. hi : delay = Most(1, d)
  BY DEF _retry_delay
<1> HIDE DEF lo, hi
<1>2. CASE \E d \in lo .. hi : delay = Most(1, d) BY <1>2 DEF Most
<1>3. CASE answer.kind = "http" /\ delay = Most(1, Least(answer.after, P.max))
  <2>1. answer \in Http BY <1>3 DEF Answers, Bodies, Failures
  <2>2. answer.after \in Int BY Zenon, <2>1, CallBounds DEF Http
  <2>3. P.max \in Int BY DEF CallInv
  <2>4. Least(answer.after, P.max) \in Int BY <2>2, <2>3 DEF Least
  <2> QED BY <1>3, <2>4 DEF Most
<1> QED BY <1>1, <1>2, <1>3

LEMMA RetriesKeeps ==
  ASSUME CallInv, phase = "wire", NEW category, NEW answer \in Answers, NEW arrived \in Int,
         Retries(category, answer, arrived), UNCHANGED <<asked, provider>>
  PROVE  CallInv'
<1>1. \/ \E c : Raises(c, answer) /\ now' = arrived
      \/ /\ ~(run.transient >= P.retries)
         /\ \E delay \in _retry_delay(run.transient, answer) :
               /\ phase' = "ask"
               /\ run' = [run EXCEPT !.transient = @ + 1, !.transport = @ + 1]
               /\ now' = arrived + delay
  BY DEF Retries
<1>2. CASE \E c : Raises(c, answer) /\ now' = arrived BY <1>2, RaisesKeeps
<1>3. ASSUME NEW delay \in _retry_delay(run.transient, answer),
             ~(run.transient >= P.retries), phase' = "ask",
             run' = [run EXCEPT !.transient = @ + 1, !.transport = @ + 1],
             now' = arrived + delay
      PROVE  CallInv'
  <2>1. /\ provider # <<>> /\ DOMAIN run = RunFields /\ P.retries \in Nat
        /\ Going(run, P.retries)
    BY Zenon DEF CallInv
  <2>2. delay \in Int BY <2>1, DelayIsInteger
  <2>3. now' \in Int BY <1>3, <2>2
  <2>4. /\ DOMAIN run' = RunFields /\ run'.total = run.total /\ run'.attempts = run.attempts
        /\ run'.deadline = run.deadline /\ run'.transient = run.transient + 1
        /\ run'.emptied = run.emptied
    BY <1>3, <2>1 DEF RunFields
  <2>5. run.transient < P.retries BY SMTT(30), <1>3, <2>1 DEF Going
  <2> QED BY SMTT(30), <1>3, <2>3, <2>4, <2>5, RetryKeeps
<1> QED BY <1>1, <1>2, <1>3

LEMMA ReceiveKeeps ==
  ASSUME CallInv, Receive
  PROVE  CallInv'
<1>1. phase = "wire" /\ UNCHANGED <<asked, provider>> BY DEF Receive
<1>2. now \in Int /\ req[1].timeout \in Int /\ DOMAIN run = RunFields BY <1>1 DEF CallInv
<1>3. PICK answer \in Answers, elapsed \in {0, 1, req[1].timeout}, drip \in {0, MaxDrip} :
         LET category == Read(answer)
             arrived == now + elapsed + drip IN
         IF category = "ok" THEN Answered /\ now' = arrived
         ELSE IF EmptyRetry(category)
         THEN /\ phase' = "ask"
              /\ run' = [run EXCEPT !.emptied = TRUE, !.transport = @ + 1,
                          !.messages = _shorter_json_retry_messages(Variant(run.sent))]
              /\ now' = arrived
         ELSE Retries(category, answer, arrived)
  BY DEF Receive
<1> DEFINE arrived == now + elapsed + drip
<1>4. arrived \in Int BY <1>2, CallBounds
<1> HIDE DEF arrived
<1>5. CASE Answered /\ now' = arrived
  <2>1. phase' = "answered" /\ DOMAIN run' = RunFields /\ run'.total = run.total
    BY <1>2, <1>5 DEF Answered, RunFields
  <2> QED BY <1>1, <1>4, <1>5, <2>1, OverKeeps
<1>6. CASE /\ ~run.emptied /\ phase' = "ask" /\ now' = arrived
           /\ \E m : run' = [run EXCEPT !.emptied = TRUE, !.transport = @ + 1, !.messages = m]
  <2>1. PICK m : run' = [run EXCEPT !.emptied = TRUE, !.transport = @ + 1, !.messages = m]
    BY Zenon, <1>6
  <2>2. /\ DOMAIN run' = RunFields /\ run'.total = run.total /\ run'.attempts = run.attempts
        /\ run'.deadline = run.deadline /\ run'.transient = run.transient /\ run'.emptied = TRUE
    BY <1>2, <2>1 DEF RunFields
  <2> QED BY Zenon, <1>1, <1>4, <1>6, <2>2, RetryKeeps
<1>7. CASE \E category : Retries(category, answer, arrived)
  BY SMTT(30), <1>1, <1>4, <1>7, RetriesKeeps
<1>8. \/ Answered /\ now' = arrived
      \/ /\ ~run.emptied /\ phase' = "ask" /\ now' = arrived
         /\ \E m : run' = [run EXCEPT !.emptied = TRUE, !.transport = @ + 1, !.messages = m]
      \/ \E category : Retries(category, answer, arrived)
  BY ZenonT(30), <1>3 DEF arrived, EmptyRetry
<1> QED BY Zenon, <1>5, <1>6, <1>7, <1>8

LEMMA CallStarts == CallInit => CallInv
<1> SUFFICES ASSUME CallInit PROVE CallInv OBVIOUS
<1>1. DOMAIN NotStarted = RunFields /\ NotStarted.total = 0 BY DEF NotStarted, RunFields
<1>2. /\ asked \in Calls /\ provider = <<>> /\ phase = "new" /\ run = NotStarted /\ now = 0
  BY DEF CallInit
<1> QED BY <1>1, <1>2 DEF CallInv

LEMMA CallStep == CallInv /\ [CallNext]_call_vars => CallInv'
<1> SUFFICES ASSUME CallInv, [CallNext]_call_vars PROVE CallInv' OBVIOUS
<1>1. CASE CreateProvider BY <1>1, CreateKeeps
<1>2. CASE execute \/ execute_native_tool_turn BY SMTT(30), <1>2, ExecuteKeeps
<1>3. CASE Send BY <1>3, SendKeeps
<1>4. CASE Receive BY <1>4, ReceiveKeeps
<1>5. CASE Done \/ UNCHANGED call_vars
  <2>1. UNCHANGED <<asked, provider, phase, run, req, now>> BY <1>5 DEF Done, call_vars
  <2>2. P' = P /\ (Bounded' <=> Bounded) BY <2>1 DEF P, Bounded
  <2> QED BY Zenon, <2>1, <2>2 DEF CallInv, Going, Accounted, PerAttempt, InTime
<1> QED BY <1>1, <1>2, <1>3, <1>4, <1>5 DEF CallNext

\* A DeepSeek request starts before the deadline of its decision and its socket
\* timeout ends by it (_request_timeout), for every deadline, every delay a server
\* asks for and every number of retries.
THEOREM AlwaysSentInTime == CallSpec => []SentInTime
<1>1. CallInv => SentInTime BY DEF CallInv, SentInTime, InTime
<1> QED BY <1>1, CallStarts, CallStep, PTL DEF CallSpec

\* A call sends at most two rounds of one request, its transient retries and one
\* retry of an empty answer, whatever retry settings the provider accepts.
THEOREM RequestsAlwaysBounded == CallSpec => []RequestsBounded
<1>1. CallInv => RequestsBounded BY DEF CallInv, RequestsBounded, PerAttempt
<1> QED BY <1>1, CallStarts, CallStep, PTL DEF CallSpec
=============================================================================
