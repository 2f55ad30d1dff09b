-------------------------- MODULE Planning_proofs --------------------------
(***************************************************************************)
(* Proofs about the plan-first loop (PlanFirst).                           *)
(*                                                                         *)
(* PlanInv follows an approval from the answer of the operator through     *)
(* the gate to the stages.  What the gate accepts is looked at once, in    *)
(* ValidatedApproved; the steps only carry it along.                       *)
(***************************************************************************)
EXTENDS PlanFirst, WellFoundedInduction, TLAPS

-----------------------------------------------------------------------------
(* Induction over the naturals, from the least member of a set of them     *)

LEMMA LeastMember ==
  ASSUME NEW T \in SUBSET Nat, T # {}
  PROVE  \E m \in T : \A k \in T : m <= k
<1> DEFINE R == OpToRel(<, Nat)
<1>1. IsWellFoundedOn(R, Nat) BY Zenon, NatLessThanWellFounded
<1>2. \A y, x \in Nat : (<<y, x>> \in R) <=> y < x BY DEF OpToRel
<1> HIDE DEF R
<1>3. PICK x \in T : \A y \in T : ~ (<<y, x>> \in R) BY Zenon, <1>1, WFMin
<1>4. x \in Nat /\ T \subseteq Nat OBVIOUS
<1>5. ASSUME NEW y \in T PROVE x <= y
  <2>1. y \in Nat /\ ~(y < x) BY Zenon, <1>2, <1>3, <1>4
  <2> QED BY <1>4, <2>1
<1> QED BY <1>5

LEMMA Induct ==
  ASSUME NEW T, 0 \in T, \A n \in Nat : n \in T => n + 1 \in T
  PROVE  Nat \subseteq T
<1> DEFINE out == Nat \ T
<1>1. SUFFICES ASSUME out # {} PROVE FALSE OBVIOUS
<1>2. PICK m \in out : \A k \in out : m <= k BY Zenon, <1>1, LeastMember
<1>3. m \in Nat /\ m # 0 OBVIOUS
<1>4. m - 1 \in Nat /\ (m - 1) + 1 = m /\ ~(m <= m - 1) BY <1>3
<1>5. m - 1 \in T BY <1>2, <1>4
<1>6. m \in T BY <1>4, <1>5
<1> QED BY <1>6

\* The function the definition of Kept describes, up to position n.
Keeps(f, s, I, n) ==
    f = [i \in 0 .. n |-> IF i = 0 THEN <<>>
                          ELSE IF i \in I THEN Append(f[i - 1], s[i]) ELSE f[i - 1]]

\* There is one for every length, so Kept computes what its definition says.
LEMMA KeptRule ==
  ASSUME NEW s, NEW N \in Nat, NEW I
  PROVE  \E f : Keeps(f, s, I, N)
<1> DEFINE Rule(f, n) == f = [i \in 0 .. n |-> IF i = 0 THEN <<>>
                            ELSE IF i \in I THEN Append(f[i - 1], s[i]) ELSE f[i - 1]]
           T == {n \in Nat : \E f : Rule(f, n)}
<1>1. 0 \in T
  <2> DEFINE f == [i \in 0 .. 0 |-> <<>>]
  <2>1. \A i \in 0 .. 0 : i = 0 OBVIOUS
  <2>2. Rule(f, 0) BY <2>1
  <2> QED BY Zenon, <2>2
<1>2. ASSUME NEW n \in Nat, n \in T PROVE n + 1 \in T
  <2>1. PICK f : Rule(f, n) BY <1>2
  <2> DEFINE last == IF n + 1 \in I THEN Append(f[n], s[n + 1]) ELSE f[n]
             g == [i \in 0 .. n + 1 |-> IF i = n + 1 THEN last ELSE f[i]]
             h == [i \in 0 .. n + 1 |-> IF i = 0 THEN <<>>
                     ELSE IF i \in I THEN Append(g[i - 1], s[i]) ELSE g[i - 1]]
  <2> HIDE DEF last
  <2>2. ASSUME NEW i \in 0 .. n + 1 PROVE g[i] = h[i]
    <3>1. CASE i = n + 1
      <4>1. i # 0 /\ i - 1 = n /\ n \in 0 .. n + 1 /\ n # n + 1 BY <3>1
      <4>2. g[i - 1] = f[n] BY <4>1
      <4>3. g[i] = last BY <3>1
      <4> QED BY <3>1, <4>1, <4>2, <4>3 DEF last
    <3>2. CASE i = 0
      <4>1. 0 \in 0 .. n /\ 0 # n + 1 OBVIOUS
      <4>2. f[0] = <<>> BY <2>1, <4>1
      <4> QED BY <3>2, <4>1, <4>2
    <3>3. CASE i # 0 /\ i # n + 1
      <4>1. i \in 0 .. n /\ i - 1 \in 0 .. n + 1 /\ i - 1 # n + 1 BY <3>3
      <4>2. f[i] = IF i \in I THEN Append(f[i - 1], s[i]) ELSE f[i - 1] BY Zenon, <2>1, <3>3, <4>1
      <4>3. g[i - 1] = f[i - 1] /\ g[i] = f[i] BY <3>3, <4>1
      <4> QED BY <3>3, <4>2, <4>3
    <3> QED BY <3>1, <3>2, <3>3
  <2>3. g = h BY <2>2
  <2>4. Rule(g, n + 1) BY Zenon, <2>3
  <2> HIDE DEF g, h
  <2>5. \E e : Rule(e, n + 1) BY <2>4
  <2> QED BY <2>5
<1>3. N \in T
  <2> HIDE DEF T
  <2> QED BY <1>1, <1>2, Induct
<1> QED BY <1>3 DEF Keeps

\* The members kept of a list are members of it at the positions asked for
\* (RunCandidates), by induction along the list.
LEMMA KeptIn ==
  ASSUME NEW s, Len(s) \in Nat, NEW I
  PROVE  Kept(s, I) \in Seq({s[i] : i \in I})
<1> DEFINE N == Len(s)
           V == {s[i] : i \in I}
           kept == CHOOSE f : Keeps(f, s, I, N)
           T == {n \in Nat : n <= N => kept[n] \in Seq(V)}
<1>1. Kept(s, I) = kept[N] BY DEF Kept, Keeps
<1>2. \E f : Keeps(f, s, I, N) BY Zenon, KeptRule
<1>3. Keeps(kept, s, I, N) BY <1>2
<1> HIDE DEF kept
<1>4. 0 \in T
  <2>1. kept[0] = <<>> BY <1>3 DEF Keeps
  <2>2. <<>> \in Seq(V) OBVIOUS
  <2> QED BY Zenon, <2>1, <2>2
<1>5. ASSUME NEW n \in Nat, n \in T PROVE n + 1 \in T
  <2> SUFFICES ASSUME n + 1 <= N PROVE kept[n + 1] \in Seq(V) OBVIOUS
  <2>1. n <= N /\ n + 1 \in 0 .. N /\ n + 1 # 0 /\ (n + 1) - 1 = n OBVIOUS
  <2>2. kept[n] \in Seq(V) BY <1>5, <2>1
  <2>3. kept[n + 1] = IF n + 1 \in I THEN Append(kept[n], s[n + 1]) ELSE kept[n]
    BY Zenon, <1>3, <2>1 DEF Keeps
  <2>4. CASE n + 1 \in I
    <3>1. s[n + 1] \in V BY <2>4
    <3> HIDE DEF V
    <3>2. Append(kept[n], s[n + 1]) \in Seq(V) BY <2>2, <3>1
    <3> QED BY <2>3, <2>4, <3>2
  <2>5. CASE n + 1 \notin I BY <2>2, <2>3, <2>5
  <2> QED BY <2>4, <2>5
<1>6. N \in T
  <2> HIDE DEF T
  <2> QED BY <1>4, <1>5, Induct
<1> QED BY <1>1, <1>6

-----------------------------------------------------------------------------
(* The inductive invariant                                                 *)

Fields == {"pc", "run", "dry", "phase", "snapshot", "budget", "round", "approval", "excluded",
           "text", "plan", "policy", "stage", "results", "used", "signatures", "signature",
           "seen", "replans", "revision", "stop_reason"}

\* A result or a reason that is not there yet.
Unsaid == ""

\* The commands the snapshot adds to a plan need no approval.
Harmless(snapshot) ==
    \A cmd \in Range(snapshot.setup) \cup Range(snapshot.builds) : cmd.c.kind \notin ApprovalKinds

\* The run section of a parsed plan is two lists.
Listing(text) ==
    text.run \in Seq(Range(text.run)) /\ text.runsel \in Seq(Range(text.runsel))

\* The results of an execution: a verified service has a process, which the
\* runner of the revision has started, and before verify nothing is verified.
Consistent(q) ==
    /\ DOMAIN q.results = {"failed", "runner", "pid", "verify"}
    /\ q.results.verify = "passed" => q.results.pid
    /\ q.results.pid => q.results.runner = q.revision
    /\ q.pc = "stage" => q.results.verify = Unsaid

\* Nothing that needs an approval is about to be executed without it.
Covered(q, granted) ==
    /\ q.approval.granted \subseteq granted
    /\ q.pc = "stage" /\ ~q.dry =>
          Sensitive(q.policy.install \cup Range(q.policy.run)) \subseteq granted

\* What holds of the process between two steps.
Sound(q, granted) ==
    /\ DOMAIN q = Fields
    /\ q.pc # "idle" => q.stop_reason = Unsaid /\ Harmless(q.snapshot)
    /\ q.pc = "gate" => Listing(q.text)
    /\ Consistent(q)
    /\ Covered(q, granted)
    /\ q.stop_reason = "verify_passed" => q.results.pid

PlanInv ==
    /\ DOMAIN operator = {"request", "granted", "rejected"}
    /\ Sound(p, operator.granted)
    /\ executed \subseteq operator.granted

-----------------------------------------------------------------------------
(* What the gate lets through                                              *)

\* Normalising a command changes how it is written, not what it is.
LEMMA NormalizedCommand ==
  ASSUME NEW raw
  PROVE  _normalize_declared_console_script(raw).c = raw.c
BY DEF _normalize_declared_console_script, Command

\* authorize allows a command of a kind that needs an approval only with it.
LEMMA AuthorizedWithApproval ==
  ASSUME NEW c, NEW at, Authorized(c, at) = "auto_allowed", c.kind \in ApprovalKinds
  PROVE  c \in at.approval.granted
BY DEF Authorized, authorize, approval_valid

\* So does the gate of an install command of the plan itself ...
LEMMA OwnInstallApproved ==
  ASSUME NEW raw, NEW at, InstallVerdict(raw, at, TRUE) = "auto_allowed",
         raw.c.kind \in ApprovalKinds
  PROVE  raw.c \in at.approval.granted
<1> DEFINE cmd == _normalize_declared_console_script(raw)
<1>1. cmd.c = raw.c BY NormalizedCommand
<1> HIDE DEF cmd
<1>2. raw.c.kind # "package" BY DEF ApprovalKinds
<1>3. _looks_repository_command(cmd) BY <1>1, <1>2 DEF _looks_repository_command
<1>4. InstallVerdict(raw, at, TRUE) =
        IF _registry_candidate_for_command(at.registry, cmd) # {} THEN Authorized(cmd.c, at)
        ELSE IF _validate_command(cmd) /\ ~(TRUE /\ _looks_repository_command(cmd))
        THEN "auto_allowed" ELSE "candidate_rejected"
  BY DEF InstallVerdict, cmd
<1>5. Authorized(cmd.c, at) = "auto_allowed" BY Zenon, <1>3, <1>4
<1> QED BY <1>1, <1>5, AuthorizedWithApproval

\* ... and the gate of a run candidate.
LEMMA RunApproved ==
  ASSUME NEW raw, NEW at, RunVerdict(raw, at) = "auto_allowed", raw.c.kind \in ApprovalKinds
  PROVE  raw.c \in at.approval.granted
<1> DEFINE cmd == _normalize_declared_console_script(raw)
<1>1. cmd.c = raw.c BY NormalizedCommand
<1> HIDE DEF cmd
<1>2. RunVerdict(raw, at) =
        IF _registry_candidate_for_command(at.registry, cmd) = {} \/ cmd.c \in at.excluded
        THEN "candidate_rejected" ELSE Authorized(cmd.c, at)
  BY DEF RunVerdict, cmd
<1>3. Authorized(cmd.c, at) = "auto_allowed" BY <1>2
<1> QED BY <1>1, <1>3, AuthorizedWithApproval

\* The install section of an accepted plan, with what the snapshot adds to it.
LEMMA InstallsApproved ==
  ASSUME NEW plan, NEW snapshot, NEW at, Harmless(snapshot)
  PROVE  Sensitive(Installs(plan, snapshot, at).safe) \subseteq at.approval.granted
<1> DEFINE own == IF plan.install # {} THEN plan.install
                  ELSE {Command("exact", c) : c \in {d \in plan.envsel :
                           d \in at.registry.candidates /\ d.phase \in {"install", "setup"}}}
           more == Range(snapshot.setup) \cup Range(snapshot.builds)
           safe == {cmd.c : cmd \in {x \in own \cup more :
                       InstallVerdict(x, at, x \in own) = "auto_allowed"}}
<1>1. Installs(plan, snapshot, at).safe = safe BY DEF Installs
<1> HIDE DEF own
<1>2. ASSUME NEW c \in safe, c.kind \in ApprovalKinds PROVE c \in at.approval.granted
  <2>1. PICK x \in own \cup more : c = x.c /\ InstallVerdict(x, at, x \in own) = "auto_allowed"
    OBVIOUS
  <2>2. CASE x \in own
    <3>1. (x \in own) = TRUE BY <2>2
    <3>2. InstallVerdict(x, at, TRUE) = "auto_allowed" BY ZenonT(30), <2>1, <3>1
    <3> QED BY Zenon, <1>2, <2>1, <3>2, OwnInstallApproved
  <2>3. CASE x \in more BY <1>2, <2>1, <2>3 DEF Harmless
  <2> QED BY <2>1, <2>2, <2>3
<1> HIDE DEF safe
<1> QED BY <1>1, <1>2 DEF Sensitive

\* The run section: the candidates that are kept are the ones allowed.
LEMMA RunCandidatesApproved ==
  ASSUME NEW plan, NEW at, Listing(plan)
  PROVE  Sensitive(Range(RunCandidates(plan, at).safe)) \subseteq at.approval.granted
<1> DEFINE chosen == Kept(plan.runsel, {i \in DOMAIN plan.runsel :
                         /\ plan.runsel[i] \in at.registry.candidates
                         /\ plan.runsel[i].phase = "run"})
           selected == [i \in DOMAIN chosen |-> Command("exact", chosen[i])]
           all == plan.run \o selected
           I == {i \in DOMAIN all : RunVerdict(all[i], at) = "auto_allowed"}
           kept == Kept(all, I)
           safe == [i \in DOMAIN kept |-> kept[i].c]
<1>1. RunCandidates(plan, at).safe = safe BY Zenon DEF RunCandidates
<1>2. Len(plan.runsel) \in Nat BY DEF Listing
<1>3. \E S : chosen \in Seq(S) BY Zenon, <1>2, KeptIn
<1> HIDE DEF chosen
<1>4. DOMAIN chosen = 1 .. Len(chosen) /\ Len(chosen) \in Nat BY <1>3
<1>5. selected \in Seq({selected[i] : i \in DOMAIN selected}) BY <1>4
<1> HIDE DEF selected
<1>6. Len(all) \in Nat BY <1>5 DEF Listing
<1> HIDE DEF all
<1>7. kept \in Seq({all[i] : i \in I}) BY <1>6, KeptIn
<1> HIDE DEF kept
<1>8. ASSUME NEW c \in Range(safe), c.kind \in ApprovalKinds PROVE c \in at.approval.granted
  <2>1. PICK j \in DOMAIN kept : c = kept[j].c BY DEF Range
  <2>2. kept[j] \in {all[i] : i \in I} BY <1>7, <2>1
  <2>3. PICK i \in I : kept[j] = all[i] BY <2>2
  <2>4. RunVerdict(all[i], at) = "auto_allowed" BY <2>3
  <2> QED BY <1>8, <2>1, <2>3, <2>4, RunApproved
<1> HIDE DEF safe
<1> QED BY <1>1, <1>8 DEF Sensitive

\* validate: whatever an accepted plan executes that needs an approval has it.
LEMMA ValidatedApproved ==
  ASSUME NEW plan, NEW snapshot, NEW observed, NEW tree, NEW approval, NEW excluded,
         Harmless(snapshot), Listing(plan)
  PROVE  LET v == validate(plan, snapshot, observed, tree, approval, excluded)
         IN  Sensitive(v.install \cup Range(v.run)) \subseteq approval.granted
<1> DEFINE v == validate(plan, snapshot, observed, tree, approval, excluded)
           proposed == _register_candidate_requests(plan, snapshot.registry,
                           tree.digest["README"] = snapshot.digest["README"])
           at == [registry |-> proposed.registry,
                  fresh |-> tree.digest["README"] = snapshot.digest["README"],
                  approval |-> approval, excluded |-> excluded]
<1>1. \/ v = Rejected
      \/ /\ v.install = Installs(plan, snapshot, at).safe
         /\ v.run = RunCandidates(plan, at).safe
  BY Zenon DEF validate
<1>2. at.approval = approval OBVIOUS
<1> HIDE DEF at, v
<1>3. CASE v = Rejected
  <2>1. Rejected.install = {} /\ Rejected.run = <<>> BY DEF Rejected
  <2>2. Range(<<>>) = {} BY DEF Range
  <2>3. Sensitive({} \cup {}) = {} BY DEF Sensitive
  <2>4. Sensitive(v.install \cup Range(v.run)) \subseteq approval.granted
    BY Zenon, <1>3, <2>1, <2>2, <2>3
  <2> QED BY <2>4 DEF v
<1>4. CASE v.install = Installs(plan, snapshot, at).safe /\ v.run = RunCandidates(plan, at).safe
  <2>1. Sensitive(v.install) \subseteq approval.granted BY <1>2, <1>4, InstallsApproved
  <2>2. Sensitive(Range(v.run)) \subseteq approval.granted BY <1>2, <1>4, RunCandidatesApproved
  <2>3. Sensitive(v.install \cup Range(v.run)) \subseteq approval.granted
    BY <2>1, <2>2 DEF Sensitive
  <2> QED BY <2>3 DEF v
<1> QED BY <1>1, <1>3, <1>4

\* The setup command and the source builds of a snapshot need no approval.
LEMMA SnapshotHarmless ==
  ASSUME NEW tree, NEW mode
  PROVE  Harmless(snapshot_of(tree, mode))
<1> DEFINE setup == _documented_setup_commands(tree.facts)
           builds == _source_build_commands(tree.facts)
<1>1. snapshot_of(tree, mode).setup = setup /\ snapshot_of(tree, mode).builds = builds
  BY DEF snapshot_of
<1>2. ASSUME NEW cmd \in Range(setup) PROVE cmd.c.kind = "pep621_script"
  <2> DEFINE S == {c \in discover(tree.facts).candidates :
                      c.phase = "setup" /\ c.kind = "pep621_script"}
             one == CHOOSE c \in S : TRUE
  <2>1. setup = <<>> \/ (S # {} /\ setup = <<Command("documented", one)>>)
    BY DEF _documented_setup_commands
  <2>2. CASE setup = <<>> BY <1>2, <2>2 DEF Range
  <2>3. CASE S # {} /\ setup = <<Command("documented", one)>>
    <3>1. one \in S BY <2>3
    <3> HIDE DEF one
    <3>2. cmd = Command("documented", one) BY <1>2, <2>3 DEF Range
    <3> QED BY <3>1, <3>2 DEF Command
  <2> QED BY <2>1, <2>2, <2>3
<1>3. ASSUME NEW cmd \in Range(builds) PROVE cmd.c.kind \in {"node_install", "source_build"}
  <2> DEFINE a == Command("documented", Candidate("node_install", "install", "system",
                                                  {"package_manifest", "lockfile"}))
             b == Command("exact", Candidate("source_build", "install", "system",
                              {"package_json_script", "lockfile", "make_reference"}))
  <2>1. builds = <<>> \/ builds = <<a, b>> BY DEF _source_build_commands
  <2>2. a.c.kind = "node_install" /\ b.c.kind = "source_build" BY DEF Command, Candidate
  <2> HIDE DEF a, b, builds
  <2>3. CASE builds = <<>> BY <1>3, <2>3 DEF Range
  <2>4. CASE builds = <<a, b>>
    <3>1. cmd = a \/ cmd = b BY <1>3, <2>4 DEF Range
    <3> QED BY <2>2, <3>1
  <2> QED BY <2>1, <2>3, <2>4
<1> HIDE DEF setup, builds
<1> QED BY <1>1, <1>2, <1>3 DEF Harmless, ApprovalKinds

-----------------------------------------------------------------------------
(* The states of the process                                               *)

LEMMA Said == "passed" # Unsaid /\ "verify_passed" # Unsaid
BY SMTT(30) DEF Unsaid

LEMMA IdleFields ==
  /\ DOMAIN Idle = Fields
  /\ Idle.pc = "idle" /\ Idle.stop_reason = Unsaid /\ Idle.approval = NoApproval
  /\ Idle.results = NoResults /\ Idle.revision = 0
BY Zenon DEF Idle, Fields, Unsaid

LEMMA Blank ==
  /\ NoApproval.granted = {} /\ DOMAIN NoApproval = {"granted", "execution_count"}
  /\ NoResults.pid = FALSE /\ NoResults.verify = Unsaid
  /\ DOMAIN NoResults = {"failed", "runner", "pid", "verify"}
BY DEF NoApproval, NoResults, Unsaid

\* A process that is idle again, with consistent results.
LEMMA EndSound ==
  ASSUME NEW q, NEW G, DOMAIN q = Fields, q.pc = "idle", q.approval = NoApproval,
         DOMAIN q.results = {"failed", "runner", "pid", "verify"},
         q.results.verify = "passed" => q.results.pid,
         q.results.pid => q.results.runner = q.revision,
         q.stop_reason = "verify_passed" => q.results.pid
  PROVE  Sound(q, G)
<1>1. Consistent(q) BY DEF Consistent
<1>2. Covered(q, G) BY Blank DEF Covered
<1> QED BY <1>1, <1>2 DEF Sound

\* An exception leaves nothing behind.
LEMMA RaiseSound ==
  ASSUME PlanInv, Raise
  PROVE  Sound(p', operator'.granted) /\ UNCHANGED operator
<1> DEFINE q == [Idle EXCEPT !.run = p.run, !.stop_reason = "raised"]
<1>1. p' = q /\ UNCHANGED operator BY DEF Raise
<1>2. /\ DOMAIN q = Fields /\ q.pc = "idle" /\ q.approval = NoApproval
      /\ q.results = NoResults /\ q.stop_reason = "raised"
  BY IdleFields DEF Fields
<1> HIDE DEF q
<1>3. /\ DOMAIN q.results = {"failed", "runner", "pid", "verify"} /\ ~q.results.pid
      /\ q.results.verify # "passed" /\ q.stop_reason # "verify_passed"
  BY <1>2, Blank, Said
<1>4. Sound(q, operator'.granted) BY <1>2, <1>3, EndSound
<1> QED BY <1>1, <1>4

\* A run that ends keeps its results, and asks for at most one approval.
LEMMA EndedSound ==
  ASSUME PlanInv, NEW q, NEW reason, NEW request, Ended(q, reason, request), Consistent(q),
         reason = "verify_passed" => q.results.pid
  PROVE  /\ Sound(p', operator'.granted)
         /\ DOMAIN operator' = DOMAIN operator /\ operator'.granted = operator.granted
<1> DEFINE e == [Idle EXCEPT !.run = q.run, !.stop_reason = reason,
                    !.results = q.results, !.revision = q.revision]
<1>1. p' = e /\ operator' = [operator EXCEPT !.request = request] BY DEF Ended
<1>2. /\ DOMAIN e = Fields /\ e.pc = "idle" /\ e.approval = NoApproval
      /\ e.results = q.results /\ e.revision = q.revision /\ e.stop_reason = reason
  BY IdleFields DEF Fields
<1> HIDE DEF e
<1>3. Sound(e, operator'.granted) BY <1>2, EndSound DEF Consistent
<1>4. DOMAIN operator' = DOMAIN operator /\ operator'.granted = operator.granted
  BY <1>1 DEF PlanInv
<1> QED BY <1>1, <1>3, <1>4

\* So either way out keeps the invariant.
LEMMA EndedKeeps ==
  ASSUME PlanInv, NEW q, NEW reason, NEW request, Ended(q, reason, request), Consistent(q),
         reason = "verify_passed" => q.results.pid, UNCHANGED executed
  PROVE  PlanInv'
BY EndedSound DEF PlanInv

\* (an exception)
LEMMA RaiseKeeps ==
  ASSUME PlanInv, Raise, UNCHANGED executed
  PROVE  PlanInv'
BY RaiseSound DEF PlanInv

\* A process that goes on outside the stages, with what it had.
LEMMA MoveSound ==
  ASSUME PlanInv, NEW q, DOMAIN q = Fields,
         q.pc \notin {"idle", "stage"}, q.stop_reason = Unsaid, Harmless(q.snapshot),
         q.pc = "gate" => Listing(q.text),
         q.results = p.results, q.revision = p.revision,
         q.approval.granted \subseteq operator.granted,
         p' = q, UNCHANGED <<operator, executed>>
  PROVE  PlanInv'
<1>1. Consistent(q) BY DEF PlanInv, Sound, Consistent
<1>2. Covered(q, operator.granted) BY SMTT(30) DEF Covered
<1>3. Sound(q, operator.granted) BY <1>1, <1>2, Said DEF Sound
<1> QED BY <1>3 DEF PlanInv

-----------------------------------------------------------------------------
(* The steps                                                               *)

\* The counters of the planner touch nothing the invariant is about.
LEMMA PlanningFields ==
  ASSUME NEW q, DOMAIN q = Fields, NEW entries, NEW of_phase,
         NEW n, n = Planning(q, entries, of_phase)
  PROVE  /\ DOMAIN n = Fields /\ n.pc = "turn"
         /\ n.stop_reason = q.stop_reason /\ n.snapshot = q.snapshot
         /\ n.results = q.results /\ n.revision = q.revision /\ n.approval = q.approval
BY DEF Planning, Fields

\* A run starts with the answer of the operator to the request of the last one.
LEMMA StartKeeps ==
  ASSUME PlanInv, NEW mode, NEW dry, NEW answer, Start(mode, dry, answer)
  PROVE  PlanInv'
<1> DEFINE granted == IF answer = "approve" THEN operator.request ELSE {}
           rejected == IF answer = "reject" THEN operator.request ELSE {}
           q == [Idle EXCEPT !.run = p.run + 1, !.dry = dry, !.snapshot = snapshot_of(repo, mode),
                             !.approval.granted = granted, !.excluded = rejected]
<1>1. /\ operator' = [operator EXCEPT !.granted = @ \cup granted, !.rejected = @ \cup rejected]
      /\ p' = Planning(q, ledger, "plan") /\ UNCHANGED executed
  BY DEF Start
<1>2. /\ DOMAIN q = Fields /\ q.stop_reason = Unsaid /\ q.snapshot = snapshot_of(repo, mode)
      /\ q.results = NoResults /\ q.revision = 0 /\ q.approval.granted = granted
  BY IdleFields, Blank DEF Fields
<1> HIDE DEF q, granted, rejected
<1>3. /\ DOMAIN p' = Fields /\ p'.pc = "turn" /\ p'.stop_reason = Unsaid
      /\ p'.snapshot = snapshot_of(repo, mode) /\ p'.results = NoResults
      /\ p'.approval.granted = granted
  <2> DEFINE n == Planning(q, ledger, "plan")
  <2>1. DOMAIN q = Fields BY <1>2
  <2>2. p' = n BY <1>1
  <2>3. /\ DOMAIN n = Fields /\ n.pc = "turn"
        /\ n.stop_reason = q.stop_reason /\ n.snapshot = q.snapshot
        /\ n.results = q.results /\ n.approval = q.approval
    BY <2>1, PlanningFields
  <2> HIDE DEF n
  <2> QED BY <1>2, <2>2, <2>3
<1>4. /\ DOMAIN operator' = {"request", "granted", "rejected"}
      /\ operator'.granted = operator.granted \cup granted
  BY <1>1 DEF PlanInv
<1>5. Harmless(p'.snapshot) BY <1>3, SnapshotHarmless
<1>6. Consistent(p') BY <1>3, Blank, Said DEF Consistent
<1>7. Covered(p', operator'.granted) BY <1>3, <1>4 DEF Covered
<1>8. Sound(p', operator'.granted) BY <1>3, <1>5, <1>6, <1>7, Said DEF Sound
<1>9. executed' \subseteq operator'.granted BY <1>1, <1>4 DEF PlanInv
<1> QED BY <1>4, <1>8, <1>9 DEF PlanInv

\* What a process on its way has.
LEMMA OnItsWay ==
  ASSUME PlanInv, p.pc # "idle"
  PROVE  /\ DOMAIN p = Fields /\ p.stop_reason = Unsaid /\ Harmless(p.snapshot)
         /\ Consistent(p) /\ p.approval.granted \subseteq operator.granted
BY DEF PlanInv, Sound, Covered

LEMMA GateNext ==
  ASSUME PlanInv, p.pc # "idle", NEW text, Listing(text), UNCHANGED <<operator, executed>>,
         p' = [p EXCEPT !.pc = "gate", !.text = text]
  PROVE  PlanInv'
<1> DEFINE q == [p EXCEPT !.pc = "gate", !.text = text]
<1>1. /\ DOMAIN p = Fields /\ p.stop_reason = Unsaid /\ Harmless(p.snapshot)
      /\ p.approval.granted \subseteq operator.granted
  BY OnItsWay
<1>2. /\ DOMAIN q = Fields /\ q.pc = "gate" /\ q.text = text /\ q.stop_reason = Unsaid
      /\ q.snapshot = p.snapshot /\ q.results = p.results /\ q.revision = p.revision
      /\ q.approval = p.approval
  BY <1>1 DEF Fields
<1>3. p' = q OBVIOUS
<1> HIDE DEF q
<1> QED BY <1>1, <1>2, <1>3, MoveSound

LEMMA ParseKeeps ==
  ASSUME PlanInv, p.pc # "idle", NEW text, Listing(text), Parse(text), UNCHANGED executed
  PROVE  PlanInv'
<1>1. Consistent(p) BY OnItsWay
<1>2. CASE \E reason \in {"replan_parse_failed", "plan_not_ok", "replan_not_ok"} :
              Ended(p, reason, {})
  BY <1>1, <1>2, EndedKeeps
<1>3. CASE p' = [p EXCEPT !.pc = "repair"] /\ UNCHANGED operator
  <2> DEFINE q == [p EXCEPT !.pc = "repair"]
  <2>1. /\ DOMAIN p = Fields /\ p.stop_reason = Unsaid /\ Harmless(p.snapshot)
        /\ p.approval.granted \subseteq operator.granted
    BY OnItsWay
  <2>2. /\ DOMAIN q = Fields /\ q.pc = "repair" /\ q.stop_reason = Unsaid
        /\ q.snapshot = p.snapshot /\ q.results = p.results /\ q.revision = p.revision
        /\ q.approval = p.approval
    BY <2>1 DEF Fields
  <2>3. p' = q BY SMTT(30), <1>3
  <2> HIDE DEF q
  <2> QED BY <1>3, <2>1, <2>2, <2>3, MoveSound
<1>4. CASE p' = [p EXCEPT !.pc = "gate", !.text = text] /\ UNCHANGED operator
  BY Zenon, <1>4, GateNext
<1>5. \/ \E reason \in {"replan_parse_failed", "plan_not_ok", "replan_not_ok"} :
            Ended(p, reason, {})
      \/ p' = [p EXCEPT !.pc = "repair"] /\ UNCHANGED operator
      \/ p' = [p EXCEPT !.pc = "gate", !.text = text] /\ UNCHANGED operator
  BY DEF Parse
<1> QED BY <1>2, <1>3, <1>4, <1>5

LEMMA FinalTurnKeeps ==
  ASSUME PlanInv, NEW text \in Plans, FinalTurn(text)
  PROVE  PlanInv'
<1> DEFINE cited == [text EXCEPT !.cites = enrich_plan_grounding(@, p.snapshot, ledger)]
<1>1. p.pc # "idle" /\ UNCHANGED executed /\ (Raise \/ Parse(cited) \/ Parse(text))
  BY DEF FinalTurn
<1>2. Listing(text) BY PlanTexts DEF Listing
<1>3. DOMAIN text = DOMAIN NoText BY PlanTexts
<1>4. {"run", "runsel"} \subseteq DOMAIN NoText BY DEF NoText
<1>5. cited.run = text.run /\ cited.runsel = text.runsel BY <1>3, <1>4
<1> HIDE DEF cited
<1>6. Listing(cited) BY SMTT(30), <1>2, <1>5 DEF Listing
<1> QED BY <1>1, <1>2, <1>6, ParseKeeps, RaiseKeeps

LEMMA ObserveTurnKeeps ==
  ASSUME PlanInv, NEW requests, ObserveTurn(requests)
  PROVE  PlanInv'
<1>1. CASE Raise BY <1>1, RaiseKeeps DEF ObserveTurn
<1>2. CASE \E r, b : p' = [p EXCEPT !.round = r, !.budget = b] /\ UNCHANGED operator
  <2>1. PICK r, b : p' = [p EXCEPT !.round = r, !.budget = b] /\ UNCHANGED operator BY Zenon, <1>2
  <2> DEFINE q == [p EXCEPT !.round = r, !.budget = b]
  <2>2. p.pc = "turn" /\ UNCHANGED executed BY DEF ObserveTurn
  <2>3. /\ DOMAIN p = Fields /\ p.stop_reason = Unsaid /\ Harmless(p.snapshot)
        /\ p.approval.granted \subseteq operator.granted
    BY <2>2, OnItsWay
  <2>4. /\ DOMAIN q = Fields /\ q.pc = "turn" /\ q.stop_reason = Unsaid
        /\ q.snapshot = p.snapshot /\ q.results = p.results /\ q.revision = p.revision
        /\ q.approval = p.approval
    BY <2>2, <2>3 DEF Fields
  <2>5. p' = q BY SMTT(30), <2>1
  <2> HIDE DEF q
  <2> QED BY SMTT(30), <2>1, <2>2, <2>3, <2>4, <2>5, MoveSound
<1>3. Raise \/ \E r, b : p' = [p EXCEPT !.round = r, !.budget = b] /\ UNCHANGED operator
  BY ZenonT(30) DEF ObserveTurn
<1> QED BY Zenon, <1>1, <1>2, <1>3

LEMMA ParseRepairKeeps ==
  ASSUME PlanInv, NEW text \in Plans, ParseRepair(text)
  PROVE  PlanInv'
<1>1. /\ p.pc # "idle" /\ UNCHANGED executed
      /\ \/ p' = [p EXCEPT !.pc = "gate", !.text = text] /\ UNCHANGED operator
         \/ Ended(p, "plan_not_ok", {})
  BY DEF ParseRepair
<1>2. Consistent(p) BY SMTT(30), <1>1, OnItsWay
<1>3. Listing(text) BY PlanTexts DEF Listing
<1> QED BY Zenon, <1>1, <1>2, <1>3, GateNext, EndedKeeps

\* An accepted plan goes to the stages with what the gate allowed.
LEMMA ExecutionKeeps ==
  ASSUME PlanInv, p.pc # "idle", NEW policy, NEW stage, NEW q,
         DOMAIN q = Fields, q.pc = "stage", q.snapshot = p.snapshot, q.dry = p.dry,
         q.policy = policy, q.results = NoResults, q.approval = NoApproval,
         q.stop_reason = p.stop_reason,
         ~p.dry => Sensitive(policy.install \cup Range(policy.run)) \subseteq operator.granted,
         p' = q, UNCHANGED <<operator, executed>>
  PROVE  PlanInv'
<1>1. p.stop_reason = Unsaid /\ Harmless(p.snapshot) BY OnItsWay
<1>2. Consistent(q) BY Blank, Said DEF Consistent
<1>3. Covered(q, operator.granted) BY SMTT(30), Blank DEF Covered
<1>4. Sound(q, operator.granted) BY <1>1, <1>2, <1>3, Said DEF Sound
<1> QED BY <1>4 DEF PlanInv

LEMMA ExecutionFields ==
  ASSUME DOMAIN p = Fields, NEW policy, NEW stage, NEW q, q = Execution(p, policy, stage)
  PROVE  /\ DOMAIN q = Fields /\ q.pc = "stage" /\ q.snapshot = p.snapshot /\ q.dry = p.dry
         /\ q.policy = policy /\ q.results = NoResults /\ q.approval = NoApproval
         /\ q.stop_reason = p.stop_reason
BY Zenon DEF Execution, Fields

LEMMA GatePlanKeeps ==
  ASSUME PlanInv, GatePlan
  PROVE  PlanInv'
<1> DEFINE verdict == validate(p.text, p.snapshot, ledger, repo, p.approval, p.excluded)
           policy == Previewed(verdict)
<1>1. p.pc = "gate" /\ UNCHANGED executed BY ZenonT(30) DEF GatePlan
<1>2. /\ DOMAIN p = Fields /\ Consistent(p) /\ Harmless(p.snapshot)
      /\ p.approval.granted \subseteq operator.granted
  BY <1>1, OnItsWay
<1>3. Listing(p.text) BY SMTT(30), <1>1 DEF PlanInv, Sound
<1>4. Sensitive(verdict.install \cup Range(verdict.run)) \subseteq p.approval.granted
  BY <1>2, <1>3, ValidatedApproved
<1>5. ~p.dry => policy = verdict BY SMTT(30) DEF Previewed
<1>6. ~p.dry => Sensitive(policy.install \cup Range(policy.run)) \subseteq operator.granted
  BY ZenonT(30), <1>2, <1>4, <1>5
<1> HIDE DEF verdict, policy
<1>7. \/ Raise
      \/ p' = Execution(p, policy, "analyze") /\ UNCHANGED operator
      \/ \E reason \in {"approval_required", "policy_rejected"} : \E request :
            Ended(p, reason, request)
  BY ZenonT(30) DEF GatePlan, verdict, policy
<1>8. CASE p' = Execution(p, policy, "analyze") /\ UNCHANGED operator
  <2> DEFINE e == Execution(p, policy, "analyze")
  <2>1. DOMAIN p = Fields BY <1>2
  <2>2. /\ DOMAIN e = Fields /\ e.pc = "stage" /\ e.snapshot = p.snapshot /\ e.dry = p.dry
        /\ e.policy = policy /\ e.results = NoResults /\ e.approval = NoApproval
        /\ e.stop_reason = p.stop_reason
    BY <2>1, ExecutionFields
  <2>3. p' = e /\ UNCHANGED operator BY <1>8
  <2> HIDE DEF e
  <2> QED BY ZenonT(30), <1>1, <1>6, <2>2, <2>3, ExecutionKeeps
<1>9. CASE Raise BY SMTT(30), <1>1, <1>9, RaiseKeeps
<1>10. CASE \E reason \in {"approval_required", "policy_rejected"} : \E request :
               Ended(p, reason, request)
  BY Zenon, <1>1, <1>2, <1>10, EndedKeeps
<1> QED BY SMTT(30), <1>7, <1>8, <1>9, <1>10

\* A revised plan passes the gate without any approval, so it executes nothing
\* that needs one.
LEMMA GateReplanKeeps ==
  ASSUME PlanInv, GateReplan
  PROVE  PlanInv'
<1> DEFINE policy == validate(p.text, p.snapshot, ledger, repo, NoApproval, {})
           resume == _determine_resume_stage(p.plan, p.text)
           hash == _plan_decision_hash(p.text, policy)
           e == Execution(p, policy, resume)
           q == [e EXCEPT !.seen = @ \cup {hash}]
<1>1. p.pc = "gate" /\ UNCHANGED executed BY DEF GateReplan
<1>2. DOMAIN p = Fields /\ Consistent(p) /\ Harmless(p.snapshot) BY SMTT(30), <1>1, OnItsWay
<1>3. Listing(p.text) BY <1>1 DEF PlanInv, Sound
<1>4. Sensitive(policy.install \cup Range(policy.run)) \subseteq NoApproval.granted
  BY SMTT(30), <1>2, <1>3, ValidatedApproved
<1>5. Sensitive(policy.install \cup Range(policy.run)) \subseteq operator.granted
  BY <1>4, Blank
<1>6. \/ \E reason \in {"replan_policy_rejected", "replan_no_material_change"} :
            Ended(p, reason, {})
      \/ p' = q /\ UNCHANGED operator
  BY DEF GateReplan
<1> HIDE DEF policy, resume, hash
<1>7. CASE p' = q /\ UNCHANGED operator
  <2>3. DOMAIN p = Fields BY <1>2
  <2>1. /\ DOMAIN e = Fields /\ e.pc = "stage" /\ e.snapshot = p.snapshot /\ e.dry = p.dry
        /\ e.policy = policy /\ e.results = NoResults /\ e.approval = NoApproval
        /\ e.stop_reason = p.stop_reason
    BY <2>3, ExecutionFields
  <2> HIDE DEF e
  <2>2. /\ DOMAIN q = Fields /\ q.pc = "stage" /\ q.snapshot = p.snapshot /\ q.dry = p.dry
        /\ q.policy = policy /\ q.results = NoResults /\ q.approval = NoApproval
        /\ q.stop_reason = p.stop_reason
    BY <2>1 DEF Fields
  <2> HIDE DEF q
  <2> QED BY <1>1, <1>5, <1>7, <2>2, ExecutionKeeps
<1>8. CASE \E reason \in {"replan_policy_rejected", "replan_no_material_change"} :
              Ended(p, reason, {})
  BY SMTT(30), <1>1, <1>2, <1>8, EndedKeeps
<1> QED BY <1>6, <1>7, <1>8

\* The step to the next stage, or to the end of the execution.
LEMMA AfterSound ==
  ASSUME PlanInv, p.pc = "stage", NEW q, NEW status, NEW G,
         DOMAIN q = Fields, q.pc = "stage", q.snapshot = p.snapshot, q.dry = p.dry,
         q.policy = p.policy, q.approval = p.approval, q.stop_reason = p.stop_reason,
         q.revision = p.revision, DOMAIN q.results = {"failed", "runner", "pid", "verify"},
         q.results.verify = "passed" => q.results.pid,
         q.results.pid => q.results.runner = q.revision,
         Stage # "verify" => q.results.verify = Unsaid,
         p' = After(q, status), operator.granted \subseteq G
  PROVE  Sound(p', G)
<1> DEFINE noted == IF status \in {"failed", "uncertain"} /\ q.results.failed = ""
                    THEN [q EXCEPT !.results.failed = Stage] ELSE q
<1>1. /\ DOMAIN noted = Fields /\ noted.pc = "stage" /\ noted.snapshot = p.snapshot
      /\ noted.dry = p.dry /\ noted.policy = p.policy /\ noted.approval = p.approval
      /\ noted.stop_reason = p.stop_reason /\ noted.revision = p.revision
      /\ DOMAIN noted.results = {"failed", "runner", "pid", "verify"}
      /\ noted.results.verify = q.results.verify /\ noted.results.pid = q.results.pid
      /\ noted.results.runner = q.results.runner
  BY DEF Fields
<1>2. p' = IF Stage = "verify" \/ status = "failed" THEN [noted EXCEPT !.pc = "decide"]
           ELSE [noted EXCEPT !.stage = @ + 1]
  BY Zenon DEF After
<1> HIDE DEF noted
<1>3. /\ DOMAIN p' = Fields /\ p'.pc \in {"stage", "decide"} /\ p'.snapshot = p.snapshot
      /\ p'.dry = p.dry /\ p'.policy = p.policy /\ p'.approval = p.approval
      /\ p'.stop_reason = p.stop_reason /\ p'.revision = p.revision
      /\ p'.results = noted.results /\ (p'.pc = "stage" => Stage # "verify")
  BY SMTT(30), <1>1, <1>2 DEF Fields
<1>4. Consistent(p') BY SMTT(30), <1>1, <1>3 DEF Consistent
<1>5. p.stop_reason = Unsaid /\ Harmless(p.snapshot) BY ZenonT(30), OnItsWay
<1>6. Covered(p, operator.granted) BY ZenonT(30) DEF PlanInv, Sound
<1>7. Covered(p', G) BY ZenonT(30), <1>3, <1>6 DEF Covered
<1> QED BY <1>3, <1>4, <1>5, <1>7, Said DEF Sound

LEMMA PlainKeeps ==
  ASSUME PlanInv, NEW status, _execute_plain(status)
  PROVE  PlanInv'
<1>1. p.pc = "stage" /\ UNCHANGED <<operator, executed>> /\ p' = After(p, status)
  BY DEF _execute_plain
<1>2. DOMAIN p = Fields /\ Consistent(p) BY SMTT(30), <1>1, OnItsWay
<1>3. Sound(p', operator.granted) BY <1>1, <1>2, AfterSound DEF Consistent
<1> QED BY Zenon, <1>1, <1>3 DEF PlanInv

\* What the stages execute for real needs no approval or has it.
LEMMA RealIsCovered ==
  ASSUME PlanInv, p.pc = "stage", ~p.dry
  PROVE  /\ Sensitive(compile(p.policy).install) \subseteq operator.granted
         /\ Sensitive(Range(compile(p.policy).run)) \subseteq operator.granted
<1>1. Sensitive(p.policy.install \cup Range(p.policy.run)) \subseteq operator.granted
  BY DEF PlanInv, Sound, Covered
<1>2. compile(p.policy).install = p.policy.install /\ compile(p.policy).run = p.policy.run
  BY DEF compile
<1> QED BY <1>1, <1>2 DEF Sensitive

LEMMA EnvDeployKeeps ==
  ASSUME PlanInv, NEW status, _execute_env_deploy(status)
  PROVE  PlanInv'
<1> DEFINE real == IF p.dry THEN {} ELSE compile(p.policy).install
<1>1. /\ p.pc = "stage" /\ UNCHANGED operator /\ p' = After(p, status)
      /\ executed' = executed \cup Sensitive(real)
  BY DEF _execute_env_deploy
<1>2. DOMAIN p = Fields /\ Consistent(p) BY SMTT(30), <1>1, OnItsWay
<1>3. Sound(p', operator.granted) BY <1>1, <1>2, AfterSound DEF Consistent
<1>4. Sensitive(real) \subseteq operator.granted
  <2>1. CASE p.dry BY <2>1 DEF Sensitive
  <2>2. CASE ~p.dry BY <1>1, <2>2, RealIsCovered
  <2> QED BY <2>1, <2>2
<1> HIDE DEF real
<1> QED BY <1>1, <1>3, <1>4 DEF PlanInv

LEMMA RunnerKeeps ==
  ASSUME PlanInv, NEW status, NEW pid, _execute_runner(status, pid)
  PROVE  PlanInv'
<1> DEFINE real == IF p.dry THEN {} ELSE Sensitive(Range(compile(p.policy).run))
           q == [p EXCEPT !.results.runner = p.revision, !.results.pid = pid]
<1>1. /\ p.pc = "stage" /\ Stage = "runner" /\ UNCHANGED operator /\ p' = After(q, status)
      /\ executed' = executed \cup real
  BY DEF _execute_runner
<1>2. DOMAIN p = Fields /\ Consistent(p) BY <1>1, OnItsWay
<1>3. /\ DOMAIN q = Fields /\ q.pc = "stage" /\ q.snapshot = p.snapshot /\ q.dry = p.dry
      /\ q.policy = p.policy /\ q.approval = p.approval /\ q.stop_reason = p.stop_reason
      /\ q.revision = p.revision
  BY <1>1, <1>2 DEF Fields
<1>4. /\ DOMAIN q.results = {"failed", "runner", "pid", "verify"}
      /\ q.results.verify = p.results.verify /\ q.results.runner = p.revision
  BY ZenonT(30), <1>2 DEF Fields, Consistent
<1>5. q.results.verify = Unsaid BY <1>1, <1>2, <1>4 DEF Consistent
<1> HIDE DEF q
<1>6. Sound(p', operator.granted) BY Zenon, <1>1, <1>3, <1>4, <1>5, Said, AfterSound
<1>7. real \subseteq operator.granted BY <1>1, RealIsCovered
<1> HIDE DEF real
<1> QED BY <1>1, <1>6, <1>7 DEF PlanInv

LEMMA VerifyKeeps ==
  ASSUME PlanInv, NEW status, _execute_verify(status)
  PROVE  PlanInv'
<1> DEFINE q == [p EXCEPT !.results.verify = status]
<1>1. /\ p.pc = "stage" /\ Stage = "verify" /\ UNCHANGED <<operator, executed>>
      /\ p' = After(q, status) /\ (status = "passed" => p.results.pid)
  BY DEF _execute_verify
<1>2. DOMAIN p = Fields /\ Consistent(p) BY <1>1, OnItsWay
<1>3. /\ DOMAIN q = Fields /\ q.pc = "stage" /\ q.snapshot = p.snapshot /\ q.dry = p.dry
      /\ q.policy = p.policy /\ q.approval = p.approval /\ q.stop_reason = p.stop_reason
      /\ q.revision = p.revision
  BY <1>1, <1>2 DEF Fields
<1>4. /\ DOMAIN q.results = {"failed", "runner", "pid", "verify"}
      /\ q.results.verify = status /\ q.results.runner = p.results.runner
      /\ q.results.pid = p.results.pid
  BY <1>2 DEF Fields, Consistent
<1>5. q.results.pid => q.results.runner = q.revision BY SMTT(30), <1>2, <1>3, <1>4 DEF Consistent
<1> HIDE DEF q
<1>6. Sound(p', operator.granted) BY <1>1, <1>3, <1>4, <1>5, AfterSound
<1> QED BY <1>1, <1>6 DEF PlanInv

\* The end of an execution: only its results decide whether it is reported passed.
LEMMA DecideKeeps ==
  ASSUME PlanInv, NEW category, Decide(category)
  PROVE  PlanInv'
<1> DEFINE q == IF p.phase = "plan" THEN p
                ELSE [p EXCEPT !.replans = @ + 1, !.signatures = Append(@, p.signature[1]),
                         !.used[p.signature[2]] = @ + 1, !.signature = <<>>]
           Again(s) == Planning([q EXCEPT !.signature = s], ledger, "replan")
<1>1. p.pc = "decide" /\ UNCHANGED executed BY Zenon DEF Decide
<1>2. /\ DOMAIN p = Fields /\ Consistent(p) /\ p.stop_reason = Unsaid /\ Harmless(p.snapshot)
      /\ p.approval.granted \subseteq operator.granted
  BY <1>1, OnItsWay
<1>3. /\ DOMAIN q = Fields /\ q.pc = "decide" /\ q.results = p.results
      /\ q.revision = p.revision /\ q.stop_reason = Unsaid /\ q.snapshot = p.snapshot
      /\ q.approval = p.approval
  BY <1>1, <1>2 DEF Fields
<1>4. \/ q.results.verify = "passed" /\ Ended(q, "verify_passed", {})
      \/ \E reason \in {"verify_failed", "same_failure_signature_budget_exhausted",
                        "replan_budget_exhausted"} : Ended(q, reason, {})
      \/ (\E s : p' = Again(s)) /\ UNCHANGED operator
  BY Zenon DEF Decide
<1> HIDE DEF q
<1>5. Consistent(q) BY <1>2, <1>3 DEF Consistent
<1>6. CASE q.results.verify = "passed" /\ Ended(q, "verify_passed", {})
  <2>1. q.results.pid BY <1>5, <1>6 DEF Consistent
  <2> QED BY <1>1, <1>5, <1>6, <2>1, EndedKeeps
<1>7. CASE \E reason \in {"verify_failed", "same_failure_signature_budget_exhausted",
                          "replan_budget_exhausted"} : Ended(q, reason, {})
  BY <1>1, <1>5, <1>7, EndedKeeps
<1>8. CASE (\E s : p' = Again(s)) /\ UNCHANGED operator
  <2>1. PICK s : p' = Again(s) BY Zenon, <1>8
  <2> DEFINE r == [q EXCEPT !.signature = s]
             n == Planning(r, ledger, "replan")
  <2>2. /\ DOMAIN r = Fields /\ r.results = p.results /\ r.revision = p.revision
        /\ r.stop_reason = Unsaid /\ r.snapshot = p.snapshot /\ r.approval = p.approval
    BY <1>3 DEF Fields
  <2>3. p' = n BY <2>1
  <2> HIDE DEF r
  <2>5. DOMAIN r = Fields BY <2>2
  <2>4. /\ DOMAIN n = Fields /\ n.pc = "turn"
        /\ n.stop_reason = r.stop_reason /\ n.snapshot = r.snapshot
        /\ n.results = r.results /\ n.revision = r.revision /\ n.approval = r.approval
    BY <2>5, PlanningFields
  <2> HIDE DEF n
  <2> QED BY <1>1, <1>2, <1>8, <2>2, <2>3, <2>4, MoveSound
<1> QED BY Zenon, <1>4, <1>6, <1>7, <1>8

-----------------------------------------------------------------------------
(* The theorems of the plan-first loop                                     *)

LEMMA PlanStarts == Init => PlanInv
<1> SUFFICES ASSUME Init PROVE PlanInv OBVIOUS
<1>1. p = Idle /\ executed = {} /\ DOMAIN operator = {"request", "granted", "rejected"}
  BY DEF Init
<1>2. /\ DOMAIN p = Fields /\ p.pc = "idle" /\ p.approval = NoApproval
      /\ p.results = NoResults /\ p.stop_reason = Unsaid
  BY <1>1, IdleFields
<1>3. /\ DOMAIN p.results = {"failed", "runner", "pid", "verify"} /\ ~p.results.pid
      /\ p.results.verify # "passed" /\ p.stop_reason # "verify_passed"
  BY <1>2, Blank, Said
<1>4. Sound(p, operator.granted) BY <1>2, <1>3, EndSound
<1> QED BY <1>1, <1>4 DEF PlanInv

LEMMA PlanStep == PlanInv /\ [Next]_vars => PlanInv'
<1> SUFFICES ASSUME PlanInv, [Next]_vars PROVE PlanInv' OBVIOUS
<1>1. ASSUME NEW mode, NEW dry, NEW answer, Start(mode, dry, answer) PROVE PlanInv'
  BY <1>1, StartKeeps
<1>2. ASSUME NEW text \in Plans, FinalTurn(text) \/ ParseRepair(text) PROVE PlanInv'
  BY <1>2, FinalTurnKeeps, ParseRepairKeeps
<1>3. ASSUME NEW requests \in Requests, ObserveTurn(requests) PROVE PlanInv'
  BY <1>3, ObserveTurnKeeps
<1>4. ASSUME FailedTurn PROVE PlanInv' BY <1>4, RaiseKeeps DEF FailedTurn
<1>5. ASSUME GatePlan \/ GateReplan PROVE PlanInv' BY <1>5, GatePlanKeeps, GateReplanKeeps
<1>6. ASSUME NEW status, _execute_plain(status) \/ _execute_env_deploy(status)
                         \/ _execute_verify(status)
      PROVE  PlanInv'
  BY <1>6, PlainKeeps, EnvDeployKeeps, VerifyKeeps
<1>7. ASSUME NEW status, NEW pid, _execute_runner(status, pid) PROVE PlanInv'
  BY <1>7, RunnerKeeps
<1>8. ASSUME NEW category, Decide(category) PROVE PlanInv' BY <1>8, DecideKeeps
<1>9. ASSUME NEW f, Edit(f) PROVE PlanInv'
  <2>1. UNCHANGED <<operator, executed, p>> BY <1>9 DEF Edit
  <2> QED BY <2>1 DEF PlanInv
<1>10. CASE UNCHANGED vars
  <2>1. UNCHANGED <<operator, executed, p>> BY <1>10 DEF vars
  <2> QED BY <2>1 DEF PlanInv
<1> QED BY <1>1, <1>2, <1>3, <1>4, <1>5, <1>6, <1>7, <1>8, <1>9, <1>10 DEF Next, Loop

\* A command that needs an approval is executed only when an operator has given it
\* (PlanPolicyGate.validate, _execute_env_deploy, _execute_runner), for every
\* repository, every plan a model may return and every sequence of runs and answers.
THEOREM OperatorAlwaysDecides == Spec => []OperatorDecides
<1>1. PlanInv => OperatorDecides BY SMTT(30) DEF PlanInv, OperatorDecides
<1> QED BY <1>1, PlanStarts, PlanStep, PTL DEF Spec

\* A run reports verify_passed only for the process its last revision has started,
\* however many revisions there were and wherever they resumed.
THEOREM PassAlwaysOfLastRevision == Spec => []PassIsOfLastRevision
<1>1. PlanInv => PassIsOfLastRevision
  BY DEF PlanInv, Sound, Consistent, PassIsOfLastRevision
<1> QED BY <1>1, PlanStarts, PlanStep, PTL DEF Spec
=============================================================================
