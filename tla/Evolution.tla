------------------------------ MODULE Evolution ------------------------------
(***************************************************************************)
(* Skill evolution: deployments leave verified memories, the curator turns  *)
(* a cluster of them into a candidate patch of a skill, and an operator's   *)
(* commands take the candidate through approval, regression, shadow        *)
(* evaluation, promotion and rollback.  Each command is a process of its    *)
(* own; only the skill file is locked.  The candidate file is read, changed *)
(* and replaced without a lock, and the audit line is written before it, so *)
(* a command is split at those points and may die at any of them.          *)
(***************************************************************************)
EXTENDS LearningRules

CONSTANTS
  Procs,        \* memory-evolve and skill-rollback processes that may overlap
  Deployments,  \* the deployments, in order: the reports each may end with
  Drafts,       \* answers of the curator's model
  Targets,      \* the skills
  MinVerified,  \* --min-verified-count
  IdHead,       \* memory ids that name a candidate (5 in the code)
  MaxHistory,   \* bound on the audit lines of a candidate
  MaxCrashes    \* bound on the processes that die

VARIABLES
  skills,    \* SKILL.md files: the patches appended to each, in order
  entries,   \* deployment_issues.jsonl
  runs,      \* reports of the finished deployments (their run directories)
  cands,     \* candidate_<id>.json
  audit,     \* the <id>.lifecycle.jsonl files; prev names an earlier line by its number
  proc,      \* the state of each process
  crashes

vars == <<skills, entries, runs, cands, audit, proc, crashes>>

Idle == [pc |-> "idle", op |-> "", id |-> <<>>, to |-> "", content |-> <<>>, draft |-> <<>>, copy |-> <<>>]
None == [s \in {} |-> <<>>]

Init ==
  /\ skills = [s \in Targets |-> <<>>]
  /\ entries = <<>> /\ runs = <<>>
  /\ cands = None /\ audit = None
  /\ proc = [p \in Procs |-> Idle] /\ crashes = 0

Set(p, r) == proc' = [proc EXCEPT ![p] = r]

-----------------------------------------------------------------------------
(* Deployments.                                                             *)

\* The end of a deployment: the failed stage was remembered as an issue, and
\* a verified repair is recorded as a success.
finalize_learning ==
  /\ Len(runs) < Len(Deployments)
  /\ \E rep \in Deployments[Len(runs) + 1] :
       LET run    == Len(runs) + 1
           failed == rep.verify # "passed" \/ rep.repair # "none"
           issue  == IF failed THEN Remember(entries, IssueEntry(run, rep)) ELSE entries
       IN  /\ runs' = Append(runs, rep)
           /\ entries' = IF RecordsSuccess(rep) THEN Remember(issue, SuccessEntry(run, rep)) ELSE issue
  /\ UNCHANGED <<skills, cands, audit, proc, crashes>>

\* finalize_learning runs again when the graph is resumed after it.
_relearn ==
  /\ runs # <<>>
  /\ LET run == Len(runs) IN
       /\ RecordsSuccess(runs[run])
       /\ entries' = Remember(entries, SuccessEntry(run, runs[run]))
  /\ UNCHANGED <<skills, runs, cands, audit, proc, crashes>>

-----------------------------------------------------------------------------
(* The candidate file.  transition re-reads it, appends the event and then  *)
(* replaces the file with its copy; initialize does the same for creation.  *)

New(target, base, draft) ==
  [status |-> "proposed", last |-> 0, approved |-> FALSE, regression |-> "", evals |-> {},
   target |-> target, base |-> base, draft |-> draft, rollback |-> <<>>]

Updates(c, p) ==
  CASE p.op = "approve"    -> [c EXCEPT !.approved = TRUE]
    [] p.op = "regression" -> [c EXCEPT !.regression = IF p.to = "regression_passed" THEN "passed" ELSE "failed"]
    [] p.op = "promote"    -> [c EXCEPT !.rollback = <<p.content>>]
    [] OTHER               -> c

\* A file of the directory written, or created.
WithFile(files, id, content) == [x \in DOMAIN files \cup {id} |-> IF x = id THEN content ELSE files[x]]

Lines(id) == IF id \in DOMAIN audit THEN audit[id] ELSE <<>>

_record(p, r, c, from, to) ==
  LET line == [from |-> from, to |-> to, prev |-> c.last]
      file == Append(Lines(r.id), line)
  IN  /\ audit' = WithFile(audit, r.id, file)
      /\ Set(p, [r EXCEPT !.pc = "write", !.copy = <<[c EXCEPT !.status = to, !.last = Len(file)]>>])

Allowed_Any(from, to) == TRUE
Allowed(from, to) == to \in ALLOWED_TRANSITIONS[from]

\* Process p, in state r, calls transition: the read and the audit line.
transition(p, r) ==
  LET now == cands[r.id]
      new == Updates(now, r)
  IN  IF r.to = now.status
        THEN UNCHANGED audit /\ Set(p, [r EXCEPT !.pc = "write", !.copy = <<new>>])
      ELSE IF Allowed(now.status, r.to) THEN _record(p, r, new, now.status, r.to)
      ELSE UNCHANGED audit /\ Set(p, Idle)

\* ... after a step of its own on another file.
Transition(p) ==
  /\ proc[p].pc = "transition"
  /\ transition(p, proc[p])
  /\ UNCHANGED <<skills, entries, runs, cands, crashes>>

initialize(p) ==
  /\ proc[p].pc = "initialize"
  /\ LET now == cands[proc[p].id]
     IN  IF now.last # 0
           THEN UNCHANGED audit /\ Set(p, [proc[p] EXCEPT !.pc = "write", !.copy = <<now>>])
           ELSE _record(p, proc[p], now, "", now.status)
  /\ UNCHANGED <<skills, entries, runs, cands, crashes>>

write_json(p) ==
  /\ proc[p].pc = "write"
  /\ cands' = [cands EXCEPT ![proc[p].id] = proc[p].copy[1]]
  /\ Set(p, Idle)
  /\ UNCHANGED <<skills, entries, runs, audit, crashes>>

-----------------------------------------------------------------------------
(* The commands.  One that is refused changes nothing and is no step.       *)

Start(p, op, id, pc, to) == Set(p, [Idle EXCEPT !.pc = pc, !.op = op, !.id = id, !.to = to])
Ready(p, id) == proc[p].pc = "idle" /\ id \in DOMAIN cands /\ Len(Lines(id)) < MaxHistory
Untouched == UNCHANGED <<skills, entries, runs, cands, audit, crashes>>

\* Read the memories and the skill, then wait for the curator's model.
propose(p, key) ==
  /\ proc[p].pc = "idle"
  /\ LET ids == _clusters(filter_verified(entries), key)
          id  == [key |-> key, ids |-> SubSeq(ids, 1, IF Len(ids) < IdHead THEN Len(ids) ELSE IdHead)]
     IN  /\ Len(ids) >= MinVerified
         /\ id \notin DOMAIN cands
         /\ \E d \in Drafts :
              /\ curate(d) /\ validate(d)
              /\ Set(p, [Idle EXCEPT !.pc = "curated", !.op = "propose", !.id = id,
                                     !.content = skills[_target_skill(key)], !.draft = <<d>>])
  /\ Untouched

\* A candidate file that exists by now is returned as it is.
_generate_candidate(p) ==
  /\ proc[p].pc = "curated"
  /\ LET id == proc[p].id IN
       IF id \in DOMAIN cands
         THEN cands' = cands /\ Set(p, Idle)
         ELSE /\ cands' = WithFile(cands, id, New(_target_skill(id.key), proc[p].content, proc[p].draft[1]))
              /\ Start(p, "propose", id, "initialize", "")
  /\ UNCHANGED <<skills, entries, runs, audit, crashes>>

Call(op, id, to) == [Idle EXCEPT !.op = op, !.id = id, !.to = to]

\* approve and reject only call transition.
Decide(p, id, op, to) ==
  /\ Ready(p, id)
  /\ to = cands[id].status \/ Allowed(cands[id].status, to)
  /\ transition(p, Call(op, id, to))
  /\ UNCHANGED <<skills, entries, runs, cands, crashes>>
approve(p, id) == Decide(p, id, "approve", "approved")
reject(p, id)  == Decide(p, id, "reject", "rejected")

RegressionGate(id) == cands[id].approved /\ cands[id].status \in {"approved", "regression_failed"}

run_regression_NoCases(p, id) ==
  /\ Ready(p, id) /\ RegressionGate(id)
  /\ Start(p, "regression", id, "benchmark", "")
  /\ Untouched

\* Without bound cases the regression fails at once; otherwise it is the
\* benchmark's verdict, much later.
run_regression(p, id) ==
  /\ Ready(p, id) /\ RegressionGate(id)
  /\ IF _regression_binding(id.key) = {}
       THEN transition(p, Call("regression", id, "regression_failed"))
       ELSE Start(p, "regression", id, "benchmark", "") /\ UNCHANGED audit
  /\ UNCHANGED <<skills, entries, runs, cands, crashes>>

benchmark(p) ==
  /\ proc[p].pc = "benchmark"
  /\ \E to \in {"regression_passed", "regression_failed"} : transition(p, [proc[p] EXCEPT !.to = to])
  /\ UNCHANGED <<skills, entries, runs, cands, crashes>>

Counted(c, run) == \E e \in c.evals : e.run = run
Verdict(evals) ==
  LET helped  == Cardinality({e \in evals : e.help})
      harmful == Cardinality({e \in evals : e.harm})
  IN  IF helped >= 2 /\ harmful = 0 THEN "shadow_passed"
      ELSE IF harmful > 0 THEN "shadow_failed" ELSE ""

\* ShadowSkillEvaluator.record: judge one finished run, on a copy.
record(p, id, run) ==
  /\ Ready(p, id)
  /\ cands[id].status \in {"regression_passed", "shadow_passed", "shadow_failed"}
  /\ ~Counted(cands[id], run)
  /\ LET v     == evaluate_run(cands[id].draft, runs[run])
          evals == cands[id].evals \cup {[run |-> run, help |-> v.help, harm |-> v.harm]}
     IN  Set(p, [Idle EXCEPT !.pc = "shadow_write", !.op = "shadow", !.id = id, !.to = Verdict(evals),
                             !.copy = <<[cands[id] EXCEPT !.evals = evals]>>])
  /\ Untouched

\* ... and replace the candidate file by it, whatever it holds by now.
shadow_write(p) ==
  /\ proc[p].pc = "shadow_write"
  /\ cands' = [cands EXCEPT ![proc[p].id] = proc[p].copy[1]]
  /\ IF proc[p].to = "" THEN Set(p, Idle) ELSE Start(p, "shadow", proc[p].id, "transition", proc[p].to)
  /\ UNCHANGED <<skills, entries, runs, audit, crashes>>

PromoteGates(c, require_shadow) ==
  /\ c.status = (IF require_shadow THEN "shadow_passed" ELSE "regression_passed")
  /\ c.approved
  /\ c.regression = "passed"
  /\ validate(c.draft)
  /\ require_shadow => Verdict(c.evals) = "shadow_passed"

promote(p, id, require_shadow) ==
  /\ Ready(p, id) /\ PromoteGates(cands[id], require_shadow)
  /\ Start(p, "promote", id, "apply", "active")
  /\ Untouched

\* Under the skill's lock: only onto the content the candidate was made for.
apply_candidate(p) ==
  /\ proc[p].pc = "apply"
  /\ LET id == proc[p].id
          c  == cands[id]
          raw == skills[c.target]
     IN  IF raw # c.base THEN UNCHANGED skills /\ Set(p, Idle)
         ELSE /\ skills' = [skills EXCEPT ![c.target] = IF id \in Range(raw) THEN raw ELSE Append(raw, id)]
              /\ Set(p, [proc[p] EXCEPT !.pc = "transition", !.content = raw])
  /\ UNCHANGED <<entries, runs, cands, audit, crashes>>

rollback_candidate(p, id) ==
  /\ Ready(p, id)
  /\ cands[id].status = "active" /\ cands[id].rollback # <<>>
  /\ Set(p, [Idle EXCEPT !.pc = "restore", !.op = "rollback", !.id = id, !.to = "rolled_back",
                         !.content = cands[id].rollback[1]])
  /\ Untouched

\* Under the skill's lock: the copy taken at promotion, whatever came since.
restore(p) ==
  /\ proc[p].pc = "restore"
  /\ skills' = [skills EXCEPT ![cands[proc[p].id].target] = proc[p].content]
  /\ Set(p, [proc[p] EXCEPT !.pc = "transition", !.content = <<>>])
  /\ UNCHANGED <<entries, runs, cands, audit, crashes>>

Crash(p) ==
  /\ proc[p].pc # "idle" /\ crashes < MaxCrashes
  /\ crashes' = crashes + 1
  /\ Set(p, Idle)
  /\ UNCHANGED <<skills, entries, runs, cands, audit>>

Keys == {rep.key : rep \in UNION Range(Deployments)}

\* The skills a lesson may be about are there.
ASSUME EvolutionAssumption ==
  /\ Deployments \in Seq(Range(Deployments))
  /\ \A key \in Keys : _target_skill(key) \in Targets

Command(p) ==
  \/ \E key \in Keys : propose(p, key)
  \/ \E id \in DOMAIN cands :
       \/ approve(p, id) \/ reject(p, id) \/ run_regression(p, id) \/ rollback_candidate(p, id)
       \/ \E b \in BOOLEAN : promote(p, id, b)
       \/ \E r \in DOMAIN runs : record(p, id, r)

Step(p) ==
  \/ Transition(p) \/ initialize(p) \/ write_json(p) \/ _generate_candidate(p)
  \/ benchmark(p) \/ shadow_write(p) \/ apply_candidate(p) \/ restore(p)

Next ==
  \/ finalize_learning \/ _relearn
  \/ \E p \in Procs : Command(p) \/ Step(p) \/ Crash(p)

Spec == Init /\ [][Next]_vars

-----------------------------------------------------------------------------
(* Properties.                                                              *)

\* A candidate exists only if that many different runs of its key ended with
\* a verified, effective, unrejected repair (evolution.py: propose over
\* success.py: record_if_verified and the quality gate): no failure, no
\* metadata-only repair and no second recording of one run counts.
ProposedFromVerified ==
  \A id \in DOMAIN cands :
    Cardinality({r \in DOMAIN runs :
      /\ runs[r].key = id.key /\ runs[r].verify = "passed" /\ ~runs[r].high_risk
      /\ runs[r].repair = "applied" /\ runs[r].actions \cap {"executed", "strong"} # {}}) >= MinVerified

Happened(id, to) == \E i \in DOMAIN Lines(id) : Lines(id)[i].to = to
Helps(d, rep) == /\ rep.agent = "passed" /\ rep.llm_helped /\ rep.strong
                 /\ d.tools \cap rep.tools # {} /\ d.rule # "harmful"

\* However the commands interleave and wherever one dies, a patch is in a
\* skill only after an operator approved its candidate and its bound
\* regression cases, at least one, passed; and a candidate passes the shadow
\* gate only on two different runs that it would have helped
\* (evolution.py: promote; shadow.py: record).
GatesHeld ==
  /\ \A s \in DOMAIN skills : \A id \in Range(skills[s]) :
       /\ Happened(id, "approved") /\ Happened(id, "regression_passed")
       /\ _regression_binding(id.key) # {}
  /\ \A id \in DOMAIN cands : Happened(id, "shadow_passed") =>
       Cardinality({r \in DOMAIN runs : Helps(cands[id].draft, runs[r])}) >= 2

\* The lines a candidate file's last event leads back through are a path of
\* ALLOWED_TRANSITIONS from its creation to its status, even when commands
\* race on the unlocked file or die between the audit line and the file
\* (lifecycle.py: transition, _record).
HistoryIsPath ==
  \A id \in DOMAIN cands :
    /\ cands[id].last \in 0 .. Len(Lines(id))
    /\ cands[id].status = IF cands[id].last = 0 THEN "proposed" ELSE Lines(id)[cands[id].last].to
    /\ \A i \in DOMAIN Lines(id) :
         LET e == Lines(id)[i]
         IN  /\ e.prev < i
             /\ IF e.from = "" THEN e.prev = 0 /\ e.to = "proposed"
                ELSE /\ e.to \in ALLOWED_TRANSITIONS[e.from]
                     /\ e.from = IF e.prev = 0 THEN "proposed" ELSE Lines(id)[e.prev].to

=============================================================================
