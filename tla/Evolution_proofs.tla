-------------------------- MODULE Evolution_proofs --------------------------
(***************************************************************************)
(* The audit trail of a skill candidate is a path of allowed transitions,  *)
(* and no patch is in a skill that has not passed the gates, for any       *)
(* number of processes, deployments, drafts and crashes.                   *)
(***************************************************************************)
EXTENDS Evolution, FiniteSetTheorems, TLAPS

Statuses == DOMAIN ALLOWED_TRANSITIONS
Line == [from : Statuses \cup {""}, to : Statuses, prev : Nat]

\* The line at i names the earlier line it follows, and moves on from there.
LineOK(lines, i) ==
  LET e == lines[i]
  IN  /\ e.prev < i
      /\ IF e.from = "" THEN e.prev = 0 /\ e.to = "proposed"
         ELSE /\ e.to \in ALLOWED_TRANSITIONS[e.from]
              /\ e.from = IF e.prev = 0 THEN "proposed" ELSE lines[e.prev].to
FileOK(lines) == lines \in Seq(Line) /\ \A i \in 1 .. Len(lines) : LineOK(lines, i)

CandFields == {"status", "last", "approved", "regression", "evals", "target", "base", "draft", "rollback"}
ProcFields == {"pc", "op", "id", "to", "content", "draft", "copy"}

\* A content of the candidate file agrees with the line it was written after.
PointsAt(c, lines) ==
  /\ CandFields \subseteq DOMAIN c
  /\ c.last \in 0 .. Len(lines)
  /\ c.status = IF c.last = 0 THEN "proposed" ELSE lines[c.last].to

LinesIn(files, id) == IF id \in DOMAIN files THEN files[id] ELSE <<>>

\* The copy a process in state r is about to write agrees with its line too,
\* whatever the others have appended since, and its candidate exists.
ProcOK(r, files, ids) ==
  /\ ProcFields \subseteq DOMAIN r
  /\ r.pc \in {"write", "shadow_write"} => PointsAt(r.copy[1], LinesIn(files, r.id))
  /\ r.pc \in {"write", "shadow_write", "transition", "initialize", "benchmark", "apply", "restore"}
       => r.id \in ids

\* The inductive invariant.
HInv ==
  /\ \A id \in DOMAIN audit : FileOK(audit[id])
  /\ \A id \in DOMAIN cands : PointsAt(cands[id], LinesIn(audit, id))
  /\ DOMAIN proc = Procs
  /\ \A p \in Procs : ProcOK(proc[p], audit, DOMAIN cands)

\* ALLOWED_TRANSITIONS leads from statuses to statuses.
LEMMA StatusFacts ==
  /\ "proposed" \in Statuses /\ "" \notin Statuses
  /\ \A s \in Statuses : ALLOWED_TRANSITIONS[s] \subseteq Statuses
BY DEF Statuses, ALLOWED_TRANSITIONS

\* The audit file of any candidate is a path, the missing one too.
LEMMA LinesOK == ASSUME HInv, NEW id PROVE FileOK(LinesIn(audit, id))
<1>1. CASE id \in DOMAIN audit BY <1>1 DEF HInv, LinesIn
<1>2. CASE id \notin DOMAIN audit BY <1>2 DEF FileOK, LinesIn
<1> QED BY <1>1, <1>2

\* Facts about numbers, kept apart from the sequences.
LEMMA Below ==
  ASSUME NEW n \in Nat, NEW k \in 0 .. n
  PROVE  k \in Nat /\ k < n + 1 /\ (k # 0 => k \in 1 .. n)
OBVIOUS

\* A number before an index of a sequence is 0 or an index.
LEMMA Earlier ==
  ASSUME NEW n \in Nat, NEW i \in 1 .. n, NEW k \in Nat, k < i
  PROVE  k # 0 => k \in 1 .. n
OBVIOUS

\* The indices after an append.
LEMMA OneMore ==
  ASSUME NEW n \in Nat
  PROVE  \A i \in 1 .. n + 1 : i \in 1 .. n \/ i = n + 1
OBVIOUS

\* The length after an append.
LEMMA Grown ==
  ASSUME NEW n \in Nat, NEW m, m = n + 1
  PROVE  m \in Nat /\ m # 0 /\ m \in 0 .. m /\ n <= m
OBVIOUS

\* What FileOK says of the lines.
LEMMA FileFacts ==
  ASSUME NEW lines, FileOK(lines)
  PROVE  /\ lines \in Seq(Line) /\ Len(lines) \in Nat
         /\ \A i \in 1 .. Len(lines) : lines[i] \in Line /\ LineOK(lines, i)
<1>1. lines \in Seq(Line) BY DEF FileOK
<1>2. Len(lines) \in Nat /\ \A i \in 1 .. Len(lines) : lines[i] \in Line BY <1>1
<1> QED BY <1>1, <1>2 DEF FileOK

\* What Line says of its fields.
LEMMA LineFacts ==
  ASSUME NEW e \in Line
  PROVE  e.from \in Statuses \cup {""} /\ e.to \in Statuses /\ e.prev \in Nat
BY Zenon DEF Line

\* An append keeps the lines there were.
LEMMA AppendOld ==
  ASSUME NEW S, NEW s \in Seq(S), NEW e \in S, NEW i \in 1 .. Len(s)
  PROVE  Append(s, e)[i] = s[i]
OBVIOUS

\* An append adds its line at the end.
LEMMA AppendFacts ==
  ASSUME NEW S, NEW s \in Seq(S), NEW e \in S
  PROVE  /\ Append(s, e) \in Seq(S) /\ Len(Append(s, e)) = Len(s) + 1
         /\ Append(s, e)[Len(s) + 1] = e
OBVIOUS

\* The audit file after _record has moved content c of the candidate.
Extended(lines, from, to, c) == Append(lines, [from |-> from, to |-> to, prev |-> c.last])

\* _record moves content c on: its first line, or an allowed transition.
Follows(c, from, to) ==
  \/ from = "" /\ to = "proposed" /\ c.last = 0
  \/ from = c.status /\ to \in ALLOWED_TRANSITIONS[from]

AddsLine(lines, file, to) ==
  /\ Len(file) = Len(lines) + 1 /\ file[Len(lines) + 1].to = to
  /\ \A i \in 1 .. Len(lines) : file[i] = lines[i]

\* Appending a line that follows c keeps the file a path, and the new line is
\* the one the new content of the candidate points at.
LEMMA AppendOK ==
  ASSUME NEW lines, FileOK(lines), NEW c, PointsAt(c, lines), NEW from, NEW to,
         Follows(c, from, to)
  PROVE  /\ FileOK(Extended(lines, from, to, c))
         /\ AddsLine(lines, Extended(lines, from, to, c), to)
<1> DEFINE e == [from |-> from, to |-> to, prev |-> c.last]
           file == Append(lines, e)
<1>1. Extended(lines, from, to, c) = file BY DEF Extended
<1>2. Len(lines) \in Nat BY FileFacts
<1>3. lines \in Seq(Line) BY FileFacts
<1>4. \A i \in 1 .. Len(lines) : lines[i] \in Line /\ LineOK(lines, i) BY FileFacts
<1>5. c.last \in 0 .. Len(lines) BY DEF PointsAt
<1>6. c.last # 0 => c.last \in 1 .. Len(lines) BY <1>2, <1>5, Below
<1>7. c.last \in Nat /\ c.last < Len(lines) + 1 BY <1>2, <1>5, Below
<1>8. c.status \in Statuses
  <2>1. CASE c.last = 0 BY Zenon, <2>1, StatusFacts DEF PointsAt
  <2>2. CASE c.last # 0
    <3>1. lines[c.last] \in Line BY <2>2, <1>4, <1>6
    <3>2. c.status = lines[c.last].to BY <2>2 DEF PointsAt
    <3> QED BY Zenon, <3>1, <3>2, LineFacts
  <2> QED BY <2>1, <2>2
<1>9. from \in Statuses \cup {""} /\ to \in Statuses BY Zenon, <1>8, StatusFacts DEF Follows
<1>10. e.from = from /\ e.to = to /\ e.prev = c.last OBVIOUS
<1>11. e \in Line BY Zenon, <1>9, <1>7 DEF Line
<1> HIDE DEF e
<1>12. Len(file) = Len(lines) + 1 BY <1>11, <1>3, AppendFacts
<1>13. file \in Seq(Line) BY <1>11, <1>3, AppendFacts
<1>14. \A i \in 1 .. Len(lines) : file[i] = lines[i] BY <1>11, <1>3, AppendOld
<1>15. file[Len(lines) + 1] = e BY <1>11, <1>3, AppendFacts
<1> HIDE DEF file
<1>16. ASSUME NEW i \in 1 .. Len(lines) PROVE LineOK(file, i)
  <2>1. LineOK(lines, i) /\ file[i] = lines[i] /\ lines[i].prev \in Nat BY Zenon, <1>4, <1>14, LineFacts
  <2>2. lines[i].prev \in Nat BY <2>1
  <2>3. lines[i].prev < i BY Zenon, <2>1 DEF LineOK
  <2>4. lines[i].prev # 0 => lines[i].prev \in 1 .. Len(lines) BY <2>2, <2>3, <1>2, Earlier
  <2>5. lines[i].prev # 0 => file[lines[i].prev] = lines[lines[i].prev] BY <2>4, <1>14
  <2> QED BY Zenon, <2>1, <2>5 DEF LineOK
<1>17. LineOK(file, Len(lines) + 1)
  <2>2. c.last # 0 => file[c.last] = lines[c.last] BY <1>6, <1>14
  <2>3. CASE from = "" /\ to = "proposed" /\ c.last = 0 BY Zenon, <2>3, <1>7, <1>10, <1>15 DEF LineOK
  <2>4. CASE from = c.status /\ to \in ALLOWED_TRANSITIONS[from]
    <3>1. from # "" BY Zenon, <2>4, <1>8, StatusFacts
    <3>2. from = IF c.last = 0 THEN "proposed" ELSE file[c.last].to BY <2>2, <2>4 DEF PointsAt
    <3> QED BY Zenon, <3>1, <3>2, <2>4, <1>7, <1>10, <1>15 DEF LineOK
  <2> QED BY Zenon, <2>3, <2>4 DEF Follows
<1>18. FileOK(file)
  <2>1. \A i \in 1 .. Len(file) : i \in 1 .. Len(lines) \/ i = Len(lines) + 1 BY <1>2, <1>12, OneMore
  <2> QED BY <2>1, <1>13, <1>16, <1>17 DEF FileOK
<1>19. AddsLine(lines, file, to) BY <1>10, <1>12, <1>14, <1>15 DEF AddsLine
<1> QED BY <1>18, <1>1, <1>19

-----------------------------------------------------------------------------
(* What a step leaves alone.                                               *)

Longer(old, new) ==
  Len(old) <= Len(new) /\ \A i \in 1 .. Len(old) : new[i] = old[i]

\* A content that agrees with a file agrees with a longer one.
LEMMA StillPoints ==
  ASSUME NEW c, NEW old, NEW new, Len(old) \in Nat, Len(new) \in Nat,
         Longer(old, new), PointsAt(c, old)
  PROVE  PointsAt(c, new)
<1>1. c.last \in 0 .. Len(old) /\ Len(old) <= Len(new) BY DEF PointsAt, Longer
<1>2. c.last \in 0 .. Len(new) BY <1>1
<1>3. c.last # 0 => c.last \in 1 .. Len(old) BY <1>1, Below
<1>4. c.last # 0 => new[c.last] = old[c.last] BY <1>3 DEF Longer
<1> QED BY <1>2, <1>4 DEF PointsAt

\* The updates a command makes spare status and last event.
LEMMA UpdatesKeep ==
  ASSUME NEW c, NEW lines, NEW r, PointsAt(c, lines)
  PROVE  PointsAt(Updates(c, r), lines) /\ Updates(c, r).last = c.last /\ Updates(c, r).status = c.status
BY DEF PointsAt, Updates, CandFields

\* Process p ends up in a good state r, the audit files and the candidates
\* stay good, and no file gets shorter and no candidate disappears.
LEMMA Move ==
  ASSUME HInv, NEW p \in Procs, NEW r, proc' = [proc EXCEPT ![p] = r],
         ProcOK(r, audit', DOMAIN cands'),
         \A id \in DOMAIN audit' : FileOK(audit'[id]),
         \A id : Len(LinesIn(audit', id)) \in Nat /\ Longer(LinesIn(audit, id), LinesIn(audit', id)),
         DOMAIN cands \subseteq DOMAIN cands',
         \A id \in DOMAIN cands' : PointsAt(cands'[id], LinesIn(audit', id))
  PROVE  HInv'
<1>0. ASSUME NEW id, NEW c, PointsAt(c, LinesIn(audit, id)) PROVE PointsAt(c, LinesIn(audit', id))
  <2>1. Len(LinesIn(audit, id)) \in Nat BY LinesOK, FileFacts
  <2> QED BY <1>0, <2>1, StillPoints
<1>1. DOMAIN proc' = Procs BY DEF HInv
<1>2. ASSUME NEW q \in Procs PROVE ProcOK(proc'[q], audit', DOMAIN cands')
  <2>1. CASE q = p
    <3>1. proc'[q] = r BY <2>1 DEF HInv
    <3> QED BY <3>1
  <2>2. CASE q # p
    <3>1. proc'[q] = proc[q] BY <2>2 DEF HInv
    <3>2. ProcOK(proc[q], audit, DOMAIN cands) BY DEF HInv
    <3> QED BY <1>0, <3>1, <3>2 DEF ProcOK
  <2> QED BY <2>1, <2>2
<1> QED BY <1>1, <1>2 DEF HInv

\* A file is as long as itself.
LEMMA SameLines ==
  ASSUME HInv, NEW id
  PROVE  Len(LinesIn(audit, id)) \in Nat /\ Longer(LinesIn(audit, id), LinesIn(audit, id))
<1>1. Len(LinesIn(audit, id)) \in Nat BY LinesOK, FileFacts
<1> QED BY <1>1 DEF Longer

\* ... in particular when the audit files and the candidates stay as they are.
LEMMA MoveOnly ==
  ASSUME HInv, NEW p \in Procs, NEW r, proc' = [proc EXCEPT ![p] = r],
         ProcOK(r, audit, DOMAIN cands), audit' = audit, cands' = cands
  PROVE  HInv'
<1>1. \A id : Len(LinesIn(audit', id)) \in Nat /\ Longer(LinesIn(audit, id), LinesIn(audit', id))
  BY SameLines
<1>2. \A id \in DOMAIN audit' : FileOK(audit'[id]) BY DEF HInv
<1>3. \A id \in DOMAIN cands' : PointsAt(cands'[id], LinesIn(audit', id)) BY DEF HInv
<1> QED BY Zenon, <1>1, <1>2, <1>3, Move

\* ... or when one candidate gets a content that agrees with its audit file.
LEMMA MoveCand ==
  ASSUME HInv, NEW p \in Procs, NEW r, proc' = [proc EXCEPT ![p] = r],
         NEW x, NEW c, PointsAt(c, LinesIn(audit, x)), audit' = audit,
         DOMAIN cands' = DOMAIN cands \cup {x},
         cands'[x] = c, \A id \in DOMAIN cands \ {x} : cands'[id] = cands[id],
         ProcOK(r, audit, DOMAIN cands')
  PROVE  HInv'
<1>1. \A id : Len(LinesIn(audit', id)) \in Nat /\ Longer(LinesIn(audit, id), LinesIn(audit', id))
  BY SameLines
<1>2. \A id \in DOMAIN audit' : FileOK(audit'[id]) BY DEF HInv
<1>3. \A id \in DOMAIN cands' : PointsAt(cands'[id], LinesIn(audit', id)) BY DEF HInv
<1> QED BY Zenon, <1>1, <1>2, <1>3, Move

\* An idle process is in a good state.
LEMMA IdleOK == ASSUME NEW files, NEW ids PROVE ProcOK(Idle, files, ids)
BY DEF ProcOK, Idle, ProcFields

-----------------------------------------------------------------------------
(* The steps.                                                              *)

\* _record: the new line follows the content that was read, whatever was appended since.
LEMMA RecordKeeps ==
  ASSUME HInv, NEW p \in Procs, NEW r, ProcFields \subseteq DOMAIN r, r.id \in DOMAIN cands,
         NEW c, PointsAt(c, LinesIn(audit, r.id)), NEW from, NEW to,
         Follows(c, from, to),
         _record(p, r, c, from, to), cands' = cands
  PROVE  HInv'
<1> DEFINE old  == LinesIn(audit, r.id)
           file == Extended(old, from, to, c)
           c2   == [c EXCEPT !.status = to, !.last = Len(file)]
           r2   == [r EXCEPT !.pc = "write", !.copy = <<c2>>]
<1>1. old = Lines(r.id) BY DEF LinesIn, Lines
<1>2. proc' = [proc EXCEPT ![p] = r2] BY <1>1 DEF _record, Set, Extended
<1>3. audit' = WithFile(audit, r.id, file) BY <1>1 DEF _record, Extended
<1>4. FileOK(old) BY LinesOK
<1>5. Len(old) \in Nat BY <1>4, FileFacts
<1>6. PointsAt(c, old) OBVIOUS
<1> HIDE DEF old
<1>7. FileOK(file) /\ AddsLine(old, file, to) BY <1>4, <1>6, AppendOK
<1> HIDE DEF file
<1>8. file[Len(old) + 1].to = to BY <1>7 DEF AddsLine
<1>9. Len(file) = Len(old) + 1 BY <1>7 DEF AddsLine
<1>10. ASSUME NEW i \in 1 .. Len(old) PROVE file[i] = old[i] BY <1>7 DEF AddsLine
<1>11. Len(file) \in Nat /\ Len(file) # 0 /\ Len(file) \in 0 .. Len(file) /\ Len(old) <= Len(file)
  BY <1>5, <1>9, Grown
<1>12. DOMAIN audit' = DOMAIN audit \cup {r.id} /\ audit'[r.id] = file BY <1>3 DEF WithFile
<1>13. \A y \in DOMAIN audit \ {r.id} : audit'[y] = audit[y] BY <1>3 DEF WithFile
<1>14. LinesIn(audit', r.id) = file BY <1>12 DEF LinesIn
<1>15. ASSUME NEW id, id # r.id PROVE LinesIn(audit', id) = LinesIn(audit, id) BY <1>12, <1>15, <1>13 DEF LinesIn
<1>16. Longer(old, file) BY <1>10, <1>11 DEF Longer
<1>17. ASSUME NEW id
       PROVE  Len(LinesIn(audit', id)) \in Nat /\ Longer(LinesIn(audit, id), LinesIn(audit', id))
  <2>1. CASE id = r.id BY <2>1, <1>11, <1>14, <1>16 DEF old
  <2>2. CASE id # r.id BY <2>2, <1>15, SameLines
  <2> QED BY <2>1, <2>2
<1>18. \A id \in DOMAIN audit' : FileOK(audit'[id]) BY <1>7, <1>12, <1>13 DEF HInv
<1>19. ASSUME NEW id \in DOMAIN cands' PROVE PointsAt(cands'[id], LinesIn(audit', id))
  <2>1. PointsAt(cands[id], LinesIn(audit, id)) BY DEF HInv
  <2>2. Len(LinesIn(audit, id)) \in Nat BY LinesOK, FileFacts
  <2> QED BY <2>1, <2>2, <1>17, StillPoints
<1>20. PointsAt(c2, file)
  <2>1. CandFields \subseteq DOMAIN c BY DEF PointsAt
  <2>2. c2.status = to /\ c2.last = Len(file) /\ CandFields \subseteq DOMAIN c2 BY <2>1 DEF CandFields
  <2> HIDE DEF c2
  <2> QED BY <2>2, <1>11, <1>9, <1>8 DEF PointsAt
<1> HIDE DEF c2
<1>21. ProcOK(r2, audit', DOMAIN cands')
  <2>1. r2.copy[1] = c2 /\ r2.id = r.id /\ r2.pc = "write" /\ ProcFields \subseteq DOMAIN r2 BY DEF ProcFields
  <2> HIDE DEF r2
  <2> QED BY <2>1, <1>14, <1>20 DEF ProcOK
<1> HIDE DEF r2
<1> QED BY Zenon, <1>2, <1>17, <1>18, <1>19, <1>21, Move

\* transition: no move, an allowed one, or a refusal.
LEMMA TransitionKeeps ==
  ASSUME HInv, NEW p \in Procs, NEW r, ProcFields \subseteq DOMAIN r, r.id \in DOMAIN cands,
         transition(p, r), cands' = cands
  PROVE  HInv'
<1> DEFINE now == cands[r.id]
           new == Updates(now, r)
<1>1. PointsAt(now, LinesIn(audit, r.id)) BY DEF HInv
<1>2. PointsAt(new, LinesIn(audit, r.id)) /\ new.last = now.last /\ new.status = now.status
  BY <1>1, UpdatesKeep
<1> HIDE DEF new
<1>3. CASE r.to = now.status
  <2> DEFINE r2 == [r EXCEPT !.pc = "write", !.copy = <<new>>]
  <2>1. audit' = audit /\ proc' = [proc EXCEPT ![p] = r2] BY <1>3 DEF transition, Set, new
  <2>2. r2.copy[1] = new /\ r2.id = r.id /\ r2.pc = "write" /\ ProcFields \subseteq DOMAIN r2 BY DEF ProcFields
  <2> HIDE DEF r2
  <2>3. ProcOK(r2, audit, DOMAIN cands) BY <2>2, <1>2 DEF ProcOK
  <2> QED BY Zenon, <2>1, <2>3, MoveOnly
<1>4. CASE r.to # now.status /\ Allowed(now.status, r.to)
  <2>1. _record(p, r, new, now.status, r.to) BY <1>4 DEF transition, new
  <2>2. r.to \in ALLOWED_TRANSITIONS[now.status] BY <1>4 DEF Allowed
  <2>3. Follows(new, now.status, r.to) BY Zenon, <1>2, <2>2 DEF Follows
  <2> HIDE DEF now
  <2> QED BY <2>1, <2>3, <1>2, RecordKeeps
<1>5. CASE r.to # now.status /\ ~Allowed(now.status, r.to)
  <2>1. audit' = audit /\ proc' = [proc EXCEPT ![p] = Idle] BY <1>5 DEF transition, Set
  <2> QED BY Zenon, <2>1, IdleOK, MoveOnly
<1> QED BY <1>3, <1>4, <1>5

\* A command only starts: the process has a candidate, and nothing to write.
LEMMA StartKeeps ==
  ASSUME HInv, NEW p \in Procs, NEW r, proc' = [proc EXCEPT ![p] = r], ProcFields \subseteq DOMAIN r,
         r.pc \in {"benchmark", "apply", "restore", "transition", "curated"},
         r.pc # "curated" => r.id \in DOMAIN cands, audit' = audit, cands' = cands
  PROVE  HInv'
<1>1. ProcOK(r, audit, DOMAIN cands) BY DEF ProcOK
<1> QED BY Zenon, <1>1, MoveOnly

\* The state in which approve, reject and run_regression call transition.
LEMMA CallFields ==
  ASSUME NEW op, NEW id, NEW to
  PROVE  ProcFields \subseteq DOMAIN Call(op, id, to) /\ Call(op, id, to).id = id
BY DEF Call, Idle, ProcFields

\* The invariant, for one process.
LEMMA StateOf ==
  ASSUME HInv, NEW p \in Procs
  PROVE  ProcFields \subseteq DOMAIN proc[p] /\ ProcOK(proc[p], audit, DOMAIN cands)
BY DEF HInv, ProcOK

\* approve and reject.
LEMMA DecideKeeps ==
  ASSUME HInv, NEW p \in Procs, NEW id, NEW op, NEW to, Decide(p, id, op, to)
  PROVE  HInv'
<1>1. id \in DOMAIN cands /\ transition(p, Call(op, id, to)) /\ cands' = cands BY DEF Decide, Ready
<1> QED BY <1>1, CallFields, TransitionKeeps

\* propose up to the call of the model.
LEMMA ProposeKeeps ==
  ASSUME HInv, NEW p \in Procs, NEW key, propose(p, key)
  PROVE  HInv'
<1>1. PICK id, d : proc' = [proc EXCEPT ![p] = [Idle EXCEPT !.pc = "curated", !.op = "propose", !.id = id,
                                     !.content = skills[_target_skill(key)], !.draft = <<d>>]]
  BY Zenon DEF propose, Set
<1> DEFINE r == [Idle EXCEPT !.pc = "curated", !.op = "propose", !.id = id,
                             !.content = skills[_target_skill(key)], !.draft = <<d>>]
<1>2. ProcFields \subseteq DOMAIN r /\ r.pc = "curated" BY DEF Idle, ProcFields
<1>3. audit' = audit /\ cands' = cands BY DEF propose, Untouched
<1> HIDE DEF r
<1>4. proc' = [proc EXCEPT ![p] = r] BY <1>1 DEF r
<1> QED BY Zenon, <1>2, <1>3, <1>4, StartKeeps

\* run_regression up to the benchmark.
LEMMA RegressionKeeps ==
  ASSUME HInv, NEW p \in Procs, NEW id, run_regression(p, id)
  PROVE  HInv'
<1>1. id \in DOMAIN cands /\ cands' = cands BY Zenon DEF run_regression, Ready
<1>2. CASE transition(p, Call("regression", id, "regression_failed"))
  BY <1>1, <1>2, CallFields, TransitionKeeps
<1>3. CASE Start(p, "regression", id, "benchmark", "") /\ UNCHANGED audit
  <2> DEFINE r == [Idle EXCEPT !.pc = "benchmark", !.op = "regression", !.id = id, !.to = ""]
  <2>1. ProcFields \subseteq DOMAIN r /\ r.pc = "benchmark" /\ r.id = id BY DEF Idle, ProcFields
  <2>2. proc' = [proc EXCEPT ![p] = r] /\ audit' = audit BY <1>3 DEF Start, Set
  <2> HIDE DEF r
  <2> QED BY Zenon, <1>1, <2>1, <2>2, StartKeeps
<1> QED BY Zenon, <1>2, <1>3 DEF run_regression

\* promote up to the lock of the skill.
LEMMA PromoteKeeps ==
  ASSUME HInv, NEW p \in Procs, NEW id, NEW b, promote(p, id, b)
  PROVE  HInv'
<1> DEFINE r == [Idle EXCEPT !.pc = "apply", !.op = "promote", !.id = id, !.to = "active"]
<1>1. ProcFields \subseteq DOMAIN r /\ r.pc = "apply" /\ r.id = id BY DEF Idle, ProcFields
<1>2. proc' = [proc EXCEPT ![p] = r] BY DEF promote, Start, Set
<1>3. id \in DOMAIN cands /\ audit' = audit /\ cands' = cands BY DEF promote, Ready, Untouched
<1> HIDE DEF r
<1> QED BY Zenon, <1>1, <1>2, <1>3, StartKeeps

\* rollback_candidate up to the lock of the skill.
LEMMA RollbackKeeps ==
  ASSUME HInv, NEW p \in Procs, NEW id, rollback_candidate(p, id)
  PROVE  HInv'
<1> DEFINE r == [Idle EXCEPT !.pc = "restore", !.op = "rollback", !.id = id, !.to = "rolled_back",
                             !.content = cands[id].rollback[1]]
<1>1. ProcFields \subseteq DOMAIN r /\ r.pc = "restore" /\ r.id = id BY DEF Idle, ProcFields
<1>2. proc' = [proc EXCEPT ![p] = r] BY DEF rollback_candidate, Set
<1>3. id \in DOMAIN cands /\ audit' = audit /\ cands' = cands BY DEF rollback_candidate, Ready, Untouched
<1> HIDE DEF r
<1> QED BY Zenon, <1>1, <1>2, <1>3, StartKeeps

\* record keeps status and last event of the candidate it read in its copy.
LEMMA ShadowKeeps ==
  ASSUME HInv, NEW p \in Procs, NEW id, NEW run, record(p, id, run)
  PROVE  HInv'
<1>1. PICK evals : proc' = [proc EXCEPT ![p] =
         [Idle EXCEPT !.pc = "shadow_write", !.op = "shadow", !.id = id, !.to = Verdict(evals),
                      !.copy = <<[cands[id] EXCEPT !.evals = evals]>>]]
  BY Zenon DEF record, Set
<1> DEFINE c == [cands[id] EXCEPT !.evals = evals]
           r == [Idle EXCEPT !.pc = "shadow_write", !.op = "shadow", !.id = id, !.to = Verdict(evals),
                             !.copy = <<c>>]
<1>2. id \in DOMAIN cands /\ audit' = audit /\ cands' = cands BY DEF record, Ready, Untouched
<1>3. PointsAt(cands[id], LinesIn(audit, id)) BY <1>2 DEF HInv
<1>4. PointsAt(c, LinesIn(audit, id)) BY <1>3 DEF PointsAt, CandFields
<1> HIDE DEF c
<1>5. ProcFields \subseteq DOMAIN r /\ r.pc = "shadow_write" /\ r.id = id /\ r.copy[1] = c
  BY DEF Idle, ProcFields
<1>6. proc' = [proc EXCEPT ![p] = r] BY <1>1 DEF c
<1> HIDE DEF r
<1>7. ProcOK(r, audit, DOMAIN cands) BY <1>2, <1>4, <1>5 DEF ProcOK
<1> QED BY Zenon, <1>2, <1>6, <1>7, MoveOnly

\* A new candidate file has no event yet and is proposed.
LEMMA GenerateKeeps ==
  ASSUME HInv, NEW p \in Procs, _generate_candidate(p)
  PROVE  HInv'
<1> DEFINE id == proc[p].id
           c  == New(_target_skill(id.key), proc[p].content, proc[p].draft[1])
           r  == [Idle EXCEPT !.pc = "initialize", !.op = "propose", !.id = id, !.to = ""]
<1>1. audit' = audit BY Zenon DEF _generate_candidate
<1>2. CASE id \in DOMAIN cands
  <2>1. cands' = cands /\ proc' = [proc EXCEPT ![p] = Idle] BY <1>2 DEF _generate_candidate, Set
  <2> QED BY Zenon, <1>1, <2>1, IdleOK, MoveOnly
<1>3. CASE id \notin DOMAIN cands
  <2>1. cands' = WithFile(cands, id, c) /\ proc' = [proc EXCEPT ![p] = r]
    BY <1>3 DEF _generate_candidate, Start, Set
  <2>2. CandFields \subseteq DOMAIN c /\ c.last = 0 /\ c.status = "proposed" BY DEF New, CandFields
  <2>3. ProcFields \subseteq DOMAIN r /\ r.pc = "initialize" /\ r.id = id BY DEF Idle, ProcFields
  <2> HIDE DEF c, r, id
  <2>4. DOMAIN cands' = DOMAIN cands \cup {id} /\ cands'[id] = c BY <2>1 DEF WithFile
  <2>5. \A y \in DOMAIN cands \ {id} : cands'[y] = cands[y] BY <2>1 DEF WithFile
  <2>6. Len(LinesIn(audit, id)) \in Nat BY SameLines
  <2>7. 0 \in 0 .. Len(LinesIn(audit, id)) BY <2>6
  <2>8. PointsAt(c, LinesIn(audit, id)) BY <2>2, <2>7 DEF PointsAt
  <2>9. ProcOK(r, audit, DOMAIN cands') BY <2>3, <2>4 DEF ProcOK
  <2> QED BY Zenon, <1>1, <2>1, <2>4, <2>5, <2>8, <2>9, MoveCand
<1> QED BY <1>2, <1>3

\* The first event is the creation.
LEMMA InitializeKeeps ==
  ASSUME HInv, NEW p \in Procs, initialize(p)
  PROVE  HInv'
<1> DEFINE now == cands[proc[p].id]
<1>1. ProcFields \subseteq DOMAIN proc[p] /\ ProcOK(proc[p], audit, DOMAIN cands) BY StateOf
<1>2. proc[p].id \in DOMAIN cands BY Zenon, <1>1 DEF ProcOK, initialize
<1>3. PointsAt(now, LinesIn(audit, proc[p].id)) BY <1>2 DEF HInv
<1>4. cands' = cands BY Zenon DEF initialize
<1>5. CASE now.last # 0
  <2> DEFINE r == [proc[p] EXCEPT !.pc = "write", !.copy = <<now>>]
  <2>1. audit' = audit /\ proc' = [proc EXCEPT ![p] = r] BY <1>5 DEF initialize, Set
  <2>2. ProcFields \subseteq DOMAIN r /\ r.pc = "write" /\ r.id = proc[p].id /\ r.copy[1] = now
    BY <1>1 DEF ProcFields
  <2> HIDE DEF r
  <2>3. ProcOK(r, audit, DOMAIN cands) BY <1>2, <1>3, <2>2 DEF ProcOK
  <2> QED BY Zenon, <1>4, <2>1, <2>3, MoveOnly
<1>6. CASE now.last = 0
  <2>1. now.status = "proposed" BY <1>3, <1>6 DEF PointsAt
  <2>2. PICK from : _record(p, proc[p], now, from, now.status) /\ Follows(now, from, now.status)
    BY Zenon, <1>6, <2>1 DEF initialize, Follows
  <2> HIDE DEF now
  <2> QED BY <1>1, <1>2, <1>3, <1>4, <2>2, RecordKeeps
<1> QED BY <1>5, <1>6

\* write_json and shadow_write: the copy replaces the candidate file.
LEMMA WriteKeeps ==
  ASSUME HInv, NEW p \in Procs, proc[p].pc \in {"write", "shadow_write"},
         cands' = [cands EXCEPT ![proc[p].id] = proc[p].copy[1]], audit' = audit,
         NEW r, proc' = [proc EXCEPT ![p] = r], ProcOK(r, audit, DOMAIN cands)
  PROVE  HInv'
<1> DEFINE id == proc[p].id
           c  == proc[p].copy[1]
<1>1. id \in DOMAIN cands /\ PointsAt(c, LinesIn(audit, id)) BY StateOf DEF ProcOK
<1>2. cands' = [cands EXCEPT ![id] = c] OBVIOUS
<1> HIDE DEF id, c
<1>3. DOMAIN cands' = DOMAIN cands BY <1>2
<1>4. cands'[id] = c /\ \A y \in DOMAIN cands \ {id} : cands'[y] = cands[y] BY <1>1, <1>2
<1>5. DOMAIN cands' = DOMAIN cands \cup {id} BY <1>1, <1>3
<1>6. ProcOK(r, audit, DOMAIN cands') BY <1>3
<1> QED BY Zenon, <1>1, <1>4, <1>5, <1>6, MoveCand

\* The later steps of a command.
LEMMA StepKeeps ==
  ASSUME HInv, NEW p \in Procs, Step(p)
  PROVE  HInv'
<1>0. ProcFields \subseteq DOMAIN proc[p] /\ ProcOK(proc[p], audit, DOMAIN cands) BY StateOf
<1>1. CASE Transition(p)
  <2>1. proc[p].id \in DOMAIN cands BY <1>0, <1>1 DEF ProcOK, Transition
  <2>2. transition(p, proc[p]) /\ cands' = cands BY <1>1 DEF Transition
  <2> QED BY <1>0, <2>1, <2>2, TransitionKeeps
<1>2. CASE initialize(p) BY <1>2, InitializeKeeps
<1>3. CASE write_json(p)
  <2>1. /\ cands' = [cands EXCEPT ![proc[p].id] = proc[p].copy[1]] /\ audit' = audit
        /\ proc' = [proc EXCEPT ![p] = Idle] /\ proc[p].pc \in {"write", "shadow_write"}
    BY <1>3 DEF write_json, Set
  <2> QED BY Zenon, <2>1, IdleOK, WriteKeeps
<1>4. CASE _generate_candidate(p) BY <1>4, GenerateKeeps
<1>5. CASE benchmark(p)
  <2>1. PICK to : transition(p, [proc[p] EXCEPT !.to = to]) BY Zenon, <1>5 DEF benchmark
  <2>2. proc[p].id \in DOMAIN cands /\ cands' = cands BY <1>0, <1>5 DEF ProcOK, benchmark
  <2> DEFINE r == [proc[p] EXCEPT !.to = to]
  <2>3. ProcFields \subseteq DOMAIN r /\ r.id = proc[p].id BY <1>0 DEF ProcFields
  <2>4. transition(p, r) BY <2>1
  <2> HIDE DEF r
  <2> QED BY <2>2, <2>3, <2>4, TransitionKeeps
<1>6. CASE shadow_write(p)
  <2> DEFINE r == [Idle EXCEPT !.pc = "transition", !.op = "shadow", !.id = proc[p].id, !.to = proc[p].to]
  <2>1. /\ cands' = [cands EXCEPT ![proc[p].id] = proc[p].copy[1]] /\ audit' = audit
        /\ proc[p].pc \in {"write", "shadow_write"}
    BY Zenon, <1>6 DEF shadow_write
  <2>2. proc[p].id \in DOMAIN cands BY <1>0, <2>1 DEF ProcOK
  <2>3. ProcFields \subseteq DOMAIN r /\ r.pc = "transition" /\ r.id = proc[p].id BY DEF Idle, ProcFields
  <2>4. proc' = [proc EXCEPT ![p] = Idle] \/ proc' = [proc EXCEPT ![p] = r]
    BY Zenon, <1>6 DEF shadow_write, Start, Set
  <2> HIDE DEF r
  <2>5. ProcOK(r, audit, DOMAIN cands) BY <2>2, <2>3 DEF ProcOK
  <2>6. CASE proc' = [proc EXCEPT ![p] = Idle] BY Zenon, <2>1, <2>6, IdleOK, WriteKeeps
  <2>7. CASE proc' = [proc EXCEPT ![p] = r] BY Zenon, <2>1, <2>5, <2>7, WriteKeeps
  <2> QED BY <2>4, <2>6, <2>7
<1>7. CASE apply_candidate(p)
  <2>1. audit' = audit /\ cands' = cands BY <1>7 DEF apply_candidate
  <2>2. proc[p].id \in DOMAIN cands BY SMTT(30), <1>0, <1>7 DEF ProcOK, apply_candidate
  <2>3. \/ proc' = [proc EXCEPT ![p] = Idle]
        \/ \E raw : proc' = [proc EXCEPT ![p] = [proc[p] EXCEPT !.pc = "transition", !.content = raw]]
    BY Zenon, <1>7 DEF apply_candidate, Set
  <2>4. CASE proc' = [proc EXCEPT ![p] = Idle] BY Zenon, <2>1, <2>4, IdleOK, MoveOnly
  <2>5. ASSUME NEW raw, proc' = [proc EXCEPT ![p] = [proc[p] EXCEPT !.pc = "transition", !.content = raw]]
        PROVE  HInv'
    <3> DEFINE r == [proc[p] EXCEPT !.pc = "transition", !.content = raw]
    <3>1. ProcFields \subseteq DOMAIN r /\ r.pc = "transition" /\ r.id = proc[p].id BY <1>0 DEF ProcFields
    <3>2. proc' = [proc EXCEPT ![p] = r] BY <2>5
    <3> HIDE DEF r
    <3> QED BY Zenon, <2>1, <2>2, <3>1, <3>2, StartKeeps
  <2> QED BY Zenon, <2>3, <2>4, <2>5
<1>8. CASE restore(p)
  <2>1. audit' = audit /\ cands' = cands BY <1>8 DEF restore
  <2>2. proc[p].id \in DOMAIN cands BY <1>0, <1>8 DEF ProcOK, restore
  <2> DEFINE r == [proc[p] EXCEPT !.pc = "transition", !.content = <<>>]
  <2>3. ProcFields \subseteq DOMAIN r /\ r.pc = "transition" /\ r.id = proc[p].id BY <1>0 DEF ProcFields
  <2>4. proc' = [proc EXCEPT ![p] = r] BY <1>8 DEF restore, Set
  <2> HIDE DEF r
  <2> QED BY Zenon, <2>1, <2>2, <2>3, <2>4, StartKeeps
<1> QED BY <1>1, <1>2, <1>3, <1>4, <1>5, <1>6, <1>7, <1>8 DEF Step

\* The first step of a command.
LEMMA CommandKeeps ==
  ASSUME HInv, NEW p \in Procs, Command(p)
  PROVE  HInv'
<1>1. ASSUME NEW key, propose(p, key) PROVE HInv' BY <1>1, ProposeKeeps
<1>2. ASSUME NEW id, approve(p, id) \/ reject(p, id) PROVE HInv'
  BY <1>2, DecideKeeps DEF approve, reject
<1>3. ASSUME NEW id, run_regression(p, id) PROVE HInv' BY <1>3, RegressionKeeps
<1>4. ASSUME NEW id, rollback_candidate(p, id) PROVE HInv' BY <1>4, RollbackKeeps
<1>5. ASSUME NEW id, NEW b, promote(p, id, b) PROVE HInv' BY <1>5, PromoteKeeps
<1>6. ASSUME NEW id, NEW run, record(p, id, run) PROVE HInv' BY <1>6, ShadowKeeps
<1> QED BY <1>1, <1>2, <1>3, <1>4, <1>5, <1>6 DEF Command

\* Every step preserves the invariant.
LEMMA NextKeeps == HInv /\ [Next]_vars => HInv'
<1> SUFFICES ASSUME HInv, [Next]_vars PROVE HInv' OBVIOUS
<1>1. CASE UNCHANGED <<cands, audit, proc>> BY <1>1 DEF HInv
<1>2. CASE finalize_learning \/ _relearn BY <1>1, <1>2 DEF finalize_learning, _relearn
<1>3. ASSUME NEW p \in Procs, Command(p) PROVE HInv' BY <1>3, CommandKeeps
<1>4. ASSUME NEW p \in Procs, Step(p) PROVE HInv' BY <1>4, StepKeeps
<1>5. ASSUME NEW p \in Procs, Crash(p) PROVE HInv'
  <2>1. proc' = [proc EXCEPT ![p] = Idle] /\ audit' = audit /\ cands' = cands BY <1>5 DEF Crash, Set
  <2> QED BY Zenon, <2>1, IdleOK, MoveOnly
<1>6. CASE UNCHANGED vars BY <1>1, <1>6 DEF vars
<1> QED BY <1>2, <1>3, <1>4, <1>5, <1>6 DEF Next

\* The initial state satisfies the invariant.
LEMMA InitKeeps == Init => HInv
<1> SUFFICES ASSUME Init PROVE HInv OBVIOUS
<1>1. DOMAIN audit = {} /\ DOMAIN cands = {} BY DEF Init, None
<1>2. DOMAIN proc = Procs /\ \A p \in Procs : proc[p] = Idle BY DEF Init
<1> QED BY <1>1, <1>2, IdleOK DEF HInv

\* The invariant gives the property.
LEMMA PathFromInv == HInv => HistoryIsPath
<1> SUFFICES ASSUME HInv, NEW id \in DOMAIN cands
    PROVE /\ cands[id].last \in 0 .. Len(Lines(id))
          /\ cands[id].status = IF cands[id].last = 0 THEN "proposed" ELSE Lines(id)[cands[id].last].to
          /\ \A i \in DOMAIN Lines(id) : LineOK(Lines(id), i)
  BY Zenon DEF HistoryIsPath, LineOK
<1>1. Lines(id) = LinesIn(audit, id) BY DEF Lines, LinesIn
<1>2. PointsAt(cands[id], Lines(id)) BY <1>1 DEF HInv
<1>3. FileOK(Lines(id)) BY <1>1, LinesOK
<1>4. Lines(id) \in Seq(Line) BY <1>3, FileFacts
<1> HIDE DEF Lines
<1>5. DOMAIN Lines(id) = 1 .. Len(Lines(id)) BY <1>4
<1>6. \A i \in DOMAIN Lines(id) : LineOK(Lines(id), i) BY <1>3, <1>5, FileFacts
<1> QED BY <1>2, <1>6 DEF PointsAt

\* For any number of processes and any interleaving and crash of memory-evolve
\* and skill-rollback commands, the events a candidate file leads back through
\* are a path of allowed transitions from its creation to its status
\* (memory/lifecycle.py: transition, _record).
THEOREM HistoryAlwaysPath == Spec => []HistoryIsPath
BY InitKeeps, NextKeeps, PathFromInv, PTL DEF Spec
-----------------------------------------------------------------------------
(* The gates.                                                              *)

\* A line of the candidate's audit file has moved it to this status.
Moved(files, id, to) == \E i \in 1 .. Len(LinesIn(files, id)) : LinesIn(files, id)[i].to = to

\* The candidates an operator has approved and whose bound cases, at least one, passed.
GoodIds(files) ==
  {id \in DOMAIN files : /\ Moved(files, id, "approved") /\ Moved(files, id, "regression_passed")
                         /\ _regression_binding(id.key) # {}}
Clean(patches, files) == patches \in Seq(GoodIds(files))

\* Two different runs that the draft would have helped.
TwoHelped(d, reps) ==
  \E m, n \in 1 .. Len(reps) : m # n /\ Helps(d, reps[m]) /\ Helps(d, reps[n])

EvalOf(d, reps, n) ==
  [run |-> n, help |-> evaluate_run(d, reps[n]).help, harm |-> evaluate_run(d, reps[n]).harm]
Evaluated(c, reps) ==
  IsFiniteSet(c.evals) /\ \A e \in c.evals : e.run \in 1 .. Len(reps) /\ e = EvalOf(c.draft, reps, e.run)

\* A content of the candidate file of id claims nothing that did not happen.
Earned(c, id, files) ==
  /\ c.target \in Targets
  /\ c.approved => Moved(files, id, "approved")
  /\ c.regression = "passed" => Moved(files, id, "regression_passed") /\ _regression_binding(id.key) # {}
  /\ c.rollback # <<>> => Clean(c.rollback[1], files)

\* What the state r of a process may lead to.
Honest(r, files, reps, cs) ==
  /\ r.pc \in {"write", "shadow_write"} =>
       /\ Earned(r.copy[1], r.id, files) /\ Evaluated(r.copy[1], reps)
       /\ r.copy[1].draft = cs[r.id].draft
  /\ r.pc \in {"shadow_write", "transition"} /\ r.to = "shadow_passed" => TwoHelped(cs[r.id].draft, reps)
  /\ r.pc = "benchmark" => r.op = "regression" /\ _regression_binding(r.id.key) # {}
  /\ r.pc = "apply" => r.op = "promote" /\ r.to = "active" /\ r.id \in GoodIds(files)
  /\ r.pc = "restore" => r.op = "rollback" /\ r.to = "rolled_back" /\ Clean(r.content, files)
  /\ r.pc = "transition" => /\ r.op \in {"promote", "rollback", "shadow"}
                            /\ r.op = "promote" => Clean(r.content, files)
  /\ r.pc = "curated" => r.id.key \in Keys
  /\ r.pc = "initialize" => r.op = "propose"

\* The inductive invariant of the gates.
GInv ==
  /\ DOMAIN skills = Targets /\ \A s \in Targets : Clean(skills[s], audit)
  /\ runs \in Seq(UNION Range(Deployments))
  /\ DOMAIN audit \subseteq DOMAIN cands
  /\ \A id \in DOMAIN cands : /\ Earned(cands[id], id, audit) /\ Evaluated(cands[id], runs)
                              /\ Moved(audit, id, "shadow_passed") => TwoHelped(cands[id].draft, runs)
  /\ \A p \in Procs : Honest(proc[p], audit, runs, cands)
\* A sequence over a set is one over a larger set.
LEMMA SeqGrows == ASSUME NEW S, NEW T, S \subseteq T, NEW s \in Seq(S) PROVE s \in Seq(T)
<1>1. Len(s) \in Nat /\ DOMAIN s = 1 .. Len(s) /\ s = [i \in 1 .. Len(s) |-> s[i]]
  OBVIOUS
<1>2. \A i \in 1 .. Len(s) : s[i] \in T OBVIOUS
<1> QED BY <1>1, <1>2

\* No audit file gets shorter and every length is a number.
Grows(old, new) ==
  /\ \A id : Len(LinesIn(old, id)) \in Nat /\ Len(LinesIn(new, id)) \in Nat
  /\ \A id : Longer(LinesIn(old, id), LinesIn(new, id))
  /\ DOMAIN old \subseteq DOMAIN new

\* The index of a line is one of a longer file.
LEMMA IndexGrows ==
  ASSUME NEW m \in Nat, NEW n \in Nat, m <= n, NEW i \in 1 .. m PROVE i \in 1 .. n
OBVIOUS

\* What has happened has happened.
LEMMA MovedStays ==
  ASSUME NEW old, NEW new, Grows(old, new), NEW id, NEW to, Moved(old, id, to)
  PROVE  Moved(new, id, to)
<1>1. PICK i \in 1 .. Len(LinesIn(old, id)) : LinesIn(old, id)[i].to = to BY DEF Moved
<1>2. /\ Len(LinesIn(old, id)) \in Nat /\ Len(LinesIn(new, id)) \in Nat
      /\ Longer(LinesIn(old, id), LinesIn(new, id))
  BY DEF Grows
<1>3. Len(LinesIn(old, id)) <= Len(LinesIn(new, id)) /\ LinesIn(new, id)[i] = LinesIn(old, id)[i]
  BY <1>2 DEF Longer
<1>4. i \in 1 .. Len(LinesIn(new, id)) BY <1>2, <1>3, IndexGrows
<1> QED BY <1>1, <1>3, <1>4 DEF Moved

\* ... so a good candidate stays good,
LEMMA GoodStays ==
  ASSUME NEW old, NEW new, Grows(old, new)
  PROVE  GoodIds(old) \subseteq GoodIds(new)
<1>1. DOMAIN old \subseteq DOMAIN new BY DEF Grows
<1> QED BY <1>1, MovedStays DEF GoodIds

\* ... a clean skill clean,
LEMMA CleanStays ==
  ASSUME NEW old, NEW new, Grows(old, new), NEW s, Clean(s, old)
  PROVE  Clean(s, new)
BY GoodStays, SeqGrows DEF Clean

\* ... and a content earned.
LEMMA EarnedStays ==
  ASSUME NEW old, NEW new, Grows(old, new), NEW c, NEW id, Earned(c, id, old)
  PROVE  Earned(c, id, new)
BY MovedStays, CleanStays DEF Earned

\* The state of a process stays honest when the files grow and no draft changes.
LEMMA HonestStays ==
  ASSUME NEW old, NEW new, Grows(old, new), NEW reps, NEW cs, NEW cs2, NEW r,
         r.pc \in {"write", "shadow_write", "transition"} => cs2[r.id].draft = cs[r.id].draft,
         Honest(r, old, reps, cs)
  PROVE  Honest(r, new, reps, cs2)
<1>1. GoodIds(old) \subseteq GoodIds(new) BY GoodStays
<1>2. \A s : Clean(s, old) => Clean(s, new) BY CleanStays
<1>3. \A c, id : Earned(c, id, old) => Earned(c, id, new) BY EarnedStays
<1> QED BY <1>1, <1>2, <1>3 DEF Honest

\* An idle process is honest.
LEMMA IdleHonest == ASSUME NEW files, NEW reps, NEW cs PROVE Honest(Idle, files, reps, cs)
BY DEF Honest, Idle

\* Process p ends up in an honest state r, and skills and candidates stay good.
LEMMA GMove ==
  ASSUME HInv, GInv, NEW p \in Procs, NEW r, proc' = [proc EXCEPT ![p] = r], runs' = runs,
         Grows(audit, audit'), DOMAIN audit' \subseteq DOMAIN cands', DOMAIN cands \subseteq DOMAIN cands',
         \A id \in DOMAIN cands : cands'[id].draft = cands[id].draft,
         DOMAIN skills' = Targets, \A s \in Targets : Clean(skills'[s], audit'),
         \A id \in DOMAIN cands' : Earned(cands'[id], id, audit') /\ Evaluated(cands'[id], runs),
         \A id \in DOMAIN cands' : Moved(audit', id, "shadow_passed") => TwoHelped(cands'[id].draft, runs),
         Honest(r, audit', runs, cands')
  PROVE  GInv'
<1>1. DOMAIN proc = Procs BY DEF HInv
<1>2. ASSUME NEW q \in Procs PROVE Honest(proc'[q], audit', runs, cands')
  <2>1. CASE q = p
    <3>1. proc'[q] = r BY <1>1, <2>1
    <3> QED BY <3>1
  <2>2. CASE q # p
    <3>1. proc'[q] = proc[q] BY <1>1, <2>2
    <3>2. Honest(proc[q], audit, runs, cands) BY DEF GInv
    <3>3. ProcOK(proc[q], audit, DOMAIN cands) BY DEF HInv
    <3>4. proc[q].pc \in {"write", "shadow_write", "transition"} =>
             cands'[proc[q].id].draft = cands[proc[q].id].draft
      BY <3>3 DEF ProcOK
    <3> QED BY <3>1, <3>2, <3>4, HonestStays
  <2> QED BY <2>1, <2>2
<1>3. runs' \in Seq(UNION Range(Deployments)) BY DEF GInv
<1> QED BY <1>2, <1>3 DEF GInv

\* An audit file that stays as it is grows.
LEMMA SameGrows == ASSUME HInv PROVE Grows(audit, audit)
BY SameLines DEF Grows

\* ... when only the process moves.
LEMMA GMoveOnly ==
  ASSUME HInv, GInv, NEW p \in Procs, NEW r, proc' = [proc EXCEPT ![p] = r],
         UNCHANGED <<runs, audit, cands, skills>>, Honest(r, audit, runs, cands)
  PROVE  GInv'
<1>1. Grows(audit, audit') BY SameGrows
<1>2. /\ DOMAIN skills' = Targets /\ \A s \in Targets : Clean(skills'[s], audit')
      /\ DOMAIN audit' \subseteq DOMAIN cands'
  BY DEF GInv
<1>3. /\ \A id \in DOMAIN cands' : Earned(cands'[id], id, audit') /\ Evaluated(cands'[id], runs)
      /\ \A id \in DOMAIN cands' : Moved(audit', id, "shadow_passed") => TwoHelped(cands'[id].draft, runs)
  BY DEF GInv
<1> QED BY Zenon, <1>1, <1>2, <1>3, GMove

\* ... or a candidate gets a content that is earned, with the same draft.
LEMMA GMoveCand ==
  ASSUME HInv, GInv, NEW p \in Procs, NEW r, proc' = [proc EXCEPT ![p] = r],
         UNCHANGED <<runs, audit, skills>>, NEW x \in DOMAIN cands, NEW c,
         cands' = [cands EXCEPT ![x] = c],
         Earned(c, x, audit), Evaluated(c, runs), c.draft = cands[x].draft,
         Honest(r, audit, runs, cands)
  PROVE  GInv'
<1>1. Grows(audit, audit') BY SameGrows
<1>2. DOMAIN cands' = DOMAIN cands /\ cands'[x] = c /\ \A y \in DOMAIN cands \ {x} : cands'[y] = cands[y]
  OBVIOUS
<1>3. \A id \in DOMAIN cands : cands'[id].draft = cands[id].draft BY <1>2
<1>4. /\ DOMAIN skills' = Targets /\ \A s \in Targets : Clean(skills'[s], audit')
      /\ DOMAIN audit' \subseteq DOMAIN cands'
  BY <1>2 DEF GInv
<1>5. \A id \in DOMAIN cands' : Earned(cands'[id], id, audit') /\ Evaluated(cands'[id], runs)
  BY <1>2 DEF GInv
<1>6. \A id \in DOMAIN cands' : Moved(audit', id, "shadow_passed") => TwoHelped(cands'[id].draft, runs)
  BY <1>2, <1>3 DEF GInv
<1>7. Honest(r, audit', runs, cands')
  <2>1. CASE r.pc \in {"write", "shadow_write", "transition"} => r.id \in DOMAIN cands
    <3>1. r.pc \in {"write", "shadow_write", "transition"} => cands'[r.id].draft = cands[r.id].draft
      BY <1>3, <2>1
    <3> QED BY Zenon, <1>1, <3>1, HonestStays
  <2>2. CASE r.pc \in {"write", "shadow_write", "transition"} /\ r.id \notin DOMAIN cands
    <3>1. cands'[r.id].draft = cands[r.id].draft BY <1>2, <2>2
    <3> QED BY Zenon, <1>1, <3>1, HonestStays
  <2> QED BY <2>1, <2>2
<1> QED BY Zenon, <1>1, <1>2, <1>3, <1>4, <1>5, <1>6, <1>7, GMove

\* ... or the skills change, to clean ones.
LEMMA GMoveSkill ==
  ASSUME HInv, GInv, NEW p \in Procs, NEW r, proc' = [proc EXCEPT ![p] = r],
         UNCHANGED <<runs, cands, audit>>, Honest(r, audit, runs, cands),
         DOMAIN skills' = Targets, \A s \in Targets : Clean(skills'[s], audit')
  PROVE  GInv'
<1>1. Grows(audit, audit') BY SameGrows
<1>2. DOMAIN audit' \subseteq DOMAIN cands' BY DEF GInv
<1>3. /\ \A id \in DOMAIN cands' : Earned(cands'[id], id, audit') /\ Evaluated(cands'[id], runs)
      /\ \A id \in DOMAIN cands' : Moved(audit', id, "shadow_passed") => TwoHelped(cands'[id].draft, runs)
  BY DEF GInv
<1> QED BY Zenon, <1>1, <1>2, <1>3, GMove
\* The last index after an append.
LEMMA LastIndex == ASSUME NEW n \in Nat, NEW m, m = n + 1 PROVE n + 1 \in 1 .. m
OBVIOUS

\* What _record does to the audit files.
LEMMA RecordAudit ==
  ASSUME HInv, NEW p \in Procs, NEW r, NEW c, PointsAt(c, LinesIn(audit, r.id)), NEW from, NEW to,
         Follows(c, from, to),
         _record(p, r, c, from, to)
  PROVE  /\ Grows(audit, audit') /\ DOMAIN audit' = DOMAIN audit \cup {r.id}
         /\ Moved(audit', r.id, to)
         /\ \A id, t : Moved(audit', id, t) => Moved(audit, id, t) \/ (id = r.id /\ t = to)
<1> DEFINE old  == LinesIn(audit, r.id)
           file == Extended(old, from, to, c)
<1>1. old = Lines(r.id) BY DEF LinesIn, Lines
<1>2. audit' = WithFile(audit, r.id, file) BY <1>1 DEF _record, Extended
<1>3. FileOK(old) BY LinesOK
<1>4. Len(old) \in Nat BY <1>3, FileFacts
<1>5. PointsAt(c, old) OBVIOUS
<1> HIDE DEF old
<1>6. FileOK(file) /\ AddsLine(old, file, to) BY <1>3, <1>5, AppendOK
<1> HIDE DEF file
<1>7. file[Len(old) + 1].to = to BY <1>6 DEF AddsLine
<1>8. Len(file) = Len(old) + 1 BY <1>6 DEF AddsLine
<1>9. ASSUME NEW i \in 1 .. Len(old) PROVE file[i] = old[i] BY <1>6 DEF AddsLine
<1>10. Len(file) \in Nat /\ Len(old) <= Len(file) BY <1>4, <1>8, Grown
<1>11. DOMAIN audit' = DOMAIN audit \cup {r.id} /\ audit'[r.id] = file BY <1>2 DEF WithFile
<1>12. \A y \in DOMAIN audit \ {r.id} : audit'[y] = audit[y] BY <1>2 DEF WithFile
<1>13. LinesIn(audit', r.id) = file BY <1>11 DEF LinesIn
<1>14. ASSUME NEW id, id # r.id PROVE LinesIn(audit', id) = LinesIn(audit, id)
  BY <1>11, <1>12, <1>14 DEF LinesIn
<1>15. Longer(old, file) BY <1>9, <1>10 DEF Longer
<1>16. ASSUME NEW id
       PROVE  /\ Len(LinesIn(audit, id)) \in Nat /\ Len(LinesIn(audit', id)) \in Nat
              /\ Longer(LinesIn(audit, id), LinesIn(audit', id))
  <2>1. CASE id = r.id BY <2>1, <1>4, <1>10, <1>13, <1>15 DEF old
  <2>2. CASE id # r.id BY <2>2, <1>14, SameLines
  <2> QED BY <2>1, <2>2
<1>17. Grows(audit, audit') BY <1>11, <1>16 DEF Grows
<1>18. Moved(audit', r.id, to)
  <2>1. Len(old) + 1 \in 1 .. Len(file) BY <1>4, <1>8, LastIndex
  <2> QED BY <2>1, <1>7, <1>13 DEF Moved
<1>19. ASSUME NEW id, NEW t, Moved(audit', id, t) PROVE Moved(audit, id, t) \/ (id = r.id /\ t = to)
  <2>1. CASE id # r.id
    <3>1. LinesIn(audit', id) = LinesIn(audit, id) BY <2>1, <1>14
    <3> QED BY <3>1, <1>19 DEF Moved
  <2>2. CASE id = r.id
    <3>1. PICK i \in 1 .. Len(file) : file[i].to = t BY <2>2, <1>13, <1>19 DEF Moved
    <3>2. i \in 1 .. Len(old) \/ i = Len(old) + 1 BY <1>4, <1>8, OneMore
    <3>3. CASE i \in 1 .. Len(old)
      <4>1. old[i].to = t BY <1>9, <3>1, <3>3
      <4>2. LinesIn(audit, id) = old BY <2>2 DEF old
      <4> QED BY <3>3, <4>1, <4>2 DEF Moved
    <3>4. CASE i = Len(old) + 1 BY SMTT(30), <2>2, <3>1, <3>4, <1>7
    <3> QED BY <3>2, <3>3, <3>4
  <2> QED BY <2>1, <2>2
<1> QED BY <1>11, <1>17, <1>18, <1>19

\* A content that is earned once a line to this status is there.
Earning(c, id, files, to) ==
  /\ c.target \in Targets
  /\ c.approved => to = "approved" \/ Moved(files, id, "approved")
  /\ c.regression = "passed" => /\ to = "regression_passed" \/ Moved(files, id, "regression_passed")
                                /\ _regression_binding(id.key) # {}
  /\ c.rollback # <<>> => Clean(c.rollback[1], files)

\* _record keeps the gates when the new content is earned by the move.
LEMMA RecordGates ==
  ASSUME HInv, GInv, NEW p \in Procs, NEW r, ProcFields \subseteq DOMAIN r, r.id \in DOMAIN cands,
         NEW c, PointsAt(c, LinesIn(audit, r.id)), NEW from, NEW to,
         Follows(c, from, to),
         _record(p, r, c, from, to), UNCHANGED <<cands, runs, skills>>,
         Earning(c, r.id, audit, to), Evaluated(c, runs), c.draft = cands[r.id].draft,
         to = "shadow_passed" => TwoHelped(cands[r.id].draft, runs)
  PROVE  GInv'
<1> DEFINE c2 == [c EXCEPT !.status = to, !.last = Len(Append(Lines(r.id), [from |-> from, to |-> to, prev |-> c.last]))]
           r2 == [r EXCEPT !.pc = "write", !.copy = <<c2>>]
<1>1. proc' = [proc EXCEPT ![p] = r2] BY DEF _record, Set
<1>2. CandFields \subseteq DOMAIN c BY DEF PointsAt
<1>3. /\ c2.target = c.target /\ c2.approved = c.approved /\ c2.regression = c.regression
      /\ c2.rollback = c.rollback /\ c2.evals = c.evals /\ c2.draft = c.draft
  BY <1>2 DEF CandFields
<1> HIDE DEF c2
<1>4. r2.copy[1] = c2 /\ r2.id = r.id /\ r2.pc = "write" BY SMTT(30) DEF ProcFields
<1> HIDE DEF r2
<1>5. /\ Grows(audit, audit') /\ DOMAIN audit' = DOMAIN audit \cup {r.id}
      /\ Moved(audit', r.id, to)
      /\ \A id, t : Moved(audit', id, t) => Moved(audit, id, t) \/ (id = r.id /\ t = to)
  BY ZenonT(30), RecordAudit
<1>6. \A s : Clean(s, audit) => Clean(s, audit') BY <1>5, CleanStays
<1>7. \A id, t : Moved(audit, id, t) => Moved(audit', id, t) BY <1>5, MovedStays
<1>8. Earned(c2, r.id, audit') BY SMTT(30), <1>3, <1>5, <1>6, <1>7 DEF Earned, Earning
<1>9. Evaluated(c2, runs) BY SMTT(30), <1>3 DEF Evaluated
<1>10. Honest(r2, audit', runs, cands') BY ZenonT(30), <1>3, <1>4, <1>8, <1>9 DEF Honest
<1>11. DOMAIN skills' = Targets /\ \A s \in Targets : Clean(skills'[s], audit') BY SMTT(30), <1>6 DEF GInv
<1>12. DOMAIN audit' \subseteq DOMAIN cands' BY SMTT(30), <1>5 DEF GInv
<1>13. \A id \in DOMAIN cands' : Earned(cands'[id], id, audit') /\ Evaluated(cands'[id], runs)
  BY SMTT(30), <1>5, EarnedStays DEF GInv
<1>14. \A id \in DOMAIN cands' : Moved(audit', id, "shadow_passed") => TwoHelped(cands'[id].draft, runs)
  BY <1>5 DEF GInv
<1> QED BY Zenon, <1>1, <1>5, <1>10, <1>11, <1>12, <1>13, <1>14, GMove

\* What a process may call transition with.
MayCall(r) ==
  /\ r.op = "approve" => r.to = "approved"
  /\ r.op = "regression" /\ r.to = "regression_passed" => _regression_binding(r.id.key) # {}
  /\ r.op = "promote" => Clean(r.content, audit)
  /\ r.to = "shadow_passed" => TwoHelped(cands[r.id].draft, runs)

\* A candidate has been moved to any status it has, but the first.
LEMMA StatusMoved ==
  ASSUME NEW c, NEW id, PointsAt(c, LinesIn(audit, id)), HInv, c.status # "proposed"
  PROVE  Moved(audit, id, c.status)
<1>1. c.last # 0 BY DEF PointsAt
<1>2. c.status = LinesIn(audit, id)[c.last].to BY <1>1 DEF PointsAt
<1>3. Len(LinesIn(audit, id)) \in Nat BY SameLines
<1>4. c.last \in 1 .. Len(LinesIn(audit, id)) BY SMTT(30), <1>1, <1>3, Below DEF PointsAt
<1> QED BY <1>2, <1>4 DEF Moved

\* The content transition writes is earned by its move.
LEMMA UpdatesEarning ==
  ASSUME NEW c, NEW r, CandFields \subseteq DOMAIN c, Earned(c, r.id, audit), MayCall(r)
  PROVE  /\ Earning(Updates(c, r), r.id, audit, r.to)
         /\ Updates(c, r).evals = c.evals /\ Updates(c, r).draft = c.draft
<1>1. CASE r.op = "approve"
  <2>1. Updates(c, r) = [c EXCEPT !.approved = TRUE] BY <1>1 DEF Updates
  <2> QED BY <1>1, <2>1 DEF CandFields, Earned, Earning, MayCall
<1>2. CASE r.op = "regression"
  <2> DEFINE v == IF r.to = "regression_passed" THEN "passed" ELSE "failed"
  <2>1. Updates(c, r) = [c EXCEPT !.regression = v] BY <1>2 DEF Updates
  <2>2. v = "passed" => r.to = "regression_passed" OBVIOUS
  <2> HIDE DEF v
  <2> QED BY <1>2, <2>1, <2>2 DEF CandFields, Earned, Earning, MayCall
<1>3. CASE r.op = "promote"
  <2>1. Updates(c, r) = [c EXCEPT !.rollback = <<r.content>>] BY <1>3 DEF Updates
  <2>2. Clean(r.content, audit) /\ <<r.content>>[1] = r.content BY <1>3 DEF MayCall
  <2> QED BY <1>3, <2>1, <2>2 DEF CandFields, Earned, Earning
<1>4. CASE r.op \notin {"approve", "regression", "promote"}
  <2>1. Updates(c, r) = c BY <1>4 DEF Updates
  <2> QED BY <2>1 DEF Earned, Earning
<1> QED BY <1>1, <1>2, <1>3, <1>4

\* transition keeps the gates.
LEMMA TransitionGates ==
  ASSUME HInv, GInv, NEW p \in Procs, NEW r, ProcFields \subseteq DOMAIN r, r.id \in DOMAIN cands,
         transition(p, r), UNCHANGED <<cands, runs, skills>>, MayCall(r)
  PROVE  GInv'
<1> DEFINE now == cands[r.id]
           new == Updates(now, r)
<1>1. PointsAt(now, LinesIn(audit, r.id)) BY SMTT(30) DEF HInv
<1>2. PointsAt(new, LinesIn(audit, r.id)) /\ new.last = now.last /\ new.status = now.status
  BY SMTT(30), <1>1, UpdatesKeep
<1>3. CandFields \subseteq DOMAIN now /\ Earned(now, r.id, audit) /\ Evaluated(now, runs)
  BY SMTT(30), <1>1 DEF PointsAt, GInv
<1>4. Earning(new, r.id, audit, r.to) /\ new.evals = now.evals /\ new.draft = now.draft
  BY SMTT(30), <1>3, UpdatesEarning
<1>5. Evaluated(new, runs) BY SMTT(30), <1>3, <1>4 DEF Evaluated
<1> HIDE DEF new
<1>6. CASE r.to = now.status
  <2> DEFINE r2 == [r EXCEPT !.pc = "write", !.copy = <<new>>]
  <2>1. audit' = audit /\ proc' = [proc EXCEPT ![p] = r2] BY <1>6 DEF transition, Set, new
  <2>2. r2.copy[1] = new /\ r2.id = r.id /\ r2.pc = "write" BY DEF ProcFields
  <2> HIDE DEF r2
  <2>3. r.to # "proposed" => Moved(audit, r.id, r.to) BY <1>1, <1>6, StatusMoved
  <2>4. Earned(new, r.id, audit) BY <1>4, <2>3 DEF Earned, Earning
  <2>5. Honest(r2, audit, runs, cands) BY SMTT(30), <1>4, <1>5, <2>2, <2>4 DEF Honest
  <2> QED BY ZenonT(30), <2>1, <2>5, GMoveOnly
<1>7. CASE r.to # now.status /\ Allowed(now.status, r.to)
  <2>1. _record(p, r, new, now.status, r.to) BY SMTT(30), <1>7 DEF transition, new
  <2>2. r.to \in ALLOWED_TRANSITIONS[now.status] BY <1>7 DEF Allowed
  <2>3. r.to = "shadow_passed" => TwoHelped(cands[r.id].draft, runs) BY DEF MayCall
  <2>4. new.draft = cands[r.id].draft BY <1>4
  <2>5. Follows(new, now.status, r.to) BY Zenon, <1>2, <2>2 DEF Follows
  <2> HIDE DEF now
  <2> QED BY Zenon, <2>1, <2>3, <2>4, <2>5, <1>2, <1>4, <1>5, RecordGates
<1>8. CASE r.to # now.status /\ ~Allowed(now.status, r.to)
  <2>1. audit' = audit /\ proc' = [proc EXCEPT ![p] = Idle] BY <1>8 DEF transition, Set
  <2> QED BY Zenon, <2>1, IdleHonest, GMoveOnly
<1> QED BY SMTT(30), <1>6, <1>7, <1>8
\* A set with two or more members has two different ones.
LEMMA TwoMembers ==
  ASSUME NEW S, Cardinality(S) >= 2
  PROVE  \E x, y \in S : x # y
<1>1. S # {} BY FS_EmptySet
<1>2. PICK x \in S : TRUE BY <1>1
<1>3. Cardinality({x}) = 1 BY FS_Singleton
<1>4. S # {x} BY <1>3
<1>5. PICK y \in S : y # x BY <1>2, <1>4
<1> QED BY <1>5

\* A run judged helpful and not harmful is one the draft helps with.
LEMMA JudgedHelps ==
  ASSUME NEW d, NEW rep, evaluate_run(d, rep).help, ~evaluate_run(d, rep).harm
  PROVE  Helps(d, rep)
<1>1. ~WouldHarm(d, rep) BY DEF evaluate_run
<1>2. /\ _check_match(rep) /\ d.tools \cap _extract_successful_tools(rep) # {}
      /\ WouldHarm(d, rep) \/ _has_evidence_trace_support(rep)
  BY Zenon DEF evaluate_run
<1>3. d.tools \cap rep.tools # {} BY <1>2 DEF _extract_successful_tools
<1>4. d.rule # "harmful" BY <1>1, <1>2 DEF WouldHarm
<1> QED BY <1>1, <1>2, <1>3, <1>4 DEF Helps, _has_evidence_trace_support

\* The shadow gate passes on two different runs.
LEMMA VerdictTwo ==
  ASSUME NEW c, NEW reps, Evaluated(c, reps), Verdict(c.evals) = "shadow_passed"
  PROVE  TwoHelped(c.draft, reps)
<1> DEFINE helped == {e \in c.evals : e.help}
           harmful == {e \in c.evals : e.harm}
<1>1. Cardinality(helped) >= 2 /\ Cardinality(harmful) = 0 BY DEF Verdict
<1>2. IsFiniteSet(c.evals) BY DEF Evaluated
<1>3. harmful \in SUBSET c.evals OBVIOUS
<1>4. harmful = {}
  <2> HIDE DEF harmful
  <2>1. IsFiniteSet(harmful) BY <1>2, <1>3, FS_Subset
  <2> QED BY <1>1, <2>1, FS_EmptySet
<1>5. PICK x, y \in helped : x # y
  <2> HIDE DEF helped
  <2> QED BY <1>1, TwoMembers
<1>6. ASSUME NEW e \in helped
      PROVE  e.run \in 1 .. Len(reps) /\ e = EvalOf(c.draft, reps, e.run) /\ Helps(c.draft, reps[e.run])
  <2>1. e \in c.evals /\ e.help /\ ~e.harm BY <1>4
  <2>2. e.run \in 1 .. Len(reps) /\ e = EvalOf(c.draft, reps, e.run) BY <2>1 DEF Evaluated
  <2>3. /\ e.help = evaluate_run(c.draft, reps[e.run]).help
        /\ e.harm = evaluate_run(c.draft, reps[e.run]).harm
    BY <2>2 DEF EvalOf
  <2>4. Helps(c.draft, reps[e.run]) BY <2>1, <2>3, JudgedHelps
  <2> QED BY <2>2, <2>4
<1>7. x.run # y.run BY <1>5, <1>6
<1> QED BY <1>6, <1>7 DEF TwoHelped

\* approve and reject.
LEMMA DecideGates ==
  ASSUME HInv, GInv, NEW p \in Procs, NEW id,
         Decide(p, id, "approve", "approved") \/ Decide(p, id, "reject", "rejected")
  PROVE  GInv'
<1>1. ASSUME NEW op, NEW to, Decide(p, id, op, to), op = "approve" => to = "approved",
             op \in {"approve", "reject"}, to # "shadow_passed"
      PROVE  GInv'
  <2>1. id \in DOMAIN cands /\ transition(p, Call(op, id, to)) /\ UNCHANGED <<cands, runs, skills>>
    BY <1>1 DEF Decide, Ready
  <2>2. Call(op, id, to).op = op /\ Call(op, id, to).to = to BY DEF Call, Idle
  <2>3. MayCall(Call(op, id, to)) BY <1>1, <2>2 DEF MayCall
  <2> QED BY <2>1, <2>3, CallFields, TransitionGates
<1> QED BY <1>1

\* propose up to the call of the model.
LEMMA ProposeGates ==
  ASSUME HInv, GInv, NEW p \in Procs, NEW key \in Keys, propose(p, key)
  PROVE  GInv'
<1>1. PICK ids, d : proc' = [proc EXCEPT ![p] = [Idle EXCEPT !.pc = "curated", !.op = "propose",
              !.id = [key |-> key, ids |-> ids], !.content = skills[_target_skill(key)], !.draft = <<d>>]]
  BY Zenon DEF propose, Set
<1> DEFINE r == [Idle EXCEPT !.pc = "curated", !.op = "propose",
              !.id = [key |-> key, ids |-> ids], !.content = skills[_target_skill(key)], !.draft = <<d>>]
<1>2. r.pc = "curated" /\ r.id.key = key BY DEF Idle
<1>3. UNCHANGED <<runs, audit, cands, skills>> BY DEF propose, Untouched
<1>4. proc' = [proc EXCEPT ![p] = r] BY <1>1
<1> HIDE DEF r
<1>5. Honest(r, audit, runs, cands) BY <1>2 DEF Honest
<1> QED BY Zenon, <1>3, <1>4, <1>5, GMoveOnly

\* run_regression up to the benchmark.
LEMMA RegressionGates ==
  ASSUME HInv, GInv, NEW p \in Procs, NEW id, run_regression(p, id)
  PROVE  GInv'
<1>1. id \in DOMAIN cands /\ UNCHANGED <<cands, runs, skills>> BY Zenon DEF run_regression, Ready
<1>2. CASE transition(p, Call("regression", id, "regression_failed"))
  <2> DEFINE r == Call("regression", id, "regression_failed")
  <2>1. r.op = "regression" /\ r.to = "regression_failed" BY DEF Call, Idle
  <2>2. ProcFields \subseteq DOMAIN r /\ r.id = id BY CallFields
  <2>3. transition(p, r) BY <1>2
  <2> HIDE DEF r
  <2>4. MayCall(r) BY <2>1 DEF MayCall
  <2> QED BY <1>1, <2>2, <2>3, <2>4, TransitionGates
<1>3. CASE Start(p, "regression", id, "benchmark", "") /\ UNCHANGED audit /\ _regression_binding(id.key) # {}
  <2> DEFINE r == [Idle EXCEPT !.pc = "benchmark", !.op = "regression", !.id = id, !.to = ""]
  <2>1. r.pc = "benchmark" /\ r.op = "regression" /\ r.id = id BY DEF Idle
  <2>2. proc' = [proc EXCEPT ![p] = r] /\ audit' = audit BY <1>3 DEF Start, Set
  <2> HIDE DEF r
  <2>3. Honest(r, audit, runs, cands) BY Zenon, <1>3, <2>1 DEF Honest
  <2> QED BY Zenon, <1>1, <2>2, <2>3, GMoveOnly
<1> QED BY Zenon, <1>2, <1>3 DEF run_regression

\* promote up to the lock of the skill: approval and regression have happened.
LEMMA PromoteGatesHold ==
  ASSUME HInv, GInv, NEW p \in Procs, NEW id, NEW b, promote(p, id, b)
  PROVE  GInv'
<1> DEFINE r == [Idle EXCEPT !.pc = "apply", !.op = "promote", !.id = id, !.to = "active"]
<1>1. r.pc = "apply" /\ r.id = id /\ r.op = "promote" /\ r.to = "active" BY DEF Idle
<1>2. proc' = [proc EXCEPT ![p] = r] BY DEF promote, Start, Set
<1>3. id \in DOMAIN cands /\ UNCHANGED <<runs, audit, cands, skills>> BY DEF promote, Ready, Untouched
<1>4. cands[id].approved /\ cands[id].regression = "passed" BY DEF promote, PromoteGates
<1>5. Earned(cands[id], id, audit) BY <1>3 DEF GInv
<1>6. Moved(audit, id, "approved") /\ Moved(audit, id, "regression_passed") /\ _regression_binding(id.key) # {}
  BY <1>4, <1>5 DEF Earned
<1>7. id \in DOMAIN audit
  <2>1. SUFFICES ASSUME id \notin DOMAIN audit PROVE FALSE OBVIOUS
  <2>2. LinesIn(audit, id) = <<>> BY <2>1 DEF LinesIn
  <2>3. Len(<<>>) = 0 /\ 1 .. 0 = {} BY SMTT(30)
  <2> QED BY <1>6, <2>2, <2>3 DEF Moved
<1> HIDE DEF r
<1>8. Honest(r, audit, runs, cands) BY SMTT(30), <1>1, <1>6, <1>7 DEF Honest, GoodIds
<1> QED BY ZenonT(30), <1>2, <1>3, <1>8, GMoveOnly

\* rollback_candidate up to the lock of the skill.
LEMMA RollbackGates ==
  ASSUME HInv, GInv, NEW p \in Procs, NEW id, rollback_candidate(p, id)
  PROVE  GInv'
<1> DEFINE r == [Idle EXCEPT !.pc = "restore", !.op = "rollback", !.id = id, !.to = "rolled_back",
                             !.content = cands[id].rollback[1]]
<1>1. r.pc = "restore" /\ r.op = "rollback" /\ r.to = "rolled_back" /\ r.content = cands[id].rollback[1]
  BY DEF Idle
<1>2. proc' = [proc EXCEPT ![p] = r] BY DEF rollback_candidate, Set
<1>3. id \in DOMAIN cands /\ UNCHANGED <<runs, audit, cands, skills>> /\ cands[id].rollback # <<>>
  BY DEF rollback_candidate, Ready, Untouched
<1>4. Clean(cands[id].rollback[1], audit) BY <1>3 DEF GInv, Earned
<1> HIDE DEF r
<1>5. Honest(r, audit, runs, cands) BY <1>1, <1>4 DEF Honest
<1> QED BY ZenonT(30), <1>2, <1>3, <1>5, GMoveOnly
\* record: the verdict is over the evaluations of different runs.
LEMMA ShadowGates ==
  ASSUME HInv, GInv, NEW p \in Procs, NEW id, NEW run \in DOMAIN runs, record(p, id, run)
  PROVE  GInv'
<1> DEFINE x == EvalOf(cands[id].draft, runs, run)
           evals == cands[id].evals \cup {x}
           c == [cands[id] EXCEPT !.evals = evals]
           r == [Idle EXCEPT !.pc = "shadow_write", !.op = "shadow", !.id = id, !.to = Verdict(evals),
                             !.copy = <<c>>]
<1>1. proc' = [proc EXCEPT ![p] = r] BY DEF record, Set, EvalOf
<1>2. id \in DOMAIN cands /\ UNCHANGED <<runs, audit, cands, skills>> BY DEF record, Ready, Untouched
<1>3. CandFields \subseteq DOMAIN cands[id] BY <1>2 DEF HInv, PointsAt
<1>4. Earned(cands[id], id, audit) /\ Evaluated(cands[id], runs) BY <1>2 DEF GInv
<1>5. x.run = run BY DEF EvalOf
<1>6. run \in 1 .. Len(runs) BY DEF GInv
<1> HIDE DEF x
<1>7. IsFiniteSet(evals) BY <1>4, FS_AddElement DEF Evaluated
<1>8. \A e \in evals : e.run \in 1 .. Len(runs) /\ e = EvalOf(cands[id].draft, runs, e.run)
  BY <1>4, <1>5, <1>6 DEF Evaluated, x
<1> HIDE DEF evals
<1>9. /\ c.evals = evals /\ c.draft = cands[id].draft /\ c.target = cands[id].target
      /\ c.approved = cands[id].approved /\ c.regression = cands[id].regression
      /\ c.rollback = cands[id].rollback
  BY <1>3 DEF CandFields
<1> HIDE DEF c
<1>10. Evaluated(c, runs) BY SMTT(30), <1>7, <1>8, <1>9 DEF Evaluated
<1>11. Earned(c, id, audit) BY <1>4, <1>9 DEF Earned
<1>12. Verdict(evals) = "shadow_passed" => TwoHelped(cands[id].draft, runs) BY <1>9, <1>10, VerdictTwo
<1>13. r.pc = "shadow_write" /\ r.id = id /\ r.to = Verdict(evals) /\ r.copy[1] = c BY SMTT(30) DEF Idle
<1> HIDE DEF r
<1>14. Honest(r, audit, runs, cands) BY <1>9, <1>10, <1>11, <1>12, <1>13 DEF Honest
<1> QED BY Zenon, <1>1, <1>2, <1>14, GMoveOnly

\* A new candidate file claims nothing.
LEMMA GenerateGates ==
  ASSUME HInv, GInv, NEW p \in Procs, _generate_candidate(p)
  PROVE  GInv'
<1> DEFINE id == proc[p].id
           c  == New(_target_skill(id.key), proc[p].content, proc[p].draft[1])
           r  == [Idle EXCEPT !.pc = "initialize", !.op = "propose", !.id = id, !.to = ""]
<1>1. UNCHANGED <<skills, runs, audit>> BY Zenon DEF _generate_candidate
<1>2. CASE id \in DOMAIN cands
  <2>1. cands' = cands /\ proc' = [proc EXCEPT ![p] = Idle] BY <1>2 DEF _generate_candidate, Set
  <2> QED BY Zenon, <1>1, <2>1, IdleHonest, GMoveOnly
<1>3. CASE id \notin DOMAIN cands
  <2>1. cands' = WithFile(cands, id, c) /\ proc' = [proc EXCEPT ![p] = r]
    BY SMTT(30), <1>3 DEF _generate_candidate, Start, Set
  <2>2. c.target = _target_skill(id.key) /\ ~c.approved /\ c.regression = "" /\ c.rollback = <<>> /\ c.evals = {}
    BY DEF New
  <2>3. r.pc = "initialize" /\ r.op = "propose" BY SMTT(30) DEF Idle
  <2>4. id.key \in Keys BY Zenon DEF GInv, Honest, _generate_candidate
  <2> HIDE DEF c, r, id
  <2>5. DOMAIN cands' = DOMAIN cands \cup {id} /\ cands'[id] = c BY <2>1 DEF WithFile
  <2>6. \A y \in DOMAIN cands : cands'[y] = cands[y] BY <1>3, <2>1 DEF WithFile
  <2>7. Earned(c, id, audit) BY Zenon, <2>2, <2>4, EvolutionAssumption DEF Earned
  <2>8. Evaluated(c, runs) BY Zenon, <2>2, FS_EmptySet DEF Evaluated
  <2>9. ~Moved(audit, id, "shadow_passed")
    <3>1. id \notin DOMAIN audit BY <1>3 DEF GInv
    <3>2. LinesIn(audit, id) = <<>> BY <3>1 DEF LinesIn
    <3>3. Len(<<>>) = 0 /\ 1 .. 0 = {} BY SMTT(30)
    <3> QED BY <3>2, <3>3 DEF Moved
  <2>10. \A y \in DOMAIN cands' : Earned(cands'[y], y, audit') /\ Evaluated(cands'[y], runs)
    BY SMTT(30), <1>1, <2>5, <2>6, <2>7, <2>8 DEF GInv
  <2>11. \A y \in DOMAIN cands' : Moved(audit', y, "shadow_passed") => TwoHelped(cands'[y].draft, runs)
    BY SMTT(30), <1>1, <2>5, <2>6, <2>9 DEF GInv
  <2>12. Honest(r, audit', runs, cands') BY <2>3 DEF Honest
  <2>13. Grows(audit, audit') BY SMTT(30), <1>1, SameGrows
  <2>14. /\ DOMAIN audit' \subseteq DOMAIN cands' /\ DOMAIN cands \subseteq DOMAIN cands'
         /\ DOMAIN skills' = Targets /\ \A s \in Targets : Clean(skills'[s], audit')
    BY <1>1, <2>5 DEF GInv
  <2>15. \A y \in DOMAIN cands : cands'[y].draft = cands[y].draft BY <2>6
  <2> QED BY Zenon, <1>1, <2>1, <2>10, <2>11, <2>12, <2>13, <2>14, <2>15, GMove
<1> QED BY <1>2, <1>3

\* The first event is the creation.
LEMMA InitializeGates ==
  ASSUME HInv, GInv, NEW p \in Procs, initialize(p)
  PROVE  GInv'
<1> DEFINE now == cands[proc[p].id]
<1>1. ProcFields \subseteq DOMAIN proc[p] /\ ProcOK(proc[p], audit, DOMAIN cands) BY StateOf
<1>2. proc[p].id \in DOMAIN cands BY Zenon, <1>1 DEF ProcOK, initialize
<1>3. PointsAt(now, LinesIn(audit, proc[p].id)) BY <1>2 DEF HInv
<1>4. UNCHANGED <<cands, runs, skills>> BY ZenonT(30) DEF initialize
<1>5. Earned(now, proc[p].id, audit) /\ Evaluated(now, runs) BY <1>2 DEF GInv
<1>6. CASE now.last # 0
  <2> DEFINE r == [proc[p] EXCEPT !.pc = "write", !.copy = <<now>>]
  <2>1. audit' = audit /\ proc' = [proc EXCEPT ![p] = r] BY <1>6 DEF initialize, Set
  <2>2. r.pc = "write" /\ r.id = proc[p].id /\ r.copy[1] = now BY <1>1 DEF ProcFields
  <2> HIDE DEF r
  <2>3. Honest(r, audit, runs, cands) BY <1>5, <2>2 DEF Honest
  <2> QED BY ZenonT(30), <1>4, <2>1, <2>3, GMoveOnly
<1>7. CASE now.last = 0
  <2>1. now.status = "proposed" BY <1>3, <1>7 DEF PointsAt
  <2>2. PICK from : _record(p, proc[p], now, from, now.status) /\ Follows(now, from, now.status)
    BY Zenon, <1>7, <2>1 DEF initialize, Follows
  <2>3. Earning(now, proc[p].id, audit, now.status) BY ZenonT(30), <1>5, <2>1 DEF Earned, Earning
  <2>4. now.draft = cands[proc[p].id].draft OBVIOUS
  <2> HIDE DEF now
  <2> QED BY ZenonT(30), <1>1, <1>2, <1>3, <1>4, <1>5, <2>1, <2>2, <2>3, <2>4, RecordGates
<1> QED BY <1>6, <1>7

\* write_json and shadow_write: the copy replaces the candidate file.
LEMMA WriteGates ==
  ASSUME HInv, GInv, NEW p \in Procs, proc[p].pc \in {"write", "shadow_write"},
         cands' = [cands EXCEPT ![proc[p].id] = proc[p].copy[1]], UNCHANGED <<runs, audit, skills>>,
         NEW r, proc' = [proc EXCEPT ![p] = r], Honest(r, audit, runs, cands)
  PROVE  GInv'
<1> DEFINE id == proc[p].id
           c  == proc[p].copy[1]
<1>1. id \in DOMAIN cands BY StateOf DEF ProcOK
<1>2. Honest(proc[p], audit, runs, cands) BY DEF GInv
<1>3. Earned(c, id, audit) /\ Evaluated(c, runs) /\ c.draft = cands[id].draft BY ZenonT(30), <1>2 DEF Honest
<1>4. cands' = [cands EXCEPT ![id] = c] OBVIOUS
<1> HIDE DEF id, c
<1> QED BY ZenonT(30), <1>1, <1>3, <1>4, GMoveCand
\* Onto a clean skill goes only a good candidate.
LEMMA ApplyGates ==
  ASSUME HInv, GInv, NEW p \in Procs, apply_candidate(p)
  PROVE  GInv'
<1> DEFINE id  == proc[p].id
           raw == skills[cands[id].target]
           r   == [proc[p] EXCEPT !.pc = "transition", !.content = raw]
           new == IF id \in Range(raw) THEN raw ELSE Append(raw, id)
<1>1. UNCHANGED <<runs, cands, audit>> BY DEF apply_candidate
<1>2. ProcFields \subseteq DOMAIN proc[p] /\ id \in DOMAIN cands BY SMTT(30), StateOf DEF ProcOK, apply_candidate
<1>3. Honest(proc[p], audit, runs, cands) BY Zenon DEF GInv
<1>4. proc[p].op = "promote" /\ proc[p].to = "active" /\ id \in GoodIds(audit)
  BY SMTT(30), <1>3 DEF Honest, apply_candidate
<1>5. cands[id].target \in Targets BY SMTT(30), <1>2 DEF GInv, Earned
<1>6. Clean(raw, audit) BY <1>5 DEF GInv
<1>7. CASE skills' = skills /\ proc' = [proc EXCEPT ![p] = Idle] BY Zenon, <1>1, <1>7, IdleHonest, GMoveOnly
<1>8. CASE skills' = [skills EXCEPT ![cands[id].target] = new] /\ proc' = [proc EXCEPT ![p] = r]
  <2>1. Clean(new, audit)
    <3>1. Clean(Append(raw, id), audit)
      <4> HIDE DEF raw, id
      <4> QED BY <1>4, <1>6 DEF Clean
    <3> QED BY <1>6, <3>1
  <2>2. r.pc = "transition" /\ r.op = "promote" /\ r.to = "active" /\ r.content = raw
    BY SMTT(30), <1>2, <1>4 DEF ProcFields
  <2> HIDE DEF r, new
  <2>3. DOMAIN skills' = Targets /\ \A s \in Targets : Clean(skills'[s], audit')
    BY SMTT(30), <1>1, <1>5, <1>8, <2>1 DEF GInv
  <2>4. Honest(r, audit, runs, cands) BY <1>6, <2>2 DEF Honest
  <2> QED BY Zenon, <1>1, <1>8, <2>3, <2>4, GMoveSkill
<1> QED BY <1>7, <1>8 DEF apply_candidate, Set

\* What is restored was in the skill before.
LEMMA RestoreGates ==
  ASSUME HInv, GInv, NEW p \in Procs, restore(p)
  PROVE  GInv'
<1> DEFINE id == proc[p].id
           r  == [proc[p] EXCEPT !.pc = "transition", !.content = <<>>]
           s0 == cands[id].target
           new == proc[p].content
<1>1. UNCHANGED <<runs, cands, audit>> BY DEF restore
<1>2. ProcFields \subseteq DOMAIN proc[p] /\ id \in DOMAIN cands BY StateOf DEF ProcOK, restore
<1>3. Honest(proc[p], audit, runs, cands) BY DEF GInv
<1>4. proc[p].op = "rollback" /\ proc[p].to = "rolled_back" /\ Clean(new, audit) BY <1>3 DEF Honest, restore
<1>5. s0 \in Targets BY <1>2 DEF GInv, Earned
<1>6. skills' = [skills EXCEPT ![s0] = new] /\ proc' = [proc EXCEPT ![p] = r] BY DEF restore, Set
<1>7. r.pc = "transition" /\ r.op = "rollback" /\ r.to = "rolled_back" BY SMTT(30), <1>2, <1>4 DEF ProcFields
<1> HIDE DEF r, new, s0
<1>8. DOMAIN skills' = Targets /\ \A s \in Targets : Clean(skills'[s], audit')
  BY SMTT(30), <1>1, <1>4, <1>5, <1>6 DEF GInv
<1>9. Honest(r, audit, runs, cands) BY <1>7 DEF Honest
<1> QED BY ZenonT(30), <1>1, <1>6, <1>8, <1>9, GMoveSkill

\* The later steps of a command.
LEMMA StepGates ==
  ASSUME HInv, GInv, NEW p \in Procs, Step(p)
  PROVE  GInv'
<1>0. ProcFields \subseteq DOMAIN proc[p] /\ ProcOK(proc[p], audit, DOMAIN cands) BY StateOf
<1>00. Honest(proc[p], audit, runs, cands) BY DEF GInv
<1>1. CASE Transition(p)
  <2>1. proc[p].id \in DOMAIN cands BY <1>0, <1>1 DEF ProcOK, Transition
  <2>2. transition(p, proc[p]) /\ UNCHANGED <<cands, runs, skills>> BY SMTT(30), <1>1 DEF Transition
  <2>3. MayCall(proc[p]) BY Zenon, <1>00, <1>1 DEF Honest, MayCall, Transition
  <2> QED BY SMTT(30), <1>0, <2>1, <2>2, <2>3, TransitionGates
<1>2. CASE initialize(p) BY <1>2, InitializeGates
<1>3. CASE write_json(p)
  <2>1. /\ cands' = [cands EXCEPT ![proc[p].id] = proc[p].copy[1]] /\ UNCHANGED <<runs, audit, skills>>
        /\ proc' = [proc EXCEPT ![p] = Idle] /\ proc[p].pc \in {"write", "shadow_write"}
    BY <1>3 DEF write_json, Set
  <2> QED BY Zenon, <2>1, IdleHonest, WriteGates
<1>4. CASE _generate_candidate(p) BY <1>4, GenerateGates
<1>5. CASE benchmark(p)
  <2>1. PICK to \in {"regression_passed", "regression_failed"} : transition(p, [proc[p] EXCEPT !.to = to])
    BY <1>5 DEF benchmark
  <2>2. proc[p].id \in DOMAIN cands /\ UNCHANGED <<cands, runs, skills>> BY <1>0, <1>5 DEF ProcOK, benchmark
  <2>3. proc[p].op = "regression" /\ _regression_binding(proc[p].id.key) # {} BY <1>00, <1>5 DEF Honest, benchmark
  <2> DEFINE r == [proc[p] EXCEPT !.to = to]
  <2>4. ProcFields \subseteq DOMAIN r /\ r.id = proc[p].id /\ r.op = proc[p].op /\ r.to = to
    BY <1>0 DEF ProcFields
  <2>5. transition(p, r) BY <2>1
  <2> HIDE DEF r
  <2>6. MayCall(r) BY <2>1, <2>3, <2>4 DEF MayCall
  <2> QED BY <2>2, <2>4, <2>5, <2>6, TransitionGates
<1>6. CASE shadow_write(p)
  <2> DEFINE r == [Idle EXCEPT !.pc = "transition", !.op = "shadow", !.id = proc[p].id, !.to = proc[p].to]
  <2>1. /\ cands' = [cands EXCEPT ![proc[p].id] = proc[p].copy[1]] /\ UNCHANGED <<runs, audit, skills>>
        /\ proc[p].pc = "shadow_write"
    BY Zenon, <1>6 DEF shadow_write
  <2>2. r.pc = "transition" /\ r.id = proc[p].id /\ r.op = "shadow" /\ r.to = proc[p].to BY DEF Idle
  <2>3. proc' = [proc EXCEPT ![p] = Idle] \/ proc' = [proc EXCEPT ![p] = r]
    BY ZenonT(30), <1>6 DEF shadow_write, Start, Set
  <2> HIDE DEF r
  <2>4. Honest(r, audit, runs, cands) BY ZenonT(30), <1>00, <2>1, <2>2 DEF Honest
  <2>5. CASE proc' = [proc EXCEPT ![p] = Idle] BY Zenon, <2>1, <2>5, IdleHonest, WriteGates
  <2>6. CASE proc' = [proc EXCEPT ![p] = r] BY Zenon, <2>1, <2>4, <2>6, WriteGates
  <2> QED BY SMTT(30), <2>3, <2>5, <2>6
<1>7. CASE apply_candidate(p) BY <1>7, ApplyGates
<1>8. CASE restore(p) BY <1>8, RestoreGates
<1> QED BY SMTT(30), <1>1, <1>2, <1>3, <1>4, <1>5, <1>6, <1>7, <1>8 DEF Step

\* The first step of a command.
LEMMA CommandGates ==
  ASSUME HInv, GInv, NEW p \in Procs, Command(p)
  PROVE  GInv'
<1>1. ASSUME NEW key \in Keys, propose(p, key) PROVE GInv' BY <1>1, ProposeGates
<1>2. ASSUME NEW id, approve(p, id) \/ reject(p, id) PROVE GInv'
  BY <1>2, DecideGates DEF approve, reject
<1>3. ASSUME NEW id, run_regression(p, id) PROVE GInv' BY <1>3, RegressionGates
<1>4. ASSUME NEW id, rollback_candidate(p, id) PROVE GInv' BY <1>4, RollbackGates
<1>5. ASSUME NEW id, NEW b, promote(p, id, b) PROVE GInv' BY <1>5, PromoteGatesHold
<1>6. ASSUME NEW id, NEW run \in DOMAIN runs, record(p, id, run) PROVE GInv' BY <1>6, ShadowGates
<1> QED BY <1>1, <1>2, <1>3, <1>4, <1>5, <1>6 DEF Command
\* A deployment that ends changes no verdict on the earlier ones.
LEMMA RunsGrow ==
  ASSUME NEW S, NEW reps \in Seq(S), NEW rep \in S
  PROVE  LET new == Append(reps, rep) IN
         /\ new \in Seq(S)
         /\ \A d : TwoHelped(d, reps) => TwoHelped(d, new)
         /\ \A c : Evaluated(c, reps) => Evaluated(c, new)
<1> DEFINE new == Append(reps, rep)
<1>1. new \in Seq(S) /\ Len(new) = Len(reps) + 1 /\ Len(reps) \in Nat BY AppendFacts
<1>2. \A n \in 1 .. Len(reps) : new[n] = reps[n] BY AppendOld
<1> HIDE DEF new
<1>3. \A n \in 1 .. Len(reps) : n \in 1 .. Len(new)
  <2>1. Len(reps) <= Len(new) /\ Len(new) \in Nat BY <1>1, Grown
  <2> QED BY <1>1, <2>1, IndexGrows
<1>4. ASSUME NEW d, TwoHelped(d, reps) PROVE TwoHelped(d, new) BY <1>2, <1>3, <1>4 DEF TwoHelped
<1>5. ASSUME NEW c, Evaluated(c, reps) PROVE Evaluated(c, new)
  BY SMTT(30), <1>2, <1>3, <1>5 DEF Evaluated, EvalOf
<1> QED BY <1>1, <1>4, <1>5 DEF new

\* finalize_learning.
LEMMA LearningGates ==
  ASSUME GInv, finalize_learning
  PROVE  GInv'
<1> DEFINE S == UNION Range(Deployments)
           n == Len(runs) + 1
<1>1. runs \in Seq(S) BY SMTT(30) DEF GInv
<1>2. PICK rep \in Deployments[n] : runs' = Append(runs, rep) BY Zenon DEF finalize_learning
<1>3. Len(runs) \in Nat /\ Len(runs) < Len(Deployments) BY <1>1 DEF finalize_learning
<1>4. rep \in S
  <2>1. Deployments \in Seq(Range(Deployments)) BY EvolutionAssumption
  <2>2. Len(Deployments) \in Nat /\ DOMAIN Deployments = 1 .. Len(Deployments) BY <2>1
  <2>3. n \in DOMAIN Deployments BY <1>3, <2>2
  <2>4. Deployments[n] \in Range(Deployments) BY <2>3 DEF Range
  <2> QED BY <1>2, <2>4
<1> HIDE DEF S, n
<1>5. /\ runs' \in Seq(S)
      /\ \A d : TwoHelped(d, runs) => TwoHelped(d, runs')
      /\ \A c : Evaluated(c, runs) => Evaluated(c, runs')
  BY <1>1, <1>2, <1>4, RunsGrow
<1>6. UNCHANGED <<skills, cands, audit, proc>> BY SMTT(30) DEF finalize_learning
<1>7. \A p \in Procs : Honest(proc[p], audit, runs', cands) BY Zenon, <1>5 DEF GInv, Honest
<1> QED BY SMTT(30), <1>5, <1>6, <1>7 DEF GInv, S

\* Every step preserves the invariant of the gates.
LEMMA NextGates == HInv /\ GInv /\ [Next]_vars => GInv'
<1> SUFFICES ASSUME HInv, GInv, [Next]_vars PROVE GInv' BY SMTT(30)
<1>1. CASE UNCHANGED <<skills, runs, cands, audit, proc>> BY Zenon, <1>1 DEF GInv
<1>2. CASE finalize_learning BY <1>2, LearningGates
<1>3. CASE _relearn BY <1>1, <1>3 DEF _relearn
<1>4. ASSUME NEW p \in Procs, Command(p) PROVE GInv' BY <1>4, CommandGates
<1>5. ASSUME NEW p \in Procs, Step(p) PROVE GInv' BY <1>5, StepGates
<1>6. ASSUME NEW p \in Procs, Crash(p) PROVE GInv'
  <2>1. proc' = [proc EXCEPT ![p] = Idle] /\ UNCHANGED <<runs, audit, cands, skills>> BY <1>6 DEF Crash, Set
  <2> QED BY Zenon, <2>1, IdleHonest, GMoveOnly
<1>7. CASE UNCHANGED vars BY <1>1, <1>7 DEF vars
<1> QED BY <1>2, <1>3, <1>4, <1>5, <1>6, <1>7 DEF Next

\* The initial state satisfies it.
LEMMA InitGates == Init => GInv
<1> SUFFICES ASSUME Init PROVE GInv OBVIOUS
<1>1. DOMAIN audit = {} /\ DOMAIN cands = {} BY DEF Init, None
<1>2. \A p \in Procs : proc[p] = Idle BY DEF Init
<1>3. DOMAIN skills = Targets /\ \A s \in Targets : skills[s] = <<>> BY DEF Init
<1>4. ASSUME NEW s \in Targets PROVE Clean(skills[s], audit)
  <2>1. \A S : <<>> \in Seq(S) OBVIOUS
  <2> QED BY Zenon, <1>3, <2>1 DEF Clean
<1>5. runs \in Seq(UNION Range(Deployments)) BY DEF Init
<1> QED BY <1>1, <1>2, <1>3, <1>4, <1>5, IdleHonest DEF GInv

\* Two helped runs are two of the helped runs.
LEMMA CountHelped ==
  ASSUME NEW S, NEW reps \in Seq(S), NEW d, TwoHelped(d, reps)
  PROVE  Cardinality({r \in DOMAIN reps : Helps(d, reps[r])}) >= 2
<1> DEFINE H == {r \in DOMAIN reps : Helps(d, reps[r])}
<1>1. DOMAIN reps = 1 .. Len(reps) /\ Len(reps) \in Nat OBVIOUS
<1>2. PICK m, n \in 1 .. Len(reps) : m # n /\ Helps(d, reps[m]) /\ Helps(d, reps[n]) BY DEF TwoHelped
<1>3. IsFiniteSet(DOMAIN reps) BY <1>1, FS_Interval
<1>4. H \in SUBSET DOMAIN reps OBVIOUS
<1>5. {m} \cup {n} \in SUBSET H BY <1>1, <1>2
<1> HIDE DEF H
<1>6. IsFiniteSet(H) BY <1>3, <1>4, FS_Subset
<1>7. IsFiniteSet({m}) /\ Cardinality({m}) = 1 BY Zenon, FS_Singleton
<1>8. Cardinality({m} \cup {n}) = 2
  <2>1. n \notin {m} BY <1>2
  <2>2. Cardinality({m} \cup {n}) = Cardinality({m}) + 1 BY Zenon, <1>7, <2>1, FS_AddElement
  <2>3. \A k : k = 1 => k + 1 = 2 OBVIOUS
  <2> QED BY <1>7, <2>2, <2>3
<1>9. Cardinality({m} \cup {n}) <= Cardinality(H) BY <1>5, <1>6, FS_Subset
<1>10. Cardinality(H) \in Nat BY <1>6, FS_CardinalityType
<1>11. Cardinality(H) >= 2 BY SMTT(30), <1>8, <1>9, <1>10
<1> QED BY <1>11 DEF H

\* The invariant gives the property.
LEMMA GatesFromInv == HInv /\ GInv => GatesHeld
<1> SUFFICES ASSUME HInv, GInv PROVE GatesHeld OBVIOUS
<1>1. ASSUME NEW id, NEW to PROVE Moved(audit, id, to) <=> Happened(id, to)
  <2>1. Lines(id) = LinesIn(audit, id) BY DEF Lines, LinesIn
  <2>2. Lines(id) \in Seq(Line) BY <2>1, LinesOK, FileFacts
  <2> HIDE DEF Lines
  <2>3. DOMAIN Lines(id) = 1 .. Len(Lines(id)) BY <2>2
  <2> QED BY <2>1, <2>3 DEF Moved, Happened
<1>2. ASSUME NEW s \in DOMAIN skills, NEW id \in Range(skills[s])
      PROVE  /\ Happened(id, "approved") /\ Happened(id, "regression_passed")
             /\ _regression_binding(id.key) # {}
  <2>1. Clean(skills[s], audit) BY DEF GInv
  <2>2. skills[s] \in Seq(GoodIds(audit)) BY <2>1 DEF Clean
  <2>3. PICK i \in DOMAIN skills[s] : id = skills[s][i] BY DEF Range
  <2>4. id \in GoodIds(audit) BY <2>2, <2>3
  <2> QED BY SMTT(30), <1>1, <2>4 DEF GoodIds
<1>3. ASSUME NEW id \in DOMAIN cands, Happened(id, "shadow_passed")
      PROVE  Cardinality({r \in DOMAIN runs : Helps(cands[id].draft, runs[r])}) >= 2
  <2>1. TwoHelped(cands[id].draft, runs) BY SMTT(30), <1>1, <1>3 DEF GInv
  <2>2. runs \in Seq(UNION Range(Deployments)) BY DEF GInv
  <2> QED BY SMTT(30), <2>1, <2>2, CountHelped
<1> QED BY <1>2, <1>3 DEF GatesHeld

\* For any number of processes, deployments, drafts and crashes, a patch is in a
\* skill only after its candidate was approved and its bound regression cases
\* passed, and no candidate passes the shadow gate on fewer than two different
\* runs it would have helped: neither a lost update of the unlocked candidate
\* file nor a rollback to an older copy brings an ungated patch back
\* (memory/evolution.py: promote, rollback_candidate; memory/shadow.py: record).
THEOREM GatesAlwaysHeld == Spec => []GatesHeld
<1>1. Init => HInv /\ GInv BY InitKeeps, InitGates
<1>2. (HInv /\ GInv) /\ [Next]_vars => (HInv /\ GInv)' BY NextKeeps, NextGates
<1>3. HInv /\ GInv => GatesHeld BY GatesFromInv
<1> QED BY <1>1, <1>2, <1>3, PTL DEF Spec
=============================================================================
