---------------------------- MODULE Walkthrough ----------------------------
(***************************************************************************)
(* skills/walkthrough/scripts/walkthrough-state.py (and its copy under      *)
(* skills/qa, kept identical by a test): the parser of a checklist and the  *)
(* commands that keep the state of a run in a file, so that the agent only  *)
(* classifies assertions.                                                   *)
(*                                                                          *)
(* A checklist is a sequence of lines [kind, id, ids]: headings and         *)
(* assertions carry an id, prerequisite lines a set of ids.  The checklist  *)
(* may be edited between two commands.                                      *)
(***************************************************************************)
EXTENDS Integers, Sequences, FiniteSets, SequencesExt, FiniteSetsExt, TLC

CONSTANTS
  Lines,           \* lines a draft of a checklist is put together from
  MaxLines,        \* length of a draft
  Editions,        \* sequence of checklists, each a sequence of lines
  StepIds, SectionIds,
  RunScopes,       \* values of RUN_SCOPE
  MaxResults,      \* results given to one record command
  MaxRecords       \* commands of one behaviour

LineTypes ==
  [kind : {"section", "step", "prereq", "note", "assertion", "fence", "text"},
   id : STRING, ids : SUBSET (StepIds \cup SectionIds)]

ASSUME WalkthroughAssumption ==
  /\ MaxLines \in Nat /\ MaxResults \in Nat /\ MaxRecords \in Nat
  /\ Lines \subseteq LineTypes /\ Editions \in Seq(Seq(LineTypes))

VARIABLES
  drafted,   \* lines of a checklist being written
  edition,   \* the edition the commands read
  state,     \* the state file
  reported,  \* the last report
  ranIn,     \* the run in which a step was last recorded
  commands   \* commands so far

walkthroughVars == <<drafted, edition, state, reported, ranIn, commands>>

NoScope == "none"
Results == {"pass", "fail", "skip"}
NoFile == [schema |-> 0, of |-> 0, at |-> "none", scope |-> NoScope, steps |-> <<>>, passed |-> {}]
NoReport == [clean |-> FALSE, complete |-> FALSE, counted |-> 0, expected |-> 0]

----------------------------------------------------------------------------
(* The parser, line by line.  secs and steps are what has been     *)
(* read, pending the prerequisites waiting for their section.               *)

NewStep(id, section) ==
  [id |-> id, section |-> section, prereqs |-> {}, notes |-> {}, assertions |-> <<>>, code |-> FALSE,
   body |-> FALSE]

Scan0 == [ok |-> TRUE, fence |-> FALSE, pending |-> {}, secs |-> <<>>, steps |-> <<>>, in |-> FALSE]

Upd(scan, step) == [scan EXCEPT !.steps[Len(scan.steps)] = step]

(* The lines right below the heading of a step are its annotations.         *)
InAnnotations(scan) ==
  /\ scan.in
  /\ LET s == Last(scan.steps) IN ~s.body /\ ~s.code /\ s.assertions = <<>>

\* Mutant: only the nearest prerequisite line counts.
NewestPending(scan, line) == line.ids

(* Several prerequisite lines may stand above one section. *)
Pending(scan, line) == scan.pending \cup line.ids

OnPrereq(scan, line, next) ==
  IF InAnnotations(scan)
  THEN Upd(scan, [Last(scan.steps) EXCEPT !.prereqs = @ \cup line.ids])
  ELSE IF next \in {"prereq", "section"}
       THEN [scan EXCEPT !.pending = Pending(scan, line)]
       ELSE [scan EXCEPT !.ok = FALSE]

OnFence(scan) ==
  LET s == [scan EXCEPT !.fence = ~@]
  IN  IF ~scan.fence /\ scan.in THEN Upd(s, [Last(scan.steps) EXCEPT !.code = TRUE]) ELSE s

OnHeading(scan, line) ==
  IF line.kind = "section"
  THEN [scan EXCEPT !.secs = Append(@, [id |-> line.id, prereqs |-> scan.pending]),
                    !.pending = {}, !.in = FALSE]
  ELSE [scan EXCEPT !.in = TRUE,
                    !.steps = Append(@, NewStep(line.id, IF scan.secs = <<>> THEN "none" ELSE Last(scan.secs).id))]

OnBody(scan, line) ==
  IF ~scan.in THEN scan
  ELSE LET s == Last(scan.steps)
       IN  IF line.kind = "assertion" THEN Upd(scan, [s EXCEPT !.assertions = Append(@, line.id)])
           ELSE IF line.kind = "note" /\ ~s.code /\ s.assertions = <<>>
           THEN Upd(scan, [s EXCEPT !.notes = @ \cup {line.id}])
           ELSE Upd(scan, [s EXCEPT !.body = TRUE])

ScanLine(lines, scan, i) ==
  LET line == lines[i]
      next == IF i < Len(lines) THEN lines[i + 1].kind ELSE "end"
  IN  IF ~scan.ok THEN scan
      ELSE IF line.kind = "fence" THEN OnFence(scan)
      ELSE IF scan.fence THEN scan
      ELSE IF line.kind = "prereq" THEN OnPrereq(scan, line, next)
      ELSE IF line.kind \in {"section", "step"} THEN OnHeading(scan, line)
      ELSE OnBody(scan, line)

ParseChecklist(lines) ==
  LET scan[n \in 0..Len(lines)] == IF n = 0 THEN Scan0 ELSE ScanLine(lines, scan[n - 1], n)
  IN  scan[Len(lines)]

----------------------------------------------------------------------------
(* The parsed editions, and what the commands look up in them. *)

Parsed == [e \in DOMAIN Editions |-> ParseChecklist(Editions[e])]
Checklist == Parsed[edition]

Steps(list) == ToSet(list.steps)
Ids(list) == {s.id : s \in Steps(list)}
Sections(list) == {s.id : s \in ToSet(list.secs)}
FindStep(list, id) == list.steps[Min({i \in DOMAIN list.steps : list.steps[i].id = id})]
StepsOf(list, sec) == {s.id : s \in {t \in Steps(list) : t.section = sec}}
SectionPrereqs(list, sec) == UNION {s.prereqs : s \in {t \in ToSet(list.secs) : t.id = sec}}
Index(list, id) == Min({i \in DOMAIN list.steps : list.steps[i].id = id})
NextOf(list, id) ==
  LET i == Index(list, id) IN IF i < Len(list.steps) THEN list.steps[i + 1].id ELSE "none"
Total(counts) == FoldLeft(LAMBDA n, count : n + count, 0, counts)
Expected(list) == Total([k \in DOMAIN list.steps |-> Len(list.steps[k].assertions)])
RecordedResults(list, st) ==
  Total([k \in DOMAIN list.steps |->
           IF list.steps[k].id \in DOMAIN st.steps THEN Len(st.steps[list.steps[k].id].results) ELSE 0])

(* What the script takes for granted of a checklist it parsed, and the two  *)
(* checklists of the project have: steps, each in a section and with an id  *)
(* of its own.                                                              *)
ASSUME EditionsAssumption ==
  /\ Editions # <<>> /\ "none" \notin StepIds
  /\ \A e \in DOMAIN Editions :
       LET list == Parsed[e]
       IN  /\ list.ok /\ list.steps # <<>>
           /\ Ids(list) \subseteq StepIds /\ Sections(list) \subseteq SectionIds
           /\ \A s \in Steps(list) : s.section \in Sections(list)
           /\ \A j, k \in DOMAIN list.steps : list.steps[j].id = list.steps[k].id => j = k

TitleHash(step) == [id |-> step.id, notes |-> {}, assertions |-> <<>>]

(* The hash of a step covers its annotation and its assertions, not the     *)
(* code and the instructions.  The notes stand for the annotation that says *)
(* how it is executed, and the id for the title too.                        *)
StepHash(step) == [id |-> step.id, notes |-> step.notes, assertions |-> step.assertions]

NoHash == [id |-> "none", notes |-> {}, assertions |-> <<>>]

----------------------------------------------------------------------------
(* The state file: steps is a partial function from step ids to records.    *)

Recorded == DOMAIN state.steps

\* Mutant: records of other runs count.
OfAnyRun(rec, scope) == TRUE

(* A section in a run: a record of another run makes it stale, a missing    *)
(* one not run.                                                             *)
OfThisRun(rec, scope) == scope # NoScope => rec.scope = scope

SectionStatus(list, st, sec) ==
  LET ids == StepsOf(list, sec)
      have == ids \cap DOMAIN st.steps
      results == UNION {ToSet(st.steps[i].results) : i \in have}
  IN  IF \E i \in have : ~OfThisRun(st.steps[i], st.scope) THEN "stale_run"
      ELSE IF have # ids THEN "not_run"
      ELSE IF "fail" \in results THEN "failed"
      ELSE IF have # {} /\ results \subseteq {"skip"} THEN "skipped"
      ELSE "passed"

StepStatus(st, id) ==
  IF id \notin DOMAIN st.steps THEN "not_run"
  ELSE LET rec == st.steps[id]
       IN  IF ~OfThisRun(rec, st.scope) THEN "stale_run"
           ELSE IF "fail" \in ToSet(rec.results) THEN "failed"
           ELSE IF rec.results # <<>> /\ ToSet(rec.results) = {"skip"} THEN "skipped"
           ELSE "passed"

(* SECTION_<id>_STATUS, recomputed by the commands that change records.     *)
Refreshed(list, st) ==
  [st EXCEPT !.passed = {sec \in Sections(list) : SectionStatus(list, st, sec) = "passed"}]

\* Mutant: steps of another checklist are trusted.
TrustedAnyhow(st) == TRUE

(* A version 1 file has one hash for the whole checklist: its steps are     *)
(* trusted only if that is still the checklist.                             *)
Trusted(st) == st.of = edition

Migrated(list, st) ==
  IF st.schema # 1 THEN st
  ELSE [st EXCEPT !.schema = 2,
          !.steps = [i \in DOMAIN @ |->
             [@[i] EXCEPT !.hash = IF Trusted(st) /\ i \in Ids(list) THEN StepHash(FindStep(list, i)) ELSE NoHash]]]
----------------------------------------------------------------------------
(* The commands.  Each reads the checklist and the file anew. *)

Runs(upd) ==
  /\ commands < MaxRecords /\ commands' = commands + 1
  /\ state' = upd
  /\ UNCHANGED <<drafted, edition>>

Initialise(force) ==
  /\ state = NoFile \/ force
  /\ Runs([NoFile EXCEPT !.schema = 2, !.of = edition, !.at = Checklist.steps[1].id])
  /\ ranIn' = [i \in StepIds |-> NoScope]
  /\ UNCHANGED reported

FitsOrFewer(results, step) == Len(results) <= Len(step.assertions)

(* Only as many results as the step has assertions are taken, and one is    *)
(* always given: an empty list of codes is the list of one empty code.      *)
Fits(results, step) == results # <<>> /\ Len(results) = Len(step.assertions)

RecordStep(id, results, force) ==
  /\ state # NoFile
  /\ LET st == Migrated(Checklist, state)
         step == FindStep(Checklist, id)
     IN  /\ id \in DOMAIN st.steps => force
         /\ Fits(results, step)
         /\ Runs(Refreshed(Checklist,
                   [st EXCEPT !.steps = [i \in (DOMAIN @) \cup {id} |->
                                           IF i = id THEN [results |-> results, hash |-> StepHash(step), scope |-> st.scope]
                                           ELSE @[i]],
                              !.at = NextOf(Checklist, id)]))
         /\ ranIn' = [ranIn EXCEPT ![id] = st.scope]
  /\ UNCHANGED reported

(* var set RUN_SCOPE: a new container, a new run.  The section variables    *)
(* are left as they are.                                                    *)
SetScope(scope) ==
  /\ state # NoFile /\ scope # state.scope
  /\ scope \notin {ranIn[i] : i \in StepIds}
  /\ Runs([state EXCEPT !.scope = scope])
  /\ UNCHANGED <<reported, ranIn>>

(* validate --from: what is recorded at or after the resume point is        *)
(* cleared, and what the checklist no longer has.                           *)
Ahead(list, from) == {i \in Ids(list) : Index(list, i) >= Index(list, from)}

ValidateFrom(from) ==
  /\ state # NoFile
  /\ LET st == Migrated(Checklist, state)
         stay == (DOMAIN st.steps \cap Ids(Checklist)) \ Ahead(Checklist, from)
     IN  Runs(Refreshed(Checklist, [st EXCEPT !.steps = [i \in stay |-> @[i]], !.at = from]))
  /\ UNCHANGED <<reported, ranIn>>

(* A report warns of steps that changed, were never verified or are gone. *)
Warned(list, st) ==
  \E i \in DOMAIN st.steps :
    i \notin Ids(list) \/ st.steps[i].hash # StepHash(FindStep(list, i))

(* report: a version 1 file is migrated and saved. *)
ReportRun ==
  /\ state # NoFile
  /\ LET st == Migrated(Checklist, state)
     IN  /\ Runs(st)
         /\ reported' = [clean |-> ~Warned(Checklist, st),
                         complete |-> Ids(Checklist) \subseteq DOMAIN st.steps,
                         counted |-> RecordedResults(Checklist, st),
                         expected |-> Expected(Checklist)]
  /\ UNCHANGED ranIn

(* prereq-check: a prerequisite that is a section must be one the checklist *)
(* has, or the command ends in an error.                                    *)
PrereqsOf(list, id) == SectionPrereqs(list, FindStep(list, id).section) \cup FindStep(list, id).prereqs

PrereqStatus(list, st, p) ==
  IF p \in SectionIds THEN SectionStatus(list, st, p) ELSE StepStatus(st, p)

AllPassed(list, st, prereqs) == \A p \in prereqs : PrereqStatus(list, st, p) = "passed"

PrereqOk(list, st, id) ==
  /\ PrereqsOf(list, id) \cap SectionIds \subseteq Sections(list)
  /\ AllPassed(list, st, PrereqsOf(list, id))

(* The checklist is edited, and a new one written line by line. *)
EditChecklist ==
  /\ edition < Len(Editions) /\ edition' = edition + 1
  /\ UNCHANGED <<drafted, state, reported, ranIn, commands>>

WriteLine(line) ==
  /\ state = NoFile /\ commands = 0 /\ edition = 1
  /\ Len(drafted) < MaxLines /\ drafted' = Append(drafted, line)
  /\ UNCHANGED <<edition, state, reported, ranIn, commands>>

(* A file left by version 1 of the script, of the first edition. *)
OldFile(done) ==
  [NoFile EXCEPT !.schema = 1, !.of = 1, !.at = Parsed[1].steps[1].id,
     !.steps = [i \in done |-> [results |-> [k \in DOMAIN FindStep(Parsed[1], i).assertions |-> "pass"],
                                hash |-> NoHash, scope |-> NoScope]]]

WalkthroughInit ==
  /\ drafted = <<>> /\ edition = 1 /\ reported = NoReport /\ commands = 0
  /\ state \in {NoFile} \cup {OldFile(done) : done \in SUBSET Ids(Parsed[1])}
  /\ ranIn = [i \in StepIds |-> NoScope]

Command ==
  /\ drafted = <<>>
  /\ \/ \E force \in BOOLEAN : Initialise(force)
     \/ \E id \in Ids(Checklist), force \in BOOLEAN, n \in 0..MaxResults :
          \E results \in [1..n -> Results] : RecordStep(id, results, force)
     \/ \E scope \in RunScopes : SetScope(scope)
     \/ \E id \in Ids(Checklist) : ValidateFrom(id)
     \/ ReportRun

WalkthroughNext ==
  \/ Command
  \/ drafted = <<>> /\ EditChecklist
  \/ \E line \in Lines : WriteLine(line)

----------------------------------------------------------------------------
(* Properties. *)

WalkthroughTypeOK ==
  /\ Len(drafted) <= MaxLines /\ edition \in DOMAIN Editions /\ commands \in 0..MaxRecords
  /\ state.schema \in 0..2 /\ state.scope \in RunScopes \cup {NoScope}
  /\ state.at \in StepIds \cup {"none"} /\ DOMAIN state.steps \subseteq StepIds
  /\ \A i \in Recorded : state.steps[i].results \in Seq(Results)
  /\ state.passed \subseteq SectionIds

Fenced(lines, i) == Cardinality({j \in 1..i : lines[j].kind = "fence"}) % 2 = 1
AskedUpTo(lines, n) ==
  UNION {lines[i].ids : i \in {j \in 1..n : lines[j].kind = "prereq" /\ ~Fenced(lines, j)}}
KeptBy(scan) ==
  (UNION {scan.steps[k].prereqs : k \in DOMAIN scan.steps}) \cup (UNION {scan.secs[k].prereqs : k \in DOMAIN scan.secs})

(* Whatever lines a checklist is written with: a prerequisite that is not   *)
(* in a code fence either reaches a step or a section, or the checklist is  *)
(* refused (_parse_checklist_lines); a run never loses one silently.        *)
PrereqsAreNeverLost ==
  LET scan == ParseChecklist(drafted)
  IN  scan.ok => AskedUpTo(drafted, Len(drafted)) \subseteq KeptBy(scan)

(* A report without warnings and without gaps adds up: it counts exactly    *)
(* the assertions the checklist has, although the checklist was edited, or  *)
(* the file written by version 1, between the records.                      *)
CleanReportsAddUp ==
  reported.clean /\ reported.complete => reported.counted = reported.expected

(* A prerequisite check that lets a step run has seen all the steps it      *)
(* names, or those of the sections it names, recorded in the present run: a *)
(* rebuilt container inherits nothing.                                      *)
PrereqsPassedInThisRun ==
  \A id \in Ids(Checklist) :
    state.scope # NoScope /\ PrereqOk(Checklist, state, id)
      => \A p \in PrereqsOf(Checklist, id) :
           \A i \in (IF p \in SectionIds THEN StepsOf(Checklist, p) ELSE {p}) : ranIn[i] = state.scope

(* A walkthrough that edits, rebuilds and commands in any order interrupt   *)
(* loses no prerequisite, lets no step run before those it needs and never  *)
(* reports as complete what does not add up.                                *)
WalkthroughIsSound ==
  WalkthroughTypeOK /\ PrereqsAreNeverLost /\ CleanReportsAddUp /\ PrereqsPassedInThisRun
============================================================================
