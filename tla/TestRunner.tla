---------------------------- MODULE TestRunner ----------------------------
(***************************************************************************)
(* The runner of agenc-test (test.h) on POSIX: registration, the run loop,  *)
(* tests that run in the runner's process or in a forked child, fixtures,   *)
(* skips, death tests, the TAP stream and the report.                       *)
(*                                                                          *)
(* A test body is any sequence of failing and satisfied assertions, skips,  *)
(* returns, exits and fatal signals.  Each process has its own copy of the  *)
(* harness's globals and of the buffer of stdout.                           *)
(***************************************************************************)
EXTENDS Integers, Sequences, SequencesExt, FiniteSetsExt

CONSTANTS
  Section,        \* the linker section: tests in link order, a test being its file:line rank
  Manual,         \* tests the program may hand to tt_register
  ManualCap,      \* TT_MANUAL_CAP
  ListCap,        \* TT_MANUAL_CAP + 4096
  Fixtures,       \* tests made by TEST_F
  Deaths,         \* tests made by TEST_SIGNAL
  DeathSignal,    \* the signal each of them waits for
  Signals, Handled,  \* signals that end a process; those with tt_crash_handler
  ExitCodes,      \* what a body may hand to exit()
  DiagCap,        \* TT_DIAG_CAP, in failure records
  Filters,        \* the sets of tests a --filter may select
  ChldIgnored,    \* SIGCHLD is ignored when the runner starts
  NULL

AllTests == ToSet(Section) \cup Manual

\* No two records are of one line.  TEST_REGISTER is used as documented, for what no
\* linker section holds: it does not hand over a test of the section again.
ASSUME TestRunnerAssumption ==
  /\ Section \in Seq(Nat) /\ \A j, k \in DOMAIN Section : Section[j] = Section[k] => j = k
  /\ ToSet(Section) \cap Manual = {}
  /\ AllTests \subseteq Nat /\ NULL \notin AllTests
  /\ ManualCap \in Nat /\ ListCap \in Nat /\ DiagCap \in Nat
  /\ Fixtures \cap Deaths = {} /\ Fixtures \cup Deaths \subseteq AllTests
  /\ Signals \subseteq Nat \ {0} /\ Handled \subseteq Signals /\ DeathSignal \in [Deaths -> Signals]
  /\ ExitCodes \subseteq Nat /\ ChldIgnored \in BOOLEAN

VARIABLES
  options,        \* the flags of tt_c
  manual,         \* tt_c.manual
  asked,          \* history: the tests tt_register was called with
  list, i, n,     \* the locals of tt_run_all; i counts from 1
  pc,             \* "start", "loop", "inside", "waiting", "plan", "exited", and "dead"
                  \* when the runner ended inside a test
  counters,       \* tests_run, tests_passed, tests_failed, tests_skipped
  mem,            \* what the runner and its child each have of tt_g, tt_c and stdout
  frame,          \* the test function: its phase and tt_setup_done
  child,          \* the forked process, as waitpid sees it
  out, err,       \* what reached stdout and stderr
  xml, exit_code,
  fate            \* history: what the last test started really did

run == <<options, manual, asked, list, n>>
ends == <<xml, exit_code>>
vars == <<options, manual, asked, list, i, n, pc, counters, mem, frame, child, out, err,
          xml, exit_code, fate>>

TT_PASS == 0
TT_FAIL == 1
TT_SKIP == 2

NoOptions == [isolate |-> FALSE, fail_fast |-> FALSE, list_only |-> FALSE,
              xml |-> FALSE, filter |-> {}]
NoCounters == [tests_run |-> 0, tests_passed |-> 0, tests_failed |-> 0, tests_skipped |-> 0]
NoMemory == [current |-> NULL, current_failed |-> FALSE, skipped_current |-> FALSE,
             diag |-> <<>>, have_jmp |-> FALSE, crash_name |-> NULL, buf |-> <<>>]
NoFrame == [phase |-> "none", setup_done |-> FALSE]
NoChild == [state |-> "none", by |-> "exit", code |-> 0]
NoXml == [tests |-> 0, failures |-> 0, skipped |-> 0, cases |-> <<>>]
NoFate == [test |-> NULL, failed |-> FALSE, skipped |-> FALSE, bodied |-> FALSE,
           torn |-> FALSE, end |-> "running", code |-> 0]

Init ==
  /\ options = NoOptions /\ manual = <<>> /\ asked = {} /\ list = <<>> /\ i = 1 /\ n = 0
  /\ pc = "start" /\ counters = NoCounters
  /\ mem = [runner |-> NoMemory, child |-> NoMemory]
  /\ frame = NoFrame /\ child = NoChild /\ out = <<>> /\ err = <<>>
  /\ xml = NoXml /\ exit_code = -1 /\ fate = NoFate
-----------------------------------------------------------------------------
(* The two streams.  stdio keeps what it is given until its buffer is full, *)
(* the line ends or somebody flushes: any write may go out at once or stay. *)

Line(kind, test, num, verdict) == [kind |-> kind, test |-> test, num |-> num, verdict |-> verdict]
Point(num, test, verdict) == Line("point", test, num, verdict)
DiagLine(test) == Line("diag", test, 0, "")
BailOut == Line("bail", NULL, 0, "")
Plan(num) == Line("plan", NULL, num, "")
Name(test) == Line("name", test, 0, "")

\* TT_PRINTF by a process whose memory is m.
Write(p, m, lines) ==
  \/ /\ mem' = [mem EXCEPT ![p] = [m EXCEPT !.buf = @ \o lines]]
     /\ UNCHANGED out
  \/ /\ mem' = [mem EXCEPT ![p] = [m EXCEPT !.buf = <<>>]]
     /\ out' = out \o m.buf \o lines

\* fflush(stdout), or exit.
Flush(p, m, lines) ==
  /\ mem' = [mem EXCEPT ![p] = [m EXCEPT !.buf = <<>>]]
  /\ out' = out \o m.buf \o lines
-----------------------------------------------------------------------------
(* The start of a run.                                                      *)

\* tt_register: a test too many is dropped without a word.
Register(t) ==
  /\ pc = "start" /\ ~Contains(manual, t)
  /\ asked' = asked \cup {t}
  /\ manual' = IF Len(manual) < ManualCap THEN Append(manual, t) ELSE manual
  /\ UNCHANGED <<options, list, i, n, pc, counters, mem, frame, child, out, err, fate>>
  /\ UNCHANGED ends

\* qsort with tt_cmp_tests: the j-th test has j - 1 others before it.
InFileLineOrder(tests) ==
  LET set == ToSet(tests)
  IN [j \in DOMAIN tests |-> CHOOSE t \in set : Cardinality({u \in set : u < t}) = j - 1]

\* tt_collect
Collected ==
  LET registered == Section \o manual
  IN InFileLineOrder(SubSeq(registered, 1, Min({ListCap, Len(registered)})))

\* tt_run_all up to its loop.
Begin(opts) ==
  /\ pc = "start"
  /\ options' = opts /\ list' = Collected
  /\ IF opts.list_only
     THEN /\ pc' = "exited" /\ exit_code' = 0
          /\ Flush("runner", mem.runner, [j \in DOMAIN list' |-> Name(list'[j])])
     ELSE pc' = "loop" /\ UNCHANGED <<mem, out, exit_code>>
  /\ UNCHANGED <<manual, asked, i, n, counters, frame, child, err, xml, fate>>
-----------------------------------------------------------------------------
(* The test function, in the process that runs it.                          *)

P == IF child.state = "running" THEN "child" ELSE "runner"

\* fault: the failure of the last test is not forgotten
StaleBody(m, t) ==
  [m EXCEPT !.current = t, !.skipped_current = FALSE, !.diag = <<>>, !.have_jmp = TRUE]

\* The assignments of tt_exec_body before the call, and the landing pad.
EnterBody(m, t) ==
  [m EXCEPT !.current = t, !.current_failed = FALSE, !.skipped_current = FALSE,
            !.diag = <<>>, !.have_jmp = TRUE]

EnterFrame(t) == [phase |-> IF t \in Fixtures THEN "setup" ELSE "body", setup_done |-> FALSE]

InBody == frame.phase \in {"setup", "body", "teardown"}

\* tt_fail_begin with the tt_diag calls behind it.
FailRecorded(m) ==
  [m EXCEPT !.current_failed = TRUE,
            !.diag = IF Len(@) < DiagCap THEN Append(@, m.current) ELSE @]

\* fault: the landing pad leads straight out
LeaveWithoutTeardown(m) ==
  /\ mem' = [mem EXCEPT ![P] = [m EXCEPT !.have_jmp = FALSE]]
  /\ frame' = [frame EXCEPT !.phase = "done"]

\* Behind the setjmp, by a return or a longjmp.
LeaveBody(m) ==
  /\ mem' = [mem EXCEPT ![P] = [m EXCEPT !.have_jmp = FALSE]]
  /\ frame' = [frame EXCEPT !.phase = IF frame.setup_done THEN "teardown" ELSE "done"]

\* The longjmp of tt_fail_end and tt_skip, when there is somewhere to land.
Abort(m) ==
  IF m.have_jmp
  THEN LeaveBody(m)
  ELSE mem' = [mem EXCEPT ![P] = m] /\ UNCHANGED frame

ExpectFails ==
  /\ InBody
  /\ mem' = [mem EXCEPT ![P] = FailRecorded(@)]
  /\ fate' = [fate EXCEPT !.failed = TRUE]
  /\ UNCHANGED <<run, i, pc, counters, frame, child, out, err, ends>>

AssertFails ==
  /\ InBody
  /\ Abort(FailRecorded(mem[P]))
  /\ fate' = [fate EXCEPT !.failed = TRUE]
  /\ UNCHANGED <<run, i, pc, counters, child, out, err, ends>>

Skip ==
  /\ InBody
  /\ Abort([mem[P] EXCEPT !.skipped_current = TRUE])
  /\ fate' = [fate EXCEPT !.skipped = TRUE]
  /\ UNCHANGED <<run, i, pc, counters, child, out, err, ends>>

SetupReturns ==
  /\ frame.phase = "setup"
  /\ frame' = [phase |-> "body", setup_done |-> TRUE]
  /\ fate' = [fate EXCEPT !.bodied = TRUE]
  /\ UNCHANGED <<run, i, pc, counters, mem, child, out, err, ends>>

BodyReturns ==
  /\ frame.phase = "body"
  /\ LeaveBody(mem[P])
  /\ UNCHANGED <<run, i, pc, counters, child, out, err, ends, fate>>

TeardownReturns ==
  /\ frame.phase = "teardown"
  /\ frame' = [frame EXCEPT !.phase = "done"]
  /\ fate' = [fate EXCEPT !.torn = TRUE]
  /\ UNCHANGED <<run, i, pc, counters, mem, child, out, err, ends>>

\* A fatal signal: tt_crash_handler names the test, when it knows one, and dies.
Dies(sig) ==
  /\ InBody
  /\ err' = IF sig \in Handled /\ mem[P].crash_name # NULL
            THEN Append(err, mem[P].crash_name) ELSE err
  /\ frame' = NoFrame
  /\ fate' = [fate EXCEPT !.end = "died", !.code = sig]
  /\ IF P = "child"
     THEN /\ child' = [state |-> "terminated", by |-> "signal", code |-> sig]
          /\ mem' = [mem EXCEPT !.child = NoMemory]
          /\ UNCHANGED <<pc, exit_code>>
     ELSE pc' = "dead" /\ exit_code' = 128 + sig /\ UNCHANGED <<child, mem>>
  /\ UNCHANGED <<run, i, counters, out, xml>>

\* The code under test calls exit.
Exits(code) ==
  /\ InBody
  /\ out' = out \o mem[P].buf
  /\ frame' = NoFrame
  /\ fate' = [fate EXCEPT !.end = "exited", !.code = code]
  /\ IF P = "child"
     THEN /\ child' = [state |-> "terminated", by |-> "exit", code |-> code]
          /\ mem' = [mem EXCEPT !.child = NoMemory]
          /\ UNCHANGED <<pc, exit_code>>
     ELSE /\ pc' = "dead" /\ exit_code' = code
          /\ mem' = [mem EXCEPT !.runner.buf = <<>>] /\ UNCHANGED child
  /\ UNCHANGED <<run, i, counters, err, xml>>

BodyStep ==
  \/ ExpectFails \/ AssertFails \/ Skip
  \/ SetupReturns \/ BodyReturns \/ TeardownReturns
  \/ \E sig \in Signals : Dies(sig)
  \/ \E code \in ExitCodes : Exits(code)
-----------------------------------------------------------------------------
(* The loop of tt_run_all, with tt_run_one and tt_exec_forked in it.        *)

Forks(t) == t \in Deaths \/ options.isolate

AtTest(t) == pc = "loop" /\ i <= Len(list) /\ list[i] = t

\* fault: continue jumps over the increment
PassOverAndStay(t) ==
  /\ AtTest(t) /\ t \notin options.filter
  /\ UNCHANGED vars

\* tt_selected says no.
PassOver(t) ==
  /\ AtTest(t) /\ t \notin options.filter
  /\ i' = i + 1
  /\ UNCHANGED <<run, pc, counters, mem, frame, child, out, err, ends, fate>>

RunInside(t) ==
  /\ AtTest(t) /\ t \in options.filter /\ ~Forks(t)
  /\ n' = n + 1
  /\ mem' = [mem EXCEPT !.runner = EnterBody(@, t)]
  /\ frame' = EnterFrame(t) /\ fate' = [NoFate EXCEPT !.test = t]
  /\ pc' = "inside"
  /\ UNCHANGED <<options, manual, asked, list, i, counters, child, out, err, ends>>

\* fault: a death test is named like any other
ChildNamed(m, t) == [EnterBody(m, t) EXCEPT !.crash_name = t]

\* A death test stays quiet, so its child knows no name to report.
ChildMemory(m, t) ==
  [EnterBody(m, t) EXCEPT !.crash_name = IF t \in Deaths THEN NULL ELSE t]

\* fault: stdout is not flushed before the fork
ForkWithBuffer(t) ==
  /\ mem' = [mem EXCEPT !.child = ChildMemory(mem.runner, t)]
  /\ UNCHANGED out

\* The fflush, and the copy of everything that fork makes.
ForkFlushed(t) ==
  /\ mem' = [runner |-> [mem.runner EXCEPT !.buf = <<>>],
             child  |-> ChildMemory([mem.runner EXCEPT !.buf = <<>>], t)]
  /\ out' = out \o mem.runner.buf

Fork(t) ==
  /\ AtTest(t) /\ t \in options.filter /\ Forks(t)
  /\ n' = n + 1
  /\ ForkFlushed(t)
  /\ child' = [NoChild EXCEPT !.state = "running"]
  /\ frame' = EnterFrame(t) /\ fate' = [NoFate EXCEPT !.test = t]
  /\ pc' = "waiting"
  /\ UNCHANGED <<options, manual, asked, list, i, counters, err, ends>>

\* fork returns -1: TT_FAIL, and no signal.
ForkFails(t) ==
  /\ AtTest(t) /\ t \in options.filter /\ Forks(t)
  /\ n' = n + 1
  /\ Flush("runner", mem.runner, <<>>)
  /\ child' = [state |-> "unforked", by |-> "exit", code |-> TT_FAIL]
  /\ fate' = [NoFate EXCEPT !.test = t, !.end = "unforked"]
  /\ pc' = "waiting"
  /\ UNCHANGED <<options, manual, asked, list, i, counters, frame, err, ends>>

\* What tt_exec_body returns, and the lines tt_flush_diag prints.
Result(m) ==
  IF m.skipped_current THEN TT_SKIP ELSE IF m.current_failed THEN TT_FAIL ELSE TT_PASS
Diagnostics(m) ==
  IF Result(m) = TT_FAIL THEN [j \in DOMAIN m.diag |-> DiagLine(m.diag[j])] ELSE <<>>

\* The child flushes and calls _exit.
ChildReturns ==
  /\ child.state = "running" /\ frame.phase = "done"
  /\ out' = out \o mem.child.buf \o Diagnostics(mem.child)
  /\ child' = [state |-> "terminated", by |-> "exit", code |-> Result(mem.child)]
  /\ mem' = [mem EXCEPT !.child = NoMemory]
  /\ frame' = NoFrame /\ fate' = [fate EXCEPT !.end = "returned"]
  /\ UNCHANGED <<run, i, pc, counters, err, ends>>

Verdict(result) ==
  CASE result = TT_PASS -> "ok" [] result = TT_SKIP -> "SKIP" [] OTHER -> "not ok"

\* fault: failures are not counted
TallyPoints(verdict) ==
  [counters EXCEPT !.tests_run     = @ + 1,
                   !.tests_passed  = @ + (IF verdict = "ok" THEN 1 ELSE 0),
                   !.tests_skipped = @ + (IF verdict = "SKIP" THEN 1 ELSE 0)]

Tally(verdict) ==
  [counters EXCEPT !.tests_run     = @ + 1,
                   !.tests_passed  = @ + (IF verdict = "ok" THEN 1 ELSE 0),
                   !.tests_failed  = @ + (IF verdict = "not ok" THEN 1 ELSE 0),
                   !.tests_skipped = @ + (IF verdict = "SKIP" THEN 1 ELSE 0)]

\* The end of tt_run_one, and of the round of the loop it was called in.
Report(verdict, diagnostics) ==
  LET bail == options.fail_fast /\ Tally(verdict).tests_failed > 0
  IN /\ counters' = Tally(verdict)
     /\ Write("runner", mem.runner,
              <<Point(n, list[i], verdict)>> \o diagnostics \o (IF bail THEN <<BailOut>> ELSE <<>>))
     /\ pc' = (IF bail THEN "plan" ELSE "loop")
     /\ i' = i + 1
     /\ UNCHANGED <<run, err, ends>>

ReportInside ==
  /\ pc = "inside" /\ frame.phase = "done"
  /\ Report(Verdict(Result(mem.runner)), Diagnostics(mem.runner))
  /\ frame' = NoFrame /\ fate' = [fate EXCEPT !.end = "returned"]
  /\ UNCHANGED child

\* waitpid's status.  Children of a process that ignores SIGCHLD leave none: the
\* call fails and the status stays 0, which reads as a clean exit.
WaitStatus ==
  IF ChldIgnored /\ child.state = "terminated" THEN [child EXCEPT !.by = "exit", !.code = 0]
  ELSE child

ForkedVerdict(t, status) ==
  IF t \in Deaths
  THEN IF status.by = "signal" /\ status.code = DeathSignal[t] THEN "ok" ELSE "not ok"
  ELSE IF status.by = "signal" THEN "not ok" ELSE Verdict(status.code)

ReportForked ==
  /\ pc = "waiting" /\ child.state \in {"terminated", "unforked"}
  /\ Report(ForkedVerdict(list[i], WaitStatus), <<>>)
  /\ child' = NoChild
  /\ UNCHANGED <<frame, fate>>

\* tt_write_xml
XmlReport ==
  [tests |-> counters.tests_run, failures |-> counters.tests_failed,
   skipped |-> counters.tests_skipped, cases |-> list]

\* The end of tt_run_all; main returns its result.
Finish ==
  /\ pc = "plan" \/ (pc = "loop" /\ i > Len(list))
  /\ Flush("runner", mem.runner, <<Plan(n)>>)
  /\ IF options.xml THEN xml' \in {XmlReport, NoXml} ELSE UNCHANGED xml  \* fopen may fail
  /\ exit_code' = (IF counters.tests_failed = 0 THEN 0 ELSE 1)
  /\ pc' = "exited"
  /\ UNCHANGED <<run, i, counters, frame, child, err, fate>>

RunnerStep ==
  \/ \E t \in AllTests : PassOver(t) \/ RunInside(t) \/ Fork(t) \/ ForkFails(t)
  \/ ChildReturns \/ ReportInside \/ ReportForked \/ Finish

\* What tt_parse_args can make of a command line.
CommandLines ==
  [isolate : BOOLEAN, fail_fast : BOOLEAN, list_only : BOOLEAN, xml : BOOLEAN, filter : Filters]

Next ==
  \/ \E t \in Manual : Register(t)
  \/ \E opts \in CommandLines : Begin(opts)
  \/ BodyStep \/ RunnerStep

Spec == Init /\ [][Next]_vars

\* The runner is a running process, and so is its child; nothing but the end of a
\* test lets it go on, so a run can only be expected to end if every test does.
FairSpec == Spec /\ WF_vars(RunnerStep) /\ WF_vars(BodyStep)
-----------------------------------------------------------------------------
(* Properties.                                                              *)

\* Places in the list and in a stream, and how many of them come up to the place j.
Selected == {k \in DOMAIN list : list[k] \in options.filter}
Points(stream) == {j \in DOMAIN stream : stream[j].kind = "point"}
PointsWith(stream, verdict) == {j \in Points(stream) : stream[j].verdict = verdict}
Nth(places, j) == Cardinality({k \in places : k <= j})

\* What the runner has printed, and what of it nobody will see after a crash.
Stream == IF pc = "dead" THEN out ELSE out \o mem.runner.buf
LastPoint == Stream[Max(Points(Stream))]
Finished == pc = "exited" /\ ~options.list_only

\* The TAP stream: one point for each selected test, once, numbered from 1, in file:line
\* order, whatever is buffered, forked or lost; at the end the plan, which is short
\* only after a bail out.  No test of the section or handed to tt_register is missing
\* while the two arrays have room.
ReportExact ==
  pc # "start" /\ ~options.list_only =>
    LET points == Points(Stream)
        registered == ToSet(Section) \cup asked
    IN /\ \A j \in points : /\ Stream[j].num = Nth(points, j)
                           /\ \E k \in Selected : Stream[j].test = list[k] /\ Stream[j].num = Nth(Selected, k)
       /\ pc # "dead" => Cardinality(points) = counters.tests_run
       /\ \A j, k \in DOMAIN list : j < k => list[j] < list[k]
       /\ Cardinality(asked) <= ManualCap /\ Cardinality(registered) <= ListCap =>
            ToSet(list) = registered
       /\ Finished => /\ Last(out) = Plan(Cardinality(points))
                      /\ Cardinality(points) = Cardinality(Selected) \/ Contains(out, BailOut)

\* The verdict the documents call for, given what a test did: a death test is one that
\* has to die by its signal (README.md 108-109), any other test that failed an assertion,
\* crashed or could not be forked has failed (test.h 28-30, README.md 16-17), and one that
\* did not fail passes, or is skipped when it says so.  Of calling exit without a failure
\* they say nothing: there the code is the result, as tt_exec_forked takes it.
Due(f) ==
  CASE f.test \in Deaths -> IF f.end = "died" /\ f.code = DeathSignal[f.test] THEN "ok" ELSE "not ok"
    [] f.test \notin Deaths /\ ~f.failed /\ f.end = "returned" -> IF f.skipped THEN "SKIP" ELSE "ok"
    [] f.test \notin Deaths /\ ~f.failed /\ f.end = "exited" -> Verdict(f.code)
    [] OTHER -> "not ok"

\* The two ways a failure is lost: behind a skip, which tt_exec_body looks at first, and
\* in a child behind exit, whose code tt_exec_forked takes for a pass or a skip.
FailureLost(f) ==
  /\ f.test \notin Deaths /\ f.failed
  /\ \/ f.end = "returned" /\ f.skipped
     \/ f.end = "exited" /\ f.code \in {TT_PASS, TT_SKIP}

\* tt_run_one: the verdict printed is the one that is due, on both sides of the fork, after
\* a landing, after other tests and when the child did not return, but for the two lost
\* failures, where it never is; and diagnostics are those of tests reported as failed.
VerdictHonest ==
  pc \in {"loop", "plan", "exited"} /\ fate.test # NULL =>
    LET failed == {Stream[j].test : j \in PointsWith(Stream, "not ok")}
    IN /\ LastPoint.test = fate.test
       /\ LastPoint.verdict = Due(fate) <=> ~FailureLost(fate)
       /\ \A j \in DOMAIN Stream : Stream[j].kind = "diag" => Stream[j].test \in failed

\* The counters, the exit code and the head of the report say what the points say.
CountsMatch ==
  pc \notin {"start", "dead"} =>
    /\ counters.tests_passed = Cardinality(PointsWith(Stream, "ok"))
    /\ counters.tests_failed = Cardinality(PointsWith(Stream, "not ok"))
    /\ counters.tests_skipped = Cardinality(PointsWith(Stream, "SKIP"))
    /\ Finished => (exit_code = 0) = (PointsWith(Stream, "not ok") = {})
    /\ xml # NoXml => xml.tests = Cardinality(Points(out)) /\ xml.failures = counters.tests_failed

\* TEST_F: when the test function returns, teardown has run if setup was completed,
\* however the body ended, and has not run otherwise.
TeardownPaired == frame.phase = "done" => fate.torn = fate.bodied

\* tt_crash_handler names a test that crashes under --isolate, while it still can, and
\* stays quiet about a death test.
CrashNamed ==
  fate.end = "died" /\ fate.code \in Handled =>
    /\ options.isolate /\ fate.test \notin Deaths => err # <<>> /\ Last(err) = fate.test
    /\ fate.test \in Deaths => ~Contains(err, fate.test)

\* A run whose tests all end ends too; with --isolate no test can stop it before its plan.
RunEnds ==
  /\ (pc = "loop") ~> (pc \in {"exited", "dead"})
  /\ (pc = "loop" /\ options.isolate) ~> (pc = "exited")

(* What the documents say and the code does not do.                         *)

\* test.h 28-30: a failed EXPECT is recorded, and the binary exits with 1 when any test fails.
FailureNotHidden == Finished /\ exit_code = 0 => ~fate.failed

\* agenc-test/README.md 103-105: with --isolate a crash is attributed to the test.
CrashAttributed ==
  pc \in {"loop", "plan", "exited"} /\ fate.end = "died" /\ fate.test \notin Deaths =>
    LastPoint.verdict = "not ok"
=============================================================================
