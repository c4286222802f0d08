------------------------------- MODULE Winter -------------------------------
(***************************************************************************)
(* The runner of the unit tests, include/winter.h: every test that the     *)
(* command line selects runs in a forked child, in one or several threads; *)
(* the runner polls the child, kills it when its time is over, and turns   *)
(* how it ended into a verdict.  With --rerun, or --debug, a failed test   *)
(* waits for a debugger, over and over, until the user interrupts.         *)
(*                                                                         *)
(* One action is one system call of the runner, or a step of a thread of   *)
(* the child between two points where others can see it.  waitpid is       *)
(* WNOHANG and fails in no other way than for want of a child.  An         *)
(* interrupt that nobody handles ends runner and child, and the model.     *)
(***************************************************************************)
EXTENDS Integers, Sequences, FiniteSets

CONSTANTS
  Suites,       \* what describe and it, test or parallel have registered
  CommandLines, \* the command lines looked at: sequences of options, patterns
                \* "suite:tests", whose glob stands for the set of the names
                \* it matches, and "--debug pattern"
  MaxThreads,   \* bound: the threads of a test
  ForkMayFail   \* whether fork may fail

Workers == 0 .. MaxThreads - 1
Main == -1
Actors == Workers \cup {Main}
Nobody == -2

Flags == {"version", "help", "list", "color", "rerun", "timeout"}

Suite(s) == Suites[s]
Test(s, k) == Suites[s].tests[k]
Units ==
  UNION {{s} \X (1 .. Len(Suites[s].tests)) : s \in 1 .. Len(Suites)}

ASSUME WinterAssumption ==
  /\ MaxThreads \in Nat \ {0}
  /\ ForkMayFail \in BOOLEAN
  /\ DOMAIN Suites = 1 .. Len(Suites) /\ Len(Suites) \in Nat
  /\ \A s \in 1 .. Len(Suites) :
       /\ Len(Suites[s].tests) \in Nat
       /\ \A k \in 1 .. Len(Suites[s].tests) :
            Suites[s].tests[k].threads \in 1 .. MaxThreads

VARIABLES
  args,        \* the command line
  pc,          \* where the runner is
  suite,       \* the suite it is at
  test,        \* the test of that suite
  tests,       \* the tests that have run
  passed,      \* how many of them passed
  expired,     \* the time of the test is over
  pid,         \* what fork returned
  success,     \* the verdict on the test
  debugging,   \* the runner is in _winter_unit_debug
  handled,     \* SIGINT has the handler of the runner
  aborted,     \* _winter_debug_abort
  exit_code,   \* what the runner returns
  child,       \* the child process
  status,      \* how it ended
  killed,      \* it has been sent SIGKILL
  main,        \* where the child's first thread is
  loop,        \* the counter of its two loops
  thread,      \* what its other threads do
  failed,      \* the threads with an assertion that failed
  printer,     \* who holds print.mutex
  reports      \* the failures reported by the child

position == <<suite, test, debugging>>
totals == <<tests, passed, exit_code>>
unit == <<expired, pid, success>>
signals == <<handled, aborted>>
runner == <<args, position, totals, unit, signals>>
inside == <<status, killed, main, loop, thread, failed, printer, reports>>
process == <<child, inside>>
vars == <<pc, runner, process>>

Living == {"running", "stopped"}

TypeOK ==
  /\ args \in CommandLines
  /\ pc \in {"parse", "suite", "unit", "fork", "poll", "check", "kill",
             "kill_kill", "kill_wait", "judged", "handler", "reset", "debugged",
             "end"}
  /\ suite \in 1 .. Len(Suites) + 1
  /\ test \in Nat \ {0}
  /\ tests \in Nat
  /\ passed \in Nat
  /\ {expired, success, debugging, handled, aborted, killed} \subseteq BOOLEAN
  /\ pid \in {"none", "child", "-1"}
  /\ exit_code \in {"none", "SUCCESS", "FAILURE"}
  /\ child \in Living \cup {"none", "ended"}
  /\ status \in {"ok", "failure", "signal"}
  /\ main \in {"stop", "before", "body", "create", "join", "after", "exit"}
  /\ loop \in 0 .. MaxThreads - 1
  /\ thread \in [Workers -> {"none", "running", "done"}]
  /\ failed \subseteq Actors
  /\ printer \in Actors \cup {Nobody}
  /\ reports \in Nat

-----------------------------------------------------------------------------
(***************************************************************************)
(* The command line.                                                       *)
(***************************************************************************)
Given(kind) == {i \in DOMAIN args : args[i].kind = kind}

Malformed == \E i \in Given("option") : args[i].name \notin Flags

\* The last of several options of a name counts.
Flag(name, default) ==
  LET given == {i \in Given("option") : args[i].name = name}
  IN  IF given = {} THEN default
      ELSE \E i \in given : args[i].value /\ \A j \in given : j <= i

Rerun == Flag("rerun", FALSE)
Timeout == Flag("timeout", TRUE)

Matches(a, s, k) ==
  a.suite = Suite(s).name /\ Test(s, k).name \in a.tests

SuiteEnabled(s) ==
  \/ Given("pattern") = {}
  \/ \E i \in Given("pattern") : args[i].suite = Suite(s).name

UnitEnabled(s, k) ==
  \/ Given("pattern") = {}
  \/ \E i \in Given("pattern") : Matches(args[i], s, k)

\* The tests --debug asks for: the pattern given last counts.
ToDebug ==
  {u \in Units : \E i \in Given("debug") :
                   /\ \A j \in Given("debug") : j <= i
                   /\ Matches(args[i], u[1], u[2])}

DebugOnly == Given("debug") # {}

Before(u, v) == u[1] < v[1] \/ (u[1] = v[1] /\ u[2] < v[2])

Init ==
  /\ args \in CommandLines
  /\ pc = "parse"
  /\ suite = 1 /\ test = 1
  /\ tests = 0 /\ passed = 0
  /\ expired = FALSE /\ success = FALSE
  /\ debugging = FALSE /\ handled = FALSE /\ aborted = FALSE
  /\ pid = "none" /\ exit_code = "none"
  /\ child = "none" /\ status = "ok" /\ killed = FALSE
  /\ main = "exit" /\ loop = 0
  /\ thread = [w \in Workers |-> "none"]
  /\ failed = {} /\ printer = Nobody /\ reports = 0

Exit(code) ==
  /\ pc' = "end"
  /\ exit_code' = code
  /\ UNCHANGED <<args, position, tests, passed, unit, signals, process>>

Informs == \E name \in {"help", "version", "list"} : Flag(name, FALSE)

\* --help, --version and --list; an option nobody knows; no test to debug.
ParseAndExit ==
  /\ pc = "parse"
  /\ \/ Malformed /\ Exit("FAILURE")
     \/ ~Malformed /\ Informs /\ Exit("SUCCESS")
     \/ /\ ~Malformed /\ ~Informs
        /\ DebugOnly /\ ToDebug = {}
        /\ Exit("FAILURE")

\* --debug: the first test that matches.
ParseDebug ==
  /\ pc = "parse"
  /\ ~Malformed /\ ~Informs /\ DebugOnly
  /\ \E u \in ToDebug :
       /\ ~\E v \in ToDebug : Before(v, u)
       /\ suite' = u[1] /\ test' = u[2]
  /\ debugging' = TRUE
  /\ pc' = "fork"
  /\ UNCHANGED <<args, totals, unit, signals, process>>

Parse ==
  /\ pc = "parse"
  /\ ~Malformed /\ ~Informs /\ ~DebugOnly
  /\ pc' = "suite"
  /\ UNCHANGED <<runner, process>>

-----------------------------------------------------------------------------
(***************************************************************************)
(* The runner: the loops of _winter_main, _winter_unit_execute and         *)
(* _winter_unit_debug, which share fork, waitpid and _winter_kill_process. *)
(***************************************************************************)
Goto(label) == pc' = label

AtTest == pc = "unit" /\ test <= Len(Suite(suite).tests)

BeginSuite ==
  /\ pc = "suite"
  /\ suite <= Len(Suites)
  /\ SuiteEnabled(suite)
  /\ Goto("unit")
  /\ UNCHANGED <<runner, process>>

\* Variant: the next suite goes on where the last one was.
NextSuiteFromHere ==
  /\ \/ pc = "suite" /\ suite <= Len(Suites) /\ ~SuiteEnabled(suite)
     \/ pc = "unit" /\ ~AtTest
  /\ Goto("suite")
  /\ suite' = suite + 1
  /\ UNCHANGED <<args, test, debugging, totals, unit, signals, process>>

\* The suite is not selected, or all its tests are through.
NextSuite ==
  /\ \/ pc = "suite" /\ suite <= Len(Suites) /\ ~SuiteEnabled(suite)
     \/ pc = "unit" /\ ~AtTest
  /\ Goto("suite")
  /\ suite' = suite + 1 /\ test' = 1
  /\ UNCHANGED <<args, debugging, totals, unit, signals, process>>

SkipTest ==
  /\ AtTest
  /\ ~UnitEnabled(suite, test)
  /\ test' = test + 1
  /\ UNCHANGED <<pc, args, suite, debugging, totals, unit, signals, process>>

\* The time of the test starts here, before the fork.
BeginTest ==
  /\ AtTest
  /\ UnitEnabled(suite, test)
  /\ expired' = FALSE
  /\ Goto("fork")
  /\ UNCHANGED <<args, position, totals, pid, success, signals, process>>

Forked == IF debugging THEN "handler" ELSE "poll"

\* The child to be debugged stops itself before it begins.
Fork ==
  /\ pc = "fork"
  /\ pid' = "child"
  /\ child' = "running"
  /\ status' = "ok" /\ killed' = FALSE
  /\ main' = IF debugging THEN "stop" ELSE "before"
  /\ loop' = 0
  /\ thread' = [w \in Workers |-> "none"]
  /\ failed' = {} /\ printer' = Nobody /\ reports' = 0
  /\ Goto(Forked)
  /\ UNCHANGED <<args, position, totals, expired, success, signals>>

\* fork returns -1, which the runner takes for a process id.
ForkFails ==
  /\ ForkMayFail
  /\ pc = "fork"
  /\ pid' = "-1"
  /\ Goto(Forked)
  /\ UNCHANGED <<args, position, totals, expired, success, signals, process>>

\* What is left of the child's status decides, unless a debugger has looked on.
Verdict(good) ==
  /\ success' = IF debugging THEN success ELSE good
  /\ Goto(IF debugging THEN "debugged" ELSE "judged")

\* waitpid returns what fork returned: the process has ended and is no more, or
\* there is none and waitpid returns -1, too, with the status still 0.
WaitEnded ==
  /\ pc = "poll"
  /\ pid = "-1" \/ child = "ended"
  /\ child' = "none"
  /\ Verdict(pid = "-1" \/ status = "ok")
  /\ UNCHANGED <<args, position, totals, expired, pid, signals, inside>>

\* Variant: the runner waits for the child, not only for news of it.
WaitForChild ==
  /\ pc = "poll"
  /\ child = "stopped"
  /\ Goto("check")
  /\ UNCHANGED <<runner, process>>

\* waitpid returns 0.
WaitNothing ==
  /\ pc = "poll"
  /\ child \in Living
  /\ Goto("check")
  /\ UNCHANGED <<runner, process>>

\* The time is over, or the user has had enough.
GiveUp == IF debugging THEN aborted ELSE Timeout /\ expired

Sleep ==
  /\ pc = "check"
  /\ ~GiveUp
  /\ Goto("poll")
  /\ UNCHANGED <<runner, process>>

DecideToKill ==
  /\ pc = "check"
  /\ GiveUp
  /\ Goto("kill")
  /\ UNCHANGED <<runner, process>>

KillContinue ==
  /\ pc = "kill"
  /\ child' = IF child = "stopped" THEN "running" ELSE child
  /\ Goto("kill_kill")
  /\ UNCHANGED <<runner, inside>>

KillKill ==
  /\ pc = "kill_kill"
  /\ killed' = TRUE
  /\ Goto("kill_wait")
  /\ UNCHANGED <<runner, child, status, main, loop, thread, failed, printer,
                 reports>>

\* Variant: nobody waits for the child that is being killed.
KillLeave ==
  /\ pc = "kill_wait"
  /\ child' = IF child = "ended" THEN "none" ELSE child
  /\ Verdict(FALSE)
  /\ UNCHANGED <<args, position, totals, expired, pid, signals, inside>>

\* The verdict is a failure, even if the child was faster than the signal.
KillWait ==
  /\ pc = "kill_wait"
  /\ child = "ended"
  /\ child' = "none"
  /\ Verdict(FALSE)
  /\ UNCHANGED <<args, position, totals, expired, pid, signals, inside>>

\* _winter_main counts the test and goes on to the next one.
Count ==
  /\ tests' = tests + 1
  /\ passed' = passed + IF success THEN 1 ELSE 0
  /\ test' = test + 1
  /\ debugging' = FALSE
  /\ Goto("unit")
  /\ UNCHANGED <<suite, exit_code>>

Judge ==
  /\ pc = "judged"
  /\ success \/ ~Rerun
  /\ Count
  /\ UNCHANGED <<args, unit, signals, process>>

BeginDebugging ==
  /\ pc = "judged"
  /\ ~success /\ Rerun
  /\ debugging' = TRUE
  /\ Goto("fork")
  /\ UNCHANGED <<args, suite, test, totals, unit, signals, process>>

InstallHandler ==
  /\ pc = "handler"
  /\ handled' = TRUE
  /\ Goto("reset")
  /\ UNCHANGED <<args, position, totals, unit, aborted, process>>

\* An interrupt since the handler was installed is forgotten; the user has not
\* been told to press ctrl-c yet.
ResetAborted ==
  /\ pc = "reset"
  /\ aborted' = FALSE
  /\ Goto("poll")
  /\ UNCHANGED <<args, position, totals, unit, handled, process>>

\* Variant: when the child has ended, an interrupt is not looked at.
AgainAnyway ==
  /\ pc = "debugged"
  /\ ~aborted \/ ~killed
  /\ handled' = FALSE
  /\ Goto("fork")
  /\ UNCHANGED <<args, position, totals, unit, aborted, process>>

\* The end of _winter_unit_debug: once more, unless the user has interrupted.
DebugAgain ==
  /\ pc = "debugged"
  /\ ~aborted
  /\ handled' = FALSE
  /\ Goto("fork")
  /\ UNCHANGED <<args, position, totals, unit, aborted, process>>

DebugDone ==
  /\ pc = "debugged"
  /\ aborted
  /\ handled' = FALSE
  /\ UNCHANGED <<args, unit, aborted, process>>
  /\ IF DebugOnly
       THEN Goto("end") /\ exit_code' = "SUCCESS"
            /\ UNCHANGED <<position, tests, passed>>
       ELSE Count

EndRun ==
  /\ pc = "suite"
  /\ suite > Len(Suites)
  /\ Exit(IF tests = passed THEN "SUCCESS" ELSE "FAILURE")

-----------------------------------------------------------------------------
(***************************************************************************)
(* The clock, the kernel, the user.                                        *)
(***************************************************************************)
\* winter_now passes start_time + timeout.
Expire ==
  /\ ~debugging /\ ~expired
  /\ pc \in {"fork", "poll", "check"}
  /\ expired' = TRUE
  /\ UNCHANGED <<pc, args, position, totals, pid, success, signals, process>>

\* _winter_debug_handler.  The terminal interrupts the child, too, which has
\* not the handler; a debugger may keep the signal from it.
Interrupt ==
  /\ handled
  /\ aborted' = TRUE
  /\ \/ UNCHANGED process
     \/ /\ child = "running"
        /\ child' = "ended" /\ status' = "signal"
        /\ UNCHANGED <<killed, main, loop, thread, failed, printer, reports>>
  /\ UNCHANGED <<pc, args, position, totals, unit, handled>>

KilledDies ==
  /\ killed /\ child \in Living
  /\ child' = "ended" /\ status' = "signal"
  /\ UNCHANGED <<pc, runner, killed, main, loop, thread, failed, printer,
                 reports>>

\* The debugger lets the child go on.
Attach ==
  /\ child = "stopped"
  /\ child' = "running"
  /\ UNCHANGED <<pc, runner, inside>>

-----------------------------------------------------------------------------
(***************************************************************************)
(* The child: _winter_process_entry and what the test does.                *)
(***************************************************************************)
Threads == Test(suite, test).threads

Outside == <<pc, runner, child, status, killed>>

Proceed(from, to) ==
  /\ child = "running" /\ Main \notin failed
  /\ main = from /\ main' = to

Ends(how) ==
  /\ child' = "ended" /\ status' = how
  /\ UNCHANGED <<pc, runner, killed, main, loop, thread, failed, printer,
                 reports>>

Stop ==
  /\ child = "running" /\ main = "stop"
  /\ child' = "stopped" /\ main' = "before"
  /\ UNCHANGED <<pc, runner, status, killed, loop, thread, failed, printer,
                 reports>>

BeforeEach ==
  /\ Proceed("before", IF Threads = 1 THEN "body" ELSE "create")
  /\ UNCHANGED <<Outside, loop, thread, failed, printer, reports>>

RunAlone ==
  /\ Proceed("body", "after")
  /\ UNCHANGED <<Outside, loop, thread, failed, printer, reports>>

\* Variant: one thread too many is created.
CreateOneMore ==
  /\ Proceed("create", IF loop < Threads THEN "create" ELSE "join")
  /\ thread' = [thread EXCEPT ![loop] = "running"]
  /\ loop' = IF loop < Threads THEN loop + 1 ELSE 0
  /\ UNCHANGED <<Outside, failed, printer, reports>>

Create ==
  /\ Proceed("create", IF loop + 1 < Threads THEN "create" ELSE "join")
  /\ thread' = [thread EXCEPT ![loop] = "running"]
  /\ loop' = IF loop + 1 < Threads THEN loop + 1 ELSE 0
  /\ UNCHANGED <<Outside, failed, printer, reports>>

\* The other threads end with the process.
CreateFails ==
  /\ child = "running" /\ main = "create"
  /\ Ends("failure")

FinishBody(w) ==
  /\ child = "running"
  /\ thread[w] = "running" /\ w \notin failed
  /\ thread' = [thread EXCEPT ![w] = "done"]
  /\ UNCHANGED <<Outside, main, loop, failed, printer, reports>>

\* Variant: the loop of pthread_join ends one thread early.
JoinEarly ==
  /\ Proceed("join", IF loop + 2 < Threads THEN "join" ELSE "after")
  /\ thread[loop] = "done"
  /\ loop' = IF loop + 2 < Threads THEN loop + 1 ELSE 0
  /\ UNCHANGED <<Outside, thread, failed, printer, reports>>

Join ==
  /\ Proceed("join", IF loop + 1 < Threads THEN "join" ELSE "after")
  /\ thread[loop] = "done"
  /\ loop' = IF loop + 1 < Threads THEN loop + 1 ELSE 0
  /\ UNCHANGED <<Outside, thread, failed, printer, reports>>

AfterEach ==
  /\ Proceed("after", "exit")
  /\ UNCHANGED <<Outside, loop, thread, failed, printer, reports>>

ExitZero ==
  /\ child = "running" /\ main = "exit"
  /\ Ends("ok")

\* Where an assertion of the test may stand.
InUserCode(x) ==
  /\ child = "running" /\ x \notin failed
  /\ \/ x = Main /\ main \in {"before", "body", "after"}
     \/ x \in Workers /\ thread[x] = "running"

AssertionFails(x) ==
  /\ InUserCode(x)
  /\ failed' = failed \cup {x}
  /\ UNCHANGED <<Outside, main, loop, thread, printer, reports>>

\* Variant: _winter_fail_begin does not lock.
ReportUnlocked(x) ==
  /\ child = "running" /\ x \in failed
  /\ printer # x
  /\ printer' = x
  /\ reports' = reports + 1
  /\ UNCHANGED <<Outside, main, loop, thread, failed>>

\* _winter_fail_begin and the report.  Nobody unlocks the mutex: the process
\* ends with it locked.
Report(x) ==
  /\ child = "running" /\ x \in failed
  /\ printer = Nobody
  /\ printer' = x
  /\ reports' = reports + 1
  /\ UNCHANGED <<Outside, main, loop, thread, failed>>

\* _winter_fail_end.
ExitFailing(x) ==
  /\ child = "running"
  /\ printer = x
  /\ Ends("failure")

Crash(x) ==
  /\ InUserCode(x)
  /\ Ends("signal")

-----------------------------------------------------------------------------
Runner ==
  \/ ParseAndExit \/ ParseDebug \/ Parse
  \/ BeginSuite \/ NextSuite \/ SkipTest \/ BeginTest \/ EndRun
  \/ Fork \/ ForkFails
  \/ WaitEnded \/ WaitNothing \/ Sleep
  \/ DecideToKill \/ KillContinue \/ KillKill \/ KillWait
  \/ Judge \/ BeginDebugging
  \/ InstallHandler \/ ResetAborted \/ DebugAgain \/ DebugDone

Child ==
  \/ Stop \/ BeforeEach \/ RunAlone
  \/ Create \/ CreateFails \/ Join
  \/ AfterEach \/ ExitZero
  \/ \E w \in Workers : FinishBody(w)
  \/ \E x \in Actors :
       AssertionFails(x) \/ Report(x) \/ ExitFailing(x) \/ Crash(x)

\* The process has returned.
Ended == pc = "end" /\ UNCHANGED vars

Next == Runner \/ Child \/ Expire \/ Interrupt \/ KilledDies \/ Attach \/ Ended

Spec == Init /\ [][Next]_vars

\* The runner and the clock go on and SIGKILL kills; a test may hang, the user
\* and the debugger need not do anything.
FairSpec == Spec /\ WF_vars(Runner) /\ WF_vars(Expire) /\ WF_vars(KilledDies)

-----------------------------------------------------------------------------
(***************************************************************************)
(* A test passes only if its process, every thread of it included, ran to  *)
(* its end; it fails only if it crashed, an assertion failed, a thread     *)
(* could not be created or its time was over (_winter_unit_execute and the *)
(* joins of _winter_process_entry).  Excepted is a test that was never     *)
(* started: nobody looks at what fork returned, and when it has failed,    *)
(* the test has passed (winter.h:421, 434).                                *)
(***************************************************************************)
RanToItsEnd ==
  /\ main = "exit" /\ failed = {}
  /\ Threads > 1 => \A w \in 0 .. Threads - 1 : thread[w] = "done"

VerdictRight ==
  pc = "judged" /\ pid = "child" =>
    IF success
      THEN RanToItsEnd
      ELSE ~RanToItsEnd \/ (Timeout /\ expired)

(***************************************************************************)
(* A test that has passed was run: "child process exited" is what the      *)
(* runner takes an answer of waitpid for that equals what fork returned    *)
(* (comment in _winter_unit_execute).                                      *)
(***************************************************************************)
PassedTestsRan == pc = "judged" /\ success => pid = "child"

(***************************************************************************)
(* Threads that fail at the same time are not mixed up in the output: only *)
(* one of them reports, for print.mutex stays locked until the process is  *)
(* gone.                                                                   *)
(***************************************************************************)
OneReport == reports <= 1

(***************************************************************************)
(* The runner leaves no process behind, living or dead: outside of the     *)
(* calls that wait for the child there is none (_winter_kill_process       *)
(* continues a stopped child, kills it and waits for it).                  *)
(***************************************************************************)
NoChildLeft ==
  child # "none" =>
    pc \in {"handler", "reset", "poll", "check", "kill", "kill_kill",
            "kill_wait"}

(***************************************************************************)
(* Every test the patterns select runs once, whatever becomes of the       *)
(* others, and the exit code tells whether all passed (_winter_main).      *)
(***************************************************************************)
Selected == {u \in Units : SuiteEnabled(u[1]) /\ UnitEnabled(u[1], u[2])}

EveryTestRuns ==
  pc = "end" /\ ~Malformed /\ ~Informs /\ ~DebugOnly =>
    /\ tests = Cardinality(Selected)
    /\ exit_code = "SUCCESS" <=> passed = Cardinality(Selected)

(***************************************************************************)
(* A run ends, though a test may hang or its threads wait for each other,  *)
(* unless the timeout is off or somebody is asked to debug.                *)
(***************************************************************************)
RunEnds ==
  (Timeout /\ ~Rerun /\ ~DebugOnly) ~> (pc = "end")

(***************************************************************************)
(* An interrupt, once the user has been told to press ctrl-c, ends the     *)
(* debugging, also if the child ends or is stopped at that moment, or was  *)
(* never started.                                                          *)
(***************************************************************************)
AbortEndsDebugging ==
  (debugging /\ aborted /\ pc = "poll") ~> (pc = "end" \/ ~debugging)

=============================================================================
