---------------------------- MODULE WinterProofs ----------------------------
(***************************************************************************)
(* Proofs about the test runner for any suites, command lines and numbers  *)
(* of threads: its types, that it leaves no process behind, that one       *)
(* failure is reported, that verdicts are right, and that every selected   *)
(* test runs.                                                              *)
(***************************************************************************)
EXTENDS Winter, FiniteSetTheorems, TLAPS

\* Where the runner is at a test: it begins, runs, or has just been judged.
AtWork == {"fork", "poll", "check", "kill", "kill_kill", "kill_wait",
           "judged", "handler", "reset", "debugged"}

(***************************************************************************)
(* There is a test at the runner's position, wherever it reads one.        *)
(***************************************************************************)
PositionOK ==
  /\ pc = "unit" => suite <= Len(Suites)
  /\ pc \in AtWork =>
       /\ suite <= Len(Suites)
       /\ test <= Len(Suites[suite].tests)

TypeInv == TypeOK /\ PositionOK /\ NoChildLeft

(***************************************************************************)
(* The types without those of Boolean variables and of names.              *)
(***************************************************************************)
Numbers ==
  /\ suite \in 1 .. Len(Suites) + 1
  /\ test \in Nat \ {0}
  /\ tests \in Nat /\ passed \in Nat /\ reports \in Nat
  /\ loop \in 0 .. MaxThreads - 1
  /\ thread \in [Workers -> {"none", "running", "done"}]
  /\ failed \subseteq Actors
  /\ printer \in Actors \cup {Nobody}

Names ==
  /\ args \in CommandLines
  /\ pc \in {"parse", "suite", "unit", "fork", "poll", "check", "kill",
             "kill_kill", "kill_wait", "judged", "handler", "reset", "debugged",
             "end"}
  /\ pid \in {"none", "child", "-1"}
  /\ exit_code \in {"none", "SUCCESS", "FAILURE"}
  /\ child \in Living \cup {"none", "ended"}
  /\ status \in {"ok", "failure", "signal"}
  /\ main \in {"stop", "before", "body", "create", "join", "after", "exit"}

Switches ==
  /\ expired \in BOOLEAN /\ success \in BOOLEAN /\ debugging \in BOOLEAN
  /\ handled \in BOOLEAN /\ aborted \in BOOLEAN /\ killed \in BOOLEAN

LEMMA TypeParts == TypeOK <=> Numbers /\ Names /\ Switches
PROOF BY DEF TypeOK, Numbers, Names, Switches

\* A test has a thread at least, and not more than the bound.
LEMMA ThreadsType ==
  ASSUME Numbers, PositionOK, pc \in AtWork
  PROVE  Threads \in 1 .. MaxThreads
PROOF BY WinterAssumption DEF Numbers, PositionOK, Threads, Test, Suite

\* A step of the child leaves the runner alone, and there is a child after it.
LEMMA ChildOnly ==
  ASSUME Child
  PROVE  /\ child = "running" /\ child' \in {"running", "stopped", "ended"}
         /\ UNCHANGED <<pc, runner>>
         /\ UNCHANGED killed
PROOF
  <1>1. CASE Stop
    BY <1>1 DEF Stop
  <1>2. CASE BeforeEach \/ RunAlone \/ Create \/ Join \/ AfterEach
    BY <1>2 DEF BeforeEach, RunAlone, Create, Join, AfterEach, Proceed, Outside
  <1>3. CASE CreateFails \/ ExitZero
    BY <1>3 DEF CreateFails, ExitZero, Ends
  <1>4. CASE \E w \in Workers : FinishBody(w)
    BY <1>4 DEF FinishBody, Outside
  <1>5. CASE \E x \in Actors :
               AssertionFails(x) \/ Report(x) \/ ExitFailing(x) \/ Crash(x)
    BY <1>5 DEF AssertionFails, Report, ExitFailing, Crash, InUserCode, Ends, Outside
  <1>6. QED
    BY <1>1, <1>2, <1>3, <1>4, <1>5 DEF Child

\* Where the test is when there is a child.
LEMMA ChildAtWork ==
  ASSUME TypeInv, child # "none"
  PROVE  pc \in AtWork /\ Threads \in 1 .. MaxThreads
PROOF
  <1>1. pc \in AtWork
    BY DEF TypeInv, NoChildLeft, AtWork
  <1>2. QED
    BY <1>1, ThreadsType, TypeParts DEF TypeInv

-----------------------------------------------------------------------------
(***************************************************************************)
(* Types.                                                                  *)
(***************************************************************************)
LEMMA TypeInit == Init => TypeInv
PROOF
  <1> SUFFICES ASSUME Init PROVE TypeInv
    OBVIOUS
  <1>1. Numbers
    BY WinterAssumption DEF Init, Numbers, Workers, Actors
  <1>2. Names
    BY DEF Init, Names
  <1>3. Switches
    BY DEF Init, Switches
  <1>4. PositionOK /\ NoChildLeft
    BY DEF Init, PositionOK, NoChildLeft, AtWork
  <1>5. QED
    BY <1>1, <1>2, <1>3, <1>4, TypeParts DEF TypeInv

\* The numbers of the runner; a step of the child leaves them alone.
LEMMA NumbersRunner ==
  ASSUME TypeInv, Runner
  PROVE  Numbers'
PROOF
  <1> USE DEF runner, position, totals, unit, signals, process, inside, Goto
  <1>0. Numbers /\ PositionOK
    BY TypeParts DEF TypeInv
  <1>1. CASE ParseAndExit
    BY <1>0, <1>1 DEF ParseAndExit, Exit, Numbers
  <1>2. CASE ParseDebug
    <2>1. PICK u \in ToDebug : suite' = u[1] /\ test' = u[2]
      BY <1>2 DEF ParseDebug
    <2>2. u \in Units
      BY <2>1 DEF ToDebug
    <2>3. PICK s \in 1 .. Len(Suites) : u \in {s} \X (1 .. Len(Suites[s].tests))
      BY <2>2 DEF Units, Suite
    <2>4. suite' \in 1 .. Len(Suites) /\ test' \in Nat \ {0}
      BY <2>1, <2>3, WinterAssumption
    <2>5. QED
      BY <1>0, <1>2, <2>4, WinterAssumption DEF ParseDebug, Numbers
  <1>3. CASE Parse \/ BeginSuite \/ BeginTest \/ ForkFails \/ WaitEnded \/ WaitNothing
    BY <1>0, <1>3 DEF Parse, BeginSuite, BeginTest, ForkFails, WaitEnded, Verdict,
         WaitNothing, Numbers
  <1>4. CASE NextSuite
    <2>1. suite <= Len(Suites)
      BY <1>0, <1>4 DEF NextSuite, PositionOK
    <2>2. suite' = suite + 1 /\ test' = 1
      BY <1>4 DEF NextSuite
    <2>3. QED
      BY <1>0, <1>4, <2>1, <2>2, WinterAssumption DEF NextSuite, Numbers
  <1>5. CASE SkipTest
    BY <1>0, <1>5 DEF SkipTest, Numbers
  <1>6. CASE Fork
    BY <1>0, <1>6, WinterAssumption DEF Fork, Numbers, Workers, Actors
  <1>7. CASE Sleep \/ DecideToKill \/ KillContinue \/ KillKill \/ KillWait
    BY <1>0, <1>7 DEF Sleep, DecideToKill, KillContinue, KillKill, KillWait, Verdict,
         Numbers
  <1>8. CASE Judge \/ BeginDebugging
    BY <1>0, <1>8 DEF Judge, Count, BeginDebugging, Numbers
  <1>9. CASE InstallHandler \/ ResetAborted \/ DebugAgain
    BY <1>0, <1>9 DEF InstallHandler, ResetAborted, DebugAgain, Numbers
  <1>10. CASE DebugDone \/ EndRun
    BY <1>0, <1>10 DEF DebugDone, Count, EndRun, Exit, Numbers
  <1>11. QED
    BY <1>1, <1>2, <1>3, <1>4, <1>5, <1>6, <1>7, <1>8, <1>9, <1>10 DEF Runner

\* The numbers of the child.
LEMMA NumbersChild ==
  ASSUME TypeInv, Child
  PROVE  Numbers'
PROOF
  <1> USE DEF runner, position, totals, unit, signals, Outside, Ends
  <1>0. Numbers
    BY TypeParts DEF TypeInv
  <1>1. Threads \in 1 .. MaxThreads /\ child = "running"
    BY ChildOnly, ChildAtWork
  <1>2. CASE Stop \/ BeforeEach \/ RunAlone \/ AfterEach \/ ExitZero \/ CreateFails
    BY <1>0, <1>2 DEF Stop, BeforeEach, RunAlone, AfterEach, ExitZero, CreateFails,
         Proceed, Numbers
  <1>3. CASE Create
    <2>1. loop' \in 0 .. MaxThreads - 1
      BY <1>0, <1>1, <1>3, WinterAssumption DEF Create, Numbers
    <2>2. thread' \in [Workers -> {"none", "running", "done"}]
      BY <1>0, <1>3 DEF Create, Numbers
    <2>3. QED
      BY <1>0, <1>3, <2>1, <2>2 DEF Create, Numbers
  <1>4. CASE Join
    <2>1. loop' \in 0 .. MaxThreads - 1
      BY <1>0, <1>1, <1>4, WinterAssumption DEF Join, Numbers
    <2>2. QED
      BY <1>0, <1>4, <2>1 DEF Join, Numbers
  <1>5. CASE \E w \in Workers : FinishBody(w)
    <2>1. thread' \in [Workers -> {"none", "running", "done"}]
      BY <1>0, <1>5 DEF FinishBody, Numbers
    <2>2. QED
      BY <1>0, <1>5, <2>1 DEF FinishBody, Numbers
  <1>6. CASE \E x \in Actors :
               AssertionFails(x) \/ Report(x) \/ ExitFailing(x) \/ Crash(x)
    BY <1>0, <1>6 DEF AssertionFails, Report, ExitFailing, Crash, Numbers
  <1>7. QED
    BY <1>2, <1>3, <1>4, <1>5, <1>6 DEF Child

\* What the rest of the world does.
World == Expire \/ Interrupt \/ KilledDies \/ Attach \/ Ended

LEMMA WorldOnly ==
  ASSUME World
  PROVE  /\ UNCHANGED <<pc, args, position, totals, pid, success, handled>>
         /\ UNCHANGED <<killed, main, loop, thread, failed, printer, reports>>
         /\ child = "none" => child' = "none"
PROOF
  BY DEF World, Expire, Interrupt, KilledDies, Attach, Ended, vars, runner, position,
     totals, unit, signals, process, inside, Living

LEMMA NextSplit ==
  ASSUME [Next]_vars
  PROVE  Runner \/ Child \/ World \/ UNCHANGED vars
PROOF BY DEF Next, World

LEMMA NamesStep ==
  ASSUME TypeInv, [Next]_vars
  PROVE  Names'
PROOF
  <1> USE DEF runner, position, totals, unit, signals, process, inside, Outside, Goto,
        Living
  <1>0. Names
    BY TypeParts DEF TypeInv
  <1>1. CASE ParseAndExit \/ ParseDebug \/ Parse
    BY <1>0, <1>1 DEF ParseAndExit, ParseDebug, Parse, Exit, Names
  <1>2. CASE BeginSuite \/ NextSuite \/ SkipTest \/ BeginTest \/ EndRun
    BY <1>0, <1>2 DEF BeginSuite, NextSuite, SkipTest, BeginTest, EndRun, Exit, AtTest,
         Names
  <1>3. CASE Fork \/ ForkFails
    BY <1>0, <1>3 DEF Fork, ForkFails, Forked, Names
  <1>4. CASE WaitEnded \/ WaitNothing \/ Sleep \/ DecideToKill
    BY <1>0, <1>4 DEF WaitEnded, WaitNothing, Sleep, DecideToKill, Verdict, Names
  <1>5. CASE KillContinue \/ KillKill \/ KillWait
    BY <1>0, <1>5 DEF KillContinue, KillKill, KillWait, Verdict, Names
  <1>6. CASE Judge \/ BeginDebugging \/ InstallHandler \/ ResetAborted
    BY <1>0, <1>6 DEF Judge, Count, BeginDebugging, InstallHandler, ResetAborted, Names
  <1>7. CASE DebugAgain \/ DebugDone
    BY <1>0, <1>7 DEF DebugAgain, DebugDone, Count, Names
  <1>8. CASE Stop \/ BeforeEach \/ RunAlone \/ Create \/ CreateFails \/ Join
    BY <1>0, <1>8 DEF Stop, BeforeEach, RunAlone, Create, CreateFails, Join, Proceed,
         Ends, Names
  <1>9. CASE AfterEach \/ ExitZero \/ (\E w \in Workers : FinishBody(w))
    BY <1>0, <1>9 DEF AfterEach, ExitZero, FinishBody, Proceed, Ends, Names
  <1>10. CASE \E x \in Actors :
                AssertionFails(x) \/ Report(x) \/ ExitFailing(x) \/ Crash(x)
    BY <1>0, <1>10 DEF AssertionFails, Report, ExitFailing, Crash, Ends, Names
  <1>11. CASE World
    BY <1>0, <1>11 DEF World, Expire, Interrupt, KilledDies, Attach, Ended, vars, Names
  <1>12. CASE UNCHANGED vars
    BY <1>0, <1>12 DEF vars, Names
  <1>13. QED
    BY <1>1, <1>2, <1>3, <1>4, <1>5, <1>6, <1>7, <1>8, <1>9, <1>10, <1>11, <1>12
       DEF Next, Runner, Child, World

LEMMA SwitchesStep ==
  ASSUME TypeInv, [Next]_vars
  PROVE  Switches'
PROOF
  <1> USE DEF runner, position, totals, unit, signals, process, inside, Goto
  <1>0. Switches
    BY TypeParts DEF TypeInv
  <1>1. CASE ParseAndExit \/ ParseDebug \/ Parse
    BY <1>0, <1>1 DEF ParseAndExit, ParseDebug, Parse, Exit, Switches
  <1>2. CASE BeginSuite \/ NextSuite \/ SkipTest \/ BeginTest \/ EndRun
    BY <1>0, <1>2 DEF BeginSuite, NextSuite, SkipTest, BeginTest, EndRun, Exit, Switches
  <1>3. CASE Fork \/ ForkFails
    BY <1>0, <1>3 DEF Fork, ForkFails, Switches
  <1>4. CASE WaitEnded \/ WaitNothing \/ Sleep \/ DecideToKill
    BY <1>0, <1>4 DEF WaitEnded, WaitNothing, Sleep, DecideToKill, Verdict, Switches
  <1>5. CASE KillContinue \/ KillKill \/ KillWait
    BY <1>0, <1>5 DEF KillContinue, KillKill, KillWait, Verdict, Switches
  <1>6. CASE Judge \/ BeginDebugging \/ InstallHandler \/ ResetAborted
    BY <1>0, <1>6 DEF Judge, Count, BeginDebugging, InstallHandler, ResetAborted, Switches
  <1>7. CASE DebugAgain \/ DebugDone
    BY <1>0, <1>7 DEF DebugAgain, DebugDone, Count, Switches
  <1>8. CASE Child
    BY <1>0, <1>8, ChildOnly DEF Switches
  <1>9. CASE World
    BY <1>0, <1>9, WorldOnly DEF World, Expire, Interrupt, KilledDies, Attach, Ended,
         vars, Switches
  <1>10. CASE UNCHANGED vars
    BY <1>0, <1>10 DEF vars, Switches
  <1>11. QED
    BY <1>1, <1>2, <1>3, <1>4, <1>5, <1>6, <1>7, <1>8, <1>9, <1>10 DEF Next, Runner, World

LEMMA PositionStep ==
  ASSUME TypeInv, [Next]_vars
  PROVE  PositionOK'
PROOF
  <1> USE DEF runner, position, totals, unit, signals, Goto, AtWork
  <1>0. PositionOK /\ Numbers
    BY TypeParts DEF TypeInv
  <1>1. CASE ParseAndExit \/ Parse \/ NextSuite \/ EndRun
    BY <1>0, <1>1 DEF ParseAndExit, Parse, NextSuite, EndRun, Exit, PositionOK
  <1>2. CASE ParseDebug
    <2>1. PICK u \in ToDebug : suite' = u[1] /\ test' = u[2]
      BY <1>2 DEF ParseDebug
    <2>2. u \in Units
      BY <2>1 DEF ToDebug
    <2>3. PICK s \in 1 .. Len(Suites) : u \in {s} \X (1 .. Len(Suites[s].tests))
      BY <2>2 DEF Units, Suite
    <2>4. suite' \in 1 .. Len(Suites) /\ test' \in 1 .. Len(Suites[suite'].tests)
      BY <2>1, <2>3
    <2>5. suite' <= Len(Suites) /\ test' <= Len(Suites[suite'].tests)
      BY <2>4, WinterAssumption
    <2>6. QED
      BY <1>2, <2>5 DEF ParseDebug, PositionOK
  <1>3. CASE BeginSuite \/ SkipTest
    BY <1>0, <1>3 DEF BeginSuite, SkipTest, AtTest, PositionOK
  <1>4. CASE BeginTest
    BY <1>0, <1>4 DEF BeginTest, AtTest, Suite, PositionOK
  <1>5. CASE Fork \/ ForkFails
    BY <1>0, <1>5 DEF Fork, ForkFails, Forked, PositionOK
  <1>6. CASE WaitEnded \/ WaitNothing \/ Sleep \/ DecideToKill
    BY <1>0, <1>6 DEF WaitEnded, WaitNothing, Sleep, DecideToKill, Verdict, PositionOK
  <1>7. CASE KillContinue \/ KillKill \/ KillWait
    BY <1>0, <1>7 DEF KillContinue, KillKill, KillWait, Verdict, PositionOK
  <1>8. CASE Judge \/ BeginDebugging \/ InstallHandler \/ ResetAborted
    BY <1>0, <1>8 DEF Judge, Count, BeginDebugging, InstallHandler, ResetAborted,
         PositionOK
  <1>9. CASE DebugAgain \/ DebugDone
    BY <1>0, <1>9 DEF DebugAgain, DebugDone, Count, PositionOK
  <1>10. CASE Child
    BY <1>0, <1>10, ChildOnly DEF PositionOK
  <1>11. CASE World
    BY <1>0, <1>11, WorldOnly DEF PositionOK
  <1>12. CASE UNCHANGED vars
    BY <1>0, <1>12 DEF vars, PositionOK
  <1>13. QED
    BY <1>1, <1>2, <1>3, <1>4, <1>5, <1>6, <1>7, <1>8, <1>9, <1>10, <1>11, <1>12
       DEF Next, Runner, World

LEMMA NoChildStep ==
  ASSUME TypeInv, [Next]_vars
  PROVE  NoChildLeft'
PROOF
  <1> USE DEF runner, position, totals, unit, signals, process, inside, Goto
  <1>0. NoChildLeft
    BY DEF TypeInv
  <1>1. CASE ParseAndExit \/ ParseDebug \/ Parse
    BY <1>0, <1>1 DEF ParseAndExit, ParseDebug, Parse, Exit, NoChildLeft
  <1>2. CASE BeginSuite \/ NextSuite \/ SkipTest \/ BeginTest \/ EndRun
    BY <1>0, <1>2 DEF BeginSuite, NextSuite, SkipTest, BeginTest, EndRun, Exit, AtTest,
         NoChildLeft
  <1>3. CASE Fork \/ ForkFails
    BY <1>0, <1>3 DEF Fork, ForkFails, Forked, NoChildLeft
  <1>4. CASE WaitEnded \/ WaitNothing \/ Sleep \/ DecideToKill
    BY <1>0, <1>4 DEF WaitEnded, WaitNothing, Sleep, DecideToKill, NoChildLeft
  <1>5. CASE KillContinue \/ KillKill \/ KillWait
    BY <1>0, <1>5 DEF KillContinue, KillKill, KillWait, NoChildLeft
  <1>6. CASE Judge \/ BeginDebugging \/ InstallHandler \/ ResetAborted
    BY <1>0, <1>6 DEF Judge, Count, BeginDebugging, InstallHandler, ResetAborted,
         NoChildLeft
  <1>7. CASE DebugAgain \/ DebugDone
    BY <1>0, <1>7 DEF DebugAgain, DebugDone, Count, NoChildLeft
  <1>8. CASE Child
    BY <1>0, <1>8, ChildOnly DEF NoChildLeft
  <1>9. CASE World
    BY <1>0, <1>9, WorldOnly DEF NoChildLeft
  <1>10. CASE UNCHANGED vars
    BY <1>0, <1>10 DEF vars, NoChildLeft
  <1>11. QED
    BY <1>1, <1>2, <1>3, <1>4, <1>5, <1>6, <1>7, <1>8, <1>9, <1>10 DEF Next, Runner, World

LEMMA TypeStep ==
  ASSUME TypeInv, [Next]_vars
  PROVE  TypeInv'
PROOF
  <1>1. Numbers'
    <2>1. CASE World
      BY <2>1, TypeParts, WorldOnly DEF TypeInv, Numbers, position, totals
    <2>2. CASE UNCHANGED vars
      BY <2>2, TypeParts DEF TypeInv, Numbers, vars, runner, position, totals, process,
         inside
    <2>3. QED
      BY <2>1, <2>2, NumbersRunner, NumbersChild, NextSplit
  <1>2. Names' /\ Switches' /\ PositionOK' /\ NoChildLeft'
    BY NamesStep, SwitchesStep, PositionStep, NoChildStep
  <1>3. TypeOK'
    BY <1>1, <1>2 DEF TypeOK, Numbers, Names, Switches
  <1>4. QED
    BY <1>2, <1>3 DEF TypeInv

(***************************************************************************)
(* For any suites, command lines and numbers of threads, the variables of  *)
(* the runner and of the child keep their types.                           *)
(***************************************************************************)
THEOREM TypeCorrect == Spec => []TypeOK
PROOF
  <1>1. TypeInv => TypeOK
    BY DEF TypeInv
  <1>2. QED
    BY <1>1, TypeInit, TypeStep, PTL DEF Spec

(***************************************************************************)
(* No child is left where the runner does not wait for one: after a test,  *)
(* at its verdict or at the end (_winter_unit_execute, _winter_unit_debug, *)
(* _winter_kill_process).                                                  *)
(***************************************************************************)
THEOREM NoneLeft == Spec => []NoChildLeft
PROOF
  <1>1. TypeInv => NoChildLeft
    BY DEF TypeInv
  <1>2. QED
    BY <1>1, TypeInit, TypeStep, PTL DEF Spec

-----------------------------------------------------------------------------
(***************************************************************************)
(* Reports.  OneReport is not inductive: the printer is who has reported.  *)
(***************************************************************************)
ReportInv == OneReport /\ (printer = Nobody => reports = 0)

LEMMA ReportStep ==
  ASSUME TypeInv, ReportInv, [Next]_vars
  PROVE  ReportInv'
PROOF
  <1> USE DEF runner, position, totals, unit, signals, process, inside, Outside, Goto,
        ReportInv, OneReport
  <1>1. CASE ParseAndExit \/ ParseDebug \/ Parse
    BY <1>1 DEF ParseAndExit, ParseDebug, Parse, Exit
  <1>2. CASE BeginSuite \/ NextSuite \/ SkipTest \/ BeginTest \/ EndRun
    BY <1>2 DEF BeginSuite, NextSuite, SkipTest, BeginTest, EndRun, Exit
  <1>3. CASE Fork \/ ForkFails
    BY <1>3 DEF Fork, ForkFails
  <1>4. CASE WaitEnded \/ WaitNothing \/ Sleep \/ DecideToKill
    BY <1>4 DEF WaitEnded, WaitNothing, Sleep, DecideToKill
  <1>5. CASE KillContinue \/ KillKill \/ KillWait
    BY <1>5 DEF KillContinue, KillKill, KillWait
  <1>6. CASE Judge \/ BeginDebugging \/ InstallHandler \/ ResetAborted
    BY <1>6 DEF Judge, BeginDebugging, InstallHandler, ResetAborted
  <1>7. CASE DebugAgain \/ DebugDone
    BY <1>7 DEF DebugAgain, DebugDone
  <1>8. CASE Stop \/ BeforeEach \/ RunAlone \/ Create \/ CreateFails \/ Join
    BY <1>8 DEF Stop, BeforeEach, RunAlone, Create, CreateFails, Join, Ends
  <1>9. CASE AfterEach \/ ExitZero \/ (\E w \in Workers : FinishBody(w))
    BY <1>9 DEF AfterEach, ExitZero, FinishBody, Ends
  <1>10. CASE \E x \in Actors : AssertionFails(x) \/ ExitFailing(x) \/ Crash(x)
    BY <1>10 DEF AssertionFails, ExitFailing, Crash, Ends
  <1>11. CASE \E x \in Actors : Report(x)
    <2>1. PICK x \in Actors : Report(x)
      BY <1>11
    <2>2. x # Nobody
      BY WinterAssumption DEF Actors, Workers, Main, Nobody
    <2>3. printer = Nobody /\ printer' = x /\ reports' = reports + 1
      BY <2>1 DEF Report
    <2>4. QED
      BY <2>2, <2>3
  <1>12. CASE World
    BY <1>12, WorldOnly
  <1>13. CASE UNCHANGED vars
    BY <1>13 DEF vars
  <1>14. QED
    BY <1>1, <1>2, <1>3, <1>4, <1>5, <1>6, <1>7, <1>8, <1>9, <1>10, <1>11, <1>12, <1>13
       DEF Next, Runner, Child, World

(***************************************************************************)
(* However many threads of a test fail at once, one of them reports        *)
(* (_winter_fail_begin).                                                   *)
(***************************************************************************)
THEOREM ReportedOnce == Spec => []OneReport
PROOF
  <1>1. Init => ReportInv
    BY DEF Init, ReportInv, OneReport
  <1>2. ReportInv => OneReport
    BY DEF ReportInv
  <1>3. QED
    BY <1>1, <1>2, TypeInit, TypeStep, ReportStep, PTL DEF Spec

-----------------------------------------------------------------------------
(***************************************************************************)
(* Verdicts.  How the child stands while it runs or has ended: its first   *)
(* thread is behind the joins only when the others are done, and a thread  *)
(* that has failed goes no further.                                        *)
(***************************************************************************)
AllDone == Threads > 1 => \A w \in 0 .. Threads - 1 : thread[w] = "done"

LoopOK ==
  /\ main \in {"stop", "before"} => loop = 0
  /\ main = "body" => Threads = 1
  /\ main \in {"create", "join"} => Threads > 1 /\ loop < Threads
  /\ main = "join" => \A w \in 0 .. loop - 1 : thread[w] = "done"
  /\ main \in {"after", "exit"} => AllDone

FailedOK ==
  /\ \A w \in Workers : thread[w] # "none" => Threads > 1 /\ w < Threads
  /\ \A w \in Workers : w \in failed => thread[w] = "running"
  /\ Main \in failed => main \in {"before", "body", "after"}
  /\ printer # Nobody => printer \in failed

ChildOK == child # "none" => LoopOK /\ FailedOK

(***************************************************************************)
(* How the runner knows: the status says whether the test ran to its end,  *)
(* unless the child has been killed, which is only done when time is over, *)
(* or has been interrupted, which only happens in a debugger.              *)
(***************************************************************************)
StatusOK ==
  /\ child = "ended" =>
       IF status = "ok" THEN RanToItsEnd ELSE ~RanToItsEnd \/ killed \/ debugging
  /\ child # "none" /\ killed => pc = "kill_wait"
  /\ pc \in {"kill", "kill_kill", "kill_wait"} => debugging \/ (Timeout /\ expired)

DebuggingOK ==
  /\ handled => debugging
  /\ pc \in {"handler", "reset", "debugged"} => debugging
  /\ pc = "judged" => ~debugging
  /\ pc \in {"parse", "suite", "unit"} => ~debugging

VerdictInv == ChildOK /\ StatusOK /\ DebuggingOK /\ VerdictRight

\* The steps of the runner that no child can be there for, and those that wait.
Away ==
  \/ ParseAndExit \/ ParseDebug \/ Parse
  \/ BeginSuite \/ NextSuite \/ SkipTest \/ BeginTest \/ EndRun
  \/ ForkFails \/ Judge \/ BeginDebugging \/ DebugAgain \/ DebugDone

Waiting ==
  \/ WaitEnded \/ WaitNothing \/ Sleep \/ DecideToKill
  \/ KillContinue \/ KillKill \/ KillWait \/ InstallHandler \/ ResetAborted

LEMMA RunnerSplit == Runner <=> Away \/ Fork \/ Waiting
PROOF BY DEF Runner, Away, Waiting

LEMMA AwayAlone ==
  ASSUME TypeInv, Away
  PROVE  child = "none" /\ UNCHANGED process
PROOF
  <1> USE DEF TypeInv, NoChildLeft
  <1>1. CASE ParseAndExit \/ ParseDebug \/ Parse \/ EndRun
    BY <1>1 DEF ParseAndExit, ParseDebug, Parse, EndRun, Exit
  <1>2. CASE BeginSuite \/ NextSuite \/ SkipTest \/ BeginTest
    BY <1>2 DEF BeginSuite, NextSuite, SkipTest, BeginTest, AtTest
  <1>3. CASE ForkFails \/ Judge \/ BeginDebugging
    BY <1>3 DEF ForkFails, Judge, BeginDebugging
  <1>4. CASE DebugAgain \/ DebugDone
    BY <1>4 DEF DebugAgain, DebugDone
  <1>5. QED
    BY <1>1, <1>2, <1>3, <1>4 DEF Away

LEMMA WaitingOnly ==
  ASSUME Waiting
  PROVE  /\ UNCHANGED <<args, suite, test, debugging>>
         /\ UNCHANGED <<status, main, loop, thread, failed, printer, reports>>
         /\ child' # "none" => child # "none"
         /\ Threads' = Threads
PROOF
  BY DEF Waiting, WaitEnded, WaitNothing, Sleep, DecideToKill, KillContinue, KillKill,
     KillWait, InstallHandler, ResetAborted, runner, position, totals, unit, signals,
     process, inside, Threads, Test, Suite

LEMMA ThreadsKept ==
  ASSUME UNCHANGED <<suite, test>>
  PROVE  Threads' = Threads
PROOF BY DEF Threads, Test, Suite

\* The loops of the child's first thread.
LEMMA LoopStep ==
  ASSUME TypeInv, LoopOK, FailedOK, Child
  PROVE  LoopOK'
PROOF
  <1> USE DEF LoopOK, AllDone, Outside
  <1>0. /\ child = "running" /\ Threads \in 1 .. MaxThreads /\ Threads' = Threads
        /\ Numbers /\ MaxThreads \in Nat
    BY ChildOnly, ChildAtWork, ThreadsKept, TypeParts, WinterAssumption
       DEF runner, position, TypeInv
  <1>1. CASE Stop \/ RunAlone
    BY <1>0, <1>1 DEF Stop, RunAlone, Proceed
  <1>2. CASE BeforeEach
    BY <1>0, <1>2 DEF BeforeEach, Proceed, Numbers
  <1>3. CASE Create
    <2>1. /\ main = "create" /\ Threads > 1 /\ loop \in 0 .. Threads - 1
          /\ main' = IF loop + 1 < Threads THEN "create" ELSE "join"
          /\ loop' = IF loop + 1 < Threads THEN loop + 1 ELSE 0
      BY <1>0, <1>3 DEF Create, Proceed, Numbers
    <2>2. QED
      BY <1>0, <2>1
  <1>4. CASE Join
    <2>1. /\ main = "join" /\ Threads > 1 /\ loop \in 0 .. Threads - 1
          /\ main' = IF loop + 1 < Threads THEN "join" ELSE "after"
          /\ loop' = IF loop + 1 < Threads THEN loop + 1 ELSE 0
          /\ thread' = thread /\ thread[loop] = "done"
      BY <1>0, <1>4 DEF Join, Proceed, Numbers
    <2>2. \A w \in 0 .. loop : thread[w] = "done"
      BY <2>1
    <2>3. CASE loop + 1 < Threads
      <3>1. main' = "join" /\ loop' = loop + 1
        BY <2>1, <2>3
      <3>2. \A w \in 0 .. loop' - 1 : thread'[w] = "done"
        BY <2>1, <2>2, <3>1
      <3>3. QED
        BY <1>0, <2>1, <2>3, <3>1, <3>2
    <2>4. CASE ~(loop + 1 < Threads)
      <3>1. main' = "after" /\ loop + 1 = Threads
        BY <1>0, <2>1, <2>4
      <3>2. \A w \in 0 .. Threads - 1 : thread'[w] = "done"
        BY <1>0, <2>1, <2>2, <3>1
      <3>3. QED
        BY <1>0, <3>1, <3>2
    <2>5. QED
      BY <2>3, <2>4
  <1>5. CASE AfterEach
    BY <1>0, <1>5 DEF AfterEach, Proceed
  <1>6. CASE CreateFails \/ ExitZero
    BY <1>0, <1>6 DEF CreateFails, ExitZero, Ends
  <1>7. CASE \E w \in Workers : FinishBody(w)
    <2>1. PICK w \in Workers : FinishBody(w)
      BY <1>7
    <2>2. /\ thread' = [thread EXCEPT ![w] = "done"] /\ main' = main /\ loop' = loop
          /\ thread \in [Workers -> {"none", "running", "done"}]
      BY <1>0, <2>1 DEF FinishBody, Numbers
    <2>3. \A v \in Workers : thread[v] = "done" => thread'[v] = "done"
      BY <2>2
    <2>4. \A v \in 0 .. Threads - 1 : v \in Workers
      BY <1>0 DEF Workers
    <2>5. main = "join" => \A v \in 0 .. loop - 1 : thread'[v] = "done"
      BY <1>0, <2>3, <2>4 DEF Numbers
    <2>6. main \in {"after", "exit"} =>
            (Threads > 1 => \A v \in 0 .. Threads - 1 : thread'[v] = "done")
      BY <2>3, <2>4
    <2>7. QED
      BY <1>0, <2>2, <2>5, <2>6
  <1>8. CASE \E x \in Actors :
               AssertionFails(x) \/ Report(x) \/ ExitFailing(x) \/ Crash(x)
    BY <1>0, <1>8 DEF AssertionFails, Report, ExitFailing, Crash, Ends
  <1>9. QED
    BY <1>1, <1>2, <1>3, <1>4, <1>5, <1>6, <1>7, <1>8 DEF Child

\* The threads that have failed, and who reports.
LEMMA FailedStep ==
  ASSUME TypeInv, LoopOK, FailedOK, Child
  PROVE  FailedOK'
PROOF
  <1> USE DEF FailedOK, Outside
  <1>0. /\ child = "running" /\ Threads \in 1 .. MaxThreads /\ Threads' = Threads
        /\ Numbers /\ MaxThreads \in Nat
    BY ChildOnly, ChildAtWork, ThreadsKept, TypeParts, WinterAssumption
       DEF runner, position, TypeInv
  <1>1. CASE Stop
    BY <1>0, <1>1 DEF Stop
  <1>2. CASE BeforeEach \/ RunAlone \/ Join \/ AfterEach
    BY <1>0, <1>2 DEF BeforeEach, RunAlone, Join, AfterEach, Proceed
  <1>3. CASE Create
    <2>1. /\ thread' = [thread EXCEPT ![loop] = "running"]
          /\ thread \in [Workers -> {"none", "running", "done"}]
          /\ loop < Threads /\ Threads > 1
          /\ failed' = failed /\ printer' = printer /\ Main \notin failed
      BY <1>0, <1>3 DEF Create, Proceed, LoopOK, Numbers
    <2>2. \A w \in Workers : thread'[w] # "none" => Threads > 1 /\ w < Threads
      BY <2>1
    <2>3. \A w \in Workers : w \in failed => thread'[w] = "running"
      BY <2>1
    <2>4. QED
      BY <1>0, <2>1, <2>2, <2>3
  <1>4. CASE CreateFails \/ ExitZero
    BY <1>0, <1>4 DEF CreateFails, ExitZero, Ends
  <1>5. CASE \E w \in Workers : FinishBody(w)
    <2>1. PICK w \in Workers : FinishBody(w)
      BY <1>5
    <2>2. /\ thread' = [thread EXCEPT ![w] = "done"]
          /\ thread \in [Workers -> {"none", "running", "done"}]
          /\ thread[w] = "running" /\ w \notin failed
          /\ failed' = failed /\ printer' = printer /\ main' = main
      BY <1>0, <2>1 DEF FinishBody, Numbers
    <2>3. QED
      BY <1>0, <2>2
  <1>6. CASE \E x \in Actors : AssertionFails(x)
    <2>1. PICK x \in Actors : AssertionFails(x)
      BY <1>6
    <2>2. /\ failed' = failed \cup {x} /\ thread' = thread /\ main' = main
          /\ printer' = printer
          /\ \/ x = Main /\ main \in {"before", "body", "after"}
             \/ x \in Workers /\ thread[x] = "running"
      BY <2>1 DEF AssertionFails, InUserCode
    <2>3. Main \notin Workers
      BY DEF Main, Workers
    <2>4. QED
      BY <1>0, <2>2, <2>3
  <1>7. CASE \E x \in Actors : Report(x)
    BY <1>0, <1>7 DEF Report
  <1>8. CASE \E x \in Actors : ExitFailing(x) \/ Crash(x)
    BY <1>0, <1>8 DEF ExitFailing, Crash, Ends
  <1>9. QED
    BY <1>1, <1>2, <1>3, <1>4, <1>5, <1>6, <1>7, <1>8 DEF Child

\* When the first thread is about to leave the process, nothing has failed.
LEMMA RanIfExiting ==
  ASSUME TypeInv, LoopOK, FailedOK, main = "exit", child # "none"
  PROVE  RanToItsEnd
PROOF
  <1>0. Threads \in 1 .. MaxThreads /\ failed \subseteq Actors /\ MaxThreads \in Nat
    BY ChildAtWork, TypeParts, WinterAssumption DEF TypeInv, Numbers
  <1>1. AllDone
    BY DEF LoopOK
  <1>2. failed = {}
    <2>1. Main \notin failed
      BY DEF FailedOK
    <2>2. ASSUME NEW w \in Workers, w \in failed PROVE FALSE
      <3>1. thread[w] = "running" /\ Threads > 1 /\ w < Threads
        BY <2>2 DEF FailedOK
      <3>2. w \in 0 .. Threads - 1
        BY <1>0, <3>1 DEF Workers
      <3>3. QED
        BY <1>1, <3>1, <3>2 DEF AllDone
    <2>3. QED
      BY <1>0, <2>1, <2>2 DEF Actors
  <1>3. QED
    BY <1>1, <1>2 DEF RanToItsEnd, AllDone

\* A thread in the code of the test keeps it from having run to its end.
LEMMA NotRanInside ==
  ASSUME TypeInv, FailedOK, child # "none", NEW x \in Actors, InUserCode(x)
  PROVE  ~RanToItsEnd
PROOF
  <1>0. Threads \in 1 .. MaxThreads /\ MaxThreads \in Nat
    BY ChildAtWork, WinterAssumption
  <1>1. CASE x = Main /\ main \in {"before", "body", "after"}
    BY <1>1 DEF RanToItsEnd
  <1>2. CASE x \in Workers /\ thread[x] = "running"
    <2>1. Threads > 1 /\ x \in 0 .. Threads - 1
      BY <1>0, <1>2 DEF FailedOK, Workers
    <2>2. QED
      BY <1>2, <2>1 DEF RanToItsEnd
  <1>3. QED
    BY <1>1, <1>2 DEF InUserCode

\* The status the child leaves, as the child ends by itself.
LEMMA StatusChild ==
  ASSUME TypeInv, LoopOK, FailedOK, StatusOK, Child
  PROVE  StatusOK'
PROOF
  <1>0. /\ child = "running" /\ pc' = pc /\ killed' = killed /\ debugging' = debugging
        /\ Timeout' = Timeout /\ expired' = expired /\ Threads' = Threads
    BY ChildOnly, ThreadsKept
       DEF runner, position, unit, Timeout, Flag, Given
  <1>1. child' = "ended" =>
          main' = main /\ failed' = failed /\ thread' = thread
    BY <1>0 DEF Child, Stop, BeforeEach, RunAlone, Create, CreateFails, Join, AfterEach,
       ExitZero, FinishBody, AssertionFails, Report, ExitFailing, Crash, Ends, Outside
  <1>2. child' = "ended" => (RanToItsEnd' <=> RanToItsEnd)
    BY <1>0, <1>1 DEF RanToItsEnd
  <1>3. child' = "ended" =>
          IF status' = "ok" THEN RanToItsEnd ELSE ~RanToItsEnd
    <2>1. CASE ExitZero
      BY <1>0, <2>1, RanIfExiting DEF ExitZero, Ends
    <2>2. CASE CreateFails
      BY <2>2 DEF CreateFails, Ends, RanToItsEnd
    <2>3. CASE \E x \in Actors : ExitFailing(x)
      <3>1. PICK x \in Actors : ExitFailing(x)
        BY <2>3
      <3>2. x # Nobody
        BY WinterAssumption DEF Actors, Workers, Main, Nobody
      <3>3. x \in failed
        BY <3>1, <3>2 DEF ExitFailing, FailedOK
      <3>4. QED
        BY <3>1, <3>3 DEF ExitFailing, Ends, RanToItsEnd
    <2>4. CASE \E x \in Actors : Crash(x)
      BY <1>0, <2>4, NotRanInside DEF Crash, Ends
    <2>5. CASE Stop
      BY <2>5 DEF Stop
    <2>6. CASE BeforeEach \/ RunAlone \/ Create \/ Join \/ AfterEach
      BY <1>0, <2>6 DEF BeforeEach, RunAlone, Create, Join, AfterEach, Outside
    <2>7. CASE \E w \in Workers : FinishBody(w)
      BY <1>0, <2>7 DEF FinishBody, Outside
    <2>8. CASE \E x \in Actors : AssertionFails(x) \/ Report(x)
      BY <1>0, <2>8 DEF AssertionFails, Report, Outside
    <2>9. QED
      BY <2>1, <2>2, <2>3, <2>4, <2>5, <2>6, <2>7, <2>8 DEF Child
  <1>4. QED
    BY <1>0, <1>2, <1>3 DEF StatusOK

\* The time-out is part of the command line.
LEMMA TimeoutKept ==
  ASSUME UNCHANGED args
  PROVE  Timeout' = Timeout
PROOF BY DEF Timeout, Flag, Given

LEMMA StatusWaiting ==
  ASSUME TypeInv, StatusOK, Waiting
  PROVE  StatusOK'
PROOF
  <1> USE DEF position, totals, unit, signals, inside, Goto, StatusOK
  <1>0. /\ RanToItsEnd' <=> RanToItsEnd
        /\ Timeout' = Timeout /\ debugging' = debugging
    BY WaitingOnly, TimeoutKept DEF RanToItsEnd
  <1>1. CASE WaitEnded
    BY <1>0, <1>1 DEF WaitEnded, Verdict
  <1>2. CASE WaitNothing \/ Sleep
    BY <1>0, <1>2 DEF WaitNothing, Sleep, runner, process
  <1>3. CASE DecideToKill
    BY <1>0, <1>3 DEF DecideToKill, GiveUp, runner, process
  <1>4. CASE KillContinue
    BY <1>0, <1>4 DEF KillContinue, runner
  <1>5. CASE KillKill
    BY <1>0, <1>5 DEF KillKill, runner
  <1>6. CASE KillWait
    BY <1>0, <1>6 DEF KillWait, Verdict
  <1>7. CASE InstallHandler \/ ResetAborted
    BY <1>0, <1>7 DEF InstallHandler, ResetAborted, process
  <1>8. QED
    BY <1>1, <1>2, <1>3, <1>4, <1>5, <1>6, <1>7 DEF Waiting

LEMMA StatusWorld ==
  ASSUME TypeInv, StatusOK, DebuggingOK, World
  PROVE  StatusOK'
PROOF
  <1> USE DEF position, StatusOK
  <1>0. /\ UNCHANGED <<pc, killed, debugging>>
        /\ RanToItsEnd' <=> RanToItsEnd
        /\ Timeout' = Timeout
    BY WorldOnly, ThreadsKept, TimeoutKept DEF RanToItsEnd
  <1>1. CASE Expire
    BY <1>0, <1>1 DEF Expire, process, inside
  <1>2. CASE Interrupt
    BY <1>0, <1>2 DEF Interrupt, process, inside, unit, DebuggingOK
  <1>3. CASE KilledDies
    BY <1>0, <1>3 DEF KilledDies, runner, unit, Living
  <1>4. CASE Attach
    BY <1>0, <1>4 DEF Attach, runner, unit, inside
  <1>5. CASE Ended
    BY <1>0, <1>5 DEF Ended, vars, runner, unit, process, inside
  <1>6. QED
    BY <1>1, <1>2, <1>3, <1>4, <1>5 DEF World

LEMMA DebuggingStep ==
  ASSUME TypeInv, DebuggingOK, [Next]_vars
  PROVE  DebuggingOK'
PROOF
  <1> USE DEF runner, position, totals, unit, signals, process, Goto, DebuggingOK
  <1>1. CASE ParseAndExit \/ ParseDebug \/ Parse
    BY <1>1 DEF ParseAndExit, ParseDebug, Parse, Exit
  <1>2. CASE BeginSuite \/ NextSuite \/ SkipTest \/ BeginTest \/ EndRun
    BY <1>2 DEF BeginSuite, NextSuite, SkipTest, BeginTest, EndRun, Exit
  <1>3. CASE Fork \/ ForkFails
    BY <1>3 DEF Fork, ForkFails, Forked
  <1>4. CASE WaitEnded \/ WaitNothing \/ Sleep \/ DecideToKill
    BY <1>4 DEF WaitEnded, WaitNothing, Sleep, DecideToKill, Verdict
  <1>5. CASE KillContinue
    BY <1>5 DEF KillContinue
  <1>6. CASE KillKill
    BY <1>6 DEF KillKill
  <1>7. CASE KillWait
    BY <1>7 DEF KillWait, Verdict
  <1>8. CASE Judge \/ BeginDebugging \/ InstallHandler \/ ResetAborted
    BY <1>8 DEF Judge, Count, BeginDebugging, InstallHandler, ResetAborted
  <1>9. CASE DebugAgain \/ DebugDone
    BY <1>9 DEF DebugAgain, DebugDone, Count
  <1>10. CASE Child
    BY <1>10, ChildOnly
  <1>11. CASE World
    BY <1>11, WorldOnly
  <1>12. CASE UNCHANGED vars
    BY <1>12 DEF vars
  <1>13. QED
    BY <1>1, <1>2, <1>3, <1>4, <1>5, <1>6, <1>7, <1>8, <1>9, <1>10, <1>11, <1>12
       DEF Next, Runner, World

\* The verdict: given by waitpid or by the end of a kill, and kept until counted.
LEMMA VerdictStep ==
  ASSUME TypeInv, ChildOK, StatusOK, DebuggingOK, VerdictRight, [Next]_vars
  PROVE  VerdictRight'
PROOF
  <1> USE DEF Goto, VerdictRight
  <1>1. CASE Away
    <2>1. pc' # "judged"
      BY <1>1 DEF Away, ParseAndExit, ParseDebug, Parse, BeginSuite, NextSuite, SkipTest,
         BeginTest, EndRun, ForkFails, Judge, BeginDebugging, DebugAgain, DebugDone, Count,
         Exit, Forked, AtTest, totals
    <2>2. QED
      BY <2>1
  <1>2. CASE Fork
    BY <1>2 DEF Fork, Forked
  <1>3. CASE WaitEnded
    <2>1. /\ RanToItsEnd' <=> RanToItsEnd
          /\ pid' = pid /\ killed' = killed
          /\ pc' = IF debugging THEN "debugged" ELSE "judged"
          /\ ~debugging => (success' <=> pid = "-1" \/ status = "ok")
          /\ pc = "poll" /\ (pid = "-1" \/ child = "ended")
      BY <1>3, WaitingOnly DEF WaitEnded, Verdict, RanToItsEnd, inside, Waiting
    <2>2. child = "ended" => ~killed
      BY <2>1 DEF StatusOK
    <2>3. ASSUME pc' = "judged", pid' = "child"
          PROVE  success' <=> RanToItsEnd
      <3>1. child = "ended" /\ ~debugging /\ (success' <=> status = "ok")
        BY <2>1, <2>3
      <3>2. QED
        BY <2>2, <3>1 DEF StatusOK
    <2>4. QED
      BY <2>1, <2>3
  <1>4. CASE KillWait
    <2>1. /\ Timeout' = Timeout /\ expired' = expired
          /\ pc = "kill_wait" /\ pc' = IF debugging THEN "debugged" ELSE "judged"
          /\ ~debugging => ~success'
      BY <1>4, WaitingOnly, TimeoutKept DEF KillWait, Verdict, Waiting
    <2>2. ~debugging => Timeout /\ expired
      BY <2>1 DEF StatusOK
    <2>3. QED
      BY <2>1, <2>2
  <1>5. CASE WaitNothing \/ Sleep \/ DecideToKill \/ KillContinue \/ KillKill
             \/ InstallHandler \/ ResetAborted
    BY <1>5 DEF WaitNothing, Sleep, DecideToKill, KillContinue, KillKill, InstallHandler,
       ResetAborted
  <1>6. CASE Child
    <2>1. pc # "judged" /\ pc' = pc
      BY <1>6, ChildOnly DEF TypeInv, NoChildLeft
    <2>2. QED
      BY <2>1
  <1>7. CASE World
    <2>1. UNCHANGED <<pc, args, suite, test, pid, success, main, failed, thread>>
      BY <1>7, WorldOnly DEF position
    <2>2. pc = "judged" => expired' = expired
      BY <1>7 DEF World, Expire, Interrupt, KilledDies, Attach, Ended, vars, runner, unit
    <2>3. (RanToItsEnd' <=> RanToItsEnd) /\ Timeout' = Timeout
      BY <2>1, ThreadsKept, TimeoutKept DEF RanToItsEnd
    <2>4. QED
      BY <2>1, <2>2, <2>3
  <1>8. CASE UNCHANGED vars
    <2>1. UNCHANGED <<pc, args, suite, test, pid, success, expired, main, failed, thread>>
      BY <1>8 DEF vars, runner, position, unit, process, inside
    <2>2. (RanToItsEnd' <=> RanToItsEnd) /\ Timeout' = Timeout
      BY <2>1, ThreadsKept, TimeoutKept DEF RanToItsEnd
    <2>3. QED
      BY <2>1, <2>2
  <1>9. QED
    BY <1>1, <1>2, <1>3, <1>4, <1>5, <1>6, <1>7, <1>8, NextSplit, RunnerSplit DEF Waiting

LEMMA VerdictInvStep ==
  ASSUME TypeInv, VerdictInv, [Next]_vars
  PROVE  ChildOK' /\ StatusOK'
PROOF
  <1>0. ChildOK /\ StatusOK /\ DebuggingOK
    BY DEF VerdictInv
  <1>1. CASE Away
    <2>1. child = "none" /\ UNCHANGED process
      BY <1>1, AwayAlone
    <2>2. pc' \notin {"kill", "kill_kill", "kill_wait"}
      BY <1>1 DEF Away, ParseAndExit, ParseDebug, Parse, BeginSuite, NextSuite, SkipTest,
         BeginTest, EndRun, ForkFails, Judge, BeginDebugging, DebugAgain, DebugDone, Count,
         Exit, Forked, AtTest, Goto
    <2>3. QED
      BY <2>1, <2>2 DEF ChildOK, StatusOK, process
  <1>2. CASE Fork
    BY <1>2, WinterAssumption DEF Fork, Forked, Goto, ChildOK, LoopOK, FailedOK, StatusOK
  <1>3. CASE Waiting
    <2>1. ChildOK'
      BY <1>0, <1>3, WaitingOnly DEF ChildOK, LoopOK, FailedOK, AllDone
    <2>2. QED
      BY <1>0, <1>3, <2>1, StatusWaiting
  <1>4. CASE Child
    <2>1. child # "none"
      BY <1>4, ChildOnly
    <2>2. LoopOK /\ FailedOK
      BY <1>0, <2>1 DEF ChildOK
    <2>3. QED
      BY <1>0, <1>4, <2>2, LoopStep, FailedStep, StatusChild DEF ChildOK
  <1>5. CASE World
    <2>1. ChildOK'
      BY <1>0, <1>5, WorldOnly, ThreadsKept DEF ChildOK, LoopOK, FailedOK, AllDone, position
    <2>2. QED
      BY <1>0, <1>5, <2>1, StatusWorld
  <1>6. CASE UNCHANGED vars
    <2>1. /\ UNCHANGED <<pc, args, suite, test, debugging, expired, child, status, killed>>
          /\ UNCHANGED <<main, loop, thread, failed, printer>>
      BY <1>6 DEF vars, runner, position, unit, process, inside
    <2>2. Threads' = Threads /\ Timeout' = Timeout
      BY <2>1, ThreadsKept, TimeoutKept
    <2>3. QED
      BY <1>0, <2>1, <2>2
         DEF ChildOK, LoopOK, FailedOK, AllDone, StatusOK, RanToItsEnd
  <1>7. QED
    BY <1>1, <1>2, <1>3, <1>4, <1>5, <1>6, NextSplit, RunnerSplit

(***************************************************************************)
(* For any suites and numbers of threads, whatever fails, hangs, crashes   *)
(* or is killed when: a test that was started passes only if all of it ran *)
(* to its end, and fails for a reason (_winter_unit_execute).              *)
(***************************************************************************)
THEOREM VerdictsRight == Spec => []VerdictRight
PROOF
  <1>1. Init => VerdictInv
    BY DEF Init, VerdictInv, ChildOK, StatusOK, DebuggingOK, VerdictRight
  <1>2. TypeInv /\ VerdictInv /\ [Next]_vars => VerdictInv'
    BY VerdictInvStep, DebuggingStep, VerdictStep DEF VerdictInv
  <1>3. VerdictInv => VerdictRight
    BY DEF VerdictInv
  <1>4. QED
    BY <1>1, <1>2, <1>3, TypeInit, TypeStep, PTL DEF Spec

-----------------------------------------------------------------------------
(***************************************************************************)
(* Every test once.  The tests that have run are the selected ones behind  *)
(* the runner's position.                                                  *)
(***************************************************************************)
LEMMA UnitParts ==
  ASSUME NEW u
  PROVE  u \in Units <=> /\ u = <<u[1], u[2]>>
                         /\ u[1] \in 1 .. Len(Suites)
                         /\ u[2] \in 1 .. Len(Suites[u[1]].tests)
PROOF
  <1>1. u \in Units <=> \E s \in 1 .. Len(Suites) : u \in {s} \X (1 .. Len(Suites[s].tests))
    BY DEF Units
  <1>2. QED
    BY <1>1

LEMMA UnitsFinite == IsFiniteSet(Units)
PROOF
  <1> DEFINE S == 1 .. Len(Suites)
             f == [s \in S |-> {s} \X (1 .. Len(Suites[s].tests))]
             T == {{s} \X (1 .. Len(Suites[s].tests)) : s \in S}
  <1>1. IsFiniteSet(S)
    BY WinterAssumption, 1 \in Int, Len(Suites) \in Int, FS_Interval
  <1>2. ASSUME NEW s \in S PROVE IsFiniteSet({s} \X (1 .. Len(Suites[s].tests)))
    <2>1. Len(Suites[s].tests) \in Int /\ 1 \in Int
      BY WinterAssumption
    <2>2. IsFiniteSet(1 .. Len(Suites[s].tests))
      BY <2>1, FS_Interval
    <2>3. IsFiniteSet({s})
      BY FS_Singleton, Zenon
    <2>4. QED
      BY <2>2, <2>3, FS_Product, Zenon
  <1>3. f \in Surjection(S, T)
    BY DEF Surjection
  <1>4. IsFiniteSet(T)
    <2> HIDE DEF f, S, T
    <2>1. QED
      BY <1>1, <1>3, FS_Surjection, Zenon
  <1>5. \A X \in T : IsFiniteSet(X)
    BY <1>2
  <1>6. Units = UNION T
    BY DEF Units
  <1>7. QED
    <2> HIDE DEF T
    <2>1. QED
      BY <1>4, <1>5, <1>6, FS_UNION, Zenon

\* A run of the tests, and not of one that is to be debugged.
Plain == ~Malformed /\ ~Informs /\ ~DebugOnly

Behind == {u \in Selected : Before(u, <<suite, test>>)}

CountInv ==
  Plain =>
    /\ IF pc = "end"
         THEN /\ tests = Cardinality(Selected)
              /\ exit_code = "SUCCESS" <=> passed = tests
         ELSE tests = Cardinality(Behind)
    /\ pc = "parse" => suite = 1
    /\ pc \in {"parse", "suite"} => test = 1
    /\ pc = "unit" => SuiteEnabled(suite)
    /\ pc \in AtWork => <<suite, test>> \in Selected

\* What is selected is a matter of the command line.
LEMMA SelectionKept ==
  ASSUME UNCHANGED args
  PROVE  /\ Plain' <=> Plain
         /\ Selected' = Selected
         /\ \A s : SuiteEnabled(s)' <=> SuiteEnabled(s)
BY DEF Plain, Malformed, Informs, Flag, DebugOnly, Given, Selected, SuiteEnabled,
       UnitEnabled, Matches

\* A step that stays at the test.
LEMMA CountStays ==
  ASSUME CountInv, UNCHANGED <<args, suite, test, tests, passed, exit_code>>,
         (pc # "end" /\ pc' # "end") \/ pc' = pc,
         pc' = "parse" => pc = "parse",
         pc' \in {"parse", "suite"} => pc \in {"parse", "suite"},
         pc' = "unit" => pc = "unit" \/ SuiteEnabled(suite),
         pc' \in AtWork => pc \in AtWork \/ <<suite, test>> \in Selected
  PROVE  CountInv'
PROOF
  <1>1. (Plain' <=> Plain) /\ Selected' = Selected /\ (SuiteEnabled(suite)' <=> SuiteEnabled(suite))
    BY SelectionKept DEF SuiteEnabled
  <1>2. Behind' = Behind
    BY <1>1 DEF Behind, Before
  <1>3. QED
    BY <1>1, <1>2 DEF CountInv

\* The next suite, or the next test: the one left behind is not selected.
LEMMA CountSkips ==
  ASSUME TypeInv, CountInv, NextSuite \/ SkipTest
  PROVE  CountInv'
PROOF
  <1> SUFFICES ASSUME Plain' PROVE CountInv'
    BY DEF CountInv
  <1>0. suite \in 1 .. Len(Suites) + 1 /\ test \in Nat \ {0} /\ Len(Suites) \in Nat
    BY TypeParts, WinterAssumption DEF TypeInv, Numbers
  <1>1. /\ UNCHANGED <<args, tests, passed, exit_code>>
        /\ pc \in {"suite", "unit"} /\ pc' \in {"suite", "unit"}
    BY DEF NextSuite, SkipTest, totals, Goto, AtTest
  <1>2. Plain /\ Selected' = Selected /\ \A s : SuiteEnabled(s)' <=> SuiteEnabled(s)
    BY <1>1, SelectionKept
  <1>3. \A u \in Selected : /\ u = <<u[1], u[2]>>
                            /\ u[1] \in 1 .. Len(Suites)
                            /\ u[2] \in Nat /\ 1 <= u[2] /\ u[2] <= Len(Suites[u[1]].tests)
                            /\ SuiteEnabled(u[1]) /\ UnitEnabled(u[1], u[2])
                            /\ Len(Suites[u[1]].tests) \in Nat
    BY UnitParts, WinterAssumption DEF Selected
  <1>4. CASE NextSuite
    <2>1. suite' = suite + 1 /\ test' = 1 /\ pc' = "suite"
      BY <1>4 DEF NextSuite, Goto
    <2>2. \A u \in Selected : u[1] = suite => u[2] < test
      <3>1. CASE pc = "suite" /\ ~SuiteEnabled(suite)
        BY <1>3, <3>1
      <3>2. CASE pc = "unit" /\ ~AtTest
        BY <1>0, <1>3, <3>2 DEF AtTest, Suite
      <3>3. QED
        BY <1>4, <3>1, <3>2 DEF NextSuite
    <2>3. ASSUME NEW u \in Selected
          PROVE  Before(u, <<suite', test'>>) <=> Before(u, <<suite, test>>)
      BY <1>0, <1>3, <2>1, <2>2 DEF Before
    <2>4. Behind' = Behind
      BY <1>2, <2>3 DEF Behind, Before
    <2>5. QED
      BY <1>1, <1>2, <2>1, <2>4 DEF CountInv, AtWork
  <1>5. CASE SkipTest
    <2>1. suite' = suite /\ test' = test + 1 /\ pc' = "unit" /\ pc = "unit"
      BY <1>5 DEF SkipTest, AtTest
    <2>2. <<suite, test>> \notin Selected
      BY <1>5 DEF SkipTest, Selected
    <2>3. \A u \in Selected : ~(u[1] = suite /\ u[2] = test)
      BY <1>3, <2>2
    <2>4. ASSUME NEW u \in Selected
          PROVE  Before(u, <<suite', test'>>) <=> Before(u, <<suite, test>>)
      BY <1>0, <1>3, <2>1, <2>3 DEF Before
    <2>5. Behind' = Behind
      BY <1>2, <2>4 DEF Behind, Before
    <2>6. SuiteEnabled(suite)'
      BY <1>2, <2>1 DEF CountInv, SuiteEnabled
    <2>7. QED
      BY <1>1, <1>2, <2>1, <2>5, <2>6 DEF CountInv, AtWork
  <1>6. QED
    BY <1>4, <1>5

\* A test has run: it is behind now.
LEMMA CountCounts ==
  ASSUME TypeInv, CountInv, pc \in AtWork, Count, UNCHANGED args
  PROVE  CountInv'
PROOF
  <1> SUFFICES ASSUME Plain' PROVE CountInv'
    BY DEF CountInv
  <1>0. suite \in 1 .. Len(Suites) + 1 /\ test \in Nat \ {0} /\ tests \in Nat
    BY TypeParts DEF TypeInv, Numbers
  <1>1. Plain /\ Selected' = Selected /\ \A s : SuiteEnabled(s)' <=> SuiteEnabled(s)
    BY SelectionKept
  <1>2. suite' = suite /\ test' = test + 1 /\ tests' = tests + 1 /\ pc' = "unit"
    BY DEF Count, Goto
  <1> DEFINE here == <<suite, test>>
  <1>3. here \in Selected /\ tests = Cardinality(Behind)
    BY <1>1 DEF CountInv, AtWork
  <1>4. \A u \in Selected : u = <<u[1], u[2]>> /\ u[1] \in 1 .. Len(Suites) /\ u[2] \in Nat
    BY UnitParts, WinterAssumption DEF Selected
  <1>5. ASSUME NEW u \in Selected
        PROVE  Before(u, <<suite', test'>>) <=> Before(u, here) \/ u = here
    BY <1>0, <1>2, <1>4 DEF Before
  <1>6. Behind' = Behind \cup {here}
    BY <1>1, <1>3, <1>5 DEF Behind, Before
  <1>7. here \notin Behind
    BY <1>0 DEF Behind, Before
  <1>8. IsFiniteSet(Behind)
    <2>1. Behind \in SUBSET Units
      BY DEF Behind, Selected
    <2>2. QED
      BY <2>1, UnitsFinite, FS_Subset, Zenon
  <1>9. Cardinality(Behind') = Cardinality(Behind) + 1
    <2> HIDE DEF here
    <2>1. Cardinality(Behind \cup {here}) = Cardinality(Behind) + 1
      BY <1>7, <1>8, FS_AddElement, Zenon
    <2>2. QED
      BY <1>6, <2>1
  <1>10. SuiteEnabled(suite)'
    BY <1>1, <1>2, <1>3 DEF Selected, SuiteEnabled
  <1>11. QED
    BY <1>1, <1>2, <1>3, <1>9, <1>10 DEF CountInv, AtWork

\* The suites are through: all that is selected is behind.
LEMMA CountEnds ==
  ASSUME TypeInv, CountInv, EndRun
  PROVE  CountInv'
PROOF
  <1> SUFFICES ASSUME Plain' PROVE CountInv'
    BY DEF CountInv
  <1>0. suite \in 1 .. Len(Suites) + 1 /\ Len(Suites) \in Nat
    BY TypeParts, WinterAssumption DEF TypeInv, Numbers
  <1>1. /\ UNCHANGED <<args, tests, passed>> /\ pc = "suite" /\ pc' = "end"
        /\ exit_code' = IF tests = passed THEN "SUCCESS" ELSE "FAILURE"
        /\ suite > Len(Suites)
    BY DEF EndRun, Exit
  <1>2. Plain /\ Selected' = Selected
    BY <1>1, SelectionKept
  <1>3. \A u \in Selected : u[1] \in 1 .. Len(Suites)
    BY UnitParts DEF Selected
  <1>4. Behind = Selected
    BY <1>0, <1>1, <1>3 DEF Behind, Before
  <1>5. QED
    BY <1>1, <1>2, <1>4 DEF CountInv, AtWork

LEMMA CountInit == Init => CountInv
PROOF
  <1> SUFFICES ASSUME Init PROVE CountInv
    OBVIOUS
  <1>1. \A u \in Selected : u[1] \in 1 .. Len(Suites) /\ u[2] \in 1 .. Len(Suites[u[1]].tests)
    BY UnitParts DEF Selected
  <1>2. Behind = {}
    BY <1>1 DEF Init, Behind, Before
  <1>3. Cardinality(Behind) = 0
    BY <1>2, FS_EmptySet
  <1>4. QED
    BY <1>3 DEF Init, CountInv, AtWork

LEMMA CountStep ==
  ASSUME TypeInv, CountInv, [Next]_vars
  PROVE  CountInv'
PROOF
  <1> USE DEF runner, position, totals, Goto, AtWork
  <1>0. ASSUME UNCHANGED args, ~Plain PROVE CountInv'
    BY <1>0, SelectionKept DEF CountInv
  <1>1. CASE ParseAndExit
    BY <1>0, <1>1 DEF ParseAndExit, Exit, Plain
  <1>2. CASE ParseDebug
    BY <1>0, <1>2 DEF ParseDebug, Plain
  <1>3. CASE Parse \/ BeginSuite
    BY <1>3, CountStays DEF Parse, BeginSuite
  <1>4. CASE NextSuite \/ SkipTest
    BY <1>4, CountSkips
  <1>5. CASE BeginTest
    <2>1. CASE ~Plain
      BY <1>0, <1>5, <2>1 DEF BeginTest
    <2>2. CASE Plain
      <3>1. suite \in 1 .. Len(Suites) /\ test \in 1 .. Len(Suites[suite].tests)
        <4>1. /\ suite \in 1 .. Len(Suites) + 1 /\ test \in Nat \ {0}
              /\ suite <= Len(Suites) /\ test <= Len(Suites[suite].tests)
          BY <1>5, TypeParts DEF TypeInv, Numbers, PositionOK, BeginTest, AtTest, Suite
        <4>2. Len(Suites[suite].tests) \in Nat
          BY <4>1, WinterAssumption
        <4>3. QED
          BY <4>1, <4>2, WinterAssumption
      <3>2. <<suite, test>> \in Units
        BY <3>1, UnitParts
      <3>3. SuiteEnabled(suite) /\ UnitEnabled(suite, test)
        BY <1>5, <2>2 DEF CountInv, BeginTest, AtTest
      <3>4. <<suite, test>> \in Selected
        BY <3>2, <3>3 DEF Selected
      <3>5. QED
        BY <1>5, <3>4, CountStays DEF BeginTest, AtTest
    <2>3. QED
      BY <2>1, <2>2
  <1>6. CASE EndRun
    BY <1>6, CountEnds
  <1>7. CASE Fork \/ ForkFails
    BY <1>7, CountStays DEF Fork, ForkFails, Forked
  <1>8. CASE WaitEnded \/ WaitNothing \/ Sleep \/ DecideToKill
    BY <1>8, CountStays DEF WaitEnded, WaitNothing, Sleep, DecideToKill, Verdict
  <1>9. CASE KillContinue \/ KillKill \/ KillWait
    BY <1>9, CountStays DEF KillContinue, KillKill, KillWait, Verdict
  <1>10. CASE Judge
    BY <1>10, CountCounts DEF Judge
  <1>11. CASE BeginDebugging \/ InstallHandler \/ ResetAborted \/ DebugAgain
    BY <1>11, CountStays DEF BeginDebugging, InstallHandler, ResetAborted, DebugAgain
  <1>12. CASE DebugDone
    <2>1. CASE DebugOnly
      BY <1>0, <1>12, <2>1 DEF DebugDone, Plain
    <2>2. CASE ~DebugOnly
      BY <1>12, <2>2, CountCounts DEF DebugDone
    <2>3. QED
      BY <2>1, <2>2
  <1>13. CASE Child
    BY <1>13, ChildOnly, CountStays
  <1>14. CASE World
    BY <1>14, WorldOnly, CountStays
  <1>15. CASE UNCHANGED vars
    BY <1>15, CountStays DEF vars
  <1>16. QED
    BY <1>1, <1>2, <1>3, <1>4, <1>5, <1>6, <1>7, <1>8, <1>9, <1>10, <1>11, <1>12,
       <1>13, <1>14, <1>15, NextSplit DEF Runner

(***************************************************************************)
(* For any suites and patterns, whichever tests hang, crash, fail, are     *)
(* debugged or cannot be forked: when the run ends every selected test has *)
(* been counted once, and the exit code tells whether all have passed      *)
(* (_winter_main).                                                         *)
(***************************************************************************)
THEOREM AllRun == Spec => []EveryTestRuns
PROOF
  <1>1. TypeInv /\ CountInv /\ [Next]_vars => CountInv'
    BY CountStep
  <1>2. CountInv => EveryTestRuns
    BY DEF CountInv, EveryTestRuns, Plain
  <1>3. QED
    BY <1>1, <1>2, CountInit, TypeInit, TypeStep, PTL DEF Spec

=============================================================================
