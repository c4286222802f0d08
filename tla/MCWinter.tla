------------------------------ MODULE MCWinter ------------------------------
(***************************************************************************)
(* The test runner with two suites: a test in one thread and one in three  *)
(* threads, and a suite with one test that patterns leave out.             *)
(***************************************************************************)
EXTENDS Winter

Plain(name, n) == [name |-> name, threads |-> n]

MCSuites ==
  <<[name |-> "latch", tests |-> <<Plain("a", 1), Plain("b", 3)>>],
    [name |-> "pager", tests |-> <<Plain("a", 1)>>]>>

Option(name, value) == [kind |-> "option", name |-> name, value |-> value]
Pattern(kind, suite_name, names) ==
  [kind |-> kind, suite |-> suite_name, tests |-> names]

MCCommandLines ==
  {<<>>,
   <<Option("rerun", TRUE), Pattern("pattern", "latch", {"b"})>>,
   <<Option("timeout", FALSE), Pattern("pattern", "latch", {"a", "b"})>>,
   <<Option("timeout", FALSE), Option("timeout", TRUE),
     Pattern("pattern", "pager", {"a"}), Pattern("pattern", "none", {})>>,
   <<Pattern("debug", "pager", {"b"}), Pattern("debug", "latch", {"a", "b"})>>,
   <<Pattern("debug", "latch", {"c"})>>,
   <<Option("color", TRUE), Option("help", TRUE)>>,
   <<Option("help", TRUE), Option("pid", TRUE)>>}

=============================================================================
