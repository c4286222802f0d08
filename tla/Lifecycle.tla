----------------------------- MODULE Lifecycle ------------------------------
(***************************************************************************)
(* What a thread allocates and frees between pager_open and pager_close,   *)
(* btree_open or btree_create and btree_close, when any malloc may fail.   *)
(* A call is left through the cleanups that defer and errdefer have        *)
(* registered, the last one first; those of errdefer do nothing unless the *)
(* thread's error code is set, whoever has set it (include/deffer.h).      *)
(*                                                                         *)
(* One action is one malloc, one cleanup or one free.  The headers of the  *)
(* ring and the buckets of the directory count as one block each: the      *)
(* loops of pager_close free them all.                                     *)
(***************************************************************************)
EXTENDS ErrorTrace, FiniteSets

\* The blocks of memory, and for those that are found through another block,
\* that one.
Owner == [pager |-> "client", btree |-> "client",
          directory |-> "pager", ring |-> "pager",
          headers |-> "ring", buckets |-> "directory"]
Blocks == DOMAIN Owner
PagerBlocks == Blocks \ {"btree"}

\* Where a block is freed.
Freeing == [pager |-> "free_pager", btree |-> "free_btree",
            directory |-> "free_directory", ring |-> "free_ring",
            headers |-> "free_headers", buckets |-> "free_buckets"]

NoCall == "none"
Calls == {"pager_open", "pager_fix", "pager_close",
          "btree_open", "btree_create", "btree_close"}

VARIABLES
  heap,      \* the blocks allocated
  pager,     \* the client's pager_t*: "null", "sound" when no error was set as
             \* pager_open began, "stale" when one was
  btree,     \* the client's btree_t*, likewise
  fixed,     \* the root of btree_create is fixed
  call,      \* the call in progress
  at,        \* where it is
  cleanups,  \* the cleanups registered, as [fun, arg, err]
  began,     \* the error code was set when the call began
  result,    \* SUCCESS or FAILURE of the last call
  reason,    \* what made it fail
  error      \* the error state of the thread

handles == <<pager, btree>>
outcome == <<result, reason, error>>
vars == <<heap, handles, fixed, call, at, cleanups, began, outcome>>

Handle == {"null", "sound", "stale"}
Cleanup == [fun : {"free", "unfix"}, arg : Blocks \cup {"root"}, err : BOOLEAN]

TypeOK ==
  /\ heap \subseteq Blocks
  /\ pager \in Handle /\ btree \in Handle
  /\ fixed \in BOOLEAN
  /\ call \in Calls \cup {NoCall}
  /\ at \in {"ensure", "pager", "directory", "ring", "header", "bucket",
             "root", "btree", "out", "unwind", "idle"} \cup
            {Freeing[b] : b \in Blocks}
  /\ cleanups \in Seq(Cleanup) /\ Len(cleanups) <= 3
  /\ began \in BOOLEAN
  /\ result \in {"SUCCESS", "FAILURE"}
  /\ {reason, error.code} \subseteq {NoError, "EINVAL", "ENOMEM"}
  /\ Len(error.frames) \in 0 .. MaxErrors

Init ==
  /\ heap = {} /\ pager = "null" /\ btree = "null"
  /\ fixed = FALSE
  /\ call = NoCall /\ at = "idle" /\ cleanups = <<>> /\ began = FALSE
  /\ result = "SUCCESS" /\ reason = NoError
  /\ error = Cleared

-----------------------------------------------------------------------------
(***************************************************************************)
(* The client.  It uses a pointer until it has closed it, and a stale one  *)
(* only if what it points to is there.                                     *)
(***************************************************************************)
Usable(p) == p # "null" /\ PagerBlocks \ {"headers", "buckets"} \subseteq heap

MayCall(f) ==
  CASE f = "pager_open" -> pager = "null"
    [] f \in {"btree_open", "btree_create"} -> Usable(pager) /\ btree = "null"
    [] f = "pager_fix" -> Usable(pager)
    [] f = "btree_close" -> btree # "null" /\ "btree" \in heap
    [] f = "pager_close" -> Usable(pager) /\ btree = "null"

Begin(f) ==
  /\ at = "idle" /\ MayCall(f)
  /\ call' = f /\ at' = "ensure"
  /\ began' = (error.code # NoError)
  /\ result' = "SUCCESS" /\ reason' = NoError
  /\ UNCHANGED <<heap, handles, fixed, cleanups, error>>

Clear ==
  /\ at = "idle"
  /\ error' = Cleared
  /\ UNCHANGED <<heap, handles, fixed, call, at, cleanups, began, result, reason>>

-----------------------------------------------------------------------------
Goto(place) == at' = place /\ UNCHANGED <<call, began>>

\* failure, in the innermost of funcs; the others pass it on.
Fail(code, funcs) ==
  /\ error' = Failed(error, code, funcs)
  /\ result' = "FAILURE" /\ reason' = code
  /\ Goto("unwind")

First ==
  CASE call = "pager_open" -> "pager"
    [] call \in {"pager_fix", "btree_create"} -> "header"
    [] call = "btree_open" -> "btree"
    [] call = "pager_close" ->
         IF "headers" \in heap THEN Freeing["headers"] ELSE Freeing["ring"]
    [] call = "btree_close" -> Freeing["btree"]

Ensure ==
  /\ at = "ensure"
  /\ \/ Goto(First) /\ UNCHANGED outcome
     \/ Fail("EINVAL", <<call>>)
  /\ UNCHANGED <<heap, handles, fixed, cleanups>>

Register(fun, arg, err) ==
  cleanups' = Append(cleanups, [fun |-> fun, arg |-> arg, err |-> err])

\* try_alloc and errdefer(free, ...)
Alloc(block, func, next) ==
  /\ at = block
  /\ \/ /\ heap' = heap \cup {block}
        /\ Register("free", block, TRUE)
        /\ Goto(next)
        /\ UNCHANGED outcome
     \/ /\ Fail("ENOMEM", func)
        /\ UNCHANGED <<heap, cleanups>>
  /\ UNCHANGED <<handles, fixed>>

AllocPager == Alloc("pager", <<"pager_open">>, "directory")
AllocDirectory == Alloc("directory", <<"pager_open">>, "ring")
AllocRing == Alloc("ring", <<"pager_open">>, "out")

\* Only btree_create calls btree_open at its end, without a frame of its own.
AllocBtree == Alloc("btree", <<"btree_open">>, "out")

SetOut ==
  /\ at = "out"
  /\ IF call = "pager_open"
       THEN pager' = (IF began THEN "stale" ELSE "sound") /\ UNCHANGED btree
       ELSE btree' = (IF began THEN "stale" ELSE "sound") /\ UNCHANGED pager
  /\ Goto("unwind")
  /\ UNCHANGED <<heap, fixed, cleanups, outcome>>

\* The callers of pager_create: btree_create calls pager_next, which hands on
\* what pager_fix returns.
FixCallers ==
  IF call = "btree_create" THEN <<"pager_fix", "btree_create">> ELSE <<"pager_fix">>

\* pager_fix finds the page, or a header to use again, or allocates one; with
\* every page fixed there is none to evict.
FixHeader ==
  /\ at = "header"
  /\ \/ Goto("bucket") /\ heap' \in {heap, heap \cup {"headers"}} /\ UNCHANGED outcome
     \/ Fail("ENOMEM", <<"pager_create">> \o FixCallers) /\ UNCHANGED heap
     \/ Fail("ENOMEM", <<"pager_evict">> \o FixCallers) /\ UNCHANGED heap
  /\ UNCHANGED <<handles, fixed, cleanups>>

\* pager_directory_insert; the header stays in the ring when there is no bucket.
FixBucket ==
  /\ at = "bucket"
  /\ \/ /\ heap' \in {heap, heap \cup {"buckets"}}
        /\ Goto(IF call = "btree_create" THEN "root" ELSE "unwind")
        /\ UNCHANGED outcome
     \/ /\ Fail("ENOMEM", <<"pager_directory_insert", "pager_create">> \o FixCallers)
        /\ UNCHANGED heap
  /\ UNCHANGED <<handles, fixed, cleanups>>

\* btree_create has its root, and defers to unfix it.
FixRoot ==
  /\ at = "root"
  /\ fixed' = TRUE
  /\ Register("unfix", "root", FALSE)
  /\ Goto("btree")
  /\ UNCHANGED <<heap, handles, outcome>>

-----------------------------------------------------------------------------
(***************************************************************************)
(* The way out.                                                            *)
(***************************************************************************)
\* Variant: the guard is left out, errdefer always runs.
RunsAlways(c) == TRUE

\* defer_guard
Runs(c) == c.err => error.code # NoError

Run(c) ==
  /\ heap' = IF Runs(c) /\ c.fun = "free" THEN heap \ {c.arg} ELSE heap
  /\ fixed' = IF Runs(c) /\ c.fun = "unfix" THEN FALSE ELSE fixed
  /\ UNCHANGED <<handles, call, at, began, outcome>>

\* Variant: the cleanups run in the order they were registered.
UnwindFirst ==
  /\ at = "unwind" /\ cleanups # <<>>
  /\ Run(Head(cleanups))
  /\ cleanups' = Tail(cleanups)

Unwind ==
  /\ at = "unwind" /\ cleanups # <<>>
  /\ Run(Last(cleanups))
  /\ cleanups' = Front(cleanups)

Return ==
  /\ at = "unwind" /\ cleanups = <<>>
  /\ call' = NoCall /\ at' = "idle" /\ began' = FALSE
  /\ UNCHANGED <<heap, handles, fixed, cleanups, outcome>>

-----------------------------------------------------------------------------
\* Variant: pager_close forgets the buckets.
AfterRingDirectory == "free_directory"

AfterRing == IF "buckets" \in heap THEN "free_buckets" ELSE "free_directory"

Free(block, next) ==
  /\ at = Freeing[block]
  /\ heap' = heap \ {block}
  /\ Goto(next)
  /\ UNCHANGED <<handles, fixed, cleanups, outcome>>

FreeHeaders == Free("headers", Freeing["ring"])
FreeRing == Free("ring", AfterRing)
FreeBuckets == Free("buckets", Freeing["directory"])
FreeDirectory == Free("directory", Freeing["pager"])

\* The last free of pager_close and the one of btree_close: *out = nullptr.
FreeHandle(block) ==
  /\ at = Freeing[block]
  /\ heap' = heap \ {block}
  /\ IF block = "pager" THEN pager' = "null" /\ UNCHANGED btree
                        ELSE btree' = "null" /\ UNCHANGED pager
  /\ Goto("unwind")
  /\ UNCHANGED <<fixed, cleanups, outcome>>

Next ==
  \/ \E f \in Calls : Begin(f)
  \/ Clear
  \/ Ensure
  \/ AllocPager \/ AllocDirectory \/ AllocRing \/ AllocBtree \/ SetOut
  \/ FixHeader \/ FixBucket \/ FixRoot
  \/ Unwind \/ Return
  \/ FreeHeaders \/ FreeRing \/ FreeBuckets \/ FreeDirectory
  \/ FreeHandle("pager") \/ FreeHandle("btree")

Spec == Init /\ [][Next]_vars

-----------------------------------------------------------------------------
(***************************************************************************)
(* Nothing is lost: a block that is found through another one is freed     *)
(* before it, on every way out, and between two calls nothing is left that *)
(* no pointer of the client leads to, nor a page that nobody knows to be   *)
(* fixed.                                                                  *)
(***************************************************************************)
NothingLost ==
  /\ \A b \in heap : Owner[b] # "client" => Owner[b] \in heap
  /\ at = "idle" =>
       /\ pager = "null" => heap \cap PagerBlocks = {}
       /\ btree = "null" => "btree" \notin heap
       /\ ~fixed

(***************************************************************************)
(* A pointer that pager_open, btree_open or btree_create has set leads to  *)
(* memory that is allocated until it is closed, if no error was set when   *)
(* the call began.  If one was, errdefer frees what the call returns as a  *)
(* success.                                                                *)
(***************************************************************************)
HandleAlive ==
  at = "idle" =>
    /\ pager = "sound" => {"pager", "directory", "ring"} \subseteq heap
    /\ btree = "sound" => "btree" \in heap

(***************************************************************************)
(* The same of every call: pager_open "allocates and initialises a new     *)
(* pager" (pager.h), whatever an earlier call has left behind.             *)
(***************************************************************************)
OpenedIsAlive ==
  at = "idle" =>
    /\ pager # "null" => {"pager", "directory", "ring"} \subseteq heap
    /\ btree # "null" => "btree" \in heap

(***************************************************************************)
(* error_trace_nth returns null only "if the index is out of bounds"       *)
(* (error.h): a frame that error_trace_length counts can be read.          *)
(***************************************************************************)
FramesInBounds ==
  \A n \in 0 .. MaxErrors - 1 :
    n < TraceLength(error) => TraceNth(error, n) # NullFrame

(***************************************************************************)
(* A call that fails leaves the code of its failure, also when the trace   *)
(* is full of older ones, and the trace, until then, ends with the frame   *)
(* of the outermost function that knows of it (assert_failure, and the     *)
(* loop over the frames in assert_success).                                *)
(***************************************************************************)
Outermost(f) == IF f = "btree_create" THEN {"btree_create", "btree_open"} ELSE {f}

FailureTold ==
  at = "unwind" /\ result = "FAILURE" =>
    /\ error.code = reason
    /\ TraceLength(error) < MaxErrors =>
         LET frame == TraceNth(error, TraceLength(error) - 1)
         IN  frame.func \in Outermost(call) /\ frame.code = reason

=============================================================================
