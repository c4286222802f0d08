-------------------------- MODULE LifecycleProofs ---------------------------
(***************************************************************************)
(* Proofs about module Lifecycle: what the cleanups of defer and errdefer  *)
(* leave allocated, and what the error trace tells of a failure, for a     *)
(* trace of any length.                                                    *)
(***************************************************************************)
EXTENDS Lifecycle, Induction, SequenceTheorems

-----------------------------------------------------------------------------
(***************************************************************************)
(* The error trace.                                                        *)
(***************************************************************************)
Trace(Codes, Funcs) ==
  {e \in [code : Codes, frames : Seq([func : Funcs, code : Codes])] :
     Len(e.frames) <= MaxErrors}

LEMMA PushType ==
  ASSUME NEW Codes, NEW Funcs, NEW e \in Trace(Codes, Funcs),
         NEW code \in Codes, NEW func \in Funcs
  PROVE  /\ Push(e, func, code) \in Trace(Codes, Funcs)
         /\ Push(e, func, code).code = code
         /\ LET frames == Push(e, func, code).frames
            IN  Len(frames) < MaxErrors =>
                  Len(frames) > 0 /\ frames[Len(frames)] = [func |-> func, code |-> code]
<1> DEFINE F == [func : Funcs, code : Codes]
           f == [func |-> func, code |-> code]
<1>1. f \in F /\ e.frames \in Seq(F) /\ e.code \in Codes /\ Len(e.frames) <= MaxErrors
      /\ e = [code |-> e.code, frames |-> e.frames]
  BY DEF Trace
<1>2. MaxErrors \in Nat
  BY TraceAssumption
<1>3. Push(e, func, code) =
        [code |-> code, frames |-> IF Len(e.frames) >= MaxErrors THEN e.frames
                                   ELSE Append(e.frames, f)]
  BY DEF Push
<1> HIDE DEF f
<1>4. /\ Append(e.frames, f) \in Seq(F)
      /\ Len(Append(e.frames, f)) = Len(e.frames) + 1
      /\ Append(e.frames, f)[Len(e.frames) + 1] = f
      /\ Len(e.frames) \in Nat
  <2> HIDE DEF F
  <2> QED BY <1>1
<1> DEFINE a == Append(e.frames, f)
<1> HIDE DEF a
<1>5. CASE Len(e.frames) >= MaxErrors
  BY <1>1, <1>2, <1>3, <1>5 DEF Trace, f
<1>6. CASE ~(Len(e.frames) >= MaxErrors)
  <2>1. Push(e, func, code) = [code |-> code, frames |-> a]
    BY <1>3, <1>6 DEF a
  <2>2. a \in Seq(F) /\ Len(a) = Len(e.frames) + 1 /\ a[Len(e.frames) + 1] = f
    BY <1>4 DEF a
  <2>3. Len(a) <= MaxErrors /\ Len(a) > 0 /\ a[Len(a)] = f
    BY <1>2, <1>4, <1>6, <2>2
  <2> QED BY <2>1, <2>2, <2>3 DEF Trace, f
<1> QED BY <1>5, <1>6

\* What a failure that is passed on through funcs leaves.
LEMMA FailedTrace ==
  ASSUME NEW Codes, NEW Funcs, NEW e \in Trace(Codes, Funcs),
         NEW code \in Codes, NEW funcs \in Seq(Funcs), funcs # <<>>
  PROVE  /\ Failed(e, code, funcs) \in Trace(Codes, Funcs)
         /\ Failed(e, code, funcs).code = code
         /\ LET frames == Failed(e, code, funcs).frames
            IN  Len(frames) < MaxErrors =>
                  /\ Len(frames) > 0
                  /\ frames[Len(frames)] = [func |-> funcs[Len(funcs)], code |-> code]
<1> DEFINE n == Len(funcs)
           X == Trace(Codes, Funcs)
           F == [i \in 1 .. n |-> [x \in X |-> Push(x, funcs[i], code)]]
           Eq(p) == p = [i \in 0 .. n |-> IF i = 0 THEN e ELSE Push(p[i - 1], funcs[i], code)]
           pushed == CHOOSE p : Eq(p)
<1>1. n \in Nat /\ n >= 1 /\ \A i \in 1 .. n : funcs[i] \in Funcs
  OBVIOUS
<1> HIDE DEF n, X
<1>2. ASSUME NEW i \in 1 .. n, NEW x \in X
      PROVE  Push(x, funcs[i], code) \in X
  BY <1>1, PushType DEF X
<1>3. Steps(F, n, X) /\ \A i \in 1 .. n, x \in X : F[i][x] = Push(x, funcs[i], code)
  BY <1>2 DEF Steps
<1>4. PICK s : Recursion(s, n, X, e, F)
  <2>1. n \in Nat /\ e \in X
    BY <1>1 DEF X
  <2> HIDE DEF F
  <2> QED BY <1>3, <2>1, RecursionExists, Zenon
<1>5. /\ s \in [0 .. n -> X] /\ s[0] = e
      /\ \A i \in 1 .. n : s[i - 1] \in X /\ s[i] = Push(s[i - 1], funcs[i], code)
  <2>1. \A i \in 1 .. n : i - 1 \in 0 .. n
    BY <1>1
  <2> HIDE DEF F
  <2> QED BY <1>3, <1>4, <2>1 DEF Recursion
<1>6. Eq(s)
  <2>1. \A i \in 0 .. n : i # 0 => i \in 1 .. n
    BY <1>1
  <2> QED BY <1>5, <2>1
<1>7. Eq(pushed)
  <2> HIDE DEF Eq
  <2> QED BY <1>6
<1>8. Failed(e, code, funcs) = pushed[n]
  BY DEF Failed, n
<1>9. pushed[n] = s[n]
  <2> HIDE DEF pushed
  <2>1. pushed[0] = s[0]
    BY <1>1, <1>5, <1>7
  <2>2. \A i \in 1 .. n : pushed[i - 1] = s[i - 1] => pushed[i] = s[i]
    BY <1>1, <1>5, <1>7
  <2>3. \A i \in 0 .. n : pushed[i] = s[i]
    <3> HIDE DEF Eq
    <3> HIDE DEF n
    <3>1. n \in Nat
      BY <1>1
    <3>2. GoAlike(n, pushed, s)
      BY <2>1, <2>2, Zenon DEF GoAlike
    <3> QED BY <3>1, <3>2, SumUnique, Zenon
  <2> QED BY <1>1, <2>3
<1>10. n \in 1 .. n /\ s[n] = Push(s[n - 1], funcs[n], code) /\ s[n - 1] \in X
  BY <1>1, <1>5
<1> HIDE DEF pushed
<1> QED BY <1>1, <1>8, <1>9, <1>10, PushType DEF X, n

-----------------------------------------------------------------------------
(***************************************************************************)
(* Short stacks of cleanups.                                               *)
(***************************************************************************)
LEMMA AppendIs ==
  ASSUME NEW S, NEW s \in Seq(S), NEW t \in Seq(S), NEW e \in S,
         Len(t) = Len(s) + 1, \A i \in 1 .. Len(s) : t[i] = s[i], t[Len(t)] = e
  PROVE  Append(s, e) = t
<1> DEFINE c == Append(s, e)
<1>1. /\ c \in Seq(S) /\ Len(c) = Len(s) + 1 /\ c[Len(s) + 1] = e
      /\ \A i \in 1 .. Len(s) : c[i] = s[i]
  OBVIOUS
<1> HIDE DEF c
<1>2. \A i \in 1 .. Len(c) : c[i] = t[i]
  BY <1>1
<1>3. c = t
  BY <1>1, <1>2, SeqEqual
<1> QED BY <1>3 DEF c

LEMMA FrontIs ==
  ASSUME NEW S, NEW s \in Seq(S), NEW t \in Seq(S),
         Len(t) = Len(s) + 1, \A i \in 1 .. Len(s) : t[i] = s[i]
  PROVE  Front(t) = s /\ Last(t) = t[Len(t)]
<1> DEFINE c == SubSeq(t, 1, Len(t) - 1)
<1>1. 1 \in Int /\ Len(t) - 1 \in Int /\ \A i \in 1 .. Len(t) - 1 : t[i] \in S
  OBVIOUS
<1>2. /\ c \in Seq(S) /\ Len(c) = IF 1 <= Len(t) - 1 THEN (Len(t) - 1) - 1 + 1 ELSE 0
      /\ \A i \in 1 .. (Len(t) - 1) - 1 + 1 : c[i] = t[1 + i - 1]
  BY <1>1, SubSeqProperties
<1>3. Front(t) = c /\ Last(t) = t[Len(t)]
  BY DEF Front, Last
<1> HIDE DEF c
<1>4. Len(c) = Len(s) /\ \A i \in 1 .. Len(c) : c[i] = s[i]
  BY <1>2
<1>5. c = s
  BY <1>2, <1>4, SeqEqual
<1> QED BY <1>3, <1>5

LEMMA StackOne ==
  ASSUME NEW S, NEW x \in S
  PROVE  /\ Append(<<>>, x) = <<x>>
         /\ Front(<<x>>) = <<>> /\ Last(<<x>>) = x
<1> DEFINE a == <<>>
           b == <<x>>
<1>1. /\ a \in Seq(S) /\ Len(a) = 0
      /\ b \in Seq(S) /\ Len(b) = 1 /\ b[1] = x
  OBVIOUS
<1> HIDE DEF a, b
<1>2. Len(b) = Len(a) + 1 /\ (\A i \in 1 .. Len(a) : b[i] = a[i]) /\ b[Len(b)] = x
  BY <1>1
<1>3. Append(a, x) = b
  BY <1>1, <1>2, AppendIs
<1>4. Front(b) = a /\ Last(b) = x
  BY <1>1, <1>2, FrontIs
<1> QED BY <1>3, <1>4 DEF a, b

LEMMA StackTwo ==
  ASSUME NEW S, NEW x \in S, NEW y \in S
  PROVE  /\ Append(<<x>>, y) = <<x, y>>
         /\ Front(<<x, y>>) = <<x>> /\ Last(<<x, y>>) = y
<1> DEFINE a == <<x>>
           b == <<x, y>>
<1>1. /\ a \in Seq(S) /\ Len(a) = 1 /\ a[1] = x
      /\ b \in Seq(S) /\ Len(b) = 2 /\ b[1] = x /\ b[2] = y
  OBVIOUS
<1> HIDE DEF a, b
<1>2. Len(b) = Len(a) + 1 /\ (\A i \in 1 .. Len(a) : b[i] = a[i]) /\ b[Len(b)] = y
  BY <1>1
<1>3. Append(a, y) = b
  BY <1>1, <1>2, AppendIs
<1>4. Front(b) = a /\ Last(b) = y
  BY <1>1, <1>2, FrontIs
<1> QED BY <1>3, <1>4 DEF a, b

LEMMA StackThree ==
  ASSUME NEW S, NEW x \in S, NEW y \in S, NEW z \in S
  PROVE  /\ Append(<<x, y>>, z) = <<x, y, z>>
         /\ Front(<<x, y, z>>) = <<x, y>> /\ Last(<<x, y, z>>) = z
<1> DEFINE a == <<x, y>>
           b == <<x, y, z>>
<1>1. /\ a \in Seq(S) /\ Len(a) = 2 /\ a[1] = x /\ a[2] = y
      /\ b \in Seq(S) /\ Len(b) = 3 /\ b[1] = x /\ b[2] = y /\ b[3] = z
  OBVIOUS
<1> HIDE DEF a, b
<1>2. Len(b) = Len(a) + 1 /\ (\A i \in 1 .. Len(a) : b[i] = a[i]) /\ b[Len(b)] = z
  BY <1>1
<1>3. Append(a, z) = b
  BY <1>1, <1>2, AppendIs
<1>4. Front(b) = a /\ Last(b) = z
  BY <1>1, <1>2, FrontIs
<1> QED BY <1>3, <1>4 DEF a, b

-----------------------------------------------------------------------------
(***************************************************************************)
(* The inductive invariant: what is allocated, and which cleanups wait, at *)
(* every place of every call.                                              *)
(***************************************************************************)
ErrorCodes == {NoError, "EINVAL", "ENOMEM"}
Functions == Calls \cup {"pager_create", "pager_evict", "pager_directory_insert"}

\* The blocks of pager_open, there as long as the pager is open.
Core == {"pager", "directory", "ring"}
Holds(blocks) == heap \cap PagerBlocks = blocks

FreeOf(block) == [fun |-> "free", arg |-> block, err |-> TRUE]
UnfixRoot == [fun |-> "unfix", arg |-> "root", err |-> FALSE]

Stack1 == <<FreeOf("pager")>>
Stack2 == <<FreeOf("pager"), FreeOf("directory")>>
Stack3 == <<FreeOf("pager"), FreeOf("directory"), FreeOf("ring")>>

\* Between two calls: a pager or a tree is there if, and only if, it is sound.
PagerAtRest == IF pager = "sound" THEN Core \subseteq heap ELSE Holds({})
BtreeAtRest == btree = "sound" <=> "btree" \in heap
AtRest == PagerAtRest /\ BtreeAtRest /\ ~fixed

\* The way out of pager_open frees all or nothing.
OpenUnwinds ==
  \/ /\ error.code = NoError /\ pager = "sound" /\ Holds(Core)
     /\ cleanups \in {<<>>, Stack1, Stack2, Stack3}
  \/ /\ error.code # NoError /\ pager # "sound"
     /\ \/ cleanups = <<>> /\ Holds({})
        \/ cleanups = Stack1 /\ Holds({"pager"})
        \/ cleanups = Stack2 /\ Holds({"pager", "directory"})
        \/ cleanups = Stack3 /\ Holds(Core)

InPagerOpen ==
  /\ BtreeAtRest /\ ~fixed
  /\ \/ at = "pager" /\ pager = "null" /\ cleanups = <<>> /\ Holds({})
     \/ at = "directory" /\ pager = "null" /\ cleanups = Stack1 /\ Holds({"pager"})
     \/ /\ at = "ring" /\ pager = "null"
        /\ cleanups = Stack2 /\ Holds({"pager", "directory"})
     \/ at = "out" /\ pager = "null" /\ cleanups = Stack3 /\ Holds(Core)
     \/ at = "unwind" /\ OpenUnwinds

InPagerFix ==
  AtRest /\ pager = "sound" /\ cleanups = <<>> /\ at \in {"header", "bucket", "unwind"}

\* The end of btree_open, over the cleanups registered before.
SetsBtree(before) ==
  \/ at = "btree" /\ btree = "null" /\ BtreeAtRest /\ cleanups = before
  \/ /\ at = "out" /\ btree = "null" /\ "btree" \in heap
     /\ cleanups = Append(before, FreeOf("btree"))
  \/ /\ at = "unwind" /\ (error.code = NoError <=> btree = "sound") /\ "btree" \in heap
     /\ cleanups = Append(before, FreeOf("btree"))
  \/ at = "unwind" /\ BtreeAtRest /\ cleanups = before

InBtreeOpen == PagerAtRest /\ pager = "sound" /\ ~fixed /\ SetsBtree(<<>>)

InBtreeCreate ==
  /\ PagerAtRest /\ pager = "sound"
  /\ \/ /\ at \in {"header", "bucket", "root"}
        /\ ~fixed /\ btree = "null" /\ BtreeAtRest /\ cleanups = <<>>
     \/ fixed /\ SetsBtree(<<UnfixRoot>>)
     \/ at = "unwind" /\ ~fixed /\ BtreeAtRest /\ cleanups = <<>>

InPagerClose ==
  /\ btree = "null" /\ BtreeAtRest /\ ~fixed /\ cleanups = <<>>
  /\ \/ at = "free_headers" /\ Core \subseteq heap /\ "headers" \in heap
     \/ at = "free_ring" /\ Core \subseteq heap /\ "headers" \notin heap
     \/ at = "free_buckets" /\ Holds({"pager", "directory", "buckets"})
     \/ at = "free_directory" /\ Holds({"pager", "directory"})
     \/ at = "free_pager" /\ Holds({"pager"})
     \/ at = "unwind" /\ PagerAtRest

InBtreeClose ==
  /\ PagerAtRest /\ ~fixed /\ cleanups = <<>>
  /\ \/ at = "free_btree" /\ "btree" \in heap
     \/ at = "unwind" /\ BtreeAtRest

Position ==
  \/ call = NoCall /\ at = "idle" /\ AtRest /\ cleanups = <<>>
  \/ call \in Calls /\ at = "ensure" /\ AtRest /\ cleanups = <<>> /\ MayCall(call)
  \/ call = "pager_open" /\ InPagerOpen
  \/ call = "pager_fix" /\ InPagerFix
  \/ call = "btree_open" /\ InBtreeOpen
  \/ call = "btree_create" /\ InBtreeCreate
  \/ call = "pager_close" /\ InPagerClose
  \/ call = "btree_close" /\ InBtreeClose

Typed ==
  /\ heap \subseteq Blocks
  /\ pager \in Handle /\ btree \in Handle
  /\ fixed \in BOOLEAN /\ began \in BOOLEAN
  /\ result \in {"SUCCESS", "FAILURE"}
  /\ reason \in ErrorCodes
  /\ error \in Trace(ErrorCodes, Functions)

\* The failure of a call is what the error state says on its way out.
Told ==
  /\ error.code = reason /\ reason # NoError
  /\ Len(error.frames) < MaxErrors =>
       /\ Len(error.frames) > 0
       /\ error.frames[Len(error.frames)].func \in Outermost(call)
       /\ error.frames[Len(error.frames)].code = reason

Outcome ==
  /\ at \notin {"idle", "unwind"} =>
       result = "SUCCESS" /\ (began <=> error.code # NoError)
  /\ at = "unwind" /\ result = "FAILURE" => Told

IInv == Typed /\ Position /\ Outcome

LEMMA InitInv == Init => IInv
<1> SUFFICES ASSUME Init PROVE IInv
  OBVIOUS
<1>1. Typed
  <2>1. <<>> \in Seq([func : Functions, code : ErrorCodes]) /\ Len(<<>>) <= MaxErrors
    BY TraceAssumption
  <2>2. error \in Trace(ErrorCodes, Functions)
    BY <2>1 DEF Init, Trace, Cleared, ErrorCodes
  <2> QED BY <2>2 DEF Init, Typed, ErrorCodes, Handle
<1>2. Position
  BY DEF Init, Position, AtRest, PagerAtRest, BtreeAtRest, Holds
<1>3. Outcome
  BY DEF Init, Outcome
<1> QED BY <1>1, <1>2, <1>3 DEF IInv

\* What the invariant says is what the runs check.
LEMMA MinOf ==
  ASSUME NEW a \in Nat, NEW b \in Nat
  PROVE  Min({a, b}) = IF a <= b THEN a ELSE b
BY DEF Min

LEMMA BlocksAre ==
  /\ Blocks = {"pager", "btree", "directory", "ring", "headers", "buckets"}
  /\ PagerBlocks = {"pager", "directory", "ring", "headers", "buckets"}
  /\ Owner["pager"] = "client" /\ Owner["btree"] = "client"
  /\ Owner["directory"] = "pager" /\ Owner["ring"] = "pager"
  /\ Owner["headers"] = "ring" /\ Owner["buckets"] = "directory"
BY DEF Blocks, PagerBlocks, Owner

LEMMA InvTypeOK == IInv => TypeOK
<1> SUFFICES ASSUME IInv PROVE TypeOK
  OBVIOUS
<1>1. call \in Calls \cup {NoCall}
  BY DEF IInv, Position, Calls, NoCall
<1>2. at \in {"ensure", "pager", "directory", "ring", "header", "bucket",
              "root", "btree", "out", "unwind", "idle"} \cup {Freeing[b] : b \in Blocks}
  <2>1. {Freeing[b] : b \in Blocks} = {"free_pager", "free_btree", "free_directory",
                                       "free_ring", "free_headers", "free_buckets"}
    BY BlocksAre DEF Freeing
  <2> QED BY <2>1 DEF IInv, Position, InPagerOpen, InPagerFix, InBtreeOpen, InBtreeCreate,
                      InPagerClose, InBtreeClose, SetsBtree
<1>3. cleanups \in Seq(Cleanup) /\ Len(cleanups) <= 3
  <2>1. FreeOf("pager") \in Cleanup /\ FreeOf("directory") \in Cleanup /\ FreeOf("ring") \in Cleanup
        /\ FreeOf("btree") \in Cleanup /\ UnfixRoot \in Cleanup
    BY BlocksAre DEF FreeOf, UnfixRoot, Cleanup
  <2>2. \/ cleanups = <<>>
        \/ \E x \in Cleanup : cleanups = <<x>>
        \/ \E x, y \in Cleanup : cleanups = <<x, y>>
        \/ \E x, y, z \in Cleanup : cleanups = <<x, y, z>>
    <3>1. \A x, y \in Cleanup : Append(<<>>, y) = <<y>> /\ Append(<<x>>, y) = <<x, y>>
      BY StackOne, StackTwo
    <3> QED BY <2>1, <3>1 DEF Stack1, Stack2, Stack3, IInv, Position, InPagerOpen, InPagerFix, InBtreeOpen, InBtreeCreate,
                      InPagerClose, InBtreeClose, SetsBtree, OpenUnwinds
  <2>3. CASE cleanups = <<>>
    BY <2>3
  <2>4. ASSUME NEW x \in Cleanup, cleanups = <<x>>
        PROVE  cleanups \in Seq(Cleanup) /\ Len(cleanups) <= 3
    BY <2>4
  <2>5. ASSUME NEW x \in Cleanup, NEW y \in Cleanup, cleanups = <<x, y>>
        PROVE  cleanups \in Seq(Cleanup) /\ Len(cleanups) <= 3
    BY <2>5
  <2>6. ASSUME NEW x \in Cleanup, NEW y \in Cleanup, NEW z \in Cleanup, cleanups = <<x, y, z>>
        PROVE  cleanups \in Seq(Cleanup) /\ Len(cleanups) <= 3
    BY <2>6
  <2> QED BY <2>2, <2>3, <2>4, <2>5, <2>6
<1>4. Len(error.frames) \in 0 .. MaxErrors /\ error.code \in ErrorCodes
  BY TraceAssumption DEF IInv, Typed, Trace
<1> QED BY <1>1, <1>2, <1>3, <1>4 DEF IInv, Typed, TypeOK, ErrorCodes

LEMMA InvNothingLost == IInv => NothingLost
<1> SUFFICES ASSUME IInv PROVE NothingLost
  OBVIOUS
<1>1. heap \subseteq Blocks /\ pager \in Handle /\ btree \in Handle
  BY DEF IInv, Typed
<1>2. Core \subseteq heap \/ Holds({}) \/ Holds({"pager"}) \/ Holds({"pager", "directory"})
      \/ Holds({"pager", "directory", "buckets"}) \/ Holds(Core)
  BY DEF IInv, Position, InPagerOpen, InPagerFix, InBtreeOpen, InBtreeCreate,
         InPagerClose, InBtreeClose, SetsBtree, OpenUnwinds, AtRest, PagerAtRest
<1>3. \A b \in heap : Owner[b] # "client" => Owner[b] \in heap
  BY <1>1, <1>2, BlocksAre DEF Core, Holds
<1>4. at = "idle" => AtRest
  BY DEF IInv, Position, InPagerOpen, InPagerFix, InBtreeOpen, InBtreeCreate,
         InPagerClose, InBtreeClose, SetsBtree
<1> QED BY <1>3, <1>4 DEF NothingLost, AtRest, PagerAtRest, BtreeAtRest, Holds

LEMMA InvHandleAlive == IInv => HandleAlive
<1> SUFFICES ASSUME IInv, at = "idle" PROVE AtRest
  BY DEF HandleAlive, AtRest, PagerAtRest, BtreeAtRest, Core
<1> QED BY DEF IInv, Position, InPagerOpen, InPagerFix, InBtreeOpen, InBtreeCreate,
               InPagerClose, InBtreeClose, SetsBtree

LEMMA InvFailureTold == IInv => FailureTold
<1> SUFFICES ASSUME IInv, at = "unwind", result = "FAILURE" 
             PROVE  /\ error.code = reason
                    /\ TraceLength(error) < MaxErrors =>
                         LET frame == TraceNth(error, TraceLength(error) - 1)
                         IN  frame.func \in Outermost(call) /\ frame.code = reason
  BY DEF FailureTold
<1>1. Told
  BY DEF IInv, Outcome
<1>2. Len(error.frames) \in Nat /\ MaxErrors \in Nat
  BY TraceAssumption DEF IInv, Typed, Trace
<1>3. TraceLength(error) = IF Len(error.frames) <= MaxErrors THEN Len(error.frames) ELSE MaxErrors
  BY <1>2, MinOf DEF TraceLength
<1>4. TraceLength(error) < MaxErrors =>
        /\ Len(error.frames) < MaxErrors /\ Len(error.frames) > 0
        /\ TraceNth(error, TraceLength(error) - 1) = error.frames[Len(error.frames)]
  BY <1>1, <1>2, <1>3 DEF Told, TraceNth
<1> QED BY <1>1, <1>4 DEF Told

-----------------------------------------------------------------------------
(***************************************************************************)
(* Every step keeps the invariant.                                         *)
(***************************************************************************)
\* The error state, and the place, after a failure in the last of funcs.
LEMMA FailTold ==
  ASSUME Typed, NEW code \in ErrorCodes \ {NoError},
         NEW funcs \in Seq(Functions), funcs # <<>>,
         funcs[Len(funcs)] \in Outermost(call), Fail(code, funcs)
  PROVE  /\ Outcome' /\ at' = "unwind" /\ call' = call
         /\ result' \in {"SUCCESS", "FAILURE"} /\ reason' \in ErrorCodes
         /\ began' = began
         /\ error' \in Trace(ErrorCodes, Functions) /\ error'.code # NoError
<1>1. error \in Trace(ErrorCodes, Functions) /\ code \in ErrorCodes
  BY DEF Typed
<1>2. /\ error' = Failed(error, code, funcs) /\ result' = "FAILURE" /\ reason' = code
      /\ at' = "unwind" /\ call' = call /\ began' = began
  BY DEF Fail, Goto
<1> DEFINE e == Failed(error, code, funcs)
           f == [func |-> funcs[Len(funcs)], code |-> code]
<1>3. /\ e \in Trace(ErrorCodes, Functions) /\ e.code = code
      /\ Len(e.frames) < MaxErrors => Len(e.frames) > 0 /\ e.frames[Len(e.frames)] = f
  BY <1>1, FailedTrace
<1>4. f.func \in Outermost(call) /\ f.code = code
  OBVIOUS
<1> HIDE DEF e, f
<1>5. error' = e
  BY <1>2 DEF e
<1>6. Told'
  BY <1>2, <1>3, <1>4, <1>5 DEF Told, Outermost
<1> QED BY <1>2, <1>3, <1>5, <1>6 DEF Outcome

\* Steps that leave what happened alone, on the way to another place.
LEMMA OutcomeKept ==
  ASSUME Outcome, UNCHANGED <<result, reason, error, began, call>>,
         at \notin {"idle", "unwind"} \/ at' = "idle" \/ at' = at
  PROVE  Outcome'
BY DEF Outcome, Told, Outermost

LEMMA PagerOwn == PagerBlocks = {"pager", "directory", "ring", "headers", "buckets"}
BY BlocksAre

LEMMA BeginInv ==
  ASSUME IInv, NEW f \in Calls, Begin(f)
  PROVE  IInv'
<1>1. call = NoCall /\ AtRest /\ cleanups = <<>> /\ MayCall(f)
  BY DEF Begin, IInv, Position, InPagerOpen, InPagerFix, InBtreeOpen, InBtreeCreate,
         InPagerClose, InBtreeClose, SetsBtree
<1>2. Typed'
  BY DEF Begin, IInv, Typed, handles, ErrorCodes
<1>3. Position'
  <2>1. AtRest' /\ MayCall(f)'
    BY <1>1 DEF Begin, handles, AtRest, PagerAtRest, BtreeAtRest, Holds, MayCall, Usable
  <2> QED BY <1>1, <2>1 DEF Begin, Position
<1>4. Outcome'
  BY DEF Begin, Outcome
<1> QED BY <1>2, <1>3, <1>4 DEF IInv

LEMMA ClearInv ==
  ASSUME IInv, Clear
  PROVE  IInv'
<1>1. call = NoCall /\ AtRest /\ cleanups = <<>>
  BY DEF Clear, IInv, Position, InPagerOpen, InPagerFix, InBtreeOpen, InBtreeCreate,
         InPagerClose, InBtreeClose, SetsBtree
<1>2. Cleared \in Trace(ErrorCodes, Functions)
  <2>1. <<>> \in Seq([func : Functions, code : ErrorCodes]) /\ Len(<<>>) <= MaxErrors
    BY TraceAssumption
  <2> QED BY <2>1 DEF Trace, Cleared, ErrorCodes
<1>3. Typed'
  BY <1>2 DEF Clear, IInv, Typed, handles
<1>4. Position'
  BY <1>1 DEF Clear, handles, AtRest, PagerAtRest, BtreeAtRest, Holds, Position
<1>5. Outcome'
  BY DEF Clear, Outcome
<1> QED BY <1>3, <1>4, <1>5 DEF IInv

LEMMA OneFunction ==
  ASSUME NEW f \in Functions
  PROVE  <<f>> \in Seq(Functions) /\ <<f>> # <<>> /\ <<f>>[Len(<<f>>)] = f
OBVIOUS

LEMMA CallersType ==
  ASSUME call \in {"pager_fix", "btree_create"}
  PROVE  /\ FixCallers \in Seq(Functions) /\ Len(FixCallers) > 0
         /\ FixCallers[Len(FixCallers)] = call
<1>1. CASE call = "btree_create"
  BY <1>1 DEF FixCallers, Functions, Calls
<1>2. CASE call # "btree_create"
  BY <1>2 DEF FixCallers, Functions, Calls
<1> QED BY <1>1, <1>2

LEMMA PassedOn ==
  ASSUME call \in {"pager_fix", "btree_create"},
         NEW funcs \in Seq(Functions)
  PROVE  /\ funcs \o FixCallers \in Seq(Functions) /\ funcs \o FixCallers # <<>>
         /\ (funcs \o FixCallers)[Len(funcs \o FixCallers)] = call
<1> DEFINE s == FixCallers
           r == funcs \o s
<1>1. s \in Seq(Functions) /\ Len(s) > 0 /\ s[Len(s)] = call
  BY CallersType
<1> HIDE DEF s
<1>2. /\ r \in Seq(Functions) /\ Len(r) = Len(funcs) + Len(s)
      /\ \A i \in 1 .. Len(funcs) + Len(s) : r[i] = IF i <= Len(funcs) THEN funcs[i]
                                                    ELSE s[i - Len(funcs)]
  BY <1>1, ConcatProperties
<1> HIDE DEF r
<1>3. Len(funcs) \in Nat /\ Len(s) \in Nat
  BY <1>1
<1>4. r[Len(r)] = call /\ Len(r) > 0
  BY <1>1, <1>2, <1>3
<1> QED BY <1>2, <1>4 DEF r, s

LEMMA EnsureInv ==
  ASSUME IInv, Ensure
  PROVE  IInv'
<1>1. call \in Calls /\ AtRest /\ cleanups = <<>> /\ MayCall(call)
  BY DEF Ensure, IInv, Position, InPagerOpen, InPagerFix, InBtreeOpen, InBtreeCreate,
         InPagerClose, InBtreeClose, SetsBtree
<1>2. Usable(pager) => pager = "sound" /\ Core \subseteq heap
  BY <1>1, PagerOwn DEF Usable, AtRest, PagerAtRest, Holds, Core
<1>3. AtRest' /\ cleanups' = <<>> /\ call' = call /\ pager' = pager /\ btree' = btree /\ heap' = heap
  BY <1>1 DEF Ensure, Goto, Fail, handles, AtRest, PagerAtRest, BtreeAtRest, Holds
<1>4. CASE Goto(First) /\ UNCHANGED outcome
  <2>1. Typed'
    BY <1>3, <1>4 DEF Ensure, Goto, IInv, Typed, handles, outcome
  <2>2. Outcome'
    BY <1>4, OutcomeKept DEF Goto, outcome, Ensure, IInv
  <2>3. Position'
    <3>1. CASE call = "pager_open"
      BY <1>1, <1>3, <1>4, <3>1
         DEF Goto, First, MayCall, Position, InPagerOpen, AtRest, PagerAtRest
    <3>2. CASE call = "pager_fix"
      BY <1>1, <1>2, <1>3, <1>4, <3>2 DEF Goto, First, MayCall, Position, InPagerFix
    <3>3. CASE call = "btree_open"
      BY <1>1, <1>2, <1>3, <1>4, <3>3
         DEF Goto, First, MayCall, Position, InBtreeOpen, SetsBtree, AtRest
    <3>4. CASE call = "btree_create"
      BY <1>1, <1>2, <1>3, <1>4, <3>4
         DEF Goto, First, MayCall, Position, InBtreeCreate, AtRest
    <3>5. CASE call = "pager_close"
      <4>1. First \in {"free_headers", "free_ring"} /\ (First = "free_headers" <=> "headers" \in heap)
        BY <3>5 DEF First, Freeing
      <4> QED BY <1>1, <1>2, <1>3, <1>4, <3>5, <4>1
                 DEF Goto, MayCall, Position, InPagerClose, AtRest
    <3>6. CASE call = "btree_close"
      <4>1. First = "free_btree"
        BY <3>6 DEF First, Freeing
      <4> QED BY <1>1, <1>3, <1>4, <3>6, <4>1
                 DEF Goto, MayCall, Position, InBtreeClose, AtRest
    <3> QED BY <1>1, <3>1, <3>2, <3>3, <3>4, <3>5, <3>6 DEF Calls
  <2> QED BY <2>1, <2>2, <2>3 DEF IInv
<1>5. CASE Fail("EINVAL", <<call>>)
  <2>1. /\ Outcome' /\ at' = "unwind" /\ call' = call /\ began' = began
        /\ result' \in {"SUCCESS", "FAILURE"} /\ reason' \in ErrorCodes
        /\ error' \in Trace(ErrorCodes, Functions) /\ error'.code # NoError
    <3>1. call \in Functions /\ call \in Outermost(call)
      BY <1>1 DEF Functions, Outermost
    <3>2. <<call>> \in Seq(Functions) /\ <<call>> # <<>> /\ <<call>>[Len(<<call>>)] = call
      BY <3>1, OneFunction
    <3>3. "EINVAL" \in ErrorCodes \ {NoError}
      BY DEF ErrorCodes, NoError
    <3> HIDE DEF Fail
    <3> QED BY <1>5, <3>1, <3>2, <3>3, FailTold DEF IInv
  <2>2. Typed'
    BY <1>3, <2>1 DEF Ensure, IInv, Typed
  <2>3. Position'
    <3>1. CASE call = "pager_open"
      BY <1>1, <1>3, <2>1, <3>1
         DEF MayCall, Position, InPagerOpen, OpenUnwinds, AtRest, PagerAtRest
    <3>2. CASE call = "pager_fix"
      BY <1>1, <1>2, <1>3, <2>1, <3>2 DEF MayCall, Position, InPagerFix
    <3>3. CASE call = "btree_open"
      BY <1>1, <1>2, <1>3, <2>1, <3>3
         DEF MayCall, Position, InBtreeOpen, SetsBtree, AtRest
    <3>4. CASE call = "btree_create"
      BY <1>1, <1>2, <1>3, <2>1, <3>4
         DEF MayCall, Position, InBtreeCreate, AtRest
    <3>5. CASE call = "pager_close"
      BY <1>1, <1>3, <2>1, <3>5 DEF MayCall, Position, InPagerClose, AtRest
    <3>6. CASE call = "btree_close"
      BY <1>1, <1>3, <2>1, <3>6 DEF MayCall, Position, InBtreeClose, AtRest
    <3> QED BY <1>1, <3>1, <3>2, <3>3, <3>4, <3>5, <3>6 DEF Calls
  <2> QED BY <2>1, <2>2, <2>3 DEF IInv
<1> QED BY <1>4, <1>5 DEF Ensure

LEMMA AllocOutcome ==
  ASSUME IInv, NEW block \in Blocks, NEW f \in Functions, NEW next,
         f \in Outermost(call), at \notin {"idle", "unwind"},
         Alloc(block, <<f>>, next)
  PROVE  /\ Typed' /\ Outcome' /\ call' = call
         /\ UNCHANGED <<pager, btree, fixed>>
         /\ \/ /\ heap' = heap \cup {block}
               /\ cleanups' = Append(cleanups, FreeOf(block))
               /\ at' = next /\ error' = error
            \/ /\ heap' = heap /\ cleanups' = cleanups
               /\ at' = "unwind" /\ error'.code # NoError
<1>0. Typed /\ Outcome /\ UNCHANGED <<pager, btree, fixed>>
  BY DEF IInv, Alloc, handles
<1>1. CASE /\ heap' = heap \cup {block}
           /\ Register("free", block, TRUE)
           /\ Goto(next)
           /\ UNCHANGED outcome
  <2>1. cleanups' = Append(cleanups, FreeOf(block)) /\ at' = next /\ call' = call
        /\ UNCHANGED <<result, reason, error, began, call>>
    BY <1>1 DEF Register, FreeOf, Goto, outcome
  <2>2. Typed'
    BY <1>0, <1>1, <2>1 DEF Typed
  <2>3. Outcome'
    BY <1>0, <2>1, OutcomeKept
  <2> QED BY <1>0, <1>1, <2>1, <2>2, <2>3
<1>2. CASE Fail("ENOMEM", <<f>>) /\ UNCHANGED <<heap, cleanups>>
  <2>1. "ENOMEM" \in ErrorCodes \ {NoError}
    BY DEF ErrorCodes, NoError
  <2>2. <<f>> \in Seq(Functions) /\ <<f>> # <<>> /\ <<f>>[Len(<<f>>)] = f
    BY OneFunction
  <2>3. /\ Outcome' /\ at' = "unwind" /\ call' = call /\ began' = began
        /\ result' \in {"SUCCESS", "FAILURE"} /\ reason' \in ErrorCodes
        /\ error' \in Trace(ErrorCodes, Functions) /\ error'.code # NoError
    <3> HIDE DEF Fail
    <3> QED BY <1>0, <1>2, <2>1, <2>2, FailTold
  <2>4. Typed'
    BY <1>0, <1>2, <2>3 DEF Typed
  <2> QED BY <1>0, <1>2, <2>3, <2>4
<1> QED BY <1>1, <1>2 DEF Alloc

LEMMA CleanupTypes ==
  /\ \A b \in Blocks : FreeOf(b) \in Cleanup
  /\ UnfixRoot \in Cleanup
BY DEF FreeOf, UnfixRoot, Cleanup

LEMMA BlockNames ==
  {"pager", "btree", "directory", "ring", "headers", "buckets"} \subseteq Blocks
BY BlocksAre

LEMMA StacksGrow ==
  /\ Append(<<>>, FreeOf("pager")) = Stack1
  /\ Append(Stack1, FreeOf("directory")) = Stack2
  /\ Append(Stack2, FreeOf("ring")) = Stack3
<1>1. FreeOf("pager") \in Cleanup /\ FreeOf("directory") \in Cleanup /\ FreeOf("ring") \in Cleanup
  BY CleanupTypes, BlockNames
<1>2. Append(<<>>, FreeOf("pager")) = <<FreeOf("pager")>>
  BY <1>1, StackOne
<1>3. Append(<<FreeOf("pager")>>, FreeOf("directory")) = <<FreeOf("pager"), FreeOf("directory")>>
  BY <1>1, StackTwo
<1>4. Append(<<FreeOf("pager"), FreeOf("directory")>>, FreeOf("ring")) =
        <<FreeOf("pager"), FreeOf("directory"), FreeOf("ring")>>
  BY <1>1, StackThree
<1> QED BY <1>2, <1>3, <1>4 DEF Stack1, Stack2, Stack3

LEMMA AllocPagerInv ==
  ASSUME IInv, AllocPager \/ AllocDirectory \/ AllocRing
  PROVE  IInv'
<1>1. call = "pager_open" /\ InPagerOpen
  BY DEF AllocPager, AllocDirectory, AllocRing, Alloc, IInv, Position, InPagerOpen, InPagerFix,
         InBtreeOpen, InBtreeCreate, InPagerClose, InBtreeClose, SetsBtree
<1>2. "pager_open" \in Functions /\ "pager_open" \in Outermost(call)
  BY <1>1 DEF Functions, Calls, Outermost
<1>3. CASE AllocPager
  <2>1. at = "pager" /\ pager = "null" /\ cleanups = <<>> /\ Holds({}) /\ BtreeAtRest /\ ~fixed
    BY <1>1, <1>3 DEF AllocPager, Alloc, InPagerOpen
  <2>2. /\ Typed' /\ Outcome' /\ call' = call
        /\ UNCHANGED <<pager, btree, fixed>>
        /\ \/ /\ heap' = heap \cup {"pager"}
              /\ cleanups' = Append(cleanups, FreeOf("pager"))
              /\ at' = "directory" /\ error' = error
           \/ /\ heap' = heap /\ cleanups' = cleanups
              /\ at' = "unwind" /\ error'.code # NoError
    BY <1>2, <1>3, <2>1, AllocOutcome, BlockNames DEF AllocPager
  <2>3. InPagerOpen'
    BY <2>1, <2>2, StacksGrow, PagerOwn DEF InPagerOpen, OpenUnwinds, Holds, BtreeAtRest
  <2> QED BY <1>1, <2>2, <2>3 DEF IInv, Position
<1>4. CASE AllocDirectory
  <2>1. at = "directory" /\ pager = "null" /\ cleanups = Stack1 /\ Holds({"pager"})
        /\ BtreeAtRest /\ ~fixed
    BY <1>1, <1>4 DEF AllocDirectory, Alloc, InPagerOpen
  <2>2. /\ Typed' /\ Outcome' /\ call' = call
        /\ UNCHANGED <<pager, btree, fixed>>
        /\ \/ /\ heap' = heap \cup {"directory"}
              /\ cleanups' = Append(cleanups, FreeOf("directory"))
              /\ at' = "ring" /\ error' = error
           \/ /\ heap' = heap /\ cleanups' = cleanups
              /\ at' = "unwind" /\ error'.code # NoError
    BY <1>2, <1>4, <2>1, AllocOutcome, BlockNames DEF AllocDirectory
  <2>3. InPagerOpen'
    BY <2>1, <2>2, StacksGrow, PagerOwn DEF InPagerOpen, OpenUnwinds, Holds, BtreeAtRest
  <2> QED BY <1>1, <2>2, <2>3 DEF IInv, Position
<1>5. CASE AllocRing
  <2>1. at = "ring" /\ pager = "null" /\ cleanups = Stack2 /\ Holds({"pager", "directory"})
        /\ BtreeAtRest /\ ~fixed
    BY <1>1, <1>5 DEF AllocRing, Alloc, InPagerOpen
  <2>2. /\ Typed' /\ Outcome' /\ call' = call
        /\ UNCHANGED <<pager, btree, fixed>>
        /\ \/ /\ heap' = heap \cup {"ring"}
              /\ cleanups' = Append(cleanups, FreeOf("ring"))
              /\ at' = "out" /\ error' = error
           \/ /\ heap' = heap /\ cleanups' = cleanups
              /\ at' = "unwind" /\ error'.code # NoError
    BY <1>2, <1>5, <2>1, AllocOutcome, BlockNames DEF AllocRing
  <2>3. InPagerOpen'
    BY <2>1, <2>2, StacksGrow, PagerOwn DEF InPagerOpen, OpenUnwinds, Holds, BtreeAtRest, Core
  <2> QED BY <1>1, <2>2, <2>3 DEF IInv, Position
<1> QED BY <1>3, <1>4, <1>5

LEMMA AllocBtreeInv ==
  ASSUME IInv, AllocBtree
  PROVE  IInv'
<1>1. /\ \/ call = "btree_open" /\ InBtreeOpen
         \/ call = "btree_create" /\ InBtreeCreate
      /\ at = "btree"
  <2>1. at = "btree"
    BY DEF AllocBtree, Alloc
  <2>2. ~InPagerOpen /\ ~InPagerFix /\ ~InPagerClose /\ ~InBtreeClose
    BY <2>1 DEF InPagerOpen, InPagerFix, InPagerClose, InBtreeClose
  <2> QED BY <2>1, <2>2 DEF IInv, Position
<1>2. "btree_open" \in Functions /\ "btree_open" \in Outermost(call)
  BY <1>1 DEF Functions, Calls, Outermost
<1>3. btree = "null" /\ BtreeAtRest /\ PagerAtRest /\ pager = "sound"
  BY <1>1 DEF InBtreeOpen, InBtreeCreate, SetsBtree
<1>4. /\ Typed' /\ Outcome' /\ call' = call
      /\ UNCHANGED <<pager, btree, fixed>>
      /\ \/ /\ heap' = heap \cup {"btree"}
            /\ cleanups' = Append(cleanups, FreeOf("btree"))
            /\ at' = "out" /\ error' = error
         \/ /\ heap' = heap /\ cleanups' = cleanups
            /\ at' = "unwind" /\ error'.code # NoError
  BY <1>1, <1>2, AllocOutcome, BlockNames DEF AllocBtree
<1>5. PagerAtRest'
  BY <1>3, <1>4, PagerOwn DEF PagerAtRest, Holds
<1>6. \A before : at = "btree" /\ cleanups = before => SetsBtree(before)'
  BY <1>1, <1>3, <1>4 DEF SetsBtree, BtreeAtRest
<1>7. InBtreeOpen \/ InBtreeCreate => 
        (call = "btree_open" /\ ~fixed /\ cleanups = <<>>) \/ (call = "btree_create" /\ fixed /\ cleanups = <<UnfixRoot>>)
  BY <1>1 DEF InBtreeOpen, InBtreeCreate, SetsBtree
<1>8. Position'
  BY <1>1, <1>3, <1>4, <1>5, <1>6, <1>7 DEF Position, InBtreeOpen, InBtreeCreate
<1> QED BY <1>4, <1>8 DEF IInv

LEMMA SetOutInv ==
  ASSUME IInv, SetOut
  PROVE  IInv'
<1>0. /\ at = "out" /\ at' = "unwind" /\ call' = call
      /\ UNCHANGED <<heap, fixed, cleanups, result, reason, error, began>>
      /\ IF call = "pager_open"
           THEN pager' = (IF began THEN "stale" ELSE "sound") /\ btree' = btree
           ELSE btree' = (IF began THEN "stale" ELSE "sound") /\ pager' = pager
  BY DEF SetOut, Goto, outcome
<1>1. \/ call = "pager_open" /\ InPagerOpen
      \/ call = "btree_open" /\ InBtreeOpen
      \/ call = "btree_create" /\ InBtreeCreate
  <2>1. ~InPagerFix /\ ~InPagerClose /\ ~InBtreeClose
    BY <1>0 DEF InPagerFix, InPagerClose, InBtreeClose
  <2> QED BY <1>0, <2>1 DEF IInv, Position
<1>2. result = "SUCCESS" /\ (began <=> error.code # NoError) /\ began \in BOOLEAN
  BY <1>0 DEF IInv, Outcome, Typed
<1>3. Typed' /\ Outcome'
  BY <1>0, <1>2 DEF IInv, Typed, Outcome, Handle
<1>4. CASE call = "pager_open"
  <2>1. InPagerOpen /\ pager = "null" /\ cleanups = Stack3 /\ Holds(Core) /\ BtreeAtRest /\ ~fixed
    BY <1>0, <1>1, <1>4 DEF InPagerOpen
  <2>2. InPagerOpen'
    BY <1>0, <1>2, <1>4, <2>1 DEF InPagerOpen, OpenUnwinds, Holds, BtreeAtRest
  <2> QED BY <1>0, <1>3, <1>4, <2>2 DEF IInv, Position
<1>5. CASE call = "btree_open"
  <2>1. InBtreeOpen'
    BY <1>0, <1>1, <1>2, <1>5 DEF InBtreeOpen, SetsBtree, PagerAtRest, Holds
  <2> QED BY <1>0, <1>3, <1>5, <2>1 DEF IInv, Position
<1>6. CASE call = "btree_create"
  <2>1. InBtreeCreate'
    BY <1>0, <1>1, <1>2, <1>6 DEF InBtreeCreate, SetsBtree, PagerAtRest, Holds
  <2> QED BY <1>0, <1>3, <1>6, <2>1 DEF IInv, Position
<1> QED BY <1>1, <1>4, <1>5, <1>6

\* The two steps of pager_fix, and of btree_create that calls it.
LEMMA FixInv ==
  ASSUME IInv, FixHeader \/ FixBucket
  PROVE  IInv'
<1>0. at \in {"header", "bucket"} /\ UNCHANGED <<pager, btree, fixed, cleanups>>
  BY DEF FixHeader, FixBucket, handles
<1>1. \/ call = "pager_fix" /\ InPagerFix
      \/ call = "btree_create" /\ InBtreeCreate
  <2>1. ~InPagerOpen /\ ~InBtreeOpen /\ ~InPagerClose /\ ~InBtreeClose
    BY <1>0 DEF InPagerOpen, InBtreeOpen, SetsBtree, InPagerClose, InBtreeClose
  <2> QED BY <1>0, <2>1 DEF IInv, Position
<1>2. AtRest /\ pager = "sound" /\ cleanups = <<>> /\ (call = "btree_create" => btree = "null")
  BY <1>0, <1>1 DEF InPagerFix, InBtreeCreate, SetsBtree, AtRest
<1>3. heap' \in {heap, heap \cup {"headers"}, heap \cup {"buckets"}}
  BY DEF FixHeader, FixBucket
<1>4. AtRest'
  BY <1>0, <1>2, <1>3 DEF AtRest, PagerAtRest, BtreeAtRest
<1>5. heap' \subseteq Blocks
  BY <1>3, BlockNames DEF IInv, Typed
<1>6. ASSUME NEW place, place \in {"bucket", "root", "unwind"},
             Goto(place), UNCHANGED outcome, place = "root" => call = "btree_create",
             place = "bucket" \/ place = "root" \/ call = "pager_fix"
      PROVE  IInv'
  <2>1. call' = call /\ at' = place /\ UNCHANGED <<result, reason, error, began, call>>
    BY <1>6 DEF Goto, outcome
  <2>2. Typed'
    BY <1>0, <1>5, <2>1 DEF IInv, Typed
  <2>3. Outcome'
    BY <1>0, <2>1, OutcomeKept DEF IInv
  <2>4. Position'
    BY <1>0, <1>1, <1>2, <1>4, <1>6, <2>1 DEF Position, InPagerFix, InBtreeCreate, AtRest
  <2> QED BY <2>2, <2>3, <2>4 DEF IInv
<1>7. ASSUME NEW funcs \in Seq(Functions), Fail("ENOMEM", funcs \o FixCallers)
      PROVE  IInv'
  <2>1. call \in {"pager_fix", "btree_create"}
    BY <1>1
  <2>2. "ENOMEM" \in ErrorCodes \ {NoError}
    BY DEF ErrorCodes, NoError
  <2> DEFINE s == funcs \o FixCallers
  <2>3. s \in Seq(Functions) /\ s # <<>> /\ s[Len(s)] \in Outermost(call)
    BY <2>1, PassedOn DEF Outermost
  <2>4. Typed /\ Fail("ENOMEM", s)
    BY <1>7 DEF IInv
  <2> HIDE DEF s
  <2>5. /\ Outcome' /\ at' = "unwind" /\ call' = call /\ began' = began
        /\ result' \in {"SUCCESS", "FAILURE"} /\ reason' \in ErrorCodes
        /\ error' \in Trace(ErrorCodes, Functions) /\ error'.code # NoError
    BY <2>2, <2>3, <2>4, FailTold
  <2>6. Typed'
    BY <1>0, <1>5, <2>5 DEF IInv, Typed
  <2>7. Position'
    BY <1>0, <1>1, <1>2, <1>4, <2>5 DEF Position, InPagerFix, InBtreeCreate, AtRest
  <2> QED BY <2>5, <2>6, <2>7 DEF IInv
<1>8. /\ <<"pager_create">> \in Seq(Functions) /\ <<"pager_evict">> \in Seq(Functions)
      /\ <<"pager_directory_insert", "pager_create">> \in Seq(Functions)
  BY DEF Functions
<1>9. CASE FixHeader
  BY <1>6, <1>7, <1>8, <1>9 DEF FixHeader
<1>10. CASE FixBucket
  <2>1. CASE Goto(IF call = "btree_create" THEN "root" ELSE "unwind") /\ UNCHANGED outcome
    <3> DEFINE place == IF call = "btree_create" THEN "root" ELSE "unwind"
    <3>1. place \in {"bucket", "root", "unwind"} /\ Goto(place)
          /\ (place = "root" => call = "btree_create")
          /\ (place = "bucket" \/ place = "root" \/ call = "pager_fix")
      BY <1>1, <2>1
    <3> HIDE DEF place
    <3> QED BY <1>6, <2>1, <3>1
  <2>2. CASE Fail("ENOMEM", <<"pager_directory_insert", "pager_create">> \o FixCallers)
    BY <1>7, <1>8, <2>2
  <2> QED BY <1>10, <2>1, <2>2 DEF FixBucket
<1> QED BY <1>9, <1>10

LEMMA FixRootInv ==
  ASSUME IInv, FixRoot
  PROVE  IInv'
<1>0. /\ at = "root" /\ fixed' = TRUE /\ cleanups' = Append(cleanups, UnfixRoot)
      /\ at' = "btree" /\ UNCHANGED <<heap, pager, btree, result, reason, error, began, call>>
  BY DEF FixRoot, Goto, handles, outcome, Register, UnfixRoot
<1>1. call = "btree_create" /\ InBtreeCreate
  <2>1. ~InPagerOpen /\ ~InPagerFix /\ ~InBtreeOpen /\ ~InPagerClose /\ ~InBtreeClose
    BY <1>0 DEF InPagerOpen, InPagerFix, InBtreeOpen, SetsBtree, InPagerClose, InBtreeClose
  <2> QED BY <1>0, <2>1 DEF IInv, Position
<1>2. PagerAtRest /\ pager = "sound" /\ btree = "null" /\ BtreeAtRest /\ cleanups = <<>>
  BY <1>0, <1>1 DEF InBtreeCreate, SetsBtree
<1>3. cleanups' = <<UnfixRoot>>
  BY <1>0, <1>2, StackOne, CleanupTypes
<1>4. Typed' /\ Outcome'
  BY <1>0, OutcomeKept DEF IInv, Typed
<1>5. InBtreeCreate'
  BY <1>0, <1>2, <1>3 DEF InBtreeCreate, SetsBtree, PagerAtRest, BtreeAtRest, Holds
<1> QED BY <1>0, <1>1, <1>4, <1>5 DEF IInv, Position

LEMMA ReturnInv ==
  ASSUME IInv, Return
  PROVE  IInv'
<1>0. /\ at = "unwind" /\ cleanups = <<>>
      /\ call' = NoCall /\ at' = "idle" /\ began' = FALSE
      /\ UNCHANGED <<heap, pager, btree, fixed, cleanups, result, reason, error>>
  BY DEF Return, handles, outcome
<1>1. AtRest
  <2>0. \A x \in Cleanup, y \in Cleanup, z \in Cleanup :
          <<x>> # <<>> /\ <<x, y>> # <<>> /\ <<x, y, z>> # <<>>
    OBVIOUS
  <2>1. /\ FreeOf("pager") \in Cleanup /\ FreeOf("directory") \in Cleanup /\ FreeOf("ring") \in Cleanup
        /\ FreeOf("btree") \in Cleanup /\ UnfixRoot \in Cleanup
    BY CleanupTypes, BlockNames
  <2>2. Stack1 # <<>> /\ Stack2 # <<>> /\ Stack3 # <<>>
        /\ Append(<<>>, FreeOf("btree")) # <<>> /\ <<UnfixRoot>> # <<>>
        /\ Append(<<UnfixRoot>>, FreeOf("btree")) # <<>>
    BY <2>0, <2>1, StackOne, StackTwo DEF Stack1, Stack2, Stack3
  <2>3. InPagerOpen => AtRest
    BY <1>0, <2>2, PagerOwn DEF InPagerOpen, OpenUnwinds, AtRest, PagerAtRest, Core, Holds
  <2>4. InPagerFix => AtRest
    BY DEF InPagerFix
  <2>5. InBtreeOpen => AtRest
    BY <1>0, <2>2 DEF InBtreeOpen, SetsBtree, AtRest
  <2>6. InBtreeCreate => AtRest
    BY <1>0, <2>2 DEF InBtreeCreate, SetsBtree, AtRest
  <2>7. InPagerClose => AtRest
    BY <1>0 DEF InPagerClose, AtRest
  <2>8. InBtreeClose => AtRest
    BY <1>0 DEF InBtreeClose, AtRest
  <2> QED BY <2>3, <2>4, <2>5, <2>6, <2>7, <2>8 DEF IInv, Position
<1>2. Position'
  BY <1>0, <1>1 DEF Position, AtRest, PagerAtRest, BtreeAtRest, Holds
<1>3. Typed' /\ Outcome'
  BY <1>0 DEF IInv, Typed, Outcome
<1> QED BY <1>2, <1>3 DEF IInv

\* The cleanup that was registered last runs, if its guard lets it.
LEMMA UnwindInv ==
  ASSUME IInv, Unwind
  PROVE  IInv'
<1>0. /\ at = "unwind" /\ at' = "unwind" /\ cleanups # <<>>
      /\ cleanups' = Front(cleanups)
      /\ UNCHANGED <<pager, btree, call, began, result, reason, error>>
      /\ heap' = IF Runs(Last(cleanups)) /\ Last(cleanups).fun = "free"
                   THEN heap \ {Last(cleanups).arg} ELSE heap
      /\ fixed' = IF Runs(Last(cleanups)) /\ Last(cleanups).fun = "unfix" THEN FALSE ELSE fixed
  BY DEF Unwind, Run, handles, outcome
<1>1. Typed' /\ Outcome'
  BY <1>0, OutcomeKept DEF IInv, Typed
<1>2. /\ FreeOf("pager") \in Cleanup /\ FreeOf("directory") \in Cleanup /\ FreeOf("ring") \in Cleanup
      /\ FreeOf("btree") \in Cleanup /\ UnfixRoot \in Cleanup
  BY CleanupTypes, BlockNames
<1>3. ASSUME NEW block, Last(cleanups) = FreeOf(block)
      PROVE  heap' = (IF error.code # NoError THEN heap \ {block} ELSE heap) /\ fixed' = fixed
  BY <1>0, <1>3 DEF FreeOf, Runs
<1>4. ASSUME Last(cleanups) = UnfixRoot
      PROVE  heap' = heap /\ fixed' = FALSE
  BY <1>0, <1>4 DEF UnfixRoot, Runs
<1>5. CASE call = "pager_open"
  <2>1. BtreeAtRest /\ ~fixed /\ OpenUnwinds
    BY <1>0, <1>5 DEF IInv, Position, InPagerOpen
  <2>2. CASE cleanups = Stack1
    <3>1. cleanups' = <<>> /\ Last(cleanups) = FreeOf("pager")
      BY <1>0, <1>2, <2>2, StackOne DEF Stack1
    <3>2. cleanups # Stack2 /\ cleanups # Stack3
      BY <1>2, <2>2 DEF Stack1, Stack2, Stack3
    <3>3. heap' = (IF error.code # NoError THEN heap \ {"pager"} ELSE heap) /\ fixed' = fixed
      BY <1>3, <3>1
    <3>4. OpenUnwinds' /\ BtreeAtRest'
      BY <1>0, <2>1, <2>2, <3>1, <3>2, <3>3, PagerOwn DEF OpenUnwinds, Holds, BtreeAtRest
    <3> QED BY <1>0, <1>1, <1>5, <2>1, <3>3, <3>4 DEF IInv, Position, InPagerOpen
  <2>3. CASE cleanups = Stack2
    <3>1. cleanups' = Stack1 /\ Last(cleanups) = FreeOf("directory")
      BY <1>0, <1>2, <2>3, StackTwo DEF Stack1, Stack2
    <3>2. cleanups # Stack1 /\ cleanups # Stack3
      BY <1>2, <2>3 DEF Stack1, Stack2, Stack3
    <3>3. heap' = (IF error.code # NoError THEN heap \ {"directory"} ELSE heap) /\ fixed' = fixed
      BY <1>3, <3>1
    <3>4. OpenUnwinds' /\ BtreeAtRest'
      BY <1>0, <2>1, <2>3, <3>1, <3>2, <3>3, PagerOwn DEF OpenUnwinds, Holds, BtreeAtRest
    <3> QED BY <1>0, <1>1, <1>5, <2>1, <3>3, <3>4 DEF IInv, Position, InPagerOpen
  <2>4. CASE cleanups = Stack3
    <3>1. cleanups' = Stack2 /\ Last(cleanups) = FreeOf("ring")
      BY <1>0, <1>2, <2>4, StackThree DEF Stack2, Stack3
    <3>2. cleanups # Stack1 /\ cleanups # Stack2
      BY <1>2, <2>4 DEF Stack1, Stack2, Stack3
    <3>3. heap' = (IF error.code # NoError THEN heap \ {"ring"} ELSE heap) /\ fixed' = fixed
      BY <1>3, <3>1
    <3>4. OpenUnwinds' /\ BtreeAtRest'
      BY <1>0, <2>1, <2>4, <3>1, <3>2, <3>3, PagerOwn DEF OpenUnwinds, Holds, BtreeAtRest, Core
    <3> QED BY <1>0, <1>1, <1>5, <2>1, <3>3, <3>4 DEF IInv, Position, InPagerOpen
  <2> QED BY <1>0, <2>1, <2>2, <2>3, <2>4 DEF OpenUnwinds
<1>6. CASE call = "btree_open"
  <2>1. PagerAtRest /\ pager = "sound" /\ ~fixed /\ SetsBtree(<<>>)
    BY <1>0, <1>6 DEF IInv, Position, InBtreeOpen
  <2>2. cleanups = <<FreeOf("btree")>> /\ (error.code = NoError <=> btree = "sound")
        /\ "btree" \in heap
    BY <1>0, <1>2, <2>1, StackOne DEF SetsBtree
  <2>3. cleanups' = <<>> /\ Last(cleanups) = FreeOf("btree")
    BY <1>0, <1>2, <2>2, StackOne
  <2>4. heap' = (IF error.code # NoError THEN heap \ {"btree"} ELSE heap) /\ fixed' = fixed
    BY <1>3, <2>3
  <2>5. PagerAtRest' /\ BtreeAtRest'
    BY <1>0, <2>1, <2>2, <2>4, PagerOwn DEF PagerAtRest, BtreeAtRest, Holds, Core
  <2> QED BY <1>0, <1>1, <1>6, <2>1, <2>3, <2>4, <2>5
             DEF IInv, Position, InBtreeOpen, SetsBtree
<1>7. CASE call = "btree_create"
  <2>1. PagerAtRest /\ pager = "sound" /\ fixed /\ SetsBtree(<<UnfixRoot>>)
    BY <1>0, <1>7 DEF IInv, Position, InBtreeCreate
  <2>2. CASE cleanups = <<UnfixRoot>>
    <3>1. cleanups' = <<>> /\ Last(cleanups) = UnfixRoot
      BY <1>0, <1>2, <2>2, StackOne
    <3>2. BtreeAtRest
      <4>1. Append(<<UnfixRoot>>, FreeOf("btree")) # <<UnfixRoot>>
        BY <1>2
      <4> QED BY <1>0, <2>1, <2>2, <4>1 DEF SetsBtree
    <3>3. heap' = heap /\ fixed' = FALSE
      BY <1>4, <3>1
    <3> QED BY <1>0, <1>1, <1>7, <2>1, <3>1, <3>2, <3>3
               DEF IInv, Position, InBtreeCreate, PagerAtRest, BtreeAtRest, Holds
  <2>3. CASE cleanups # <<UnfixRoot>>
    <3>1. cleanups = <<UnfixRoot, FreeOf("btree")>> /\ "btree" \in heap
          /\ (error.code = NoError <=> btree = "sound")
      BY <1>0, <1>2, <2>1, <2>3, StackTwo DEF SetsBtree
    <3>2. cleanups' = <<UnfixRoot>> /\ Last(cleanups) = FreeOf("btree")
      BY <1>0, <1>2, <3>1, StackTwo
    <3>3. heap' = (IF error.code # NoError THEN heap \ {"btree"} ELSE heap) /\ fixed' = fixed
      BY <1>3, <3>2
    <3>4. PagerAtRest' /\ BtreeAtRest'
      BY <1>0, <2>1, <3>1, <3>3, PagerOwn DEF PagerAtRest, BtreeAtRest, Holds, Core
    <3> QED BY <1>0, <1>1, <1>7, <2>1, <3>2, <3>3, <3>4
               DEF IInv, Position, InBtreeCreate, SetsBtree
  <2> QED BY <2>2, <2>3
<1> QED BY <1>0, <1>5, <1>6, <1>7 DEF IInv, Position, InPagerFix, InPagerClose, InBtreeClose

LEMMA FreeInv ==
  ASSUME IInv, FreeHeaders \/ FreeRing \/ FreeBuckets \/ FreeDirectory
  PROVE  IInv'
<1>0. /\ at \in {"free_headers", "free_ring", "free_buckets", "free_directory"}
      /\ UNCHANGED <<pager, btree, fixed, cleanups, result, reason, error, began, call>>
  BY DEF FreeHeaders, FreeRing, FreeBuckets, FreeDirectory, Free, Freeing, Goto, handles, outcome
<1>1. call = "pager_close" /\ InPagerClose
  <2>1. ~InPagerOpen /\ ~InPagerFix /\ ~InBtreeOpen /\ ~InBtreeCreate /\ ~InBtreeClose
    BY <1>0 DEF InPagerOpen, InPagerFix, InBtreeOpen, InBtreeCreate, SetsBtree, InBtreeClose
  <2> QED BY <1>0, <2>1 DEF IInv, Position
<1>2. btree = "null" /\ BtreeAtRest /\ ~fixed /\ cleanups = <<>>
  BY <1>1 DEF InPagerClose
<1>3. heap \subseteq Blocks
  BY DEF IInv, Typed
<1>4. CASE FreeHeaders
  <2>1. at = "free_headers" /\ heap' = heap \ {"headers"} /\ at' = "free_ring"
    BY <1>4 DEF FreeHeaders, Free, Freeing, Goto
  <2>2. Core \subseteq heap
    BY <1>1, <2>1 DEF InPagerClose
  <2> QED BY <1>0, <1>1, <1>2, <1>3, <2>1, <2>2, OutcomeKept
             DEF IInv, Typed, Position, InPagerClose, BtreeAtRest, Core
<1>5. CASE FreeRing
  <2>1. at = "free_ring" /\ heap' = heap \ {"ring"}
        /\ at' = IF "buckets" \in heap THEN "free_buckets" ELSE "free_directory"
    BY <1>5 DEF FreeRing, Free, Freeing, Goto, AfterRing
  <2>2. Core \subseteq heap /\ "headers" \notin heap
    BY <1>1, <2>1 DEF InPagerClose
  <2>3. "buckets" \in heap => Holds({"pager", "directory", "buckets"})'
    BY <1>3, <2>1, <2>2, PagerOwn DEF Core, Holds
  <2>4. "buckets" \notin heap => Holds({"pager", "directory"})'
    BY <1>3, <2>1, <2>2, PagerOwn DEF Core, Holds
  <2> QED BY <1>0, <1>1, <1>2, <1>3, <2>1, <2>3, <2>4, OutcomeKept
             DEF IInv, Typed, Position, InPagerClose, BtreeAtRest
<1>6. CASE FreeBuckets
  <2>1. at = "free_buckets" /\ heap' = heap \ {"buckets"} /\ at' = "free_directory"
    BY <1>6 DEF FreeBuckets, Free, Freeing, Goto
  <2>2. Holds({"pager", "directory", "buckets"})
    BY <1>1, <2>1 DEF InPagerClose
  <2>3. Holds({"pager", "directory"})'
    BY <1>3, <2>1, <2>2, PagerOwn DEF Holds
  <2> QED BY <1>0, <1>1, <1>2, <1>3, <2>1, <2>3, OutcomeKept
             DEF IInv, Typed, Position, InPagerClose, BtreeAtRest
<1>7. CASE FreeDirectory
  <2>1. at = "free_directory" /\ heap' = heap \ {"directory"} /\ at' = "free_pager"
    BY <1>7 DEF FreeDirectory, Free, Freeing, Goto
  <2>2. Holds({"pager", "directory"})
    BY <1>1, <2>1 DEF InPagerClose
  <2>3. Holds({"pager"})'
    BY <1>3, <2>1, <2>2, PagerOwn DEF Holds
  <2> QED BY <1>0, <1>1, <1>2, <1>3, <2>1, <2>3, OutcomeKept
             DEF IInv, Typed, Position, InPagerClose, BtreeAtRest
<1> QED BY <1>4, <1>5, <1>6, <1>7

LEMMA FreeHandleInv ==
  ASSUME IInv, FreeHandle("pager") \/ FreeHandle("btree")
  PROVE  IInv'
<1>0. /\ at \in {"free_pager", "free_btree"} /\ at' = "unwind"
      /\ UNCHANGED <<fixed, cleanups, result, reason, error, began, call>>
  BY DEF FreeHandle, Freeing, Goto, outcome
<1>1. \/ call = "pager_close" /\ InPagerClose
      \/ call = "btree_close" /\ InBtreeClose
  <2>1. ~InPagerOpen /\ ~InPagerFix /\ ~InBtreeOpen /\ ~InBtreeCreate
    BY <1>0 DEF InPagerOpen, InPagerFix, InBtreeOpen, InBtreeCreate, SetsBtree
  <2> QED BY <1>0, <2>1 DEF IInv, Position
<1>2. result = "SUCCESS" /\ heap \subseteq Blocks
  BY <1>0 DEF IInv, Outcome, Typed
<1>3. Outcome'
  BY <1>0, <1>2 DEF Outcome
<1>4. CASE FreeHandle("pager")
  <2>1. at = "free_pager" /\ heap' = heap \ {"pager"} /\ pager' = "null" /\ btree' = btree
    BY <1>4 DEF FreeHandle, Freeing
  <2>2. call = "pager_close" /\ InPagerClose /\ Holds({"pager"})
    BY <1>1, <2>1 DEF InPagerClose, InBtreeClose
  <2>3. PagerAtRest' /\ BtreeAtRest'
    BY <1>2, <2>1, <2>2, PagerOwn DEF PagerAtRest, BtreeAtRest, Holds, InPagerClose
  <2> QED BY <1>0, <1>3, <2>1, <2>2, <2>3 DEF IInv, Typed, Handle, Position, InPagerClose
<1>5. CASE FreeHandle("btree")
  <2>1. at = "free_btree" /\ heap' = heap \ {"btree"} /\ btree' = "null" /\ pager' = pager
    BY <1>5 DEF FreeHandle, Freeing
  <2>2. call = "btree_close" /\ InBtreeClose
    BY <1>1, <2>1 DEF InPagerClose, InBtreeClose
  <2>3. PagerAtRest' /\ BtreeAtRest'
    BY <1>2, <2>1, <2>2, PagerOwn DEF PagerAtRest, BtreeAtRest, Holds, InBtreeClose, Core
  <2> QED BY <1>0, <1>3, <2>1, <2>2, <2>3 DEF IInv, Typed, Handle, Position, InBtreeClose
<1> QED BY <1>4, <1>5

LEMMA NextInv == IInv /\ [Next]_vars => IInv'
<1> SUFFICES ASSUME IInv, [Next]_vars PROVE IInv'
  OBVIOUS
<1>1. CASE UNCHANGED vars
  <2>1. /\ heap' = heap /\ pager' = pager /\ btree' = btree /\ fixed' = fixed
        /\ call' = call /\ at' = at /\ cleanups' = cleanups /\ began' = began
        /\ result' = result /\ reason' = reason /\ error' = error
    BY <1>1 DEF vars, handles, outcome
  <2>2. Typed'
    BY <2>1 DEF IInv, Typed
  <2>3. Outcome'
    BY <2>1 DEF IInv, Outcome, Told, Outermost
  <2>4. (PagerAtRest' <=> PagerAtRest) /\ (BtreeAtRest' <=> BtreeAtRest)
    BY <2>1 DEF PagerAtRest, BtreeAtRest, Holds
  <2>5. /\ InPagerOpen => InPagerOpen'
        /\ InPagerFix => InPagerFix'
        /\ InBtreeOpen => InBtreeOpen'
    BY <2>1, <2>4 DEF InPagerOpen, InPagerFix, InBtreeOpen, SetsBtree, OpenUnwinds, AtRest, Holds
  <2>6. /\ InBtreeCreate => InBtreeCreate'
        /\ InPagerClose => InPagerClose'
        /\ InBtreeClose => InBtreeClose'
    BY <2>1, <2>4 DEF InBtreeCreate, InPagerClose, InBtreeClose, SetsBtree, OpenUnwinds, AtRest,
       Holds
  <2>7. MayCall(call) => MayCall(call)'
    BY <2>1 DEF MayCall, Usable
  <2>8. Position'
    BY <2>1, <2>4, <2>5, <2>6, <2>7 DEF IInv, Position, AtRest
  <2> QED BY <2>2, <2>3, <2>8 DEF IInv
<1>2. CASE Next
  BY <1>2, BeginInv, ClearInv, EnsureInv, AllocPagerInv, AllocBtreeInv, SetOutInv, FixInv,
     FixRootInv, UnwindInv, ReturnInv, FreeInv, FreeHandleInv DEF Next
<1> QED BY <1>1, <1>2

LEMMA Invariance == Spec => []IInv
BY InitInv, NextInv, PTL DEF Spec

-----------------------------------------------------------------------------
(***************************************************************************)
(* Every variable of the calls that open and close keeps its type, and no  *)
(* more than three cleanups ever wait.                                     *)
(***************************************************************************)
THEOREM TypeCorrect == Spec => []TypeOK
BY Invariance, InvTypeOK, PTL

(***************************************************************************)
(* Whatever malloc fails, a block is freed before the one it is found      *)
(* through, and nothing stays behind when a call of pager_open, btree_open *)
(* or btree_create is left without a result.                               *)
(***************************************************************************)
THEOREM NoLeaks == Spec => []NothingLost
BY Invariance, InvNothingLost, PTL

(***************************************************************************)
(* What pager_open and btree_create return is there until it is closed, if *)
(* no error was set when they were called.                                 *)
(***************************************************************************)
THEOREM SoundHandles == Spec => []HandleAlive
BY Invariance, InvHandleAlive, PTL

(***************************************************************************)
(* A call that fails leaves the code of that failure, and the trace, when  *)
(* it has room, ends with the function the caller knows: for a trace of    *)
(* any length.                                                             *)
(***************************************************************************)
THEOREM FailuresTold == Spec => []FailureTold
BY Invariance, InvFailureTold, PTL

=============================================================================
