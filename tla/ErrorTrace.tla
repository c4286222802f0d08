----------------------------- MODULE ErrorTrace -----------------------------
(***************************************************************************)
(* The error state of a thread, src/error.c: the code of the last failure  *)
(* and the frames of the trace, which is full after MaxErrors of them.     *)
(* Messages are left out.                                                  *)
(***************************************************************************)
EXTENDS Integers, SequencesExt

CONSTANT MaxErrors  \* MAX_ERRORS, 32 in the code

ASSUME TraceAssumption == MaxErrors \in Nat \ {0}

NoError == "0"
NullFrame == [func |-> "null", code |-> NoError]

\* error_clear
Cleared == [code |-> NoError, frames |-> <<>>]

\* Variant: nothing is kept of an error when the trace is full.
PushOrDrop(e, func, code) ==
  IF Len(e.frames) >= MaxErrors THEN e
  ELSE [code |-> code, frames |-> Append(e.frames, [func |-> func, code |-> code])]

\* Variant: the end of the list is not looked at.
PushUnbounded(e, func, code) ==
  [code |-> code, frames |-> Append(e.frames, [func |-> func, code |-> code])]

\* error_push
Push(e, func, code) ==
  [code |-> code,
   frames |-> IF Len(e.frames) >= MaxErrors THEN e.frames
              ELSE Append(e.frames, [func |-> func, code |-> code])]

\* error_trace_length
TraceLength(e) == Min({Len(e.frames), MaxErrors})

\* error_trace_nth; a full trace has no frame to show.
TraceNth(e, n) ==
  IF n >= Len(e.frames) \/ Len(e.frames) >= MaxErrors THEN NullFrame
  ELSE e.frames[n + 1]

\* failure in func, with its callers passing it on: try pushes a frame of its
\* own with error_get_code(), and so does forward.
Failed(e, code, funcs) ==
  LET pushed[i \in 0 .. Len(funcs)] ==
        IF i = 0 THEN e ELSE Push(pushed[i - 1], funcs[i], code)
  IN  pushed[Len(funcs)]

=============================================================================
