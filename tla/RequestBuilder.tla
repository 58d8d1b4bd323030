--------------------------- MODULE RequestBuilder ---------------------------
(***************************************************************************)
(* The configuration half of `executable` (executable.go:59-180): the      *)
(* request's own backoff bounds, kept as pointers that are nil until set, *)
(* and its pinned node list nodeAccountIDs, a _LockableSlice. The setters *)
(* run in the application's goroutine before _Execute; other code may use *)
(* the slice through any of its methods meanwhile. A panic ends the       *)
(* caller. Durations are in units of 250ms.                                *)
(***************************************************************************)
EXTENDS Integers, Sequences

CONSTANTS
  Items, Nil, MaxLen,   \* as in LockableSlice
  Unset,                \* a nil *time.Duration
  Durations,            \* the durations the caller passes to the setters
  DefaultMinBackoff,    \* 250 * time.Millisecond
  DefaultMaxBackoff     \* 8 * time.Second

ASSUME Unset \notin Int /\ Durations \subseteq Int
ASSUME 0 < DefaultMinBackoff /\ DefaultMinBackoff <= DefaultMaxBackoff

VARIABLES
  slice, locked, index, panicked, last, cleared,   \* e.nodeAccountIDs
  minBackoff,   \* e.minBackoff: Unset or a duration
  maxBackoff,   \* e.maxBackoff: Unset or a duration
  bpanic        \* "none", or why a setter panicked

sliceVars == <<slice, locked, index, panicked, last, cleared>>
vars == <<sliceVars, minBackoff, maxBackoff, bpanic>>

Ids == INSTANCE LockableSlice

TypeOK ==
  /\ Ids!TypeOK
  /\ minBackoff \in Durations \cup {DefaultMinBackoff, Unset}
  /\ maxBackoff \in Durations \cup {DefaultMaxBackoff, Unset}
  /\ bpanic \in {"none", "negative", "order", "nil"}

GetMaxBackoff == IF maxBackoff # Unset THEN maxBackoff ELSE DefaultMaxBackoff

GetMinBackoff == IF minBackoff # Unset THEN minBackoff ELSE DefaultMinBackoff

\* The request constructors are not in this tree: a request starts with
\* both bounds nil, or with both set to the defaults.
Init ==
  /\ Ids!Init
  /\ \/ minBackoff = Unset /\ maxBackoff = Unset
     \/ minBackoff = DefaultMinBackoff /\ maxBackoff = DefaultMaxBackoff
  /\ bpanic = "none"

Live == bpanic = "none" /\ panicked = "none"

\* Mutation: SetMaxBackoff stores the bound in the wrong unit.
SetMaxBackoffRescaled(d) ==
  /\ Live
  /\ CASE d < 0 -> bpanic' = "negative" /\ UNCHANGED maxBackoff
       [] minBackoff = Unset -> bpanic' = "nil" /\ UNCHANGED maxBackoff
       [] d < minBackoff -> bpanic' = "order" /\ UNCHANGED maxBackoff
       [] OTHER -> maxBackoff' = 4 * d /\ UNCHANGED bpanic
  /\ UNCHANGED <<sliceVars, minBackoff>>

\* SetMaxBackoff(max): a negative max panics; comparing with *e.minBackoff
\* dereferences it, so a nil minBackoff panics; a max below it panics.
SetMaxBackoff(d) ==
  /\ Live
  /\ CASE d < 0 -> bpanic' = "negative" /\ UNCHANGED maxBackoff
       [] minBackoff = Unset -> bpanic' = "nil" /\ UNCHANGED maxBackoff
       [] d < minBackoff -> bpanic' = "order" /\ UNCHANGED maxBackoff
       [] OTHER -> maxBackoff' = d /\ UNCHANGED bpanic
  /\ UNCHANGED <<sliceVars, minBackoff>>

\* Mutation: SetMinBackoff without the comparison with maxBackoff.
SetMinBackoffUnordered(d) ==
  /\ Live
  /\ CASE d < 0 -> bpanic' = "negative" /\ UNCHANGED minBackoff
       [] maxBackoff = Unset -> bpanic' = "nil" /\ UNCHANGED minBackoff
       [] OTHER -> minBackoff' = d /\ UNCHANGED bpanic
  /\ UNCHANGED <<sliceVars, maxBackoff>>

\* SetMinBackoff(min), the mirror image: *e.maxBackoff is dereferenced.
SetMinBackoff(d) ==
  /\ Live
  /\ CASE d < 0 -> bpanic' = "negative" /\ UNCHANGED minBackoff
       [] maxBackoff = Unset -> bpanic' = "nil" /\ UNCHANGED minBackoff
       [] maxBackoff < d -> bpanic' = "order" /\ UNCHANGED minBackoff
       [] OTHER -> minBackoff' = d /\ UNCHANGED bpanic
  /\ UNCHANGED <<sliceVars, maxBackoff>>

\* SetNodeAccountIDs(ids): _Push each ID (the first _Push on a locked
\* slice panics), then _SetLocked(true).
SetNodeAccountIDs(ids) ==
  /\ Live /\ Len(slice) + Len(ids) <= MaxLen
  /\ last' = "Push"
  /\ IF locked /\ ids # << >>
     THEN panicked' = "locked" /\ UNCHANGED <<slice, locked, index, cleared>>
     ELSE /\ slice' = slice \o ids /\ locked' = TRUE
          /\ UNCHANGED <<index, panicked, cleared>>
  /\ UNCHANGED <<minBackoff, maxBackoff, bpanic>>

Next ==
  \/ bpanic = "none" /\ Ids!Next /\ UNCHANGED <<minBackoff, maxBackoff, bpanic>>
  \/ \E d \in Durations : SetMaxBackoff(d) \/ SetMinBackoff(d)
  \/ \E ids \in Ids!SeqsUpTo(2) : SetNodeAccountIDs(SelectSeq(ids, LAMBDA x : x # Nil))

Spec == Init /\ [][Next]_vars

-----------------------------------------------------------------------------
(* Properties                                                              *)

\* _Execute sleeps between GetMinBackoff and about twice GetMaxBackoff; the
\* two setters keep the request's bounds ordered whatever order they are
\* called in and whatever the defaults they fall back to: a request that
\* did not panic has GetMinBackoff <= GetMaxBackoff.
BackoffBoundsOrdered == bpanic = "none" => GetMinBackoff <= GetMaxBackoff

\* The cursor _Execute reads the pinned node with (getNodeAccountID, via
\* _GetCurrent) stays inside a non-empty list unless a _Clear left it behind.
CursorInRangeUnlessCleared == Ids!CursorInRangeUnlessCleared
=============================================================================
