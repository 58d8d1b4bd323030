---------------------------- MODULE LockableSlice ----------------------------
(***************************************************************************)
(* _LockableSlice (lockable_slice.go): a slice with a cursor and a lock,   *)
(* used for the nodeAccountIDs of a request. Every method is one action    *)
(* of a caller that may call any of them with any small argument. A       *)
(* panic (_RequireNotLocked, or an index out of range in a slice access)  *)
(* ends the caller: no method runs after it.                              *)
(***************************************************************************)
EXTENDS Integers, Sequences

CONSTANTS
  Items,     \* the values stored (nil included)
  Nil,       \* nil
  MaxLen     \* bound on the length of the slice

VARIABLES
  slice,     \* ls.slice
  locked,    \* ls.locked
  index,     \* ls.index
  panicked,  \* "none", or why the caller panicked: "locked" or "range"
  last,      \* history: the method of the last step
  cleared    \* history: a _Clear ran since the last _SetSlice

vars == <<slice, locked, index, panicked, last, cleared>>

Methods == {"SetLocked", "SetSlice", "Push", "Clear", "Get", "Set", "SetIfAbsent",
            "GetNext", "GetCurrent", "Advance", "none"}

TypeOK ==
  /\ slice \in Seq(Items) /\ Len(slice) <= MaxLen
  /\ locked \in BOOLEAN
  /\ index \in 0..MaxLen
  /\ panicked \in {"none", "locked", "range"}
  /\ last \in Methods
  /\ cleared \in BOOLEAN

\* Sequences of at most n items.
SeqsUpTo(n) == UNION {[1..m -> Items] : m \in 0..n}

Init ==
  /\ slice = << >>
  /\ locked = FALSE
  /\ index = 0
  /\ panicked = "none"
  /\ last = "none"
  /\ cleared = FALSE

Call(m) ==
  /\ panicked = "none" /\ last' = m
  /\ cleared' = IF locked THEN cleared ELSE (m = "Clear" \/ (cleared /\ m # "SetSlice"))

\* A method that starts with _RequireNotLocked panics on a locked slice.
LockedPanic(m) ==
  /\ Call(m) /\ locked
  /\ panicked' = "locked"
  /\ UNCHANGED <<slice, locked, index>>

\* ls.slice[i] with i outside the slice panics.
RangePanic == panicked' = "range" /\ UNCHANGED <<slice, locked, index>>

SetLocked ==
  \E b \in BOOLEAN :
    /\ Call("SetLocked")
    /\ locked' = b
    /\ UNCHANGED <<slice, index, panicked>>

\* Mutation: _SetSlice keeps the cursor.
SetSliceKeepIndex ==
  \/ LockedPanic("SetSlice")
  \/ \E s \in SeqsUpTo(MaxLen) :
       /\ Call("SetSlice") /\ ~locked
       /\ slice' = s
       /\ UNCHANGED <<locked, index, panicked>>

SetSlice ==
  \/ LockedPanic("SetSlice")
  \/ \E s \in SeqsUpTo(MaxLen) :
       /\ Call("SetSlice") /\ ~locked
       /\ slice' = s /\ index' = 0
       /\ UNCHANGED <<locked, panicked>>

Push ==
  \/ LockedPanic("Push")
  \/ \E s \in SeqsUpTo(2) \ {<< >>} :
       /\ Call("Push") /\ ~locked /\ Len(slice) + Len(s) <= MaxLen
       /\ slice' = slice \o s
       /\ UNCHANGED <<locked, index, panicked>>

\* _Clear empties the slice and leaves the index as it is.
Clear ==
  \/ LockedPanic("Clear")
  \/ /\ Call("Clear") /\ ~locked
     /\ slice' = << >>
     /\ UNCHANGED <<locked, index, panicked>>

Get ==
  \E i \in 0..MaxLen :
    /\ Call("Get")
    /\ IF i < Len(slice) THEN UNCHANGED <<slice, locked, index, panicked>> ELSE RangePanic

\* Storing x at i: append when i = len, overwrite when i < len, panic when
\* i > len.
Store(i, x) ==
  \/ /\ i = Len(slice) /\ i < MaxLen
     /\ slice' = Append(slice, x)
     /\ UNCHANGED <<locked, index, panicked>>
  \/ /\ i < Len(slice)
     /\ slice' = [slice EXCEPT ![i + 1] = x]
     /\ UNCHANGED <<locked, index, panicked>>
  \/ /\ i > Len(slice)
     /\ RangePanic

\* _Set.
Set ==
  \/ LockedPanic("Set")
  \/ \E i \in 0..MaxLen, x \in Items :
       /\ Call("Set") /\ ~locked
       /\ Store(i, x)

\* _SetIfAbsent: _Set when i = len or slice[i] is nil; reading slice[i]
\* panics when i > len.
SetIfAbsent ==
  \/ LockedPanic("SetIfAbsent")
  \/ \E i \in 0..MaxLen, x \in Items :
       /\ Call("SetIfAbsent") /\ ~locked
       /\ \/ /\ i = Len(slice) \/ (i < Len(slice) /\ slice[i + 1] = Nil)
             /\ Store(i, x)
          \/ /\ i < Len(slice) /\ slice[i + 1] # Nil
             /\ UNCHANGED <<slice, locked, index, panicked>>
          \/ /\ i > Len(slice)
             /\ RangePanic

\* Mutation: _Advance without the modulo.
AdvancedNoWrap == IF Len(slice) # 0 THEN index + 1 ELSE index

\* The index _Advance moves the cursor to.
Advanced == IF Len(slice) # 0 THEN (index + 1) % Len(slice) ELSE index

Advance ==
  /\ Call("Advance")
  /\ index' = Advanced
  /\ UNCHANGED <<slice, locked, panicked>>

\* _GetNext: _Get(_Advance()), the value at the old cursor.
GetNext ==
  /\ Call("GetNext")
  /\ index' = Advanced
  /\ panicked' = IF index < Len(slice) THEN "none" ELSE "range"
  /\ UNCHANGED <<slice, locked>>

GetCurrent ==
  /\ Call("GetCurrent")
  /\ IF index < Len(slice) THEN UNCHANGED <<slice, locked, index, panicked>> ELSE RangePanic

Next ==
  \/ SetLocked \/ SetSlice \/ Push \/ Clear \/ Get \/ Set \/ SetIfAbsent
  \/ GetNext \/ GetCurrent \/ Advance

Spec == Init /\ [][Next]_vars

-----------------------------------------------------------------------------
(* Properties                                                              *)

\* The cursor reads of _GetCurrent and _GetNext (lockable_slice.go:72-76)
\* index ls.slice with ls.index. The cursor stays inside a non-empty slice
\* (_SetSlice resets it, _Advance wraps it, _Push and _Set only grow the
\* slice) unless a _Clear left it behind the new end: so a cursor read
\* panics only on an empty slice or after a _Clear.
CursorInRangeUnlessCleared == Len(slice) > 0 /\ index >= Len(slice) => cleared
=============================================================================
