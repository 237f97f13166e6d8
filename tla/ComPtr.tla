-------------------------------- MODULE ComPtr --------------------------------
(***************************************************************************)
(* util/Win32COMPointer.h: ComPtr, the owner of one reference to a COM      *)
(* object.  A ComPtr is a variable that holds an object or null; besides    *)
(* them, references are owned by raw pointers (what Detach and CopyTo give  *)
(* out, what Attach takes, what a COM call writes through GetAddressOf).    *)
(* An object counts its references and is gone when the last is released.   *)
(*                                                                         *)
(* The caller's part: Attach is given a reference the caller owns, Copy an  *)
(* object that somebody holds, As and GetAddressOf are used as documented.  *)
(***************************************************************************)
EXTENDS Integers, FiniteSets

CONSTANTS Ptrs,       \* ComPtr variables
          Objects,    \* COM objects
          null,       \* nullptr
          MaxRaw      \* bound: references of one object that raw pointers own

ASSUME ComAssumption == IsFiniteSet(Ptrs) /\ null \notin Objects /\ MaxRaw \in Nat

VARIABLES m_ptr,      \* of each ComPtr
          refs,       \* the count inside each object
          raw,        \* references owned by raw pointers
          gone        \* objects whose last reference was released

comVars == <<m_ptr, refs, raw, gone>>

\* Every object is born with the reference its creator owns.
ComInit ==
    /\ m_ptr = [p \in Ptrs |-> null] /\ refs = [o \in Objects |-> 1]
    /\ raw = [o \in Objects |-> 1] /\ gone = {}

-------------------------------------------------------------------------------
(* InternalAddRef and InternalRelease, as functions of the counts.          *)

Plus(r, o) == IF o \in Objects THEN [r EXCEPT ![o] = @ + 1] ELSE r
Minus(r, o) == IF o \in Objects THEN [r EXCEPT ![o] = @ - 1] ELSE r
Released(r, o) == IF o \in Objects /\ r[o] = 1 THEN {o} ELSE {}

InternalRelease(p) ==
    /\ m_ptr' = [m_ptr EXCEPT ![p] = null]
    /\ refs' = Minus(refs, m_ptr[p]) /\ gone' = gone \cup Released(refs, m_ptr[p])

\* Mutant: without the test.
InternalCopyUntested(p, other) ==
    /\ m_ptr' = [m_ptr EXCEPT ![p] = other]
    /\ refs' = Plus(Minus(refs, m_ptr[p]), other)
    /\ gone' = gone \cup Released(refs, m_ptr[p])

\* InternalCopy: releases the old object first.
InternalCopy(p, other) ==
    IF m_ptr[p] = other THEN UNCHANGED <<m_ptr, refs, gone>>
    ELSE /\ m_ptr' = [m_ptr EXCEPT ![p] = other]
         /\ refs' = Plus(Minus(refs, m_ptr[p]), other)
         /\ gone' = gone \cup Released(refs, m_ptr[p])

\* InternalMove: a pointer to the same object stays as it is.
InternalMove(p, q) ==
    IF m_ptr[p] = m_ptr[q] THEN UNCHANGED <<m_ptr, refs, gone>>
    ELSE /\ m_ptr' = [m_ptr EXCEPT ![p] = m_ptr[q], ![q] = null]
         /\ refs' = Minus(refs, m_ptr[p]) /\ gone' = gone \cup Released(refs, m_ptr[p])

-------------------------------------------------------------------------------
\* The copy constructors, into a variable that did not exist.
CopyConstruct(p, q) ==
    /\ m_ptr[p] = null /\ p # q
    /\ m_ptr' = [m_ptr EXCEPT ![p] = m_ptr[q]] /\ refs' = Plus(refs, m_ptr[q])
    /\ UNCHANGED <<raw, gone>>

\* The move constructors.
MoveConstruct(p, q) ==
    /\ m_ptr[p] = null /\ p # q
    /\ m_ptr' = [m_ptr EXCEPT ![p] = m_ptr[q], ![q] = null]
    /\ UNCHANGED <<refs, raw, gone>>

\* operator=(ComPtr const &)
CopyAssign(p, q) == InternalCopy(p, m_ptr[q]) /\ UNCHANGED raw

\* operator=(ComPtr &&)
MoveAssign(p, q) == InternalMove(p, q) /\ UNCHANGED raw

Swap(p, q) ==
    /\ m_ptr' = [m_ptr EXCEPT ![p] = m_ptr[q], ![q] = m_ptr[p]]
    /\ UNCHANGED <<refs, raw, gone>>

\* Reset, and the destructor.
Reset(p) == InternalRelease(p) /\ UNCHANGED raw

Detach(p) ==
    /\ m_ptr[p] \in Objects /\ raw[m_ptr[p]] < MaxRaw
    /\ m_ptr' = [m_ptr EXCEPT ![p] = null] /\ raw' = Plus(raw, m_ptr[p])
    /\ UNCHANGED <<refs, gone>>

Copy(p, other) ==
    /\ other \notin gone
    /\ InternalCopy(p, other) /\ UNCHANGED raw

Attach(p, other) ==
    /\ raw[other] > 0
    /\ m_ptr' = [m_ptr EXCEPT ![p] = other] /\ raw' = Minus(raw, other)
    /\ refs' = Minus(refs, m_ptr[p]) /\ gone' = gone \cup Released(refs, m_ptr[p])

\* GetAddressOf: the callee stores an object and a reference to it (As does).
GetAddressOf(p, other) ==
    /\ m_ptr[p] = null /\ other \notin gone
    /\ m_ptr' = [m_ptr EXCEPT ![p] = other] /\ refs' = Plus(refs, other)
    /\ UNCHANGED <<raw, gone>>

CopyTo(p) ==
    /\ m_ptr[p] \in Objects /\ raw[m_ptr[p]] < MaxRaw
    /\ refs' = Plus(refs, m_ptr[p]) /\ raw' = Plus(raw, m_ptr[p])
    /\ UNCHANGED <<m_ptr, gone>>

\* A raw pointer releases its reference.
RawRelease(o) ==
    /\ raw[o] > 0
    /\ raw' = Minus(raw, o) /\ refs' = Minus(refs, o) /\ gone' = gone \cup Released(refs, o)
    /\ UNCHANGED m_ptr

ComNext ==
    \/ \E p, q \in Ptrs : \/ CopyConstruct(p, q) \/ MoveConstruct(p, q)
                          \/ CopyAssign(p, q) \/ MoveAssign(p, q) \/ Swap(p, q)
    \/ \E p \in Ptrs : Reset(p) \/ Detach(p) \/ CopyTo(p)
    \/ \E p \in Ptrs, o \in Objects : Copy(p, o) \/ Attach(p, o) \/ GetAddressOf(p, o)
    \/ \E o \in Objects : RawRelease(o)

ComSpec == ComInit /\ [][ComNext]_comVars

-------------------------------------------------------------------------------
Holders(m, o) == {p \in Ptrs : m[p] = o}

ComTypeOK ==
    /\ m_ptr \in [Ptrs -> Objects \cup {null}] /\ refs \in [Objects -> Int]
    /\ raw \in [Objects -> Nat] /\ gone \subseteq Objects

\* An object counts exactly the references that ComPtr variables and raw pointers own,
\* whatever is copied, moved, swapped or released onto itself, and it is gone exactly when
\* nobody owns one: none is released too early, and none is kept.
CountsOwners ==
    \A o \in Objects : /\ refs[o] = Cardinality(Holders(m_ptr, o)) + raw[o]
                       /\ o \in gone <=> refs[o] = 0
===============================================================================
