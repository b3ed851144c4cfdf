------------------------------- MODULE Memory -------------------------------
(***************************************************************************)
(* Alloc: each thread keeps up to CacheSize unused objects of a class, and *)
(* takes from them before it asks the system for memory.  What all threads *)
(* have from the system is counted, against a limit that an operator can   *)
(* change (CONFIG SET MaxMemory).  An object may be destroyed by another   *)
(* thread than the one that created it.                                    *)
(*                                                                         *)
(* The count is an atomic variable without a lock: it is raised, then read *)
(* and compared, and lowered again when that was too much.                 *)
(***************************************************************************)
EXTENDS Integers, FiniteSetsExt, Functions

CONSTANTS
    Thread,
    Class,      \* classes of objects, each with its own Alloc
    SizeOf,     \* allocSize of a class
    CacheSize,
    Limits,     \* the values of MaxMemory, 0 for no limit
    MaxObjects  \* a bound on the objects in use at a time

Idle == "idle"

ASSUME MemoryAssumption ==
    /\ Idle \notin Class
    /\ IsFiniteSet(Thread) /\ IsFiniteSet(Class)
    /\ SizeOf \in [Class -> Nat \ {0}]
    /\ CacheSize \in Nat /\ Limits \subseteq Nat /\ Limits # {}

VARIABLES
    maxMemory,  \* MaxMemory
    used,       \* UsedMemory
    cached,     \* Size: how many objects each thread keeps of each class
    live,       \* how many objects of each class are in use
    creating,   \* the class for which a thread has raised the count
    highest     \* the highest limit there has been (0 is the highest)

memoryVars == <<maxMemory, used, cached, live, creating, highest>>

MemoryInit ==
    /\ maxMemory = Min(Limits)
    /\ used = 0
    /\ cached = [t \in Thread |-> [c \in Class |-> 0]]
    /\ live = [c \in Class |-> 0]
    /\ creating = [t \in Thread |-> Idle]
    /\ highest = maxMemory

\* Bound.
MoreAllowed == \A c \in Class : live[c] < MaxObjects

\* An object that is kept is used again, unless its constructor throws.
CreateCached(t, c) ==
    /\ creating[t] = Idle /\ MoreAllowed
    /\ cached[t][c] > 0
    /\ cached' = [cached EXCEPT ![t][c] = @ - 1]
    /\ live' = [live EXCEPT ![c] = @ + 1]
    /\ UNCHANGED <<maxMemory, used, creating, highest>>

\* None is kept: the count is raised first.
Raise(t, c) ==
    /\ creating[t] = Idle /\ MoreAllowed
    /\ cached[t][c] = 0
    /\ used' = used + SizeOf[c]
    /\ creating' = [creating EXCEPT ![t] = c]
    /\ UNCHANGED <<maxMemory, cached, live, highest>>

\* The comparison as it would be with the count from before it was raised.
AllowedBefore(t) == maxMemory = 0 \/ used - SizeOf[creating[t]] <= maxMemory

Allowed(t) == maxMemory = 0 \/ used <= maxMemory

\* ... then memory is taken from the system, if the count allows it ...
Create(t) ==
    /\ creating[t] # Idle /\ Allowed(t)
    /\ live' = [live EXCEPT ![creating[t]] = @ + 1]
    /\ creating' = [creating EXCEPT ![t] = Idle]
    /\ UNCHANGED <<maxMemory, used, cached, highest>>

\* ... and the count lowered again if it does not, or the system has none, or
\* the constructor throws.
GiveBack(t) ==
    /\ creating[t] # Idle
    /\ used' = used - SizeOf[creating[t]]
    /\ creating' = [creating EXCEPT ![t] = Idle]
    /\ UNCHANGED <<maxMemory, cached, live, highest>>

\* destroy()
Destroy(t, c) ==
    /\ creating[t] = Idle /\ live[c] > 0
    /\ live' = [live EXCEPT ![c] = @ - 1]
    /\ IF cached[t][c] < CacheSize
       THEN /\ cached' = [cached EXCEPT ![t][c] = @ + 1]
            /\ UNCHANGED used
       ELSE /\ used' = used - SizeOf[c]
            /\ UNCHANGED cached
    /\ UNCHANGED <<maxMemory, creating, highest>>

SetMaxMemory(m) ==
    /\ m # maxMemory
    /\ maxMemory' = m
    /\ highest' = IF m = 0 \/ highest = 0 THEN 0 ELSE Max({m, highest})
    /\ UNCHANGED <<used, cached, live, creating>>

MemoryNext ==
    \/ \E t \in Thread :
          \/ \E c \in Class : CreateCached(t, c) \/ Raise(t, c) \/ Destroy(t, c)
          \/ Create(t) \/ GiveBack(t)
    \/ \E m \in Limits : SetMaxMemory(m)

MemorySpec == MemoryInit /\ [][MemoryNext]_memoryVars

-----------------------------------------------------------------------------
\* How many objects of class c the threads keep.
Spare(c) == SumFunction([t \in Thread |-> cached[t][c]])

\* What the objects in use and those that are kept have from the system.
Taken == SumFunction([c \in Class |-> SizeOf[c] * (live[c] + Spare(c))])

\* By how much the count was raised for objects that are not yet created.
Raised == SumFunction([t \in Thread |-> IF creating[t] = Idle THEN 0 ELSE SizeOf[creating[t]]])

\* However the threads race, no memory beyond the highest limit is taken, and
\* nothing that is taken escapes the count (Alloc::create, destroy).
MemoryLimited ==
    /\ highest = 0 \/ Taken <= highest
    /\ used = Taken + Raised
=============================================================================
