----------------------------- MODULE PluginEntry -----------------------------
(***************************************************************************)
(* NULLCLAP_DEFINE_ENTRY: clap_entry's init() and deinit(), which a host   *)
(* may call from several threads, and more often than once (CLAP 1.2).     *)
(* The count is a plain integer; its increment and decrement are a load    *)
(* and a store, between which only the mutex keeps other threads out.      *)
(***************************************************************************)
EXTENDS Integers

CONSTANTS Threads, Nobody,
          MaxCount   \* bound: how often the host inits without a deinit

ASSUME EntryAssumption == Nobody \notin Threads /\ MaxCount \in Nat

VARIABLES refCount,     \* nullclapEntryRefCount
          mutex,        \* who holds nullclapEntryMutex
          calling,      \* the call each thread is in, or "none"
          loaded,       \* the count each thread has loaded
          outstanding   \* ghost: inits that no deinit has answered

entryVars == <<refCount, mutex, calling, loaded, outstanding>>

EntryInit ==
  /\ refCount = 0 /\ mutex = Nobody /\ outstanding = 0
  /\ calling = [t \in Threads |-> "none"]
  /\ loaded = [t \in Threads |-> 0]

\* Faulty variant: nothing is locked.
LockNothing(t, call) ==
  /\ calling[t] = "none"
  /\ call = "init" => refCount < MaxCount
  /\ calling' = [calling EXCEPT ![t] = call]
  /\ loaded' = [loaded EXCEPT ![t] = refCount]
  /\ UNCHANGED <<refCount, mutex, outstanding>>

\* The thread locks the mutex and loads the count.
Lock(t, call) ==
  /\ calling[t] = "none" /\ mutex = Nobody
  /\ call = "init" => refCount < MaxCount
  /\ mutex' = t
  /\ calling' = [calling EXCEPT ![t] = call]
  /\ loaded' = [loaded EXCEPT ![t] = refCount]
  /\ UNCHANGED <<refCount, outstanding>>

EntryCallEnds(t) ==
  /\ mutex' = Nobody
  /\ calling' = [calling EXCEPT ![t] = "none"]
  /\ loaded' = [loaded EXCEPT ![t] = 0]

InitEnd(t) ==
  /\ calling[t] = "init"
  /\ refCount' = loaded[t] + 1
  /\ outstanding' = outstanding + 1
  /\ EntryCallEnds(t)

\* Faulty variant: a deinit too many is counted.
DeinitEndUnchecked(t) ==
  /\ calling[t] = "deinit"
  /\ refCount' = loaded[t] - 1
  /\ outstanding' = IF outstanding > 0 THEN outstanding - 1 ELSE 0
  /\ EntryCallEnds(t)

\* A deinit too many is ignored.
DeinitEnd(t) ==
  /\ calling[t] = "deinit"
  /\ refCount' = IF loaded[t] > 0 THEN loaded[t] - 1 ELSE refCount
  /\ outstanding' = IF outstanding > 0 THEN outstanding - 1 ELSE 0
  /\ EntryCallEnds(t)

EntryNext ==
  \E t \in Threads :
    \/ \E call \in {"init", "deinit"} : Lock(t, call)
    \/ InitEnd(t)
    \/ DeinitEnd(t)
-----------------------------------------------------------------------------
(* Properties. *)

(* However init() and deinit() calls of several threads interleave, and     *)
(* however many deinits too many there are, the count is that of the inits  *)
(* still to be answered: none is lost and it never wraps below zero.        *)
EntryCountExact ==
  /\ refCount = outstanding /\ refCount \in 0 .. MaxCount
  /\ \A t, u \in Threads : calling[t] # "none" /\ calling[u] # "none" => t = u
=============================================================================
