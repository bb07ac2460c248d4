----------------------------- MODULE HandlePool -----------------------------
(***************************************************************************)
(* What the pool of curl handles promises to with_curl (common/wrapper/    *)
(* curl.h): a request has a handle of its own, which it either takes from  *)
(* the idle ones or makes, and no more handles are ever made than there    *)
(* are threads to use them.                                                *)
(***************************************************************************)
EXTENDS FiniteSets, Naturals

CONSTANTS Threads, Handles, NoHandle

VARIABLES idle, \* handles waiting in the pool
          own   \* each thread: the handle of its request

poolVars == <<idle, own>>

PoolInit == idle = {} /\ own = [t \in Threads |-> NoHandle]

Owned == {own[t] : t \in Threads} \ {NoHandle}

Acquire(t) ==
  /\ own[t] = NoHandle
  /\ \E h \in idle : /\ own' = [own EXCEPT ![t] = h]
                     /\ idle' = idle \ {h}

Make(t) ==
  /\ own[t] = NoHandle
  /\ Cardinality(idle \cup Owned) < Cardinality(Threads)
  /\ \E h \in Handles \ (idle \cup Owned) : own' = [own EXCEPT ![t] = h]
  /\ UNCHANGED idle

\* The handle goes back to the pool, or is closed.
Release(t) ==
  /\ own[t] # NoHandle
  /\ own' = [own EXCEPT ![t] = NoHandle]
  /\ idle' \in {idle, idle \cup {own[t]}}

PoolNext == \E t \in Threads : Acquire(t) \/ Make(t) \/ Release(t)

PoolSpec == PoolInit /\ [][PoolNext]_poolVars
=============================================================================
