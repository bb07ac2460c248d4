--------------------------- MODULE CurlPoolProofs ---------------------------
(***************************************************************************)
(* Proofs about CurlPool, for any number of threads, handles and nodes:    *)
(* the pool never gives one handle to two requests, and no request runs    *)
(* with what an earlier one left on its handle.                            *)
(*                                                                         *)
(* HandleExclusive is not inductive: a pop is safe only because the node   *)
(* at the top is in nobody's hands and no other node of the list points to *)
(* it, and because the thread that unlinks it holds the spinlock. PoolInv  *)
(* says so.                                                                *)
(***************************************************************************)
EXTENDS CurlPool, TLAPS

\* TypeOK without the length of the list.
PoolType ==
  /\ head \in Nodes \cup {Null}
  /\ lock \in Threads \cup {NoThread}
  /\ nxt \in [Nodes -> Nodes \cup {Null}]
  /\ val \in [Nodes -> Handles \cup {NoHandle}]
  /\ live \subseteq Handles
  /\ opts \in [Handles -> SUBSET (Kinds \cup {"common"})]
  /\ buf \in [Handles -> Threads \cup {NoThread}]
  /\ pc \in [Threads -> Steps]
  /\ kind \in [Threads -> Kinds \cup {"none"}]
  /\ node \in [Threads -> Nodes \cup {Null}]
  /\ cur \in [Threads -> Handles \cup {NoHandle}]

\* The steps that Stack_push and Stack_pop take under the spinlock.
Critical == {"pop", "unlink", "popped", "push", "link", "pushed"}

LockHeld == \A t \in Threads : pc[t] \in Critical => lock = t

Using == {"setopt", "body", "perform", "cleanup"}

\* The steps at which a thread has a node that is not on the list.
Private == {"popped", "reuse", "pushlock", "push", "link"}

Mine(t, n) == pc[t] \in Private /\ node[t] = n

\* What each thread holds.
HoldsOK ==
  \A t \in Threads :
    /\ cur[t] # NoHandle <=> pc[t] \in Using
    /\ pc[t] \in Private => node[t] \in Nodes /\ val[node[t]] # NoHandle
    /\ pc[t] = "pop" => head # Null
    /\ pc[t] = "unlink" => node[t] = head /\ head # Null
    /\ pc[t] = "link" => nxt[node[t]] = head

PrivateApart ==
  \A t, u \in Threads : \A n \in Nodes : Mine(t, n) /\ Mine(u, n) => t = u

Listed(n) == val[n] # NoHandle /\ \A t \in Threads : ~Mine(t, n)

\* The list: only listed nodes on it, none of them pointed to twice.
ListOK ==
  /\ head # Null => Listed(head)
  /\ \A n \in Nodes : Listed(n) /\ nxt[n] # Null =>
       Listed(nxt[n]) /\ nxt[n] # head
  /\ \A m, n \in Nodes : Listed(m) /\ Listed(n) /\ nxt[m] # Null /\ nxt[m] = nxt[n]
       => m = n

\* What the handle in use carries at each step.
OptionsOK ==
  \A t \in Threads :
    /\ pc[t] = "setopt" => opts[cur[t]] = {}
    /\ pc[t] = "body" => opts[cur[t]] = {"common"} /\ buf[cur[t]] = t
    /\ pc[t] = "perform" => opts[cur[t]] = {"common", kind[t]} /\ buf[cur[t]] = t

PoolInv == /\ PoolType /\ LockHeld /\ HoldsOK /\ PrivateApart /\ ListOK
           /\ HandleExclusive /\ OptionsOK

-----------------------------------------------------------------------------
(* Every step keeps PoolInv.                                               *)

LEMMA RequestStep ==
  ASSUME NEW t \in Threads, PoolInv, Request(t)
  PROVE  PoolInv'
<1> USE PoolAssumption DEF PoolInv, Goto, stackVars, handleVars
<1>1. PoolType'
  BY DEF Request, PoolType, Steps
<1>2. LockHeld'
  BY DEF Request, LockHeld, PoolType, Critical
<1>3. HoldsOK'
  BY DEF Request, HoldsOK, LockHeld, PoolType, Critical, Using, Private
<1>4. PrivateApart'
  BY DEF Request, PrivateApart, Mine, PoolType, Private, HoldsOK
<1>5. ListOK'
  BY DEF Request, ListOK, Listed, Mine, HoldsOK, PrivateApart, LockHeld,
         PoolType, Critical, Private
<1>6. HandleExclusive'
  BY DEF Request, HandleExclusive, PoolType, HoldsOK, Using, Private
<1>7. OptionsOK'
  BY DEF Request, OptionsOK, HandleExclusive, HoldsOK, PoolType, Using
<1> QED BY <1>1, <1>2, <1>3, <1>4, <1>5, <1>6, <1>7

LEMMA TryLockStep ==
  ASSUME NEW t \in Threads, PoolInv, TryLock(t)
  PROVE  PoolInv'
<1> USE PoolAssumption DEF PoolInv, Goto, stackVars, handleVars
<1>1. PoolType'
  BY DEF TryLock, PoolType, Steps
<1>2. LockHeld'
  BY DEF TryLock, LockHeld, PoolType, Critical
<1>3. HoldsOK'
  BY DEF TryLock, HoldsOK, LockHeld, PoolType, Critical, Using, Private
<1>4. PrivateApart'
  BY DEF TryLock, PrivateApart, Mine, PoolType, Private, HoldsOK
<1>5. ListOK'
  BY DEF TryLock, ListOK, Listed, Mine, HoldsOK, PrivateApart, LockHeld,
         PoolType, Critical, Private
<1>6. HandleExclusive'
  BY DEF TryLock, HandleExclusive, PoolType, HoldsOK, Using, Private
<1>7. OptionsOK'
  BY DEF TryLock, OptionsOK, HandleExclusive, HoldsOK, PoolType, Using
<1> QED BY <1>1, <1>2, <1>3, <1>4, <1>5, <1>6, <1>7

LEMMA CheckEmptyStep ==
  ASSUME NEW t \in Threads, PoolInv, CheckEmpty(t)
  PROVE  PoolInv'
<1> USE PoolAssumption DEF PoolInv, Goto, stackVars, handleVars
<1>1. PoolType'
  BY DEF CheckEmpty, PoolType, Steps
<1>2. LockHeld'
  BY DEF CheckEmpty, LockHeld, PoolType, Critical
<1>3. HoldsOK'
  BY DEF CheckEmpty, HoldsOK, LockHeld, PoolType, Critical, Using, Private
<1>4. PrivateApart'
  BY DEF CheckEmpty, PrivateApart, Mine, PoolType, Private, HoldsOK
<1>5. ListOK'
  BY DEF CheckEmpty, ListOK, Listed, Mine, HoldsOK, PrivateApart,
         LockHeld, PoolType, Critical, Private
<1>6. HandleExclusive'
  BY DEF CheckEmpty, HandleExclusive, PoolType, HoldsOK, Using, Private
<1>7. OptionsOK'
  BY DEF CheckEmpty, OptionsOK, HandleExclusive, HoldsOK, PoolType, Using
<1> QED BY <1>1, <1>2, <1>3, <1>4, <1>5, <1>6, <1>7

LEMMA PopHeadStep ==
  ASSUME NEW t \in Threads, PoolInv, PopHead(t)
  PROVE  PoolInv'
<1> USE PoolAssumption DEF PoolInv, Goto, stackVars, handleVars
<1>1. PoolType'
  BY DEF PopHead, PoolType, Steps
<1>2. LockHeld'
  BY DEF PopHead, LockHeld, PoolType, Critical
<1>3. HoldsOK'
  BY DEF PopHead, HoldsOK, LockHeld, PoolType, Critical, Using, Private
<1>4. PrivateApart'
  BY DEF PopHead, PrivateApart, Mine, PoolType, Private, HoldsOK
<1>5. ListOK'
  BY DEF PopHead, ListOK, Listed, Mine, HoldsOK, PrivateApart, LockHeld,
         PoolType, Critical, Private
<1>6. HandleExclusive'
  BY DEF PopHead, HandleExclusive, PoolType, HoldsOK, Using, Private
<1>7. OptionsOK'
  BY DEF PopHead, OptionsOK, HandleExclusive, HoldsOK, PoolType, Using
<1> QED BY <1>1, <1>2, <1>3, <1>4, <1>5, <1>6, <1>7

\* The node at the top leaves the list: nothing else on it points there.
LEMMA PopUnlinkStep ==
  ASSUME NEW t \in Threads, PoolInv, PopUnlink(t)
  PROVE  PoolInv'
<1> USE PoolAssumption DEF PoolInv, Goto, stackVars, handleVars
<1>1. PoolType'
  BY DEF PopUnlink, PoolType, Steps, HoldsOK
<1>2. LockHeld'
  BY DEF PopUnlink, LockHeld, PoolType, Critical
<1>3. HoldsOK'
  BY DEF PopUnlink, HoldsOK, LockHeld, PoolType, Critical, Using, Private,
         ListOK, Listed
<1>4. PrivateApart'
  BY DEF PopUnlink, PrivateApart, Mine, PoolType, Private, HoldsOK,
         ListOK, Listed
<1>5. ListOK'
  BY DEF PopUnlink, ListOK, Listed, Mine, HoldsOK, PrivateApart, LockHeld,
         PoolType, Critical, Private
<1>6. HandleExclusive'
  BY DEF PopUnlink, HandleExclusive, PoolType, HoldsOK, Using, Private
<1>7. OptionsOK'
  BY DEF PopUnlink, OptionsOK, HandleExclusive, HoldsOK, PoolType, Using
<1> QED BY <1>1, <1>2, <1>3, <1>4, <1>5, <1>6, <1>7

LEMMA PopDoneStep ==
  ASSUME NEW t \in Threads, PoolInv, PopDone(t)
  PROVE  PoolInv'
<1> USE PoolAssumption DEF PoolInv, Goto, stackVars, handleVars
<1>1. PoolType'
  BY DEF PopDone, PoolType, Steps
<1>2. LockHeld'
  BY DEF PopDone, LockHeld, PoolType, Critical
<1>3. HoldsOK'
  BY DEF PopDone, HoldsOK, LockHeld, PoolType, Critical, Using, Private
<1>4. PrivateApart'
  BY DEF PopDone, PrivateApart, Mine, PoolType, Private, HoldsOK
<1>5. ListOK'
  BY DEF PopDone, ListOK, Listed, Mine, HoldsOK, PrivateApart, LockHeld,
         PoolType, Critical, Private
<1>6. HandleExclusive'
  BY DEF PopDone, HandleExclusive, PoolType, HoldsOK, Using, Private
<1>7. OptionsOK'
  BY DEF PopDone, OptionsOK, HandleExclusive, HoldsOK, PoolType, Using
<1> QED BY <1>1, <1>2, <1>3, <1>4, <1>5, <1>6, <1>7

\* The popped node is freed and its handle, which only it carried, is reset.
LEMMA ReuseStep ==
  ASSUME NEW t \in Threads, PoolInv, Reuse(t)
  PROVE  PoolInv'
<1> USE PoolAssumption DEF PoolInv, Goto, stackVars, handleVars
<1>1. PoolType'
  BY DEF Reuse, PoolType, Steps, HoldsOK, Private
<1>2. LockHeld'
  BY DEF Reuse, LockHeld, PoolType, Critical
<1>3. HoldsOK'
  BY DEF Reuse, HoldsOK, LockHeld, PoolType, Critical, Using, Private,
         PrivateApart, Mine
<1>4. PrivateApart'
  BY DEF Reuse, PrivateApart, Mine, PoolType, Private, HoldsOK
<1>5. ListOK'
  BY DEF Reuse, ListOK, Listed, Mine, HoldsOK, PrivateApart, LockHeld,
         PoolType, Critical, Private
<1>6. HandleExclusive'
  BY DEF Reuse, HandleExclusive, PoolType, HoldsOK, Using, Private
<1>7. OptionsOK'
  BY DEF Reuse, OptionsOK, HandleExclusive, HoldsOK, PoolType, Using,
         Private
<1> QED BY <1>1, <1>2, <1>3, <1>4, <1>5, <1>6, <1>7

LEMMA MakeHandleStep ==
  ASSUME NEW t \in Threads, PoolInv, MakeHandle(t)
  PROVE  PoolInv'
<1> USE PoolAssumption DEF PoolInv, Goto, stackVars, handleVars
<1>1. PoolType'
  BY DEF MakeHandle, Close, PoolType, Steps
<1>2. LockHeld'
  BY DEF MakeHandle, Close, LockHeld, PoolType, Critical
<1>3. HoldsOK'
  BY DEF MakeHandle, Close, HoldsOK, LockHeld, PoolType, Critical, Using,
         Private
<1>4. PrivateApart'
  BY DEF MakeHandle, Close, PrivateApart, Mine, PoolType, Private, HoldsOK
<1>5. ListOK'
  BY DEF MakeHandle, Close, ListOK, Listed, Mine, HoldsOK, PrivateApart,
         LockHeld, PoolType, Critical, Private
<1>6. HandleExclusive'
  BY DEF MakeHandle, Close, HandleExclusive, PoolType, HoldsOK, Using,
         Private
<1>7. OptionsOK'
  BY DEF MakeHandle, Close, OptionsOK, HandleExclusive, HoldsOK, PoolType,
         Using
<1> QED BY <1>1, <1>2, <1>3, <1>4, <1>5, <1>6, <1>7

LEMMA SetCommonStep ==
  ASSUME NEW t \in Threads, PoolInv, SetCommon(t)
  PROVE  PoolInv'
<1> USE PoolAssumption DEF PoolInv, Goto, stackVars, handleVars
<1>1. PoolType'
  BY DEF SetCommon, Close, PoolType, Steps
<1>2. LockHeld'
  BY DEF SetCommon, Close, LockHeld, PoolType, Critical
<1>3. HoldsOK'
  BY DEF SetCommon, Close, HoldsOK, LockHeld, PoolType, Critical, Using,
         Private
<1>4. PrivateApart'
  BY DEF SetCommon, Close, PrivateApart, Mine, PoolType, Private, HoldsOK
<1>5. ListOK'
  BY DEF SetCommon, Close, ListOK, Listed, Mine, HoldsOK, PrivateApart,
         LockHeld, PoolType, Critical, Private
<1>6. HandleExclusive'
  BY DEF SetCommon, Close, HandleExclusive, PoolType, HoldsOK, Using,
         Private
<1>7. OptionsOK'
  BY DEF SetCommon, Close, OptionsOK, HandleExclusive, HoldsOK, PoolType,
         Using
<1> QED BY <1>1, <1>2, <1>3, <1>4, <1>5, <1>6, <1>7

LEMMA SetOwnStep ==
  ASSUME NEW t \in Threads, PoolInv, SetOwn(t)
  PROVE  PoolInv'
<1> USE PoolAssumption DEF PoolInv, Goto, stackVars, handleVars
<1>1. PoolType'
  BY DEF SetOwn, PoolType, Steps, HoldsOK, Using, OptionsOK
<1>2. LockHeld'
  BY DEF SetOwn, LockHeld, PoolType, Critical
<1>3. HoldsOK'
  BY DEF SetOwn, HoldsOK, LockHeld, PoolType, Critical, Using, Private
<1>4. PrivateApart'
  BY DEF SetOwn, PrivateApart, Mine, PoolType, Private, HoldsOK
<1>5. ListOK'
  BY DEF SetOwn, ListOK, Listed, Mine, HoldsOK, PrivateApart, LockHeld,
         PoolType, Critical, Private
<1>6. HandleExclusive'
  BY DEF SetOwn, HandleExclusive, PoolType, HoldsOK, Using, Private
<1>7. OptionsOK'
  BY DEF SetOwn, OptionsOK, HandleExclusive, HoldsOK, PoolType, Using
<1> QED BY <1>1, <1>2, <1>3, <1>4, <1>5, <1>6, <1>7

LEMMA PerformStep ==
  ASSUME NEW t \in Threads, PoolInv, Perform(t)
  PROVE  PoolInv'
<1> USE PoolAssumption DEF PoolInv, Goto, stackVars, handleVars
<1>1. PoolType'
  BY DEF Perform, PoolType, Steps
<1>2. LockHeld'
  BY DEF Perform, LockHeld, PoolType, Critical
<1>3. HoldsOK'
  BY DEF Perform, HoldsOK, LockHeld, PoolType, Critical, Using, Private
<1>4. PrivateApart'
  BY DEF Perform, PrivateApart, Mine, PoolType, Private, HoldsOK
<1>5. ListOK'
  BY DEF Perform, ListOK, Listed, Mine, HoldsOK, PrivateApart, LockHeld,
         PoolType, Critical, Private
<1>6. HandleExclusive'
  BY DEF Perform, HandleExclusive, PoolType, HoldsOK, Using, Private
<1>7. OptionsOK'
  BY DEF Perform, OptionsOK, HandleExclusive, HoldsOK, PoolType, Using
<1> QED BY <1>1, <1>2, <1>3, <1>4, <1>5, <1>6, <1>7

LEMMA CleanupStep ==
  ASSUME NEW t \in Threads, PoolInv, Cleanup(t)
  PROVE  PoolInv'
<1> USE PoolAssumption DEF PoolInv, Goto, stackVars, handleVars
<1>1. PoolType'
  BY DEF Cleanup, Close, PoolType, Steps
<1>2. LockHeld'
  BY DEF Cleanup, Close, LockHeld, PoolType, Critical
<1>3. HoldsOK'
  BY DEF Cleanup, Close, HoldsOK, LockHeld, PoolType, Critical, Using,
         Private
<1>4. PrivateApart'
  BY DEF Cleanup, Close, PrivateApart, Mine, PoolType, Private, HoldsOK
<1>5. ListOK'
  BY DEF Cleanup, Close, ListOK, Listed, Mine, HoldsOK, PrivateApart,
         LockHeld, PoolType, Critical, Private
<1>6. HandleExclusive'
  <2>1. CASE Close(t) /\ UNCHANGED <<val, node>>
    BY <2>1 DEF Close, HandleExclusive, PoolType
  <2>2. ASSUME NEW n \in Nodes, val[n] = NoHandle, val' = [val EXCEPT ![n] = cur[t]],
               cur' = [cur EXCEPT ![t] = NoHandle], live' = live
        PROVE  HandleExclusive'
    <3>1. \A m \in Nodes : val'[m] = IF m = n THEN cur[t] ELSE val[m]
      BY <2>2 DEF PoolType
    <3>2. \A u \in Threads : cur'[u] = IF u = t THEN NoHandle ELSE cur[u]
      BY <2>2 DEF PoolType
    <3> QED BY <2>2, <3>1, <3>2 DEF HandleExclusive
  <2> QED BY <2>1, <2>2 DEF Cleanup
<1>7. OptionsOK'
  BY DEF Cleanup, Close, OptionsOK, HandleExclusive, HoldsOK, PoolType,
         Using
<1> QED BY <1>1, <1>2, <1>3, <1>4, <1>5, <1>6, <1>7

LEMMA PushLockStep ==
  ASSUME NEW t \in Threads, PoolInv, PushLock(t)
  PROVE  PoolInv'
<1> USE PoolAssumption DEF PoolInv, Goto, stackVars, handleVars
<1>1. PoolType'
  BY DEF PushLock, PoolType, Steps
<1>2. LockHeld'
  BY DEF PushLock, LockHeld, PoolType, Critical
<1>3. HoldsOK'
  BY DEF PushLock, HoldsOK, LockHeld, PoolType, Critical, Using, Private
<1>4. PrivateApart'
  BY DEF PushLock, PrivateApart, Mine, PoolType, Private, HoldsOK
<1>5. ListOK'
  BY DEF PushLock, ListOK, Listed, Mine, HoldsOK, PrivateApart, LockHeld,
         PoolType, Critical, Private
<1>6. HandleExclusive'
  BY DEF PushLock, HandleExclusive, PoolType, HoldsOK, Using, Private
<1>7. OptionsOK'
  BY DEF PushLock, OptionsOK, HandleExclusive, HoldsOK, PoolType, Using
<1> QED BY <1>1, <1>2, <1>3, <1>4, <1>5, <1>6, <1>7

LEMMA PushNextStep ==
  ASSUME NEW t \in Threads, PoolInv, PushNext(t)
  PROVE  PoolInv'
<1> USE PoolAssumption DEF PoolInv, Goto, stackVars, handleVars
<1>1. PoolType'
  BY DEF PushNext, PoolType, Steps
<1>2. LockHeld'
  BY DEF PushNext, LockHeld, PoolType, Critical
<1>3. HoldsOK'
  BY DEF PushNext, HoldsOK, LockHeld, PoolType, Critical, Using, Private
<1>4. PrivateApart'
  BY DEF PushNext, PrivateApart, Mine, PoolType, Private, HoldsOK
<1>5. ListOK'
  BY DEF PushNext, ListOK, Listed, Mine, HoldsOK, PrivateApart, LockHeld,
         PoolType, Critical, Private
<1>6. HandleExclusive'
  BY DEF PushNext, HandleExclusive, PoolType, HoldsOK, Using, Private
<1>7. OptionsOK'
  BY DEF PushNext, OptionsOK, HandleExclusive, HoldsOK, PoolType, Using
<1> QED BY <1>1, <1>2, <1>3, <1>4, <1>5, <1>6, <1>7

\* The pushed node is on the list from here on.
LEMMA PushLinkStep ==
  ASSUME NEW t \in Threads, PoolInv, PushLink(t)
  PROVE  PoolInv'
<1> USE PoolAssumption DEF PoolInv, Goto, stackVars, handleVars
<1>1. PoolType'
  BY DEF PushLink, PoolType, Steps
<1>2. LockHeld'
  BY DEF PushLink, LockHeld, PoolType, Critical
<1>3. HoldsOK'
  BY DEF PushLink, HoldsOK, LockHeld, PoolType, Critical, Using, Private
<1>4. PrivateApart'
  BY DEF PushLink, PrivateApart, Mine, PoolType, Private, HoldsOK
<1>5. ListOK'
  BY DEF PushLink, ListOK, Listed, Mine, HoldsOK, PrivateApart, LockHeld,
         PoolType, Critical, Private
<1>6. HandleExclusive'
  BY DEF PushLink, HandleExclusive, PoolType, HoldsOK, Using, Private
<1>7. OptionsOK'
  BY DEF PushLink, OptionsOK, HandleExclusive, HoldsOK, PoolType, Using
<1> QED BY <1>1, <1>2, <1>3, <1>4, <1>5, <1>6, <1>7

LEMMA PushDoneStep ==
  ASSUME NEW t \in Threads, PoolInv, PushDone(t)
  PROVE  PoolInv'
<1> USE PoolAssumption DEF PoolInv, Goto, stackVars, handleVars
<1>1. PoolType'
  BY DEF PushDone, PoolType, Steps
<1>2. LockHeld'
  BY DEF PushDone, LockHeld, PoolType, Critical
<1>3. HoldsOK'
  BY DEF PushDone, HoldsOK, LockHeld, PoolType, Critical, Using, Private
<1>4. PrivateApart'
  BY DEF PushDone, PrivateApart, Mine, PoolType, Private, HoldsOK
<1>5. ListOK'
  BY DEF PushDone, ListOK, Listed, Mine, HoldsOK, PrivateApart, LockHeld,
         PoolType, Critical, Private
<1>6. HandleExclusive'
  BY DEF PushDone, HandleExclusive, PoolType, HoldsOK, Using, Private
<1>7. OptionsOK'
  BY DEF PushDone, OptionsOK, HandleExclusive, HoldsOK, PoolType, Using
<1> QED BY <1>1, <1>2, <1>3, <1>4, <1>5, <1>6, <1>7

LEMMA PoolInvInit == Init => PoolInv
  BY PoolAssumption DEF Init, PoolInv, PoolType, Steps, LockHeld, Critical, HoldsOK,
     Using, Private, PrivateApart, Mine, ListOK, Listed, HandleExclusive, OptionsOK

LEMMA PoolInvNext == PoolInv /\ [Next]_vars => PoolInv'
<1> SUFFICES ASSUME PoolInv, [Next]_vars PROVE PoolInv'
  OBVIOUS
<1>1. ASSUME NEW t \in Threads, Request(t) \/ Step(t) PROVE PoolInv'
  BY <1>1, RequestStep, TryLockStep, CheckEmptyStep, PopHeadStep, PopUnlinkStep,
     PopDoneStep, ReuseStep, MakeHandleStep, SetCommonStep, SetOwnStep, PerformStep,
     CleanupStep, PushLockStep, PushNextStep, PushLinkStep, PushDoneStep DEF Step
<1>2. CASE UNCHANGED vars
  BY <1>2 DEF PoolInv, PoolType, LockHeld, HoldsOK, PrivateApart, Mine, ListOK, Listed,
     HandleExclusive, OptionsOK, vars, stackVars, handleVars
<1> QED BY <1>1, <1>2 DEF Next

-----------------------------------------------------------------------------
\* However many threads run with_curl blocks, and whatever allocations or
\* curl_easy_setopt calls fail, a handle has one holder at a time: a request, or
\* one node of the pool.
THEOREM HandlesAreExclusive == Spec => []HandleExclusive
<1>1. PoolInv => HandleExclusive
  BY DEF PoolInv
<1> QED BY <1>1, PoolInvInit, PoolInvNext, PTL DEF Spec

\* Every curl_easy_perform runs with the options of its own request only, and
\* with the error buffer of the thread that makes it.
THEOREM RequestsAreClean == Spec => []CleanRequest
<1>1. PoolInv => CleanRequest
  BY DEF PoolInv, OptionsOK, CleanRequest
<1> QED BY <1>1, PoolInvInit, PoolInvNext, PTL DEF Spec
=============================================================================
