------------------------- MODULE CurlPoolRefinement -------------------------
(***************************************************************************)
(* The stack of curl handles implements the abstract pool of HandlePool,   *)
(* for any number of threads, handles and nodes.                           *)
(*                                                                         *)
(* PoolInv says what may be on the stack. StackInv adds that nothing is    *)
(* missing from it: every listed node can be reached from the top, size    *)
(* counts them, every handle that exists has a holder, and the handles     *)
(* that exist and those about to be made are no more than the threads.     *)
(***************************************************************************)
EXTENDS CurlPoolProofs, FiniteSetTheorems

ListedNodes == {n \in Nodes : Listed(n)}

\* The local variable node is set only where Stack_push and Stack_pop use it.
\* A node just linked is still there when size is corrected.
NodesOK ==
  \A t \in Threads : /\ node[t] # Null => pc[t] \in Private \cup {"unlink"}
                     /\ pc[t] = "pushed" => head # Null

\* Every listed node is on the stack.
Linked == \A S \in SUBSET Nodes : HoldsStack(S) => ListedNodes \subseteq S

Someone(s) == IF \E t \in Threads : pc[t] = s THEN 1 ELSE 0

\* size is corrected after the list, under the same spinlock.
Counted ==
  /\ IsFiniteSet(ListedNodes)
  /\ size = Cardinality(ListedNodes) + Someone("popped") - Someone("pushed")

\* No handle is lost.
LiveHeld ==
  \A h \in live : \/ \E n \in Nodes : val[n] = h
                  \/ \E t \in Threads : cur[t] = h

Making == {t \in Threads : pc[t] = "make"}

\* A thread found no handle on the stack only when the others had them all.
Bounded ==
  /\ IsFiniteSet(live)
  /\ Cardinality(live) + Cardinality(Making) <= Cardinality(Threads)

StackInv == PoolInv /\ NodesOK /\ Linked /\ Counted /\ LiveHeld /\ Bounded

-----------------------------------------------------------------------------
(* The list.                                                               *)

\* What is on the stack are the listed nodes.
LEMMA StackedListed ==
  ASSUME PoolInv, Linked
  PROVE  Stacked = ListedNodes
<1>1. ListedNodes \in SUBSET Nodes /\ HoldsStack(ListedNodes)
  BY DEF ListedNodes, HoldsStack, PoolInv, ListOK, PoolType
<1> QED BY <1>1 DEF Stacked, Linked, ListedNodes

\* A step that leaves the top and the links of the listed nodes alone.
LEMMA SameList ==
  ASSUME PoolInv, Linked, head' = head, ListedNodes' = ListedNodes,
         \A n \in ListedNodes : nxt'[n] = nxt[n]
  PROVE  Linked'
<1> SUFFICES ASSUME NEW S \in SUBSET Nodes, HoldsStack(S)'
             PROVE  ListedNodes \subseteq S
  BY DEF Linked
<1>1. HoldsStack(S \cap ListedNodes)
  BY DEF HoldsStack, ListedNodes, PoolInv, ListOK, PoolType
<1> QED BY <1>1 DEF Linked

\* this->next = res->next takes the top off the list.
LEMMA UnlinkedTop ==
  ASSUME NEW t \in Threads, PoolInv, Linked, PopUnlink(t)
  PROVE  /\ head \in ListedNodes /\ node[t] = head
         /\ ListedNodes' = ListedNodes \ {head}
         /\ Linked'
<1>1. head \in ListedNodes /\ node[t] = head
  BY DEF PopUnlink, PoolInv, HoldsOK, ListOK, ListedNodes, PoolType
<1>2. ListedNodes' = ListedNodes \ {head}
  <2>1. \A n \in Nodes : Listed(n)' <=> Listed(n) /\ n # head
    BY <1>1, PoolAssumption DEF PopUnlink, Listed, Mine, Goto, PoolInv, PoolType, Private
  <2> QED BY <2>1 DEF ListedNodes
<1>3. Linked'
  <2> SUFFICES ASSUME NEW S \in SUBSET Nodes, HoldsStack(S)'
               PROVE  ListedNodes' \subseteq S
    BY DEF Linked
  <2>1. nxt' = nxt /\ head' = nxt[head]
    BY <1>1 DEF PopUnlink
  <2>2. HoldsStack((S \cap ListedNodes) \cup {head})
    BY <1>1, <2>1 DEF HoldsStack, ListedNodes, PoolInv, ListOK, PoolType
  <2>3. ListedNodes \subseteq (S \cap ListedNodes) \cup {head}
    <3>1. (S \cap ListedNodes) \cup {head} \in SUBSET Nodes
      BY <1>1 DEF ListedNodes
    <3> QED BY <2>2, <3>1 DEF Linked
  <2> QED BY <1>2, <2>3
<1> QED BY <1>1, <1>2, <1>3

\* this->next = node puts the private node of the thread on top of it.
LEMMA LinkedTop ==
  ASSUME NEW t \in Threads, PoolInv, Linked, PushLink(t)
  PROVE  /\ node[t] \in Nodes \ ListedNodes
         /\ ListedNodes' = ListedNodes \cup {node[t]}
         /\ Linked'
<1>1. node[t] \in Nodes \ ListedNodes /\ val[node[t]] # NoHandle /\ nxt[node[t]] = head
  BY DEF PushLink, PoolInv, HoldsOK, ListedNodes, Listed, Mine, Private
<1>2. ListedNodes' = ListedNodes \cup {node[t]}
  <2>1. \A n \in Nodes : Listed(n)' <=> Listed(n) \/ n = node[t]
    BY <1>1, PoolAssumption
    DEF PushLink, Listed, Mine, Goto, PoolInv, PoolType, Private, PrivateApart
  <2> QED BY <1>1, <2>1 DEF ListedNodes
<1>3. Linked'
  <2> SUFFICES ASSUME NEW S \in SUBSET Nodes, HoldsStack(S)'
               PROVE  ListedNodes' \subseteq S
    BY DEF Linked
  <2>1. nxt' = nxt /\ head' = node[t]
    BY DEF PushLink
  <2>2. node[t] \in S /\ head \in S \cup {Null}
    BY <1>1, <2>1, PoolAssumption DEF HoldsStack
  <2>3. HoldsStack(S \cap ListedNodes)
    BY <2>1, <2>2 DEF HoldsStack, ListedNodes, PoolInv, ListOK, PoolType
  <2> QED BY <1>2, <2>2, <2>3 DEF Linked
<1> QED BY <1>1, <1>2, <1>3

-----------------------------------------------------------------------------
(* The counters.                                                           *)

\* Only the thread with the spinlock is between the two halves of an update.
LEMMA SomeoneAlone ==
  ASSUME NEW t \in Threads, PoolInv, pc[t] \in Critical, NEW s \in Critical,
         NEW x \in Steps, Goto(t, x)
  PROVE  /\ Someone(s) = IF pc[t] = s THEN 1 ELSE 0
         /\ Someone(s)' = IF x = s THEN 1 ELSE 0
<1>1. \A u \in Threads : u # t => pc[u] # s
  BY PoolAssumption DEF PoolInv, LockHeld
<1>2. \A u \in Threads : pc'[u] = IF u = t THEN x ELSE pc[u]
  BY DEF Goto, PoolInv, PoolType
<1> QED BY <1>1, <1>2 DEF Someone

\* A step from and to somewhere else.
LEMMA SomeoneSame ==
  ASSUME NEW t \in Threads, PoolInv, NEW s \in Critical,
         NEW x \in Steps, Goto(t, x), pc[t] # s, x # s
  PROVE  Someone(s)' = Someone(s)
<1>1. \A u \in Threads : pc'[u] = IF u = t THEN x ELSE pc[u]
  BY DEF Goto, PoolInv, PoolType
<1> QED BY <1>1 DEF Someone

\* A step that is no part of a list update.
LEMMA QuietList ==
  ASSUME NEW t \in Threads, StackInv, NEW x \in Steps, Goto(t, x),
         head' = head, size' = size,
         \A n \in Nodes : Listed(n)' <=> Listed(n),
         \A n \in ListedNodes : nxt'[n] = nxt[n],
         pc[t] \notin {"popped", "pushed"}, x \notin {"popped", "pushed"}
  PROVE  Linked' /\ Counted'
<1>1. ListedNodes' = ListedNodes
  BY DEF ListedNodes
<1>2. Linked'
  BY <1>1, SameList DEF StackInv
<1>3. Someone("popped")' = Someone("popped") /\ Someone("pushed")' = Someone("pushed")
  <2>1. "popped" \in Critical /\ "pushed" \in Critical
    BY DEF Critical
  <2> QED BY <2>1, SomeoneSame DEF StackInv
<1> QED BY <1>1, <1>2, <1>3 DEF StackInv, Counted

-----------------------------------------------------------------------------
(* The number of handles.                                                  *)

Holding == {u \in Threads : cur[u] # NoHandle \/ pc[u] \in Private}

\* When the stack is empty, every handle is in the hands of a thread.
LEMMA EmptyStack ==
  ASSUME StackInv, head = Null
  PROVE  IsFiniteSet(live) /\ Cardinality(live) <= Cardinality(Holding)
<1>1. ListedNodes = {}
  <2>1. HoldsStack({})
    BY DEF HoldsStack
  <2> QED BY <2>1 DEF StackInv, Linked
<1> DEFINE own == [u \in Holding |-> IF cur[u] # NoHandle THEN cur[u] ELSE val[node[u]]]
<1>2. own \in Surjection(Holding, live)
  <2>1. ASSUME NEW u \in Holding PROVE own[u] \in live
    BY <2>1 DEF Holding, StackInv, PoolInv, HandleExclusive, HoldsOK
  <2>2. ASSUME NEW h \in live PROVE \E u \in Holding : own[u] = h
    <3>1. CASE \E u \in Threads : cur[u] = h
      <4>1. h # NoHandle
        BY PoolAssumption DEF StackInv, PoolInv, PoolType
      <4> QED BY <3>1, <4>1 DEF Holding
    <3>2. ASSUME NEW n \in Nodes, val[n] = h PROVE \E u \in Holding : own[u] = h
      <4>1. val[n] # NoHandle
        BY <3>2, PoolAssumption DEF StackInv, PoolInv, PoolType
      <4>2. PICK u \in Threads : Mine(u, n)
        BY <1>1, <4>1 DEF ListedNodes, Listed
      <4>3. cur[u] = NoHandle
        BY <4>2 DEF StackInv, PoolInv, HoldsOK, Mine, Private, Using
      <4> QED BY <3>2, <4>2, <4>3 DEF Holding, Mine
    <3> QED BY <3>1, <3>2 DEF StackInv, LiveHeld
  <2> QED BY <2>1, <2>2 DEF Surjection
<1>3. IsFiniteSet(Holding)
  BY PoolAssumption, FS_Subset DEF Holding
<1> HIDE DEF own
<1> QED BY <1>2, <1>3, FS_Surjection

\* A step after which no more handles exist or are about to.
LEMMA FewerHandles ==
  ASSUME Bounded, live' \subseteq live, Making' \subseteq Making
  PROVE  Bounded'
<1>1. IsFiniteSet(Making) /\ IsFiniteSet(Threads)
  BY PoolAssumption, FS_Subset DEF Making
<1>2. IsFiniteSet(live') /\ Cardinality(live') <= Cardinality(live)
  BY FS_Subset DEF Bounded
<1>3. IsFiniteSet(Making') /\ Cardinality(Making') <= Cardinality(Making)
  BY <1>1, FS_Subset
<1>4. /\ Cardinality(live) \in Nat /\ Cardinality(live') \in Nat
      /\ Cardinality(Making) \in Nat /\ Cardinality(Making') \in Nat
      /\ Cardinality(Threads) \in Nat
  BY <1>1, <1>2, <1>3, FS_CardinalityType DEF Bounded
<1> QED BY <1>2, <1>3, <1>4 DEF Bounded

\* A thread sees the stack empty and goes on to make a handle.
LEMMA EmptySeen ==
  ASSUME NEW t \in Threads, StackInv, CheckEmpty(t), head = Null
  PROVE  Bounded'
<1>1. live' = live /\ Making' = Making \cup {t} /\ t \notin Making
  BY DEF CheckEmpty, Goto, StackInv, PoolInv, PoolType, Making, handleVars
<1>2. /\ IsFiniteSet(Threads) /\ IsFiniteSet(Making') /\ IsFiniteSet(Holding)
      /\ Cardinality(Threads) \in Nat /\ Cardinality(Making') \in Nat
      /\ Cardinality(Holding) \in Nat
  <2>1. Making' \subseteq Threads /\ Holding \subseteq Threads
    BY DEF Making, Holding
  <2> QED BY <2>1, PoolAssumption, FS_Subset, FS_CardinalityType
<1>3. Cardinality(Holding) + Cardinality(Making') <= Cardinality(Threads)
  <2>1. Holding \cap Making' = {} /\ Holding \cup Making' \subseteq Threads
    <3>1. t \notin Holding
      BY DEF CheckEmpty, Holding, StackInv, PoolInv, HoldsOK, Using, Private
    <3>2. Holding \cap Making = {}
      BY DEF Making, Holding, StackInv, PoolInv, HoldsOK, Using, Private
    <3> QED BY <1>1, <3>1, <3>2 DEF Making, Holding
  <2>2. Cardinality(Holding \cup Making') = Cardinality(Holding) + Cardinality(Making')
    BY <1>2, <2>1, FS_Union, FS_EmptySet
  <2>3. Cardinality(Holding \cup Making') <= Cardinality(Threads)
    BY <1>2, <2>1, FS_Subset
  <2> QED BY <2>2, <2>3
<1>4. IsFiniteSet(live) /\ Cardinality(live) <= Cardinality(Holding) /\ Cardinality(live) \in Nat
  BY EmptyStack, FS_CardinalityType
<1> QED BY <1>1, <1>2, <1>3, <1>4 DEF Bounded

\* curl_easy_init makes one of the handles that were about to be made.
LEMMA HandleMade ==
  ASSUME NEW t \in Threads, StackInv, MakeHandle(t)
  PROVE  Bounded'
<1>1. Making' = Making \ {t} /\ t \in Making
  BY DEF MakeHandle, Goto, StackInv, PoolInv, PoolType, Making
<1>2. IsFiniteSet(Making) /\ IsFiniteSet(Threads)
  BY PoolAssumption, FS_Subset DEF Making
<1>3. CASE \E h \in Handles \ live : live' = live \cup {h}
  <2>1. PICK h \in Handles \ live : live' = live \cup {h}
    BY <1>3
  <2>2. IsFiniteSet(live') /\ Cardinality(live') = Cardinality(live) + 1
    BY <2>1, FS_AddElement DEF StackInv, Bounded
  <2>3. Cardinality(Making') = Cardinality(Making) - 1
    BY <1>1, <1>2, FS_RemoveElement
  <2>4. Cardinality(Making) \in Nat /\ Cardinality(live) \in Nat /\ Cardinality(Threads) \in Nat
    BY <1>2, FS_CardinalityType DEF StackInv, Bounded
  <2> QED BY <2>2, <2>3, <2>4 DEF StackInv, Bounded
<1>4. CASE live' = live
  BY <1>1, <1>4, FewerHandles DEF StackInv
<1> QED BY <1>3, <1>4 DEF MakeHandle, handleVars

-----------------------------------------------------------------------------
(* Every step keeps StackInv.                                              *)

\* The actions that are no part of a list update.
Quiet(t) ==
  \/ Request(t) \/ TryLock(t) \/ CheckEmpty(t) \/ PopHead(t) \/ Reuse(t)
  \/ MakeHandle(t) \/ SetCommon(t) \/ SetOwn(t) \/ Perform(t) \/ Cleanup(t)
  \/ PushLock(t) \/ PushNext(t)

LEMMA QuietStep ==
  ASSUME NEW t \in Threads, StackInv, Quiet(t)
  PROVE  Linked' /\ Counted'
<1> DEFINE Same == /\ head' = head /\ size' = size
                   /\ \A n \in Nodes : Listed(n)' <=> Listed(n)
                   /\ \A n \in ListedNodes : nxt'[n] = nxt[n]
<1> DEFINE Away == \E x \in Steps \ {"popped", "pushed"} : Goto(t, x)
<1> SUFFICES Same /\ Away /\ pc[t] \notin {"popped", "pushed"}
  BY QuietList
<1>1. PoolInv
  BY DEF StackInv
<1> USE PoolAssumption
<1>2. CASE Request(t)
  <2>1. Same
    BY <1>1, <1>2 DEF Request, Goto, stackVars, handleVars, Listed, Mine, ListedNodes,
       PoolInv, PoolType, HoldsOK, PrivateApart, Private, Using
  <2> QED BY <1>2, <2>1 DEF Request, Goto, Steps
<1>3. CASE TryLock(t)
  <2>1. Same
    BY <1>1, <1>3 DEF TryLock, Goto, stackVars, handleVars, Listed, Mine, ListedNodes,
       PoolInv, PoolType, HoldsOK, PrivateApart, Private, Using
  <2> QED BY <1>3, <2>1 DEF TryLock, Goto, Steps
<1>4. CASE CheckEmpty(t)
  <2>1. Same
    BY <1>1, <1>4 DEF CheckEmpty, Goto, stackVars, handleVars, Listed, Mine, ListedNodes,
       PoolInv, PoolType, HoldsOK, PrivateApart, Private, Using
  <2> QED BY <1>4, <2>1 DEF CheckEmpty, Goto, Steps
<1>5. CASE PopHead(t)
  <2>1. Same
    BY <1>1, <1>5 DEF PopHead, Goto, stackVars, handleVars, Listed, Mine, ListedNodes,
       PoolInv, PoolType, HoldsOK, PrivateApart, Private, Using
  <2> QED BY <1>5, <2>1 DEF PopHead, Goto, Steps
<1>6. CASE Reuse(t)
  <2>1. Same
    BY <1>1, <1>6 DEF Reuse, Goto, stackVars, handleVars, Listed, Mine, ListedNodes,
       PoolInv, PoolType, HoldsOK, PrivateApart, Private, Using
  <2> QED BY <1>6, <2>1 DEF Reuse, Goto, Steps
<1>7. CASE MakeHandle(t)
  <2>1. Same
    BY <1>1, <1>7 DEF MakeHandle, Goto, stackVars, handleVars, Listed, Mine, ListedNodes,
       PoolInv, PoolType, HoldsOK, PrivateApart, Private, Using
  <2> QED BY <1>7, <2>1 DEF MakeHandle, Goto, Steps
<1>8. CASE SetCommon(t)
  <2>1. Same
    BY <1>1, <1>8 DEF SetCommon, Close, Goto, stackVars, handleVars, Listed, Mine, ListedNodes,
       PoolInv, PoolType, HoldsOK, PrivateApart, Private, Using
  <2> QED BY <1>8, <2>1 DEF SetCommon, Close, Goto, Steps
<1>9. CASE SetOwn(t)
  <2>1. Same
    BY <1>1, <1>9 DEF SetOwn, Goto, stackVars, handleVars, Listed, Mine, ListedNodes,
       PoolInv, PoolType, HoldsOK, PrivateApart, Private, Using
  <2> QED BY <1>9, <2>1 DEF SetOwn, Goto, Steps
<1>10. CASE Perform(t)
  <2>1. Same
    BY <1>1, <1>10 DEF Perform, Goto, stackVars, handleVars, Listed, Mine, ListedNodes,
       PoolInv, PoolType, HoldsOK, PrivateApart, Private, Using
  <2> QED BY <1>10, <2>1 DEF Perform, Goto, Steps
<1>11. CASE Cleanup(t)
  <2>1. Same
    BY <1>1, <1>11 DEF Cleanup, Close, Goto, stackVars, handleVars, Listed, Mine, ListedNodes,
       PoolInv, PoolType, HoldsOK, PrivateApart, Private, Using
  <2> QED BY <1>11, <2>1 DEF Cleanup, Close, Goto, Steps
<1>12. CASE PushLock(t)
  <2>1. Same
    BY <1>1, <1>12 DEF PushLock, Goto, stackVars, handleVars, Listed, Mine, ListedNodes,
       PoolInv, PoolType, HoldsOK, PrivateApart, Private, Using
  <2> QED BY <1>12, <2>1 DEF PushLock, Goto, Steps
<1>13. CASE PushNext(t)
  <2>1. Same
    BY <1>1, <1>13 DEF PushNext, Goto, stackVars, handleVars, Listed, Mine, ListedNodes,
       PoolInv, PoolType, HoldsOK, PrivateApart, Private, Using
  <2> QED BY <1>13, <2>1 DEF PushNext, Goto, Steps
<1> QED BY <1>2, <1>3, <1>4, <1>5, <1>6, <1>7, <1>8, <1>9, <1>10, <1>11, <1>12, <1>13 DEF Quiet

\* this->next = res->next: size follows in the next step.
LEMMA UnlinkStep ==
  ASSUME NEW t \in Threads, StackInv, PopUnlink(t)
  PROVE  Linked' /\ Counted'
<1>1. PoolInv /\ pc[t] = "unlink" /\ Goto(t, "popped") /\ size' = size
  BY DEF StackInv, PopUnlink
<1>2. /\ head \in ListedNodes /\ ListedNodes' = ListedNodes \ {head}
      /\ Linked'
  BY UnlinkedTop DEF StackInv
<1>3. IsFiniteSet(ListedNodes') /\ Cardinality(ListedNodes') = Cardinality(ListedNodes) - 1
  BY <1>2, FS_RemoveElement DEF StackInv, Counted
<1>4. /\ Someone("popped") = 0 /\ Someone("popped")' = 1
      /\ Someone("pushed") = 0 /\ Someone("pushed")' = 0
  BY <1>1, SomeoneAlone DEF Critical, Steps
<1>5. Cardinality(ListedNodes) \in Nat
  BY FS_CardinalityType DEF StackInv, Counted
<1> QED BY <1>1, <1>2, <1>3, <1>4, <1>5 DEF StackInv, Counted

\* this->next = node: size follows in the next step.
LEMMA LinkStep ==
  ASSUME NEW t \in Threads, StackInv, PushLink(t)
  PROVE  Linked' /\ Counted'
<1>1. PoolInv /\ pc[t] = "link" /\ Goto(t, "pushed") /\ size' = size
  BY DEF StackInv, PushLink
<1>2. /\ node[t] \in Nodes \ ListedNodes
      /\ ListedNodes' = ListedNodes \cup {node[t]}
      /\ Linked'
  BY LinkedTop DEF StackInv
<1>3. IsFiniteSet(ListedNodes') /\ Cardinality(ListedNodes') = Cardinality(ListedNodes) + 1
  BY <1>2, FS_AddElement DEF StackInv, Counted
<1>4. /\ Someone("popped") = 0 /\ Someone("popped")' = 0
      /\ Someone("pushed") = 0 /\ Someone("pushed")' = 1
  BY <1>1, SomeoneAlone DEF Critical, Steps
<1>5. Cardinality(ListedNodes) \in Nat
  BY FS_CardinalityType DEF StackInv, Counted
<1> QED BY <1>1, <1>2, <1>3, <1>4, <1>5 DEF StackInv, Counted

LEMMA PoppedStep ==
  ASSUME NEW t \in Threads, StackInv, PopDone(t)
  PROVE  Linked' /\ Counted'
<1>1. PoolInv /\ pc[t] = "popped" /\ Goto(t, "reuse") /\ size' = size - 1 /\ head' = head
  BY DEF StackInv, PopDone
<1>2. ListedNodes' = ListedNodes
  <2>1. \A n \in Nodes : Listed(n)' <=> Listed(n)
    BY <1>1, PoolAssumption DEF PopDone, Goto, Listed, Mine, PoolInv, PoolType, Private
  <2> QED BY <2>1 DEF ListedNodes
<1>3. \A n \in ListedNodes : nxt'[n] = nxt[n]
  BY <1>1 DEF PopDone, ListedNodes, Listed, Mine, Private, PoolInv, PoolType
<1>4. Linked'
  BY <1>1, <1>2, <1>3, SameList DEF StackInv
<1>5. /\ Someone("popped") = 1 /\ Someone("popped")' = 0
      /\ \A s \in {"popped", "pushed"} \ {"popped"} : Someone(s) = 0 /\ Someone(s)' = 0
  BY <1>1, SomeoneAlone DEF Critical, Steps
<1>6. Cardinality(ListedNodes) \in Nat
  BY FS_CardinalityType DEF StackInv, Counted
<1> QED BY <1>1, <1>2, <1>4, <1>5, <1>6 DEF StackInv, Counted

LEMMA PushedStep ==
  ASSUME NEW t \in Threads, StackInv, PushDone(t)
  PROVE  Linked' /\ Counted'
<1>1. PoolInv /\ pc[t] = "pushed" /\ Goto(t, "idle") /\ size' = size + 1 /\ head' = head
  BY DEF StackInv, PushDone
<1>2. ListedNodes' = ListedNodes
  <2>1. \A n \in Nodes : Listed(n)' <=> Listed(n)
    BY <1>1, PoolAssumption DEF PushDone, Goto, Listed, Mine, PoolInv, PoolType, Private
  <2> QED BY <2>1 DEF ListedNodes
<1>3. \A n \in ListedNodes : nxt'[n] = nxt[n]
  BY <1>1 DEF PushDone, ListedNodes, Listed, Mine, Private, PoolInv, PoolType
<1>4. Linked'
  BY <1>1, <1>2, <1>3, SameList DEF StackInv
<1>5. /\ Someone("pushed") = 1 /\ Someone("pushed")' = 0
      /\ \A s \in {"popped", "pushed"} \ {"pushed"} : Someone(s) = 0 /\ Someone(s)' = 0
  BY <1>1, SomeoneAlone DEF Critical, Steps
<1>6. Cardinality(ListedNodes) \in Nat
  BY FS_CardinalityType DEF StackInv, Counted
<1> QED BY <1>1, <1>2, <1>4, <1>5, <1>6 DEF StackInv, Counted

\* Where the local variable node may be set, and no handle is dropped.
LEMMA HeldStep ==
  ASSUME NEW t \in Threads, StackInv, Request(t) \/ Step(t)
  PROVE  NodesOK' /\ LiveHeld'
<1>1. PoolInv /\ NodesOK /\ LiveHeld
  BY DEF StackInv
<1> USE PoolAssumption DEF Goto, stackVars, handleVars
<1>2. CASE Request(t)
  <2>1. NodesOK'
    BY <1>1, <1>2 DEF Request, NodesOK, PoolInv, PoolType, Private
  <2>2. LiveHeld'
    BY <1>1, <1>2 DEF Request, LiveHeld, NodesOK, PoolInv, PoolType, HoldsOK, Private,
       Using, HandleExclusive
  <2> QED BY <2>1, <2>2
<1>3. CASE TryLock(t)
  <2>1. NodesOK'
    BY <1>1, <1>3 DEF TryLock, NodesOK, PoolInv, PoolType, Private
  <2>2. LiveHeld'
    BY <1>1, <1>3 DEF TryLock, LiveHeld, NodesOK, PoolInv, PoolType, HoldsOK, Private,
       Using, HandleExclusive
  <2> QED BY <2>1, <2>2
<1>4. CASE CheckEmpty(t)
  <2>1. NodesOK'
    BY <1>1, <1>4 DEF CheckEmpty, NodesOK, PoolInv, PoolType, Private
  <2>2. LiveHeld'
    BY <1>1, <1>4 DEF CheckEmpty, LiveHeld, NodesOK, PoolInv, PoolType, HoldsOK, Private,
       Using, HandleExclusive
  <2> QED BY <2>1, <2>2
<1>5. CASE PopHead(t)
  <2>1. NodesOK'
    BY <1>1, <1>5 DEF PopHead, NodesOK, PoolInv, PoolType, Private
  <2>2. LiveHeld'
    BY <1>1, <1>5 DEF PopHead, LiveHeld, NodesOK, PoolInv, PoolType, HoldsOK, Private,
       Using, HandleExclusive
  <2> QED BY <2>1, <2>2
<1>6. CASE PopUnlink(t)
  <2>1. NodesOK'
    BY <1>1, <1>6 DEF PopUnlink, NodesOK, PoolInv, PoolType, LockHeld, Critical, Private
  <2>2. LiveHeld'
    BY <1>1, <1>6 DEF PopUnlink, LiveHeld, NodesOK, PoolInv, PoolType, HoldsOK, Private,
       Using, HandleExclusive
  <2> QED BY <2>1, <2>2
<1>7. CASE PopDone(t)
  <2>1. NodesOK'
    BY <1>1, <1>7 DEF PopDone, NodesOK, PoolInv, PoolType, Private
  <2>2. LiveHeld'
    BY <1>1, <1>7 DEF PopDone, LiveHeld, NodesOK, PoolInv, PoolType, HoldsOK, Private,
       Using, HandleExclusive
  <2> QED BY <2>1, <2>2
<1>8. CASE Reuse(t)
  <2>1. NodesOK'
    BY <1>1, <1>8 DEF Reuse, NodesOK, PoolInv, PoolType, Private
  <2>2. LiveHeld'
    BY <1>1, <1>8 DEF Reuse, LiveHeld, NodesOK, PoolInv, PoolType, HoldsOK, Private,
       Using, HandleExclusive
  <2> QED BY <2>1, <2>2
<1>9. CASE MakeHandle(t)
  <2>1. NodesOK'
    BY <1>1, <1>9 DEF MakeHandle, NodesOK, PoolInv, PoolType, Private
  <2>2. LiveHeld'
    BY <1>1, <1>9 DEF MakeHandle, LiveHeld, NodesOK, PoolInv, PoolType, HoldsOK, Private,
       Using, HandleExclusive
  <2> QED BY <2>1, <2>2
<1>10. CASE SetCommon(t)
  <2>1. NodesOK'
    BY <1>1, <1>10 DEF SetCommon, Close, NodesOK, PoolInv, PoolType, Private
  <2>2. LiveHeld'
    BY <1>1, <1>10 DEF SetCommon, Close, LiveHeld, NodesOK, PoolInv, PoolType, HoldsOK, Private,
       Using, HandleExclusive
  <2> QED BY <2>1, <2>2
<1>11. CASE SetOwn(t)
  <2>1. NodesOK'
    BY <1>1, <1>11 DEF SetOwn, NodesOK, PoolInv, PoolType, Private
  <2>2. LiveHeld'
    BY <1>1, <1>11 DEF SetOwn, LiveHeld, NodesOK, PoolInv, PoolType, HoldsOK, Private,
       Using, HandleExclusive
  <2> QED BY <2>1, <2>2
<1>12. CASE Perform(t)
  <2>1. NodesOK'
    BY <1>1, <1>12 DEF Perform, NodesOK, PoolInv, PoolType, Private
  <2>2. LiveHeld'
    BY <1>1, <1>12 DEF Perform, LiveHeld, NodesOK, PoolInv, PoolType, HoldsOK, Private,
       Using, HandleExclusive
  <2> QED BY <2>1, <2>2
<1>13. CASE Cleanup(t)
  <2>1. NodesOK'
    BY <1>1, <1>13 DEF Cleanup, Close, NodesOK, PoolInv, PoolType, Private
  <2>2. LiveHeld'
    BY <1>1, <1>13 DEF Cleanup, Close, LiveHeld, NodesOK, PoolInv, PoolType, HoldsOK, Private,
       Using, HandleExclusive
  <2> QED BY <2>1, <2>2
<1>14. CASE PushLock(t)
  <2>1. NodesOK'
    BY <1>1, <1>14 DEF PushLock, NodesOK, PoolInv, PoolType, Private
  <2>2. LiveHeld'
    BY <1>1, <1>14 DEF PushLock, LiveHeld, NodesOK, PoolInv, PoolType, HoldsOK, Private,
       Using, HandleExclusive
  <2> QED BY <2>1, <2>2
<1>15. CASE PushNext(t)
  <2>1. NodesOK'
    BY <1>1, <1>15 DEF PushNext, NodesOK, PoolInv, PoolType, Private
  <2>2. LiveHeld'
    BY <1>1, <1>15 DEF PushNext, LiveHeld, NodesOK, PoolInv, PoolType, HoldsOK, Private,
       Using, HandleExclusive
  <2> QED BY <2>1, <2>2
<1>16. CASE PushLink(t)
  <2>1. NodesOK'
    BY <1>1, <1>16 DEF PushLink, NodesOK, PoolInv, PoolType, HoldsOK, Private
  <2>2. LiveHeld'
    BY <1>1, <1>16 DEF PushLink, LiveHeld, NodesOK, PoolInv, PoolType, HoldsOK, Private,
       Using, HandleExclusive
  <2> QED BY <2>1, <2>2
<1>17. CASE PushDone(t)
  <2>1. NodesOK'
    BY <1>1, <1>17 DEF PushDone, NodesOK, PoolInv, PoolType, Private
  <2>2. LiveHeld'
    BY <1>1, <1>17 DEF PushDone, LiveHeld, NodesOK, PoolInv, PoolType, HoldsOK, Private,
       Using, HandleExclusive
  <2> QED BY <2>1, <2>2
<1> QED BY <1>2, <1>3, <1>4, <1>5, <1>6, <1>7, <1>8, <1>9, <1>10, <1>11, <1>12, <1>13, <1>14, <1>15, <1>16, <1>17 DEF Step

LEMMA BoundedStep ==
  ASSUME NEW t \in Threads, StackInv, Request(t) \/ Step(t)
  PROVE  Bounded'
<1>1. PoolInv /\ Bounded
  BY DEF StackInv
<1>2. CASE CheckEmpty(t) /\ head = Null
  BY <1>2, EmptySeen
<1>3. CASE MakeHandle(t)
  BY <1>3, HandleMade
<1>4. CASE ~MakeHandle(t) /\ ~(CheckEmpty(t) /\ head = Null)
  <2>1. live' \subseteq live
    BY <1>1, <1>4 DEF Step, Request, TryLock, CheckEmpty, PopHead, PopUnlink, PopDone, Reuse,
       SetCommon, SetOwn, Perform, Cleanup, PushLock, PushNext, PushLink, PushDone, Close,
       handleVars
  <2>2. Making' \subseteq Making
    BY <1>1, <1>4 DEF Step, Request, TryLock, CheckEmpty, PopHead, PopUnlink, PopDone, Reuse,
       SetCommon, SetOwn, Perform, Cleanup, PushLock, PushNext, PushLink, PushDone, Close,
       Goto, Making, PoolInv, PoolType
  <2> QED BY <1>1, <2>1, <2>2, FewerHandles
<1> QED BY <1>2, <1>3, <1>4

LEMMA StackInvInit == Init => StackInv
<1> SUFFICES ASSUME Init PROVE StackInv
  OBVIOUS
<1>1. PoolInv
  BY PoolInvInit
<1>2. ListedNodes = {} /\ Making = {} /\ live = {} /\ size = 0
  BY DEF Init, ListedNodes, Listed, Making
<1>3. Someone("popped") = 0 /\ Someone("pushed") = 0
  BY DEF Init, Someone
<1>4. NodesOK /\ LiveHeld /\ Linked
  BY <1>2 DEF Init, NodesOK, LiveHeld, Linked
<1>5. Counted
  BY <1>2, <1>3, FS_EmptySet DEF Counted
<1>6. Bounded
  BY <1>2, FS_EmptySet, FS_CardinalityType, PoolAssumption DEF Bounded
<1> QED BY <1>1, <1>4, <1>5, <1>6 DEF StackInv

LEMMA StackInvNext == StackInv /\ [Next]_vars => StackInv'
<1> SUFFICES ASSUME StackInv, [Next]_vars PROVE StackInv'
  OBVIOUS
<1>1. PoolInv'
  BY PoolInvNext DEF StackInv
<1>2. ASSUME NEW t \in Threads, Request(t) \/ Step(t) PROVE StackInv'
  <2>1. Linked' /\ Counted'
    BY <1>2, QuietStep, UnlinkStep, LinkStep, PoppedStep, PushedStep DEF Step, Quiet
  <2> QED BY <1>1, <1>2, <2>1, HeldStep, BoundedStep DEF StackInv
<1>3. CASE UNCHANGED vars
  <2> USE <1>3 DEF vars, stackVars, handleVars
  <2>1. NodesOK' /\ LiveHeld'
    BY DEF StackInv, NodesOK, LiveHeld
  <2>2. ListedNodes' = ListedNodes /\ Making' = Making
    BY DEF ListedNodes, Listed, Mine, Making
  <2>3. Linked'
    BY <2>2 DEF StackInv, Linked, HoldsStack
  <2>4. Counted' /\ Bounded'
    BY <2>2 DEF StackInv, Counted, Someone, Bounded
  <2> QED BY <1>1, <2>1, <2>3, <2>4 DEF StackInv
<1> QED BY <1>2, <1>3 DEF Next

-----------------------------------------------------------------------------
\* Every variable keeps its type through every interleaving of Stack_push and
\* Stack_pop; in particular size, an unsigned counter that is corrected in a
\* step of its own, never goes below zero.
THEOREM TypeCorrect == Spec => []TypeOK
<1>1. StackInv => TypeOK
  <2> SUFFICES ASSUME StackInv PROVE TypeOK
    OBVIOUS
  <2>1. Cardinality(ListedNodes) \in Nat
    BY FS_CardinalityType DEF StackInv, Counted
  <2>2. Someone("pushed") = 1 => Cardinality(ListedNodes) # 0
    <3>1. Someone("pushed") = 1 => head \in ListedNodes
      BY DEF Someone, StackInv, NodesOK, PoolInv, ListOK, PoolType, ListedNodes
    <3> QED BY <3>1, FS_EmptySet DEF StackInv, Counted
  <2>3. Someone("popped") \in {0, 1} /\ Someone("pushed") \in {0, 1}
    BY DEF Someone
  <2>4. size \in Nat
    BY <2>1, <2>2, <2>3 DEF StackInv, Counted
  <2> QED BY <2>4 DEF StackInv, PoolInv, PoolType, TypeOK
<1> QED BY <1>1, StackInvInit, StackInvNext, PTL DEF Spec

\* Whenever the spinlock of curl_handler_stack is free, the list has size nodes
\* and every handle that exists is on it, in use, or in the node a thread is
\* about to push or to free: the pool leaks no handle, whatever fails.
THEOREM PoolStaysIntact == Spec => []PoolIntact
<1>1. StackInv => PoolIntact
  <2> SUFFICES ASSUME StackInv, lock = NoThread
               PROVE  /\ Cardinality(Stacked) = size
                      /\ live = {val[n] : n \in Stacked}
                                  \cup ({cur[t] : t \in Threads} \ {NoHandle})
                                  \cup {val[node[t]] : t \in {u \in Threads : node[u] # Null}}
    BY DEF PoolIntact
  <2>1. PoolInv /\ NodesOK /\ LiveHeld /\ Stacked = ListedNodes
    BY StackedListed DEF StackInv
  <2>2. \A t \in Threads : pc[t] \notin Critical
    BY <2>1, PoolAssumption DEF PoolInv, LockHeld
  <2>3. Cardinality(Stacked) = size
    <3>1. Someone("popped") = 0 /\ Someone("pushed") = 0
      BY <2>2 DEF Someone, Critical
    <3>2. Cardinality(ListedNodes) \in Nat
      BY FS_CardinalityType DEF StackInv, Counted
    <3> QED BY <2>1, <3>1, <3>2 DEF StackInv, Counted
  <2>4. ASSUME NEW h \in live
        PROVE  \/ \E n \in ListedNodes : h = val[n]
               \/ \E t \in Threads : h = cur[t] /\ h # NoHandle
               \/ \E t \in Threads : node[t] # Null /\ h = val[node[t]]
    <3>1. h # NoHandle
      BY <2>1, PoolAssumption DEF PoolInv, PoolType
    <3>2. ASSUME NEW n \in Nodes, val[n] = h, n \notin ListedNodes
          PROVE  \E t \in Threads : node[t] # Null /\ h = val[node[t]]
      BY <3>1, <3>2, PoolAssumption DEF ListedNodes, Listed, Mine
    <3> QED BY <2>1, <3>1, <3>2 DEF LiveHeld
  <2>5. \A n \in ListedNodes : val[n] \in live
    BY <2>1 DEF ListedNodes, Listed, PoolInv, HandleExclusive
  <2>6. \A t \in Threads : cur[t] # NoHandle => cur[t] \in live
    BY <2>1 DEF PoolInv, HandleExclusive
  <2>7. \A t \in Threads : node[t] # Null => val[node[t]] \in live
    BY <2>1, <2>2 DEF NodesOK, Critical, PoolInv, HandleExclusive, HoldsOK
  <2> QED BY <2>1, <2>3, <2>4, <2>5, <2>6, <2>7
<1> QED BY <1>1, StackInvInit, StackInvNext, PTL DEF Spec

-----------------------------------------------------------------------------
(* The refinement.                                                         *)

Idle == {val[n] : n \in ListedNodes}

\* A step of the stack that the abstract pool does not see.
Unseen == Idle' = Idle /\ ownOf' = ownOf

LEMMA UnseenStep ==
  ASSUME NEW t \in Threads, StackInv,
         \/ Request(t) \/ TryLock(t) \/ CheckEmpty(t) \/ PopHead(t) \/ PopDone(t)
         \/ Reuse(t) \/ SetOwn(t) \/ Perform(t) \/ PushLock(t) \/ PushNext(t)
         \/ PushDone(t)
  PROVE  Unseen
<1>1. PoolInv /\ NodesOK
  BY DEF StackInv
<1> USE PoolAssumption DEF Goto, stackVars, handleVars
<1>2. CASE Request(t)
  <2>1. \A n \in Nodes : (Listed(n)' <=> Listed(n)) /\ (Listed(n) => val'[n] = val[n])
    BY <1>1, <1>2 DEF Request, Listed, Mine, PoolInv, PoolType, HoldsOK, PrivateApart, Private
  <2>2. ownOf' = ownOf
    BY <1>1, <1>2 DEF Request, ownOf, NodesOK, PoolInv, PoolType, HoldsOK, PrivateApart, Mine,
       Private, Using
  <2> QED BY <2>1, <2>2 DEF Unseen, Idle, ListedNodes
<1>3. CASE TryLock(t)
  <2>1. \A n \in Nodes : (Listed(n)' <=> Listed(n)) /\ (Listed(n) => val'[n] = val[n])
    BY <1>1, <1>3 DEF TryLock, Listed, Mine, PoolInv, PoolType, HoldsOK, PrivateApart, Private
  <2>2. ownOf' = ownOf
    BY <1>1, <1>3 DEF TryLock, ownOf, NodesOK, PoolInv, PoolType, HoldsOK, PrivateApart, Mine,
       Private, Using
  <2> QED BY <2>1, <2>2 DEF Unseen, Idle, ListedNodes
<1>4. CASE CheckEmpty(t)
  <2>1. \A n \in Nodes : (Listed(n)' <=> Listed(n)) /\ (Listed(n) => val'[n] = val[n])
    BY <1>1, <1>4 DEF CheckEmpty, Listed, Mine, PoolInv, PoolType, HoldsOK, PrivateApart, Private
  <2>2. ownOf' = ownOf
    BY <1>1, <1>4 DEF CheckEmpty, ownOf, NodesOK, PoolInv, PoolType, HoldsOK, PrivateApart, Mine,
       Private, Using
  <2> QED BY <2>1, <2>2 DEF Unseen, Idle, ListedNodes
<1>5. CASE PopHead(t)
  <2>1. \A n \in Nodes : (Listed(n)' <=> Listed(n)) /\ (Listed(n) => val'[n] = val[n])
    BY <1>1, <1>5 DEF PopHead, Listed, Mine, PoolInv, PoolType, HoldsOK, PrivateApart, Private
  <2>2. ownOf' = ownOf
    BY <1>1, <1>5 DEF PopHead, ownOf, NodesOK, PoolInv, PoolType, HoldsOK, PrivateApart, Mine,
       Private, Using
  <2> QED BY <2>1, <2>2 DEF Unseen, Idle, ListedNodes
<1>6. CASE PopDone(t)
  <2>1. \A n \in Nodes : (Listed(n)' <=> Listed(n)) /\ (Listed(n) => val'[n] = val[n])
    BY <1>1, <1>6 DEF PopDone, Listed, Mine, PoolInv, PoolType, HoldsOK, PrivateApart, Private
  <2>2. ownOf' = ownOf
    BY <1>1, <1>6 DEF PopDone, ownOf, NodesOK, PoolInv, PoolType, HoldsOK, PrivateApart, Mine,
       Private, Using
  <2> QED BY <2>1, <2>2 DEF Unseen, Idle, ListedNodes
<1>7. CASE Reuse(t)
  <2>1. \A n \in Nodes : (Listed(n)' <=> Listed(n)) /\ (Listed(n) => val'[n] = val[n])
    BY <1>1, <1>7 DEF Reuse, Listed, Mine, PoolInv, PoolType, HoldsOK, PrivateApart, Private
  <2>2. ownOf' = ownOf
    BY <1>1, <1>7 DEF Reuse, ownOf, NodesOK, PoolInv, PoolType, HoldsOK, PrivateApart, Mine,
       Private, Using
  <2> QED BY <2>1, <2>2 DEF Unseen, Idle, ListedNodes
<1>8. CASE SetOwn(t)
  <2>1. \A n \in Nodes : (Listed(n)' <=> Listed(n)) /\ (Listed(n) => val'[n] = val[n])
    BY <1>1, <1>8 DEF SetOwn, Listed, Mine, PoolInv, PoolType, HoldsOK, PrivateApart, Private
  <2>2. ownOf' = ownOf
    BY <1>1, <1>8 DEF SetOwn, ownOf, NodesOK, PoolInv, PoolType, HoldsOK, PrivateApart, Mine,
       Private, Using
  <2> QED BY <2>1, <2>2 DEF Unseen, Idle, ListedNodes
<1>9. CASE Perform(t)
  <2>1. \A n \in Nodes : (Listed(n)' <=> Listed(n)) /\ (Listed(n) => val'[n] = val[n])
    BY <1>1, <1>9 DEF Perform, Listed, Mine, PoolInv, PoolType, HoldsOK, PrivateApart, Private
  <2>2. ownOf' = ownOf
    BY <1>1, <1>9 DEF Perform, ownOf, NodesOK, PoolInv, PoolType, HoldsOK, PrivateApart, Mine,
       Private, Using
  <2> QED BY <2>1, <2>2 DEF Unseen, Idle, ListedNodes
<1>10. CASE PushLock(t)
  <2>1. \A n \in Nodes : (Listed(n)' <=> Listed(n)) /\ (Listed(n) => val'[n] = val[n])
    BY <1>1, <1>10 DEF PushLock, Listed, Mine, PoolInv, PoolType, HoldsOK, PrivateApart, Private
  <2>2. ownOf' = ownOf
    BY <1>1, <1>10 DEF PushLock, ownOf, NodesOK, PoolInv, PoolType, HoldsOK, PrivateApart, Mine,
       Private, Using
  <2> QED BY <2>1, <2>2 DEF Unseen, Idle, ListedNodes
<1>11. CASE PushNext(t)
  <2>1. \A n \in Nodes : (Listed(n)' <=> Listed(n)) /\ (Listed(n) => val'[n] = val[n])
    BY <1>1, <1>11 DEF PushNext, Listed, Mine, PoolInv, PoolType, HoldsOK, PrivateApart, Private
  <2>2. ownOf' = ownOf
    BY <1>1, <1>11 DEF PushNext, ownOf, NodesOK, PoolInv, PoolType, HoldsOK, PrivateApart, Mine,
       Private, Using
  <2> QED BY <2>1, <2>2 DEF Unseen, Idle, ListedNodes
<1>12. CASE PushDone(t)
  <2>1. \A n \in Nodes : (Listed(n)' <=> Listed(n)) /\ (Listed(n) => val'[n] = val[n])
    BY <1>1, <1>12 DEF PushDone, Listed, Mine, PoolInv, PoolType, HoldsOK, PrivateApart, Private
  <2>2. ownOf' = ownOf
    BY <1>1, <1>12 DEF PushDone, ownOf, NodesOK, PoolInv, PoolType, HoldsOK, PrivateApart, Mine,
       Private, Using
  <2> QED BY <2>1, <2>2 DEF Unseen, Idle, ListedNodes
<1> QED BY <1>2, <1>3, <1>4, <1>5, <1>6, <1>7, <1>8, <1>9, <1>10, <1>11, <1>12

\* Idle is what the refinement mapping substitutes for idle, before and after
\* a step.
Mapped == Idle = {val[n] : n \in Stacked}

LEMMA MappedIdle == StackInv => Mapped
  BY StackedListed DEF StackInv, Idle, Mapped

LEMMA MappedIdleNext == StackInv' => Mapped'
  BY MappedIdle, PTL

LEMMA AcquireStep ==
  ASSUME StackInv, StackInv', NEW t \in Threads, PopUnlink(t)
  PROVE  Pool!Acquire(t)
<1>1. PoolInv /\ Linked /\ NodesOK
  BY DEF StackInv
<1>2. /\ head \in ListedNodes /\ node[t] = head
      /\ ListedNodes' = ListedNodes \ {head}
  BY <1>1, UnlinkedTop
<1>3. val' = val /\ ownOf[t] = NoHandle /\ ownOf' = [ownOf EXCEPT ![t] = val[head]]
  <2>1. /\ cur' = cur /\ node' = node /\ val' = val
        /\ \A u \in Threads : pc'[u] = IF u = t THEN "popped" ELSE pc[u]
    BY <1>1 DEF PopUnlink, Goto, PoolInv, PoolType
  <2>2. cur[t] = NoHandle /\ pc[t] = "unlink" /\ node[t] # Null
    BY <1>1, <1>2, PoolAssumption DEF PopUnlink, PoolInv, HoldsOK, Using, ListedNodes
  <2> QED BY <1>2, <2>1, <2>2 DEF ownOf
<1>4. val[head] \in Idle /\ Idle' = Idle \ {val[head]}
  BY <1>1, <1>2, <1>3 DEF Idle, ListedNodes, Listed, PoolInv, HandleExclusive
<1>5. Idle = {val[n] : n \in Stacked} /\ Idle' = {val[n] : n \in Stacked}'
  BY MappedIdle, MappedIdleNext DEF Mapped
<1> QED BY <1>3, <1>4, <1>5 DEF Pool!Acquire

LEMMA PushStep ==
  ASSUME StackInv, StackInv', NEW t \in Threads, PushLink(t)
  PROVE  Pool!Release(t)
<1>1. PoolInv /\ Linked /\ NodesOK
  BY DEF StackInv
<1>2. /\ node[t] \in Nodes \ ListedNodes
      /\ ListedNodes' = ListedNodes \cup {node[t]}
  BY <1>1, LinkedTop
<1>3. /\ val' = val /\ ownOf[t] = val[node[t]] /\ ownOf[t] # NoHandle
      /\ ownOf' = [ownOf EXCEPT ![t] = NoHandle]
  <2>1. /\ cur' = cur /\ val' = val
        /\ \A u \in Threads : pc'[u] = IF u = t THEN "pushed" ELSE pc[u]
        /\ \A u \in Threads : node'[u] = IF u = t THEN Null ELSE node[u]
    BY <1>1 DEF PushLink, Goto, PoolInv, PoolType
  <2>2. cur[t] = NoHandle /\ pc[t] = "link" /\ node[t] # Null /\ val[node[t]] # NoHandle
    BY <1>1, <1>2, PoolAssumption DEF PushLink, PoolInv, HoldsOK, Using, Private
  <2> QED BY <2>1, <2>2 DEF ownOf
<1>4. Idle' = Idle \cup {ownOf[t]}
  BY <1>2, <1>3 DEF Idle
<1>5. Idle = {val[n] : n \in Stacked} /\ Idle' = {val[n] : n \in Stacked}'
  BY MappedIdle, MappedIdleNext DEF Mapped
<1> QED BY <1>3, <1>4, <1>5 DEF Pool!Release

\* curl_easy_cleanup instead of Stack_push.
LEMMA CloseStep ==
  ASSUME StackInv, StackInv', NEW t \in Threads, pc[t] \in Using, Close(t),
         UNCHANGED <<val, node>>
  PROVE  Pool!Release(t)
<1>1. PoolInv /\ NodesOK
  BY DEF StackInv
<1>2. /\ \A u \in Threads : pc'[u] = IF u = t THEN "idle" ELSE pc[u]
      /\ \A u \in Threads : cur'[u] = IF u = t THEN NoHandle ELSE cur[u]
  BY <1>1 DEF Close, Goto, PoolInv, PoolType
<1>3. cur[t] # NoHandle /\ node[t] = Null
  BY <1>1 DEF PoolInv, HoldsOK, NodesOK, Using, Private
<1>4. ownOf[t] # NoHandle /\ ownOf' = [ownOf EXCEPT ![t] = NoHandle]
  BY <1>2, <1>3 DEF ownOf
<1>5. Idle' = Idle
  <2>1. \A n \in Nodes : Listed(n)' <=> Listed(n)
    BY <1>2 DEF Listed, Mine, Private, Using
  <2> QED BY <2>1 DEF Idle, ListedNodes
<1>6. Idle = {val[n] : n \in Stacked} /\ Idle' = {val[n] : n \in Stacked}'
  BY MappedIdle, MappedIdleNext DEF Mapped
<1> QED BY <1>4, <1>5, <1>6 DEF Pool!Release

LEMMA MakeStep ==
  ASSUME StackInv, StackInv', NEW t \in Threads, MakeHandle(t)
  PROVE  Pool!Make(t) \/ Unseen
<1>1. PoolInv /\ NodesOK /\ Bounded
  BY DEF StackInv
<1>2. val' = val /\ node' = node /\ cur[t] = NoHandle /\ node[t] = Null /\ pc[t] = "make"
  BY <1>1 DEF MakeHandle, stackVars, PoolInv, HoldsOK, NodesOK, Using, Private
<1>3. Idle' = Idle
  <2>1. \A n \in Nodes : Listed(n)' <=> Listed(n)
    BY <1>1, <1>2 DEF Listed, Mine, Private, MakeHandle, Goto, PoolInv, PoolType
  <2> QED BY <1>2, <2>1 DEF Idle, ListedNodes
<1>4. CASE \E h \in Handles \ live : cur' = [cur EXCEPT ![t] = h] /\ Goto(t, "setopt")
  <2>1. PICK h \in Handles \ live : cur' = [cur EXCEPT ![t] = h] /\ Goto(t, "setopt")
    BY <1>4
  <2>2. ownOf[t] = NoHandle /\ ownOf' = [ownOf EXCEPT ![t] = h]
    BY <1>1, <1>2, <2>1, PoolAssumption DEF ownOf, Goto, PoolInv, PoolType
  <2> DEFINE Out == {ownOf[u] : u \in Threads} \ {NoHandle}
  <2>3. Idle \cup Out \subseteq live
    <3>1. Idle \subseteq live
      BY <1>1 DEF Idle, ListedNodes, Listed, PoolInv, HandleExclusive
    <3>2. ASSUME NEW u \in Threads, ownOf[u] # NoHandle PROVE ownOf[u] \in live
      BY <1>1, <3>2 DEF ownOf, PoolInv, PoolType, HandleExclusive
    <3> QED BY <3>1, <3>2
  <2>4. Cardinality(Idle \cup Out) < Cardinality(Threads)
    <3>1. IsFiniteSet(Making) /\ Making # {}
      BY <1>2, PoolAssumption, FS_Subset DEF Making
    <3>2. Cardinality(Making) \in Nat \ {0}
      BY <3>1, FS_CardinalityType, FS_EmptySet
    <3>3. /\ Cardinality(Idle \cup Out) <= Cardinality(live)
          /\ Cardinality(Idle \cup Out) \in Nat /\ Cardinality(live) \in Nat
      BY <1>1, <2>3, FS_Subset, FS_CardinalityType DEF Bounded
    <3>4. Cardinality(Threads) \in Nat
      BY PoolAssumption, FS_CardinalityType
    <3> HIDE DEF Out
    <3> QED BY <1>1, <3>2, <3>3, <3>4 DEF Bounded
  <2>5. h \in Handles \ (Idle \cup Out)
    BY <2>1, <2>3
  <2>6. Idle = {val[n] : n \in Stacked} /\ Idle' = {val[n] : n \in Stacked}'
    BY MappedIdle, MappedIdleNext DEF Mapped
  <2>7. Pool!Owned = Out
    BY DEF Pool!Owned
  <2> HIDE DEF Out
  <2>8. \A S : Pool!Cardinality(S) = Cardinality(S)
    BY DEF Pool!Cardinality, Cardinality
  <2>9. Pool!Make(t)
    BY <1>3, <2>2, <2>4, <2>5, <2>6, <2>7, <2>8 DEF Pool!Make
  <2> QED BY <2>9
<1>5. CASE cur' = cur /\ Goto(t, "idle")
  <2>1. ownOf' = ownOf
    BY <1>1, <1>2, <1>5 DEF ownOf, Goto, PoolInv, PoolType
  <2> QED BY <1>3, <2>1 DEF Unseen
<1> QED BY <1>4, <1>5 DEF MakeHandle

LEMMA SetCommonMaps ==
  ASSUME StackInv, StackInv', NEW t \in Threads, SetCommon(t)
  PROVE  Pool!Release(t) \/ Unseen
<1>1. PoolInv /\ pc[t] = "setopt" /\ val' = val /\ node' = node
  BY DEF StackInv, SetCommon, stackVars
<1>2. CASE Close(t)
  BY <1>1, <1>2, CloseStep DEF Using
<1>3. CASE cur' = cur /\ Goto(t, "body")
  <2>1. \A n \in Nodes : Listed(n)' <=> Listed(n)
    BY <1>1, <1>3 DEF Listed, Mine, Private, Goto, PoolInv, PoolType
  <2>2. ownOf' = ownOf
    BY <1>1, <1>3 DEF ownOf, Goto, PoolInv, PoolType
  <2> QED BY <1>1, <2>1, <2>2 DEF Unseen, Idle, ListedNodes
<1> QED BY <1>2, <1>3 DEF SetCommon

LEMMA CleanupMaps ==
  ASSUME StackInv, StackInv', NEW t \in Threads, Cleanup(t)
  PROVE  Pool!Release(t) \/ Unseen
<1>1. PoolInv /\ NodesOK /\ pc[t] = "cleanup"
  BY DEF StackInv, Cleanup
<1>2. CASE Close(t) /\ UNCHANGED <<val, node>>
  BY <1>1, <1>2, CloseStep DEF Using
<1>3. ASSUME NEW n \in Nodes, val[n] = NoHandle, val' = [val EXCEPT ![n] = cur[t]],
             node' = [node EXCEPT ![t] = n], cur' = [cur EXCEPT ![t] = NoHandle],
             Goto(t, "pushlock")
      PROVE  Unseen
  <2>1. \A m \in Nodes : (Listed(m)' <=> Listed(m)) /\ (Listed(m) => val'[m] = val[m])
    BY <1>1, <1>3 DEF Listed, Mine, Private, Goto, PoolInv, PoolType
  <2>2. ownOf' = ownOf
    BY <1>1, <1>3, PoolAssumption
    DEF ownOf, Goto, PoolInv, PoolType, HoldsOK, NodesOK, Private, Using
  <2> QED BY <2>1, <2>2 DEF Unseen, Idle, ListedNodes
<1> QED BY <1>2, <1>3 DEF Cleanup

LEMMA PoolStep == StackInv /\ StackInv' /\ [Next]_vars => [Pool!PoolNext]_(Pool!poolVars)
<1> SUFFICES ASSUME StackInv, StackInv', [Next]_vars PROVE [Pool!PoolNext]_(Pool!poolVars)
  OBVIOUS
<1>1. Unseen => UNCHANGED Pool!poolVars
  BY MappedIdle, MappedIdleNext DEF Unseen, Mapped, Pool!poolVars
<1>2. ASSUME NEW t \in Threads, Request(t) \/ Step(t)
      PROVE  Unseen \/ Pool!Acquire(t) \/ Pool!Make(t) \/ Pool!Release(t)
  BY <1>2, UnseenStep, AcquireStep, PushStep, MakeStep, SetCommonMaps, CleanupMaps DEF Step
<1>3. CASE UNCHANGED vars
  <2>1. Idle' = Idle /\ ownOf' = ownOf
    BY <1>3 DEF vars, stackVars, Idle, ListedNodes, Listed, Mine, ownOf
  <2> QED BY <1>1, <2>1 DEF Unseen
<1> QED BY <1>1, <1>2, <1>3 DEF Next, Pool!PoolNext

\* curl_easy_init_common and curl_easy_cleanup_common, run by any number of
\* threads on one intrusive stack, implement the pool of HandlePool: a request
\* takes an idle handle or makes one, gives back the one it has, and a thread
\* that saw the stack empty never makes a handle that exceeds one per thread.
THEOREM StackImplementsPool == Spec => ImplementsPool
<1>1. Init => Pool!PoolInit
  <2> SUFFICES ASSUME Init PROVE Pool!PoolInit
    OBVIOUS
  <2>1. Idle = {}
    BY DEF Init, Idle, ListedNodes, Listed
  <2>2. ownOf = [t \in Threads |-> NoHandle]
    BY DEF Init, ownOf
  <2> QED BY <2>1, <2>2, StackInvInit, MappedIdle DEF Mapped, Pool!PoolInit
<1> QED BY <1>1, StackInvInit, StackInvNext, PoolStep, PTL DEF Spec, ImplementsPool, Pool!PoolSpec
=============================================================================
