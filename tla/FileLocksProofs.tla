--------------------------- MODULE FileLocksProofs ---------------------------
(***************************************************************************)
(* Proofs about FileLocks for every number of threads, paths, records and  *)
(* tokens.                                                                 *)
(***************************************************************************)
EXTENDS FileLocks, TLAPS

-----------------------------------------------------------------------------
(* The inductive invariant of every mount, whatever overlaps and fails.    *)

\* The arguments of a running handler; an idle thread has none.
ControlOK ==
  \A t \in Threads :
    /\ pc[t] = "idle" => path[t] = NoPath /\ dest[t] = NoPath
    /\ pc[t] # "idle" => path[t] \in Paths
    /\ pc[t] # "idle" /\ (meth[t] \in {"move", "copy"} \/ op[t] \in {"rename", "copy"})
         => dest[t] \in Paths

\* dav_destory starts when the workers are idle.
PhaseOK == phase # "mounted" => \A t \in Threads : pc[t] = "idle"

\* Until the heap is corrupted, every record of the tree is live, is filed under
\* its own path and has the token of the LOCK answer.
TreeLive ==
  ~fault => \A p \in Paths : tree[p] # NoObj =>
    /\ heap[tree[p]] \in Record
    /\ heap[tree[p]].path = p
    /\ heap[tree[p]].token \in Tokens

\* The record dav_lock is about to insert is not in the tree, and is the one it
\* has allocated, unless a dangling pointer of another thread has freed it.
NewRecord ==
  \A t \in Threads : pc[t] = "req" /\ meth[t] = "lock" =>
    /\ fl[t] \in Objs /\ tree[path[t]] # fl[t]
    /\ heap[fl[t]] # Freed => heap[fl[t]].path = path[t]

\* The guarantee of the rwlock.
RwExclusive == wrHold # NoThread => \A t \in Threads : rdHold[t] = 0

Inv ==
  /\ TypeOK /\ ControlOK /\ PhaseOK /\ TreeLive /\ RwExclusive
  /\ RequestsHoldLock /\ HeaderCurrent /\ NewRecord

-----------------------------------------------------------------------------
(* Control. Every handler step is a Goto, a Return or an Advance of one    *)
(* thread.                                                                 *)

ThreadType ==
  /\ nopen \in [Paths -> Nat]
  /\ op \in [Threads -> AllOps \cup {"none"}]
  /\ meth \in [Threads -> Methods \cup {"none"}]
  /\ pc \in [Threads -> {"idle", "start", "wr", "req"}]
  /\ path \in [Threads -> Paths \cup {NoPath}]
  /\ dest \in [Threads -> Paths \cup {NoPath}]
  /\ ex \in [Threads -> ExKinds]
  /\ errs \in BOOLEAN

\* Only thread t takes a step of its control.
Alone(t) ==
  \A u \in Threads \ {t} :
    /\ pc'[u] = pc[u] /\ meth'[u] = meth[u]
    /\ path'[u] = path[u] /\ dest'[u] = dest[u]

\* Thread t leaves its request: it returns or begins the next method.
Leaves(t) ==
  /\ Alone(t)
  /\ \/ pc'[t] = "idle" /\ path'[t] = NoPath /\ dest'[t] = NoPath
     \/ pc'[t] = "start" /\ path'[t] = path[t] /\ dest'[t] = dest[t]

\* A handler that returns keeps the types and the control invariant.
LEMMA ReturnStep ==
  ASSUME NEW t \in Threads, NEW r, NEW e \in ExKinds,
         ThreadType, ControlOK, pc[t] # "idle", Return(t, r, e)
  PROVE  ThreadType' /\ ControlOK' /\ Leaves(t) /\ pc'[t] = "idle"
<1>1. path[t] \in Paths
  BY DEF ControlOK
<1>2. nopen' \in [Paths -> Nat]
  <2>1. CASE r = "ok" /\ op[t] \in OpenOps
    BY <2>1, <1>1 DEF Return, ThreadType, OpenOps
  <2>2. CASE r = "ok" /\ op[t] = "rename"
    BY <2>2, <1>1 DEF Return, ThreadType, OpenOps
  <2>3. CASE ~(r = "ok" /\ op[t] \in OpenOps) /\ ~(r = "ok" /\ op[t] = "rename")
    BY <2>3 DEF Return, ThreadType
  <2> QED BY <2>1, <2>2, <2>3
<1>3. errs' \in BOOLEAN
  BY DEF Return
<1>4. ThreadType'
  BY <1>2, <1>3 DEF Return, ThreadType
<1>5. ControlOK'
  BY DEF Return, ThreadType, ControlOK
<1>6. Leaves(t) /\ pc'[t] = "idle"
  BY DEF Return, ThreadType, Leaves, Alone
<1> QED BY <1>4, <1>5, <1>6

\* Going to a step of a method keeps them too.
LEMMA GotoStep ==
  ASSUME NEW t \in Threads, NEW m \in Methods, NEW s \in {"start", "wr", "req"},
         ThreadType, ControlOK, pc[t] # "idle", Goto(t, m, s),
         m \in {"move", "copy"} => m = meth[t] \/ op[t] = "copy"
  PROVE  /\ ThreadType' /\ ControlOK' /\ Alone(t)
         /\ pc'[t] = s /\ meth'[t] = m /\ path' = path /\ dest' = dest
<1>1. ThreadType'
  BY DEF Goto, ThreadType
<1>2. ControlOK'
  BY DEF Goto, ThreadType, ControlOK
<1>3. Alone(t) /\ pc'[t] = s /\ meth'[t] = m /\ path' = path /\ dest' = dest
  BY DEF Goto, ThreadType, Alone
<1> QED BY <1>1, <1>2, <1>3

\* The next method has no second path, unless the operation is a copy.
LEMMA NextMethodType ==
  ASSUME NEW o, NEW m
  PROVE  /\ NextMethod(o, m) \in (Methods \ {"move"}) \cup {"end"}
         /\ NextMethod(o, m) = "copy" => o = "copy"
BY DEF NextMethod, Methods, Guarded, Puts, Simple

LEMMA AdvanceStep ==
  ASSUME NEW t \in Threads, ThreadType, ControlOK, pc[t] # "idle", Advance(t)
  PROVE  ThreadType' /\ ControlOK' /\ Leaves(t)
<1> DEFINE m == NextMethod(op[t], meth[t])
<1>1. m \in (Methods \ {"move"}) \cup {"end"} /\ (m = "copy" => op[t] = "copy")
  BY NextMethodType
<1>2. CASE m = "end"
  <2>1. Return(t, "ok", ex[t]) /\ ex[t] \in ExKinds
    BY <1>2 DEF Advance, ThreadType
  <2> QED BY <2>1, ReturnStep
<1>3. CASE m # "end"
  <2>1. Goto(t, m, "start") /\ m \in Methods
    BY <1>1, <1>3 DEF Advance
  <2>2. m \in {"move", "copy"} => op[t] = "copy"
    BY <1>1
  <2> HIDE DEF m
  <2>3. ThreadType' /\ ControlOK' /\ Alone(t) /\ pc'[t] = "start"
        /\ path' = path /\ dest' = dest
    BY <2>1, <2>2, GotoStep
  <2> QED BY <2>3 DEF Leaves
<1> QED BY <1>2, <1>3

LEMMA FailStep ==
  ASSUME NEW t \in Threads, ThreadType, ControlOK, pc[t] # "idle", Fail(t)
  PROVE  ThreadType' /\ ControlOK' /\ Leaves(t) /\ pc'[t] = "idle"
BY ReturnStep DEF Fail, ExKinds

-----------------------------------------------------------------------------
(* The rwlock.                                                             *)

RwType == rdHold \in [Threads -> Nat] /\ wrHold \in Threads \cup {NoThread}

\* No thread but t loses its hold.
KeepsHolds(t) ==
  \A u \in Threads \ {t} : rdHold'[u] = rdHold[u] /\ (wrHold = u => wrHold' = u)

LEMMA RdLockStep ==
  ASSUME NEW t \in Threads, RwType, RwExclusive, RdLock(t)
  PROVE  RwType' /\ RwExclusive' /\ KeepsHolds(t) /\ rdHold'[t] > 0
BY DEF RdLock, RdFree, RwType, RwExclusive, KeepsHolds

LEMMA WrLockStep ==
  ASSUME NEW t \in Threads, RwType, RwExclusive, WrLock(t)
  PROVE  RwType' /\ RwExclusive' /\ KeepsHolds(t) /\ wrHold' = t
BY ConstantsAssumption DEF WrLock, WrFree, RwType, RwExclusive, KeepsHolds

LEMMA RwUnlockStep ==
  ASSUME NEW t \in Threads, RwType, RwExclusive, rdHold[t] > 0 \/ wrHold = t,
         RwUnlock(t)
  PROVE  RwType' /\ RwExclusive' /\ KeepsHolds(t)
BY ConstantsAssumption DEF RwUnlock, RwType, RwExclusive, KeepsHolds

\* Whoever holds or can take the write lock is alone: no other thread is in the
\* middle of a request made under the lock.
LEMMA WriterAlone ==
  ASSUME NEW t \in Threads, NEW u \in Threads \ {t}, RwType, RwExclusive,
         RequestsHoldLock, wrHold = t \/ WrFree, pc[u] = "req",
         meth[u] \in Guarded \cup {"lock"}
  PROVE  FALSE
BY ConstantsAssumption DEF RwType, RwExclusive, RequestsHoldLock, WrFree

-----------------------------------------------------------------------------
(* What is left of the invariant.                                          *)

TableType ==
  /\ tree \in [Paths -> Objs \cup {NoObj}]
  /\ heap \in [Objs -> Record \cup {Freed}]
  /\ fl \in [Threads -> Objs \cup {NoObj}]
  /\ fault \in BOOLEAN

NetType ==
  /\ srvLock \in [Paths -> Tokens \cup {NoTok}]
  /\ hdr \in [Threads -> SUBSET Tokens]

MountType ==
  mainEx \in BOOLEAN /\ phase \in {"mounted", "destroy", "down"} /\ missed \in BOOLEAN

LEMMA TypeParts ==
  TypeOK <=> ThreadType /\ RwType /\ TableType /\ NetType /\ MountType
BY DEF TypeOK, ThreadType, RwType, TableType, NetType, MountType

\* The header of no PUT or COPY in flight in another thread becomes stale.
KeepsTokens(t) ==
  \A u \in Threads \ {t} :
    pc[u] = "req" /\ meth[u] \in Puts \cup {"copy"} =>
      Token(HeaderPath(u))' = Token(HeaderPath(u))

\* Nor is the new record of another thread replaced.
KeepsRecords(t) ==
  \A u \in Threads \ {t} :
    pc[u] = "req" /\ meth[u] = "lock" =>
      /\ fl'[u] = fl[u] /\ tree'[path[u]] \in {tree[path[u]], NoObj}
      /\ heap'[fl[u]] # Freed => heap[fl[u]] # Freed /\ heap'[fl[u]].path = heap[fl[u]].path

KeepsHeaders(t) == \A u \in Threads \ {t} : hdr'[u] = hdr[u]

\* What thread t owes if the step leaves it waiting for an answer.
OwnRequest(t) ==
  pc'[t] = "req" =>
    /\ meth'[t] \in Guarded \cup {"lock"} => rdHold'[t] > 0 \/ wrHold' = t
    /\ meth'[t] \in {"lock", "delete"} => wrHold' = t
    /\ meth'[t] \in Puts \cup {"copy"} => hdr'[t] = Token(HeaderPath(t))'
    /\ meth'[t] = "lock" =>
         /\ fl'[t] \in Objs /\ tree'[path'[t]] # fl'[t]
         /\ heap'[fl'[t]] # Freed => heap'[fl'[t]].path = path'[t]

\* The part of the invariant that concerns the control of all threads follows
\* from what the step does to its own thread.
LEMMA StepInv ==
  ASSUME NEW t \in Threads, Inv, ~fault, pc[t] # "idle",
         ThreadType', ControlOK', Alone(t),
         RwType', RwExclusive', KeepsHolds(t),
         TableType', TreeLive', KeepsTokens(t), KeepsRecords(t),
         NetType', KeepsHeaders(t), UNCHANGED mountVars, missed' \in BOOLEAN,
         OwnRequest(t)
  PROVE  Inv'
<1>1. TypeOK'
  <2>1. MountType'
    BY TypeParts DEF Inv, MountType, mountVars
  <2> QED BY <2>1 DEF TypeOK, ThreadType, RwType, TableType, NetType, MountType
<1>2. PhaseOK'
  BY DEF Inv, PhaseOK, mountVars
<1>3. RequestsHoldLock'
  BY DEF Inv, RequestsHoldLock, OwnRequest, Alone, KeepsHolds
<1>4. HeaderCurrent'
  <2> SUFFICES ASSUME NEW u \in Threads, pc'[u] = "req",
                      meth'[u] \in Puts \cup {"copy"}
               PROVE  hdr'[u] = Token(HeaderPath(u))'
    BY DEF HeaderCurrent
  <2>1. CASE u = t
    BY <2>1 DEF OwnRequest
  <2>2. CASE u # t
    <3>1. pc[u] = "req" /\ meth[u] \in Puts \cup {"copy"}
      BY <2>2 DEF Alone
    <3>2. hdr[u] = Token(HeaderPath(u))
      BY <3>1 DEF Inv, HeaderCurrent
    <3> QED BY <2>2, <3>1, <3>2 DEF KeepsTokens, KeepsHeaders
  <2> QED BY <2>1, <2>2
<1>5. NewRecord'
  BY ConstantsAssumption DEF Inv, NewRecord, OwnRequest, KeepsRecords, Alone
<1> QED BY <1>1, <1>2, <1>3, <1>4, <1>5 DEF Inv

\* A step that leaves the table alone.
LEMMA SameTable ==
  ASSUME NEW t \in Threads, TableType, TreeLive, Alone(t), UNCHANGED tableVars
  PROVE  TableType' /\ TreeLive' /\ KeepsTokens(t) /\ KeepsRecords(t)
<1>1. TableType' /\ TreeLive'
  BY DEF TableType, TreeLive, tableVars
<1>2. KeepsTokens(t)
  BY DEF KeepsTokens, Token, HeaderPath, Alone, tableVars
<1>3. KeepsRecords(t)
  BY DEF KeepsRecords, tableVars
<1> QED BY <1>1, <1>2, <1>3

\* A token read by __dav_header_if is one of the server's.
LEMMA TokenType ==
  ASSUME TableType, TreeLive, ~fault, NEW p \in Paths
  PROVE  Token(p) \in SUBSET Tokens
BY DEF TableType, TreeLive, Token

\* Changing the count of a record of the tree.
LEMMA CountStep ==
  ASSUME NEW t \in Threads, NEW p \in Paths, NEW c \in Int, TableType, TreeLive, ~fault,
         ControlOK, Alone(t), tree[p] # NoObj,
         heap' = [heap EXCEPT ![tree[p]].cnt = c],
         UNCHANGED <<tree, fault>>, fl' \in [Threads -> Objs \cup {NoObj}],
         \A u \in Threads \ {t} : fl'[u] = fl[u], NewRecord
  PROVE  TableType' /\ TreeLive' /\ KeepsTokens(t) /\ KeepsRecords(t)
<1>1. tree[p] \in Objs /\ heap[tree[p]] \in Record
  BY DEF TableType, TreeLive
<1>2. heap' \in [Objs -> Record \cup {Freed}]
  BY <1>1 DEF TableType, Record
<1>3. \A q \in Paths : tree[q] # NoObj =>
        /\ heap'[tree[q]] \in Record
        /\ heap'[tree[q]].token = heap[tree[q]].token
        /\ heap'[tree[q]].path = heap[tree[q]].path
  BY <1>1 DEF TableType, TreeLive, Record
<1>4. TableType' /\ TreeLive'
  BY <1>2, <1>3 DEF TableType, TreeLive
<1>5. KeepsTokens(t)
  <2> SUFFICES ASSUME NEW u \in Threads \ {t}, pc[u] = "req",
                      meth[u] \in Puts \cup {"copy"}
               PROVE  Token(HeaderPath(u))' = Token(HeaderPath(u))
    BY DEF KeepsTokens
  <2>1. HeaderPath(u) \in Paths /\ HeaderPath(u)' = HeaderPath(u)
    BY DEF ControlOK, HeaderPath, Alone
  <2> QED BY <2>1, <1>3 DEF Token
<1>6. \A o \in Objs : heap'[o] # Freed => heap[o] # Freed /\ heap'[o].path = heap[o].path
  BY <1>1, ConstantsAssumption DEF TableType, Record
<1>7. KeepsRecords(t)
  BY <1>6 DEF KeepsRecords, NewRecord
<1> QED BY <1>4, <1>5, <1>7

\* A step of a thread that holds, or takes, the write lock disturbs no header.
LEMMA WriterKeepsTokens ==
  ASSUME NEW t \in Threads, RwType, RwExclusive, RequestsHoldLock,
         wrHold = t \/ WrFree
  PROVE  KeepsTokens(t) /\ KeepsRecords(t)
BY WriterAlone DEF KeepsTokens, KeepsRecords, Guarded

\* __dav_header_if with RW_LOCK_WRITE keeps the rest of the tree live.
LEMMA DropStep ==
  ASSUME TableType, TreeLive, ~fault, NEW p \in Paths, DropRecord(p), UNCHANGED <<fl, fault>>
  PROVE  TableType' /\ TreeLive'
<1>1. CASE tree[p] = NoObj
  BY <1>1 DEF DropRecord, TableType, TreeLive
<1>2. CASE tree[p] # NoObj
  <2>1. tree' = [tree EXCEPT ![p] = NoObj] /\ heap' = [heap EXCEPT ![tree[p]] = Freed]
    BY <1>2 DEF DropRecord
  <2>2. tree[p] \in Objs /\ heap[tree[p]].path = p
    BY <1>2 DEF TableType, TreeLive
  <2>3. \A q \in Paths \ {p} : tree[q] # NoObj => tree[q] \in Objs /\ tree[q] # tree[p]
    BY <2>2 DEF TableType, TreeLive
  <2>4. TableType'
    BY <2>1, <2>2 DEF TableType
  <2>5. TreeLive'
    BY <2>1, <2>2, <2>3 DEF TableType, TreeLive
  <2> QED BY <2>4, <2>5
<1> QED BY <1>1, <1>2

-----------------------------------------------------------------------------
(* The steps of a thread preserve the invariant.                           *)

\* Simple requests: only the control of the thread changes.
LEMMA PassiveStep ==
  ASSUME NEW t \in Threads, Inv, ~fault, pc[t] # "idle",
         ThreadType', ControlOK', Leaves(t),
         UNCHANGED <<tableVars, rwVars, srvLock, hdr, mountVars, missed>>
  PROVE  Inv'
<1>1. RwType' /\ RwExclusive' /\ KeepsHolds(t)
  BY TypeParts DEF Inv, RwType, RwExclusive, KeepsHolds, rwVars
<1>2. NetType' /\ KeepsHeaders(t) /\ missed' \in BOOLEAN
  BY TypeParts DEF Inv, NetType, MountType, KeepsHeaders
<1>3. TableType' /\ TreeLive' /\ KeepsTokens(t) /\ KeepsRecords(t)
  BY TypeParts, SameTable DEF Inv, Leaves
<1>4. OwnRequest(t) /\ Alone(t)
  BY DEF OwnRequest, Leaves
<1> QED BY <1>1, <1>2, <1>3, <1>4, StepInv

LEMMA SimpleSteps ==
  ASSUME NEW t \in Threads, Inv,
         StaleFail(t) \/ StaleHead(t) \/ SimpleOk(t) \/ SimpleError(t)
  PROVE  Inv'
<1>1. ThreadType /\ ControlOK
  BY TypeParts DEF Inv
<1>2. ~fault /\ pc[t] = "start"
  BY DEF StaleFail, StaleHead, SimpleOk, SimpleError, At
<1>3. UNCHANGED <<tableVars, rwVars, srvLock, hdr, mountVars, missed>>
  BY DEF StaleFail, StaleHead, SimpleOk, SimpleError
<1>4. ThreadType' /\ ControlOK' /\ Leaves(t)
  <2>1. CASE StaleFail(t) \/ SimpleError(t)
    BY <2>1, <1>1, <1>2, FailStep DEF StaleFail, SimpleError
  <2>2. CASE StaleHead(t)
    <3>1. ThreadType'
      BY <2>2, <1>1 DEF StaleHead, ThreadType, ExKinds, Methods, Guarded, Puts
    <3>2. ControlOK'
      BY <2>2, <1>1 DEF StaleHead, ThreadType, ControlOK
    <3>3. Leaves(t)
      BY <2>2, <1>1, <1>2 DEF StaleHead, ThreadType, Leaves, Alone
    <3> QED BY <3>1, <3>2, <3>3
  <2>3. CASE SimpleOk(t)
    <3>1. CASE Advance(t)
      BY <3>1, <1>1, <1>2, AdvanceStep
    <3>2. CASE Goto(t, "lock", "start") \/ Goto(t, "put2", "start")
      <4>1. PICK m \in {"lock", "put2"} : Goto(t, m, "start")
        BY <3>2
      <4>2. m \in Methods /\ m \notin {"move", "copy"}
        BY DEF Methods, Guarded, Puts
      <4>3. ThreadType' /\ ControlOK' /\ Alone(t) /\ pc'[t] = "start"
            /\ path' = path /\ dest' = dest
        BY <4>1, <4>2, <1>1, <1>2, GotoStep
      <4> QED BY <4>3 DEF Leaves
    <3>3. CASE Return(t, "ok", "none") \/ Return(t, "exists", "none")
      <4>1. "none" \in ExKinds
        BY DEF ExKinds
      <4> QED BY <3>3, <4>1, <1>1, <1>2, ReturnStep
    <3> QED BY <2>3, <3>1, <3>2, <3>3 DEF SimpleOk
  <2> QED BY <2>1, <2>2, <2>3
<1> QED BY <1>1, <1>2, <1>3, <1>4, PassiveStep

\* dav_put and dav_copy take the read lock and the header.
LEMMA PutStartStep ==
  ASSUME NEW t \in Threads, Inv, PutStart(t)
  PROVE  Inv'
<1>1. /\ ThreadType /\ ControlOK /\ RwType /\ RwExclusive /\ TableType /\ TreeLive
      /\ NetType /\ MountType /\ ~fault /\ pc[t] = "start"
      /\ meth[t] \in Puts \cup {"copy"} /\ Goto(t, meth[t], "req") /\ meth[t] \in Methods
  BY TypeParts DEF Inv, PutStart, Methods, Guarded
<1>2. /\ ThreadType' /\ ControlOK' /\ Alone(t) /\ pc'[t] = "req" /\ meth'[t] = meth[t]
      /\ path' = path /\ dest' = dest
  BY <1>1, GotoStep
<1>3. RwType' /\ RwExclusive' /\ KeepsHolds(t) /\ rdHold'[t] > 0
  BY <1>1, RdLockStep DEF PutStart
<1>4. TableType' /\ TreeLive' /\ KeepsTokens(t) /\ KeepsRecords(t)
  BY <1>1, <1>2, SameTable DEF PutStart
<1>5. HeaderPath(t) \in Paths /\ Token(HeaderPath(t)) \in SUBSET Tokens
  BY <1>1, TokenType DEF ControlOK, HeaderPath
<1>6. NetType' /\ KeepsHeaders(t) /\ hdr'[t] = Token(HeaderPath(t))
  BY <1>1, <1>5 DEF PutStart, NetType, KeepsHeaders
<1>7. Token(HeaderPath(t))' = Token(HeaderPath(t))
  BY <1>2 DEF PutStart, tableVars, Token, HeaderPath
<1>8. OwnRequest(t)
  BY <1>1, <1>2, <1>3, <1>6, <1>7 DEF OwnRequest, Puts
<1>9. UNCHANGED mountVars /\ missed' \in BOOLEAN
  BY <1>1 DEF PutStart, MountType
<1> QED BY <1>1, <1>2, <1>3, <1>4, <1>6, <1>8, <1>9, StepInv

\* DELETE, and MOVE of a locked file, take the write lock and drop the record.
LEMMA DropStartStep ==
  ASSUME NEW t \in Threads, Inv, DeleteStart(t) \/ MoveWr(t)
  PROVE  Inv'
<1>1. /\ ThreadType /\ ControlOK /\ RwType /\ RwExclusive /\ TableType /\ TreeLive
      /\ NetType /\ MountType /\ RequestsHoldLock /\ ~fault /\ pc[t] \in {"start", "wr"}
      /\ meth[t] \in {"delete", "move"} /\ Goto(t, meth[t], "req") /\ WrLock(t)
      /\ DropRecord(path[t]) /\ UNCHANGED <<fl, fault, srvLock, mountVars, missed>>
  BY TypeParts DEF Inv, DeleteStart, MoveWr, At
<1>2. /\ ThreadType' /\ ControlOK' /\ Alone(t) /\ pc'[t] = "req" /\ meth'[t] = meth[t]
  <2>1. meth[t] \in Methods
    BY <1>1 DEF Methods, Guarded
  <2> QED BY <2>1, <1>1, GotoStep
<1>3. RwType' /\ RwExclusive' /\ KeepsHolds(t) /\ wrHold' = t
  BY <1>1, WrLockStep
<1>4. path[t] \in Paths /\ (meth[t] = "move" => dest[t] \in Paths)
  BY <1>1 DEF ControlOK
<1>5. TableType' /\ TreeLive'
  BY <1>1, <1>4, DropStep
<1>6. KeepsTokens(t) /\ KeepsRecords(t)
  BY <1>1, WriterKeepsTokens DEF WrLock
<1>7. NetType' /\ KeepsHeaders(t)
  <2>1. Token(path[t]) \in SUBSET Tokens /\ (meth[t] = "move" => Token(dest[t]) \in SUBSET Tokens)
    BY <1>1, <1>4, TokenType
  <2>2. PICK h \in SUBSET Tokens : hdr' = [hdr EXCEPT ![t] = h]
    BY <2>1 DEF DeleteStart, MoveWr, At
  <2> QED BY <2>2, <1>1 DEF NetType, KeepsHeaders
<1>8. OwnRequest(t)
  BY <1>1, <1>2, <1>3 DEF OwnRequest, Puts
<1>9. UNCHANGED mountVars /\ missed' \in BOOLEAN
  BY <1>1 DEF MountType
<1> QED BY <1>1, <1>2, <1>3, <1>5, <1>6, <1>7, <1>8, <1>9, StepInv

LEMMA MoveStartStep ==
  ASSUME NEW t \in Threads, Inv, MoveStart(t)
  PROVE  Inv'
<1>1. /\ ThreadType /\ ControlOK /\ RwType /\ RwExclusive /\ TableType /\ TreeLive
      /\ NetType /\ MountType /\ ~fault /\ pc[t] = "start" /\ meth[t] = "move"
      /\ UNCHANGED <<tableVars, srvLock, mountVars, missed>> /\ meth[t] \in Methods
  BY TypeParts DEF Inv, MoveStart, At, Methods, Guarded
<1>2. PICK s \in {"wr", "req"} : Goto(t, "move", s)
  BY DEF MoveStart
<1>3. /\ ThreadType' /\ ControlOK' /\ Alone(t) /\ pc'[t] = s /\ meth'[t] = "move"
  BY <1>1, <1>2, GotoStep
<1>4. /\ RwType' /\ RwExclusive' /\ KeepsHolds(t) /\ (s = "req" => rdHold'[t] > 0)
  <2>1. CASE RdLock(t)
    BY <2>1, <1>1, RdLockStep
  <2>2. CASE Goto(t, "move", "wr") /\ UNCHANGED rwVars
    <3>1. s = "wr"
      BY <2>2, <1>1, <1>3 DEF Goto, ThreadType
    <3> QED BY <3>1, <2>2, <1>1 DEF rwVars, RwType, RwExclusive, KeepsHolds
  <2> QED BY <2>1, <2>2 DEF MoveStart
<1>5. NetType' /\ KeepsHeaders(t)
  <2>1. Token(dest[t]) \in SUBSET Tokens
    BY <1>1, TokenType DEF ControlOK
  <2>2. hdr' = hdr \/ hdr' = [hdr EXCEPT ![t] = Token(dest[t])]
    BY DEF MoveStart
  <2> QED BY <2>1, <2>2, <1>1 DEF NetType, KeepsHeaders
<1>6. TableType' /\ TreeLive' /\ KeepsTokens(t) /\ KeepsRecords(t)
  BY <1>1, <1>3, SameTable
<1>7. OwnRequest(t)
  BY <1>3, <1>4 DEF OwnRequest, Puts
<1>8. UNCHANGED mountVars /\ missed' \in BOOLEAN
  BY <1>1 DEF MountType
<1> QED BY <1>1, <1>3, <1>4, <1>5, <1>6, <1>7, <1>8, StepInv

\* The answers to the requests made under the lock, and the failure to make one.
LEMMA RequestSteps ==
  ASSUME NEW t \in Threads, Inv,
         HeaderOom(t) \/ RequestOk(t) \/ RequestError(t) \/ Request416(t)
  PROVE  Inv'
<1>1. /\ ThreadType /\ ControlOK /\ RwType /\ RwExclusive /\ TableType /\ TreeLive
      /\ NetType /\ MountType /\ RequestsHoldLock
  BY TypeParts DEF Inv
<1>2. /\ ~fault /\ pc[t] # "idle" /\ UNCHANGED <<tableVars, mountVars, missed>>
  BY DEF HeaderOom, RequestOk, RequestError, Request416, At
<1>3. ThreadType' /\ ControlOK' /\ Leaves(t)
  <2>1. CASE Fail(t)
    BY <2>1, <1>1, <1>2, FailStep
  <2>2. CASE Advance(t)
    BY <2>2, <1>1, <1>2, AdvanceStep
  <2>3. CASE Goto(t, "padhead", "start")
    <3>1. "padhead" \in Methods
      BY DEF Methods, Simple
    <3>2. ThreadType' /\ ControlOK' /\ Alone(t) /\ pc'[t] = "start"
          /\ path' = path /\ dest' = dest
      BY <2>3, <3>1, <1>1, <1>2, GotoStep
    <3> QED BY <3>2 DEF Leaves
  <2> QED BY <2>1, <2>2, <2>3 DEF HeaderOom, RequestOk, RequestError, Request416
<1>4. RwType' /\ RwExclusive' /\ KeepsHolds(t)
  <2>1. CASE RdLock(t)
    BY <2>1, <1>1, RdLockStep
  <2>2. CASE WrLock(t)
    BY <2>2, <1>1, WrLockStep
  <2>3. CASE RequestOk(t)
    <3>1. rdHold[t] > 0 \/ wrHold = t
      BY <2>3, <1>1 DEF RequestOk, RequestsHoldLock
    <3> QED BY <3>1, <2>3, <1>1, RwUnlockStep DEF RequestOk
  <2>4. CASE UNCHANGED rwVars
    BY <2>4, <1>1 DEF rwVars, RwType, RwExclusive, KeepsHolds
  <2> QED BY <2>1, <2>2, <2>3, <2>4 DEF HeaderOom, RequestError, Request416
<1>5. NetType' /\ KeepsHeaders(t)
  <2>1. srvLock' \in [Paths -> Tokens \cup {NoTok}]
    BY <1>1 DEF HeaderOom, RequestOk, RequestError, Request416, Effect, NetType
  <2>2. hdr' = hdr \/ hdr' = [hdr EXCEPT ![t] = {}]
    BY DEF HeaderOom, RequestOk, RequestError, Request416
  <2> QED BY <2>1, <2>2, <1>1 DEF NetType, KeepsHeaders
<1>6. TableType' /\ TreeLive' /\ KeepsTokens(t) /\ KeepsRecords(t)
  BY <1>1, <1>2, <1>3, SameTable DEF Leaves
<1>7. OwnRequest(t) /\ Alone(t)
  BY <1>3 DEF OwnRequest, Leaves
<1>8. UNCHANGED mountVars /\ missed' \in BOOLEAN
  BY <1>1, <1>2 DEF MountType
<1> QED BY <1>1, <1>2, <1>3, <1>4, <1>5, <1>6, <1>7, <1>8, StepInv

\* dav_lock up to its request.
LEMMA LockBeginSteps ==
  ASSUME NEW t \in Threads, Inv, LockRd(t) \/ LockWr(t)
  PROVE  Inv'
<1>1. /\ ThreadType /\ ControlOK /\ RwType /\ RwExclusive /\ TableType /\ TreeLive
      /\ NetType /\ MountType /\ RequestsHoldLock /\ NewRecord
  BY TypeParts DEF Inv
<1>2. /\ ~fault /\ pc[t] \in {"start", "wr"} /\ meth[t] = "lock" /\ path[t] \in Paths
      /\ UNCHANGED <<tree, fault, srvLock, hdr, mountVars, missed>>
  BY <1>1 DEF LockRd, LockWr, At, ControlOK
<1>3. NetType' /\ KeepsHeaders(t) /\ UNCHANGED mountVars /\ missed' \in BOOLEAN
  BY <1>1, <1>2 DEF NetType, KeepsHeaders, MountType
<1>4. "lock" \in Methods
  BY DEF Methods
<1>5. CASE tree[path[t]] # NoObj
  <2>1. Advance(t) /\ CountUp(tree[path[t]]) /\ UNCHANGED <<fl, rwVars>>
    BY <1>5 DEF LockRd, LockWr
  <2>2. ThreadType' /\ ControlOK' /\ Leaves(t)
    BY <2>1, <1>1, <1>2, AdvanceStep
  <2>3. TableType' /\ TreeLive' /\ KeepsTokens(t) /\ KeepsRecords(t)
    <3>1. heap[tree[path[t]]].cnt + 1 \in Int
      BY <1>1, <1>2, <1>5 DEF TreeLive, Record
    <3>2. heap' = [heap EXCEPT ![tree[path[t]]].cnt = heap[tree[path[t]]].cnt + 1]
      BY <2>1 DEF CountUp
    <3>3. fl' \in [Threads -> Objs \cup {NoObj}] /\ \A u \in Threads \ {t} : fl'[u] = fl[u]
      BY <2>1, <1>1 DEF TableType
    <3> HIDE DEF CountUp
    <3> QED BY <3>1, <3>2, <3>3, <2>2, <1>1, <1>2, <1>5, CountStep DEF Leaves
  <2>4. RwType' /\ RwExclusive' /\ KeepsHolds(t)
    BY <2>1, <1>1 DEF rwVars, RwType, RwExclusive, KeepsHolds
  <2>5. OwnRequest(t) /\ Alone(t)
    BY <2>2 DEF OwnRequest, Leaves
  <2> QED BY <1>2, <1>3, <2>2, <2>3, <2>4, <2>5, StepInv
<1>6. CASE LockRd(t) /\ tree[path[t]] = NoObj
  <2>1. UNCHANGED tableVars /\ UNCHANGED rwVars /\ (Goto(t, "lock", "wr") \/ Fail(t))
    BY <1>6 DEF LockRd, tableVars
  <2>2. ThreadType' /\ ControlOK' /\ Alone(t) /\ pc'[t] # "req"
    <3>1. CASE Goto(t, "lock", "wr")
      <4>1. ThreadType' /\ ControlOK' /\ Alone(t) /\ pc'[t] = "wr"
        BY <3>1, <1>1, <1>2, <1>4, GotoStep
      <4> QED BY <4>1
    <3>2. CASE Fail(t)
      <4>1. ThreadType' /\ ControlOK' /\ Leaves(t) /\ pc'[t] = "idle"
        BY <3>2, <1>1, <1>2, FailStep
      <4> QED BY <4>1 DEF Leaves
    <3> QED BY <2>1, <3>1, <3>2
  <2>3. TableType' /\ TreeLive' /\ KeepsTokens(t) /\ KeepsRecords(t)
    BY <2>1, <2>2, <1>1, SameTable
  <2>4. RwType' /\ RwExclusive' /\ KeepsHolds(t)
    BY <2>1, <1>1 DEF rwVars, RwType, RwExclusive, KeepsHolds
  <2>5. OwnRequest(t)
    BY <2>2 DEF OwnRequest
  <2> QED BY <1>2, <1>3, <2>2, <2>3, <2>4, <2>5, StepInv
<1>7. CASE LockWr(t) /\ tree[path[t]] = NoObj
  <2>1. PICK o \in Objs :
          /\ heap[o] = Freed
          /\ heap' = [heap EXCEPT ![o] = [path |-> path[t], token |-> NoTok, cnt |-> 1]]
          /\ fl' = [fl EXCEPT ![t] = o]
    BY <1>7 DEF LockWr, NewFileLock
  <2>2. WrLock(t) /\ Goto(t, "lock", "req") /\ WrFree
    BY <1>7 DEF LockWr, NewFileLock
  <2>3. /\ ThreadType' /\ ControlOK' /\ Alone(t)
        /\ pc'[t] = "req" /\ meth'[t] = "lock" /\ path' = path
    BY <2>2, <1>1, <1>2, <1>4, GotoStep
  <2>4. RwType' /\ RwExclusive' /\ KeepsHolds(t) /\ wrHold' = t
    BY <2>2, <1>1, WrLockStep
  <2>5. KeepsTokens(t) /\ KeepsRecords(t)
    BY <2>2, <1>1, WriterKeepsTokens
  <2>6. heap'[o] \in Record /\ heap'[o].path = path[t]
    BY <2>1, <1>1, <1>2 DEF TableType, Record
  <2>7. TableType'
    BY <2>1, <2>6, <1>1, <1>2 DEF TableType
  <2>8. \A p \in Paths : tree[p] # NoObj => tree[p] \in Objs /\ tree[p] # o
    BY <2>1, <1>1, <1>2, ConstantsAssumption DEF TableType, TreeLive, Record
  <2>9. TreeLive'
    BY <2>1, <2>8, <1>1, <1>2 DEF TableType, TreeLive
  <2>10. fl'[t] = o
    BY <2>1, <1>1 DEF TableType
  <2>11. OwnRequest(t)
    BY <2>3, <2>4, <2>6, <2>10, <1>2, <1>7, ConstantsAssumption DEF OwnRequest, Puts
  <2> QED BY <1>2, <1>3, <2>3, <2>4, <2>5, <2>7, <2>9, <2>11, StepInv
<1> QED BY <1>5, <1>6, <1>7

\* The answer to LOCK.
LEMMA LockEndSteps ==
  ASSUME NEW t \in Threads, Inv, LockOk(t) \/ LockError(t)
  PROVE  Inv'
<1>1. /\ ThreadType /\ ControlOK /\ RwType /\ RwExclusive /\ TableType /\ TreeLive
      /\ NetType /\ MountType /\ RequestsHoldLock /\ NewRecord
  BY TypeParts DEF Inv
<1>2. /\ ~fault /\ pc[t] = "req" /\ meth[t] = "lock" /\ path[t] \in Paths
      /\ heap[fl[t]] # Freed /\ fl' = [fl EXCEPT ![t] = NoObj] /\ RwUnlock(t)
      /\ UNCHANGED <<fault, hdr, mountVars, missed>>
  BY <1>1 DEF LockOk, LockError, At, ControlOK
<1>3. /\ wrHold = t /\ fl[t] \in Objs /\ heap[fl[t]] \in Record
      /\ heap[fl[t]].path = path[t]
  BY <1>1, <1>2 DEF RequestsHoldLock, NewRecord, TableType
<1>4. ThreadType' /\ ControlOK' /\ Leaves(t)
  BY <1>1, <1>2, AdvanceStep, FailStep DEF LockOk, LockError
<1>5. RwType' /\ RwExclusive' /\ KeepsHolds(t)
  BY <1>1, <1>2, <1>3, RwUnlockStep
<1>6. KeepsTokens(t) /\ KeepsRecords(t)
  BY <1>1, <1>3, WriterKeepsTokens
<1>7. NetType' /\ KeepsHeaders(t) /\ UNCHANGED mountVars /\ missed' \in BOOLEAN
  BY <1>1, <1>2 DEF LockOk, LockError, NetType, KeepsHeaders, MountType
<1>8. TableType' /\ TreeLive'
  <2>1. CASE LockOk(t)
    <3>1. PICK tok \in Tokens : heap' = [heap EXCEPT ![fl[t]].token = tok]
      BY <2>1 DEF LockOk
    <3>2. tree' = [tree EXCEPT ![path[t]] = fl[t]]
      BY <2>1 DEF LockOk
    <3>3. /\ heap'[fl[t]] \in Record /\ heap'[fl[t]].token = tok
          /\ heap'[fl[t]].path = path[t]
      BY <3>1, <1>1, <1>3 DEF TableType, Record
    <3>4. \A o \in Objs \ {fl[t]} : heap'[o] = heap[o]
      BY <3>1, <1>1 DEF TableType
    <3>5. heap' \in [Objs -> Record \cup {Freed}]
      <4>1. heap' = [o \in Objs |-> heap'[o]]
        BY <3>1, <1>1 DEF TableType
      <4>2. \A o \in Objs : heap'[o] \in Record \cup {Freed}
        BY <3>3, <3>4, <1>1 DEF TableType
      <4> QED BY <4>1, <4>2
    <3>6. TableType'
      BY <3>2, <3>5, <1>1, <1>2, <1>3 DEF TableType
    <3>7. TreeLive'
      BY <3>2, <3>3, <3>4, <1>1, <1>2, <1>3 DEF TableType, TreeLive
    <3> QED BY <3>6, <3>7
  <2>2. CASE LockError(t)
    <3>1. heap' = [heap EXCEPT ![fl[t]] = Freed] /\ tree' = tree
      BY <2>2 DEF LockError
    <3>2. TableType'
      BY <3>1, <1>1, <1>2, <1>3 DEF TableType
    <3>3. \A p \in Paths : tree[p] # fl[t]
      BY <1>1, <1>2, <1>3, ConstantsAssumption DEF NewRecord, TreeLive
    <3>4. TreeLive'
      BY <3>1, <3>3, <1>1, <1>2, <1>3 DEF TableType, TreeLive
    <3> QED BY <3>2, <3>4
  <2> QED BY <2>1, <2>2
<1>9. OwnRequest(t) /\ Alone(t)
  BY <1>4 DEF OwnRequest, Leaves
<1> QED BY <1>2, <1>4, <1>5, <1>6, <1>7, <1>8, <1>9, StepInv

\* dav_unlock.
LEMMA UnlockSteps ==
  ASSUME NEW t \in Threads, Inv,
         UnlockRd(t) \/ UnlockWr(t) \/ UnlockReq(t) \/ UseAfterFree(t)
  PROVE  Inv'
<1>1. /\ ThreadType /\ ControlOK /\ RwType /\ RwExclusive /\ TableType /\ TreeLive
      /\ NetType /\ MountType /\ RequestsHoldLock /\ NewRecord
  BY TypeParts DEF Inv
<1>2. /\ ~fault /\ pc[t] # "idle" /\ path[t] \in Paths
      /\ UNCHANGED <<rwVars, hdr, mountVars>> /\ missed' \in BOOLEAN
  BY <1>1 DEF UnlockRd, UnlockWr, UnlockReq, UseAfterFree, At, ControlOK, MountType
<1>3. RwType' /\ RwExclusive' /\ KeepsHolds(t) /\ KeepsHeaders(t) /\ UNCHANGED mountVars
  BY <1>1, <1>2 DEF rwVars, RwType, RwExclusive, KeepsHolds, KeepsHeaders
<1>4. NetType'
  BY <1>1, <1>2 DEF UnlockRd, UnlockWr, UnlockReq, UseAfterFree, NetType
<1>5. "unlock" \in Methods /\ ExKinds = {"none", "unspecified", "curl"}
  BY DEF Methods, ExKinds
<1>6. CASE UnlockRd(t)
  <2>1. ThreadType' /\ ControlOK' /\ Alone(t) /\ pc'[t] # "req"
    <3>1. CASE Goto(t, "unlock", "wr")
      <4>1. ThreadType' /\ ControlOK' /\ Alone(t) /\ pc'[t] = "wr"
        BY <3>1, <1>1, <1>2, <1>5, GotoStep
      <4> QED BY <4>1
    <3>2. CASE Return(t, "ok", ex[t]) \/ Return(t, "ok", "unspecified")
      <4>1. PICK e \in ExKinds : Return(t, "ok", e)
        BY <3>2, <1>1, <1>5 DEF ThreadType
      <4>2. ThreadType' /\ ControlOK' /\ Leaves(t) /\ pc'[t] = "idle"
        BY <4>1, <1>1, <1>2, ReturnStep
      <4> QED BY <4>2 DEF Leaves
    <3> QED BY <1>6, <3>1, <3>2 DEF UnlockRd
  <2>2. TableType' /\ TreeLive' /\ KeepsTokens(t) /\ KeepsRecords(t)
    <3>1. CASE tree[path[t]] = NoObj
      <4>1. UNCHANGED tableVars
        BY <1>6, <3>1 DEF UnlockRd, tableVars
      <4> QED BY <4>1, <2>1, <1>1, SameTable
    <3>2. CASE tree[path[t]] # NoObj
      <4>1. heap[tree[path[t]]].cnt - 1 \in Int
        BY <1>1, <1>2, <3>2 DEF TreeLive, Record
      <4>2. heap' = [heap EXCEPT ![tree[path[t]]].cnt = heap[tree[path[t]]].cnt - 1]
        BY <1>6, <3>2 DEF UnlockRd
      <4>3. fl' = fl \/ fl' = [fl EXCEPT ![t] = tree[path[t]]]
        BY <1>6, <3>2 DEF UnlockRd
      <4>4. fl' \in [Threads -> Objs \cup {NoObj}] /\ \A u \in Threads \ {t} : fl'[u] = fl[u]
        BY <4>3, <1>1, <1>2 DEF TableType
      <4>5. UNCHANGED <<tree, fault>>
        BY <1>6 DEF UnlockRd
      <4> QED BY <4>1, <4>2, <4>4, <4>5, <2>1, <1>1, <1>2, <3>2, CountStep
    <3> QED BY <3>1, <3>2
  <2>3. OwnRequest(t)
    BY <2>1 DEF OwnRequest
  <2> QED BY <1>2, <1>3, <1>4, <2>1, <2>2, <2>3, StepInv
<1>7. CASE UnlockWr(t)
  <2>1. WrFree /\ Goto(t, "unlock", "req") /\ heap' = heap /\ fault' = fault
    BY <1>7 DEF UnlockWr
  <2>2. ThreadType' /\ ControlOK' /\ Alone(t) /\ meth'[t] = "unlock"
    BY <2>1, <1>1, <1>2, <1>5, GotoStep
  <2>3. KeepsTokens(t) /\ KeepsRecords(t)
    BY <2>1, <1>1, WriterKeepsTokens
  <2>4. \/ fl' = fl /\ tree' = tree
        \/ /\ fl' = [fl EXCEPT ![t] = tree[path[t]]]
           /\ tree' = [tree EXCEPT ![path[t]] = NoObj]
    BY <1>7 DEF UnlockWr
  <2>5. TableType' /\ TreeLive'
    BY <2>1, <2>4, <1>1, <1>2 DEF TableType, TreeLive
  <2>6. OwnRequest(t)
    BY <2>2 DEF OwnRequest, Guarded, Puts
  <2> QED BY <1>2, <1>3, <1>4, <2>2, <2>3, <2>5, <2>6, StepInv
<1>8. CASE UnlockReq(t)
  <2>1. PICK e \in ExKinds : Return(t, "ok", e)
    BY <1>8, <1>1, <1>5 DEF UnlockReq, ThreadType
  <2>2. ThreadType' /\ ControlOK' /\ Leaves(t) /\ pc'[t] = "idle"
    BY <2>1, <1>1, <1>2, ReturnStep
  <2>3. /\ heap' = [heap EXCEPT ![fl[t]] = Freed] /\ tree' = tree
        /\ fault' = (\E p \in Paths : tree[p] = fl[t])
        /\ fl' = [fl EXCEPT ![t] = NoObj]
    BY <1>8 DEF UnlockReq, FreeRecord
  <2>4. TableType'
    BY <2>3, <1>1 DEF TableType
  <2>5. ~fault' => \A p \in Paths : tree[p] # NoObj => heap'[tree[p]] = heap[tree[p]]
    BY <2>3, <1>1 DEF TableType
  <2>6. TreeLive'
    BY <2>3, <2>5, <1>1, <1>2 DEF TreeLive
  <2>7. KeepsRecords(t)
    BY <2>3, <1>1 DEF KeepsRecords, TableType, NewRecord
  <2>8. TypeOK' /\ PhaseOK' /\ RequestsHoldLock' /\ NewRecord'
    <3>1. MountType'
      BY <1>1, <1>2 DEF MountType, mountVars
    <3>2. TypeOK'
      BY <3>1, <2>2, <2>4, <1>3, <1>4
         DEF TypeOK, ThreadType, RwType, TableType, NetType, MountType
    <3>3. PhaseOK'
      BY <1>2 DEF Inv, PhaseOK, mountVars
    <3>4. RequestsHoldLock'
      BY <2>2, <1>1, <1>3 DEF RequestsHoldLock, Leaves, Alone, KeepsHolds
    <3>5. NewRecord'
      BY <2>2, <2>7, <1>1, ConstantsAssumption
         DEF NewRecord, KeepsRecords, Leaves, Alone
    <3> QED BY <3>2, <3>3, <3>4, <3>5
  <2>9. HeaderCurrent'
    <3> SUFFICES ASSUME ~fault', NEW u \in Threads, pc'[u] = "req",
                        meth'[u] \in Puts \cup {"copy"}
                 PROVE  hdr'[u] = Token(HeaderPath(u))'
      BY DEF HeaderCurrent
    <3>1. /\ u # t /\ pc[u] = "req" /\ meth[u] \in Puts \cup {"copy"}
          /\ HeaderPath(u)' = HeaderPath(u) /\ HeaderPath(u) \in Paths
      BY <2>2, <1>1 DEF Leaves, Alone, HeaderPath, ControlOK
    <3>2. hdr'[u] = Token(HeaderPath(u))
      BY <3>1, <1>2 DEF Inv, HeaderCurrent
    <3>3. Token(HeaderPath(u))' = Token(HeaderPath(u))
      BY <3>1, <2>3, <2>5 DEF Token
    <3> QED BY <3>2, <3>3
  <2> QED BY <2>2, <2>6, <2>8, <2>9, <1>3 DEF Inv
<1>9. CASE UseAfterFree(t)
  <2>1. UNCHANGED <<tree, heap, fl, rwVars, srvLock, threadVars, hdr, mountVars, missed>>
        /\ fault' = TRUE
    BY <1>9 DEF UseAfterFree
  <2>2. TypeOK'
    BY <2>1 DEF Inv, TypeOK, rwVars, threadVars, mountVars
  <2>3. ControlOK' /\ PhaseOK' /\ TreeLive' /\ RwExclusive'
    BY <2>1 DEF Inv, ControlOK, PhaseOK, TreeLive, RwExclusive, rwVars, threadVars, mountVars
  <2>4. RequestsHoldLock' /\ HeaderCurrent' /\ NewRecord'
    BY <2>1 DEF Inv, RequestsHoldLock, HeaderCurrent, NewRecord, rwVars, threadVars
  <2> QED BY <2>2, <2>3, <2>4 DEF Inv
<1> QED BY <1>6, <1>7, <1>8, <1>9

-----------------------------------------------------------------------------
(* The steps of the environment and of dav_destory.                        *)

LEMMA StartStep ==
  ASSUME NEW t \in Threads, Inv, Start(t)
  PROVE  Inv'
<1>1. ThreadType /\ ControlOK
  BY TypeParts DEF Inv
<1>2. PICK o \in Ops \ {"unmount"}, p \in Paths, q \in Paths \cup {NoPath} :
        /\ Dispatchable(o, p, q)
        /\ op' = [op EXCEPT ![t] = o]
        /\ meth' = [meth EXCEPT ![t] = FirstMethod(o)]
        /\ pc' = [pc EXCEPT ![t] = "start"]
        /\ path' = [path EXCEPT ![t] = p]
        /\ dest' = [dest EXCEPT ![t] = q]
        /\ nopen' = IF o = "release" THEN [nopen EXCEPT ![p] = @ - 1] ELSE nopen
  BY DEF Start
<1>2a. /\ IF o \in {"rename", "copy"} THEN q \in Paths \ {p} ELSE q = NoPath
       /\ MayStart(o, p, q)
  BY <1>2 DEF Dispatchable
<1>3. /\ pc[t] = "idle" /\ phase = "mounted"
      /\ UNCHANGED <<ex, errs, tableVars, rwVars, srvLock, hdr, mountVars, missed>>
  BY DEF Start
<1>4. /\ o \in AllOps \ {"unmount"} /\ FirstMethod(o) \in Methods
      /\ FirstMethod(o) \in {"move", "copy"} => o \in {"rename", "copy"}
  BY ConstantsAssumption DEF AllOps, FirstMethod, Methods, Guarded, Puts, Simple
<1>5. nopen' \in [Paths -> Nat]
  <2>1. CASE o = "release"
    <3>1. nopen[p] \in Nat /\ nopen[p] > (IF Writing(p) THEN 1 ELSE 0)
      BY <2>1, <1>1, <1>2a DEF MayStart, ThreadType, OpenOps
    <3>2. nopen[p] - 1 \in Nat
      BY <3>1
    <3> QED BY <3>2, <2>1, <1>1, <1>2 DEF ThreadType
  <2>2. CASE o # "release"
    BY <2>2, <1>1, <1>2 DEF ThreadType
  <2> QED BY <2>1, <2>2
<1>6. ThreadType'
  BY <1>1, <1>2, <1>3, <1>4, <1>5 DEF ThreadType
<1>7. ControlOK'
  BY <1>1, <1>2, <1>2a, <1>4 DEF ThreadType, ControlOK
<1>8. Alone(t) /\ pc'[t] = "start"
  BY <1>1, <1>2 DEF ThreadType, Alone
<1>9. TypeOK'
  BY <1>3, <1>6 DEF Inv, TypeOK, ThreadType, tableVars, rwVars, mountVars
<1>10. PhaseOK' /\ RwExclusive' /\ TreeLive'
  BY <1>3 DEF Inv, PhaseOK, RwExclusive, TreeLive, mountVars, rwVars, tableVars
<1>11. RequestsHoldLock' /\ NewRecord'
  BY <1>3, <1>8 DEF Inv, RequestsHoldLock, NewRecord, Alone, rwVars, tableVars
<1>12. HeaderCurrent'
  BY <1>3, <1>8 DEF Inv, HeaderCurrent, HeaderPath, Token, Alone, tableVars
<1> QED BY <1>7, <1>9, <1>10, <1>11, <1>12 DEF Inv

LEMMA MountSteps ==
  ASSUME Inv,
         \/ \E p \in Paths : Expire(p) \/ DestroyNode(p)
         \/ Destroy \/ Destroyed \/ UNCHANGED vars
  PROVE  Inv'
<1>1. /\ ThreadType /\ ControlOK /\ RwType /\ RwExclusive /\ TableType /\ TreeLive
      /\ NetType /\ MountType /\ PhaseOK
  BY TypeParts DEF Inv
<1>2. UNCHANGED <<fl, fault, rwVars, threadVars, hdr, missed>>
  BY DEF Expire, DestroyNode, Destroy, Destroyed, vars, tableVars
<1>3. ThreadType' /\ ControlOK' /\ RwType' /\ RwExclusive' /\ RequestsHoldLock'
  BY <1>1, <1>2 DEF Inv, ThreadType, ControlOK, RwType, RwExclusive, RequestsHoldLock,
                    threadVars, rwVars
<1>4. NetType'
  BY <1>1, <1>2 DEF Expire, DestroyNode, Destroy, Destroyed, vars, NetType
<1>5. MountType'
  BY <1>1, <1>2 DEF Expire, DestroyNode, Destroy, Destroyed, vars, MountType, mountVars
<1>6. PhaseOK'
  BY <1>1, <1>2 DEF Expire, DestroyNode, Destroy, Destroyed, vars, PhaseOK, mountVars, threadVars
<1>7. TableType' /\ TreeLive' /\ HeaderCurrent' /\ NewRecord'
  <2>1. CASE UNCHANGED <<tree, heap>>
    BY <2>1, <1>1, <1>2 DEF Inv, TableType, TreeLive, HeaderCurrent, HeaderPath, Token,
                            NewRecord, threadVars
  <2>2. ASSUME NEW p \in Paths, DestroyNode(p) PROVE TableType' /\ TreeLive' /\ HeaderCurrent' /\ NewRecord'
    <3>1. \A t \in Threads : pc'[t] = "idle"
      BY <2>2, <1>1, <1>2 DEF DestroyNode, PhaseOK, threadVars
    <3>2. HeaderCurrent' /\ NewRecord'
      BY <3>1 DEF HeaderCurrent, NewRecord
    <3>3. CASE fault
      BY <3>2, <3>3, <2>2, <1>1, <1>2 DEF DestroyNode, DropRecord, TableType, TreeLive
    <3>4. CASE ~fault
      BY <3>2, <3>4, <2>2, <1>1, <1>2, DropStep DEF DestroyNode
    <3> QED BY <3>3, <3>4
  <2> QED BY <2>1, <2>2 DEF Expire, Destroy, Destroyed, vars, tableVars
<1>8. TypeOK'
  BY <1>2, <1>3, <1>4, <1>5, <1>7
     DEF TypeOK, ThreadType, RwType, TableType, NetType, MountType
<1> QED BY <1>3, <1>6, <1>7, <1>8 DEF Inv

LEMMA InvInit == Init => Inv
<1> SUFFICES ASSUME Init PROVE Inv
  OBVIOUS
<1>1. TypeOK
  BY DEF Init, TypeOK, ExKinds
<1>2. ControlOK /\ PhaseOK /\ TreeLive /\ RwExclusive
  BY DEF Init, ControlOK, PhaseOK, TreeLive, RwExclusive
<1>3. RequestsHoldLock /\ HeaderCurrent /\ NewRecord
  BY DEF Init, RequestsHoldLock, HeaderCurrent, NewRecord
<1> QED BY <1>1, <1>2, <1>3 DEF Inv

LEMMA InvNext == Inv /\ [Next]_vars => Inv'
<1> SUFFICES ASSUME Inv, [Next]_vars PROVE Inv'
  OBVIOUS
<1>1. ASSUME NEW t \in Threads, Step(t) PROVE Inv'
  BY <1>1, SimpleSteps, PutStartStep, DropStartStep, MoveStartStep, RequestSteps,
     LockBeginSteps, LockEndSteps, UnlockSteps DEF Step
<1>2. ASSUME NEW t \in Threads, Start(t) PROVE Inv'
  BY <1>2, StartStep
<1>3. CASE ~\E t \in Threads : Start(t) \/ Step(t)
  BY <1>3, MountSteps DEF Next, Halt
<1> QED BY <1>1, <1>2, <1>3

\* Every variable keeps its type, whatever threads, faults and overlaps there
\* are: in particular no pthread_rwlock_unlock of a lock that is not held.
THEOREM TypeCorrect == Spec => []TypeOK
<1>1. Inv => TypeOK
  BY DEF Inv
<1> QED BY <1>1, InvInit, InvNext, PTL DEF Spec

\* The If header of every PUT and COPY in flight carries the current token, for
\* any number of threads and paths and under all faults.
THEOREM HeadersAreCurrent == Spec => []HeaderCurrent
<1>1. Inv => HeaderCurrent
  BY DEF Inv
<1> QED BY <1>1, InvInit, InvNext, PTL DEF Spec

\* The pthread_rwlock_unlock after every request releases a lock its thread
\* holds, for writing when the request has changed the tree.
THEOREM RequestsAreLocked == Spec => []RequestsHoldLock
<1>1. Inv => RequestsHoldLock
  BY DEF Inv
<1> QED BY <1>1, InvInit, InvNext, PTL DEF Spec

-----------------------------------------------------------------------------
(* Memory safety of a mount on which a release overlaps no other request   *)
(* on its path.                                                            *)

\* No release overlaps another request on its path (the mount may have no
\* releases at all).
ReleasesAlone == "release" \in Ops => "release" \in Solo

\* A handler runs only for an operation the applications use, and dav_unlock is
\* called by dav_release only.
Releases ==
  \A t \in Threads : /\ op[t] \in Ops \cup {"none"}
                     /\ meth[t] = "unlock" => op[t] = "release"

\* An operation that has its names for itself shares them with no other.
Apart ==
  \A t, u \in Threads :
    t # u /\ op[t] \in Exclusive \cup Solo => Names(t) \cap Names(u) = {}

SerialInv ==
  ReleasesAlone /\ Inv /\ Releases /\ Apart /\ RecordsOwned /\ NoDanglingUse

\* No other thread has a record of t's path in its local variable.
Unrivalled(t) == \A u \in Threads \ {t} : Owning(u) => path[u] # path[t]

\* The thread that calls dav_unlock is unrivalled, because its release overlaps
\* nothing; so is one that has, or can get, the rwlock, because a thread that
\* calls dav_lock owns its record only while it has the write lock.
LEMMA NoRival ==
  ASSUME NEW t \in Threads, SerialInv, path[t] \in Paths,
         meth[t] = "unlock" \/ RdFree \/ WrFree \/ wrHold = t
  PROVE  Unrivalled(t)
<1> SUFFICES ASSUME NEW u \in Threads \ {t}, Owning(u), path[u] = path[t] PROVE FALSE
  BY DEF Unrivalled
<1>1. path[t] \in Names(t) /\ path[t] \in Names(u)
  BY ConstantsAssumption DEF Names
<1>2. op[t] # "release" /\ op[u] # "release"
  BY <1>1 DEF SerialInv, Apart, Releases, ReleasesAlone
<1>3. meth[t] # "unlock" /\ meth[u] # "unlock"
  BY <1>2 DEF SerialInv, Releases
<1>4. pc[u] = "req" /\ meth[u] = "lock"
  BY <1>3 DEF Owning
<1>5. wrHold = u
  BY <1>4 DEF SerialInv, Inv, RequestsHoldLock
<1> QED BY <1>3, <1>5, ConstantsAssumption DEF RdFree, WrFree

\* A step of a thread that touches only the records and the tree entry of its
\* own path leaves the records of the other threads and paths alone.
LEMMA OthersOwn ==
  ASSUME NEW t \in Threads, SerialInv, Alone(t), path[t] \in Paths,
         \A u \in Threads \ {t} : fl'[u] = fl[u],
         \A p \in Paths \ {path[t]} : tree'[p] = tree[p],
         \A o \in Objs : heap[o] # Freed /\ heap[o].path # path[t] => heap'[o] = heap[o],
         UNCHANGED <<tree, heap>> \/ Unrivalled(t)
  PROVE  /\ \A u \in Threads \ {t} : OwnRecord(u)'
         /\ \A p \in Paths \ {path[t]} : tree'[p] # NoObj =>
              heap'[tree'[p]] # Freed /\ heap'[tree'[p]].path = p
<1>1. TypeOK /\ ControlOK
  BY DEF SerialInv, Inv
<1>2. ASSUME NEW u \in Threads \ {t} PROVE OwnRecord(u)'
  <2>1. OwnRecord(u) /\ (Owning(u)' <=> Owning(u)) /\ fl'[u] = fl[u]
        /\ path'[u] = path[u] /\ pc'[u] = pc[u]
    BY <1>2 DEF SerialInv, RecordsOwned, Owning, Alone
  <2>2. CASE ~Owning(u)
    BY <2>1, <2>2 DEF OwnRecord
  <2>3. CASE Owning(u)
    <3>1. /\ fl[u] \in Objs /\ heap[fl[u]] # Freed /\ heap[fl[u]].path = path[u]
      BY <2>1, <2>3, <1>1 DEF OwnRecord, TypeOK
    <3>2. path[u] \in Paths
      BY <2>3, <1>1 DEF Owning, ControlOK
    <3>3. CASE UNCHANGED <<tree, heap>>
      BY <2>1, <2>3, <3>3 DEF OwnRecord
    <3>4. CASE Unrivalled(t)
      <4>1. path[u] # path[t]
        BY <2>3, <3>4 DEF Unrivalled
      <4>2. heap'[fl[u]] = heap[fl[u]] /\ tree'[path[u]] = tree[path[u]]
        BY <3>1, <3>2, <4>1
      <4> QED BY <2>1, <2>3, <4>2 DEF OwnRecord
    <3> QED BY <3>3, <3>4
  <2> QED BY <2>2, <2>3
<1>3. ASSUME NEW p \in Paths \ {path[t]}, tree'[p] # NoObj
      PROVE  heap'[tree'[p]] # Freed /\ heap'[tree'[p]].path = p
  <2>1. tree'[p] = tree[p] /\ tree[p] \in Objs
    BY <1>1, <1>3 DEF TypeOK
  <2>2. heap[tree[p]] # Freed /\ heap[tree[p]].path = p
    BY <2>1, <1>3 DEF SerialInv, RecordsOwned
  <2> QED BY <2>1, <2>2
<1> QED BY <1>2, <1>3

\* A step of a handler changes the control of its thread only, and begins no
\* dav_unlock.
LEMMA StepShape ==
  ASSUME NEW t \in Threads, Step(t)
  PROVE  \/ \E r, e : Return(t, r, e)
         \/ \E m, s : Goto(t, m, s) /\ (m = "unlock" => meth[t] = "unlock")
         \/ StaleHead(t) \/ UNCHANGED threadVars
<1>1. CASE Fail(t)
  BY <1>1 DEF Fail
<1>2. CASE Advance(t)
  <2>1. NextMethod(op[t], meth[t]) # "unlock"
    BY DEF NextMethod
  <2> QED BY <1>2, <2>1 DEF Advance
<1>3. CASE UnlockRd(t) \/ UnlockWr(t)
  <2>1. meth[t] = "unlock"
    BY <1>3 DEF UnlockRd, UnlockWr, At
  <2> QED BY <1>3, <2>1 DEF UnlockRd, UnlockWr
<1>4. CASE UnlockReq(t)
  BY <1>4 DEF UnlockReq
<1>5. CASE UseAfterFree(t)
  BY <1>5 DEF UseAfterFree, threadVars
<1>6. CASE PutStart(t)
  BY <1>6 DEF PutStart
<1>7. CASE DeleteStart(t) \/ MoveStart(t) \/ MoveWr(t) \/ Request416(t)
  BY <1>7 DEF DeleteStart, MoveStart, MoveWr, Request416
<1>8. CASE LockRd(t) \/ LockWr(t) \/ LockOk(t) \/ LockError(t)
  BY <1>1, <1>2, <1>8 DEF LockRd, LockWr, LockOk, LockError, NewFileLock
<1>9. CASE StaleFail(t) \/ SimpleOk(t) \/ SimpleError(t) \/ HeaderOom(t)
           \/ RequestOk(t) \/ RequestError(t)
  BY <1>1, <1>2, <1>9 DEF StaleFail, SimpleOk, SimpleError, HeaderOom, RequestOk, RequestError
<1> QED BY <1>3, <1>4, <1>5, <1>6, <1>7, <1>8, <1>9 DEF Step

\* A release in progress stays apart from the other requests on its path.
LEMMA StepApart ==
  ASSUME NEW t \in Threads, SerialInv, Step(t)
  PROVE  Releases' /\ Apart'
<1>1. ThreadType /\ Releases /\ Apart
  BY TypeParts DEF SerialInv, Inv
<1>2. /\ \A u \in Threads : Names(u)' \subseteq Names(u) /\ op'[u] \in {op[u], "none"}
      /\ Releases'
  <2>1. CASE \E r, e : Return(t, r, e)
    BY <2>1, <1>1 DEF Return, ThreadType, Names, Releases
  <2>2. CASE \E m, s : Goto(t, m, s) /\ (m = "unlock" => meth[t] = "unlock")
    BY <2>2, <1>1 DEF Goto, ThreadType, Names, Releases
  <2>3. CASE StaleHead(t)
    BY <2>3, <1>1 DEF StaleHead, ThreadType, Names, Releases
  <2>4. CASE UNCHANGED threadVars
    BY <2>4, <1>1 DEF threadVars, Names, Releases
  <2> QED BY <2>1, <2>2, <2>3, <2>4, StepShape
<1>3. ASSUME NEW u \in Threads, NEW v \in Threads, u # v, op'[u] \in Exclusive \cup Solo
      PROVE  Names(u)' \cap Names(v)' = {}
  <2>1. op[u] \in Exclusive \cup Solo
    BY <1>2, <1>3, ConstantsAssumption DEF Exclusive, AllOps
  <2> QED BY <1>1, <1>2, <1>3, <2>1 DEF Apart
<1> QED BY <1>2, <1>3 DEF Apart

\* Methods other than dav_lock and dav_unlock own no record.
LEMMA OtherStepsSerial ==
  ASSUME NEW t \in Threads, SerialInv, pc[t] # "idle", path[t] \in Paths,
         UNCHANGED <<fl, fault>>, Alone(t), ~Owning(t), ~Owning(t)',
         UNCHANGED <<tree, heap>> \/ (DropRecord(path[t]) /\ Unrivalled(t))
  PROVE  RecordsOwned' /\ NoDanglingUse'
<1>1. TypeOK /\ RecordsOwned
  BY DEF SerialInv, Inv
<1>2. NoDanglingUse'
  BY DEF SerialInv, NoDanglingUse
<1>3. OwnRecord(t)'
  BY <1>1 DEF RecordsOwned, OwnRecord
<1>4. \A p \in Paths \ {path[t]} : tree'[p] = tree[p]
  BY <1>1 DEF DropRecord, TypeOK
<1>5. \A o \in Objs : heap[o] # Freed /\ heap[o].path # path[t] => heap'[o] = heap[o]
  BY <1>1 DEF DropRecord, TypeOK, RecordsOwned
<1>6. tree'[path[t]] # NoObj => heap'[tree'[path[t]]] # Freed /\ heap'[tree'[path[t]]].path = path[t]
  BY <1>1 DEF DropRecord, TypeOK, RecordsOwned
<1>7. /\ \A u \in Threads \ {t} : OwnRecord(u)'
      /\ \A p \in Paths \ {path[t]} : tree'[p] # NoObj =>
           heap'[tree'[p]] # Freed /\ heap'[tree'[p]].path = p
  BY <1>4, <1>5, OthersOwn
<1> QED BY <1>2, <1>3, <1>6, <1>7 DEF RecordsOwned

LEMMA OtherMethodsSerial ==
  ASSUME NEW t \in Threads, SerialInv,
         \/ StaleFail(t) \/ StaleHead(t) \/ SimpleOk(t) \/ SimpleError(t)
         \/ PutStart(t) \/ DeleteStart(t) \/ MoveStart(t) \/ MoveWr(t) \/ HeaderOom(t)
         \/ RequestOk(t) \/ RequestError(t) \/ Request416(t)
  PROVE  RecordsOwned' /\ NoDanglingUse'
<1>1. ThreadType /\ ControlOK
  BY TypeParts DEF SerialInv, Inv
<1>2. /\ pc[t] # "idle" /\ meth[t] \in Methods \ {"lock", "unlock"}
      /\ UNCHANGED <<fl, fault>>
      /\ UNCHANGED <<tree, heap>> \/ DeleteStart(t) \/ MoveWr(t)
  BY DEF StaleFail, StaleHead, SimpleOk, SimpleError, PutStart, DeleteStart, MoveStart,
         MoveWr, HeaderOom, RequestOk, RequestError, Request416, At, tableVars,
         Methods, Guarded, Simple, Puts
<1>3. path[t] \in Paths
  BY <1>1, <1>2 DEF ControlOK
<1>4. /\ Alone(t)
      /\ pc'[t] \in {"idle", "start"} \/ meth'[t] = meth[t]
  <2>1. CASE Fail(t)
    BY <2>1, <1>1, <1>2, FailStep DEF Leaves
  <2>2. CASE Advance(t)
    BY <2>2, <1>1, <1>2, AdvanceStep DEF Leaves
  <2>3. CASE Return(t, "ok", "none") \/ Return(t, "exists", "none")
    <3>1. "none" \in ExKinds
      BY DEF ExKinds
    <3> QED BY <2>3, <3>1, <1>1, <1>2, ReturnStep DEF Leaves
  <2>4. CASE \E m \in Methods : Goto(t, m, "start")
    BY <2>4, <1>1 DEF Goto, ThreadType, Alone
  <2>5. CASE \E s \in {"wr", "req"} : Goto(t, meth[t], s)
    BY <2>5, <1>1 DEF Goto, ThreadType, Alone
  <2>6. CASE StaleHead(t)
    BY <2>6, <1>1 DEF StaleHead, At, ThreadType, Alone
  <2> QED BY <2>1, <2>2, <2>3, <2>4, <2>5, <2>6
        DEF StaleFail, SimpleOk, SimpleError, PutStart, DeleteStart, MoveStart, MoveWr,
            HeaderOom, RequestOk, RequestError, Request416, At, Methods, Guarded, Simple, Puts
<1>5. UNCHANGED <<tree, heap>> \/ (DropRecord(path[t]) /\ Unrivalled(t))
  <2>1. CASE DeleteStart(t) \/ MoveWr(t)
    <3>1. WrFree /\ DropRecord(path[t])
      BY <2>1 DEF DeleteStart, MoveWr, WrLock
    <3> QED BY <3>1, <1>3, NoRival
  <2> QED BY <2>1, <1>2
<1>6. ~Owning(t) /\ ~Owning(t)'
  BY <1>2, <1>4 DEF Owning
<1> QED BY <1>2, <1>3, <1>4, <1>5, <1>6, OtherStepsSerial

\* What is left to show for dav_lock and dav_unlock: the thread's own record and
\* the tree entry of its path.
LEMMA OwnStepSerial ==
  ASSUME NEW t \in Threads, SerialInv, pc[t] # "idle", Alone(t), Unrivalled(t),
         \A u \in Threads \ {t} : fl'[u] = fl[u],
         \A p \in Paths \ {path[t]} : tree'[p] = tree[p],
         \A o \in Objs : heap[o] # Freed /\ heap[o].path # path[t] => heap'[o] = heap[o],
         tree'[path[t]] # NoObj =>
           heap'[tree'[path[t]]] # Freed /\ heap'[tree'[path[t]]].path = path[t],
         OwnRecord(t)'
  PROVE  RecordsOwned'
<1>1. path[t] \in Paths
  BY DEF SerialInv, Inv, ControlOK
<1>2. /\ \A u \in Threads \ {t} : OwnRecord(u)'
      /\ \A p \in Paths \ {path[t]} : tree'[p] # NoObj =>
           heap'[tree'[p]] # Freed /\ heap'[tree'[p]].path = p
  BY <1>1, OthersOwn
<1> QED BY <1>2 DEF RecordsOwned

LEMMA LockStepsSerial ==
  ASSUME NEW t \in Threads, SerialInv,
         LockRd(t) \/ LockWr(t) \/ LockOk(t) \/ LockError(t)
  PROVE  RecordsOwned' /\ NoDanglingUse'
<1>1. /\ ThreadType /\ TableType /\ ControlOK /\ TreeLive /\ RecordsOwned /\ ~fault
      /\ OwnRecord(t)
  BY TypeParts DEF SerialInv, Inv, NoDanglingUse, RecordsOwned
<1>2. pc[t] # "idle" /\ meth[t] = "lock" /\ path[t] \in Paths /\ fault' = fault
  BY <1>1 DEF LockRd, LockWr, LockOk, LockError, At, ControlOK
<1>3. NoDanglingUse' /\ Unrivalled(t)
  <2>1. RdFree \/ WrFree \/ wrHold = t
    BY <1>2 DEF LockRd, LockWr, LockOk, LockError, At, SerialInv, Inv, RequestsHoldLock
  <2> QED BY <1>1, <1>2, <2>1, NoRival DEF NoDanglingUse
<1>4. CASE (LockRd(t) \/ LockWr(t)) /\ tree[path[t]] # NoObj
  <2>1. CountUp(tree[path[t]]) /\ Advance(t) /\ tree' = tree /\ fl' = fl /\ pc[t] # "req"
    BY <1>4 DEF LockRd, LockWr, At
  <2>2. Leaves(t)
    BY <2>1, <1>1, <1>2, AdvanceStep
  <2>3. /\ \A o \in Objs \ {tree[path[t]]} : heap'[o] = heap[o]
        /\ heap'[tree[path[t]]] \in Record /\ heap'[tree[path[t]]].path = path[t]
        /\ heap[tree[path[t]]].path = path[t]
    BY <2>1, <1>1, <1>2, <1>4 DEF CountUp, TableType, TreeLive, Record
  <2>4. fl'[t] = NoObj /\ ~Owning(t)'
    BY <2>1, <2>2, <1>1, <1>2 DEF OwnRecord, Owning, Leaves
  <2>5. OwnRecord(t)'
    BY <2>4 DEF OwnRecord
  <2> QED BY <2>1, <2>2, <2>3, <2>5, <1>2, <1>3, OwnStepSerial, ConstantsAssumption
         DEF Leaves, Record
<1>5. CASE LockRd(t) /\ tree[path[t]] = NoObj
  <2>1. UNCHANGED <<tree, heap, fl>> /\ (Goto(t, "lock", "wr") \/ Fail(t)) /\ pc[t] = "start"
    BY <1>5 DEF LockRd, At
  <2>2. /\ Alone(t) /\ pc'[t] \in {"wr", "idle"} /\ meth'[t] \in {"lock", "none"}
    BY <2>1, <1>1 DEF Goto, Fail, Return, ThreadType, Alone
  <2>3. fl'[t] = NoObj /\ ~Owning(t)'
    BY <2>1, <2>2, <1>1, <1>2 DEF OwnRecord, Owning
  <2>4. OwnRecord(t)'
    BY <2>3 DEF OwnRecord
  <2> QED BY <2>1, <2>2, <2>4, <1>2, <1>3, <1>5, OwnStepSerial
<1>6. CASE LockWr(t) /\ tree[path[t]] = NoObj
  <2>1. PICK o \in Objs :
          /\ heap[o] = Freed
          /\ heap' = [heap EXCEPT ![o] = [path |-> path[t], token |-> NoTok, cnt |-> 1]]
          /\ fl' = [fl EXCEPT ![t] = o]
    BY <1>6 DEF LockWr, NewFileLock
  <2>2. tree' = tree /\ Goto(t, "lock", "req")
    BY <1>6 DEF LockWr, NewFileLock
  <2>3. /\ Alone(t) /\ pc'[t] = "req" /\ meth'[t] = "lock"
        /\ path'[t] = path[t] /\ dest'[t] = dest[t]
    BY <2>2, <1>1 DEF Goto, ThreadType, Alone
  <2>4. heap'[o] \in Record /\ heap'[o].path = path[t] /\ fl'[t] = o
    BY <2>1, <1>1, <1>2 DEF TableType, Record
  <2>5. OwnRecord(t)'
    BY <2>2, <2>3, <2>4, <1>6, ConstantsAssumption DEF OwnRecord, Owning, Record
  <2>6. /\ \A u \in Threads \ {t} : fl'[u] = fl[u]
        /\ \A x \in Objs : heap[x] # Freed => heap'[x] = heap[x]
    BY <2>1, <1>1 DEF TableType
  <2> QED BY <2>2, <2>3, <2>5, <2>6, <1>2, <1>3, <1>6, OwnStepSerial
<1>7. CASE LockOk(t) \/ LockError(t)
  <2>1. /\ pc[t] = "req" /\ fl[t] \in Objs /\ heap[fl[t]] # Freed
        /\ heap[fl[t]].path = path[t] /\ tree[path[t]] # fl[t]
    BY <1>7, <1>1, <1>2 DEF LockOk, LockError, At, OwnRecord, Owning, TableType
  <2>2. Leaves(t)
    BY <1>7, <1>1, <1>2, AdvanceStep, FailStep DEF LockOk, LockError
  <2>3. fl' = [fl EXCEPT ![t] = NoObj]
    BY <1>7 DEF LockOk, LockError
  <2>4. OwnRecord(t)'
    BY <2>2, <2>3, <1>1 DEF OwnRecord, Owning, Leaves, TableType
  <2>5. \A o \in Objs \ {fl[t]} : heap'[o] = heap[o]
    BY <1>7, <1>1 DEF LockOk, LockError, TableType
  <2>6. \A p \in Paths \ {path[t]} : tree'[p] = tree[p]
    BY <1>7, <1>1 DEF LockOk, LockError, TableType
  <2>7. tree'[path[t]] # NoObj =>
          heap'[tree'[path[t]]] # Freed /\ heap'[tree'[path[t]]].path = path[t]
    <3>1. CASE LockOk(t)
      <4>1. PICK tok \in Tokens : heap' = [heap EXCEPT ![fl[t]].token = tok]
        BY <3>1 DEF LockOk
      <4>2. heap'[fl[t]] \in Record /\ heap'[fl[t]].path = path[t]
        BY <4>1, <2>1, <1>1 DEF TableType, Record
      <4>3. tree'[path[t]] = fl[t]
        BY <3>1, <1>1, <1>2 DEF LockOk, TableType
      <4> QED BY <4>2, <4>3, ConstantsAssumption DEF Record
    <3>2. CASE LockError(t)
      <4>1. tree' = tree
        BY <3>2 DEF LockError
      <4> QED BY <4>1, <2>1, <2>5, <1>1, <1>2 DEF RecordsOwned, TableType
    <3> QED BY <1>7, <3>1, <3>2
  <2>8. \A u \in Threads \ {t} : fl'[u] = fl[u]
    BY <2>3, <1>1 DEF TableType
  <2> QED BY <2>1, <2>2, <2>4, <2>5, <2>6, <2>7, <2>8, <1>2, <1>3, OwnStepSerial DEF Leaves
<1> QED BY <1>4, <1>5, <1>6, <1>7

LEMMA UnlockStepsSerial ==
  ASSUME NEW t \in Threads, SerialInv,
         UnlockRd(t) \/ UnlockWr(t) \/ UnlockReq(t) \/ UseAfterFree(t)
  PROVE  RecordsOwned' /\ NoDanglingUse'
<1>1. /\ ThreadType /\ TableType /\ ControlOK /\ TreeLive /\ RecordsOwned /\ ~fault
      /\ OwnRecord(t)
  BY TypeParts DEF SerialInv, Inv, NoDanglingUse, RecordsOwned
<1>6. Unrivalled(t)
  <2>1. ~UseAfterFree(t)
    BY <1>1 DEF UseAfterFree, OwnRecord, Owning
  <2>2. meth[t] = "unlock" /\ path[t] \in Paths
    BY <2>1, <1>1 DEF UnlockRd, UnlockWr, UnlockReq, At, ControlOK
  <2> QED BY <2>2, NoRival
<1>2. CASE UseAfterFree(t)
  BY <1>2, <1>1 DEF UseAfterFree, OwnRecord, Owning
<1>3. CASE UnlockRd(t)
  <2>1. /\ pc[t] = "start" /\ meth[t] = "unlock" /\ path[t] \in Paths
        /\ fl[t] = NoObj /\ tree' = tree /\ fault' = fault
    BY <1>1, <1>3 DEF UnlockRd, At, ControlOK, OwnRecord, Owning
  <2>2. CASE tree[path[t]] = NoObj
    <3>1. Return(t, "ok", "unspecified") /\ UNCHANGED <<heap, fl>>
      BY <1>3, <2>2 DEF UnlockRd
    <3>2. Leaves(t)
      BY <3>1, <1>1, <2>1, ReturnStep DEF ExKinds
    <3>3. OwnRecord(t)'
      BY <3>1, <3>2, <2>1 DEF OwnRecord, Owning, Leaves
    <3> QED BY <3>1, <3>2, <3>3, <2>1, <2>2, <1>1, <1>6, OwnStepSerial DEF Leaves, NoDanglingUse
  <2>3. CASE tree[path[t]] # NoObj
    <3> DEFINE o == tree[path[t]]
    <3>1. /\ o \in Objs /\ heap[o] \in Record /\ heap[o].path = path[t]
          /\ heap' = [heap EXCEPT ![o].cnt = heap[o].cnt - 1]
      BY <1>3, <2>1, <2>3, <1>1 DEF UnlockRd, TableType, TreeLive
    <3>2. /\ heap'[o] \in Record /\ heap'[o].path = path[t] /\ heap'[o].cnt = heap[o].cnt - 1
          /\ \A x \in Objs \ {o} : heap'[x] = heap[x]
      BY <3>1, <1>1 DEF TableType, Record
    <3>3. CASE heap[o].cnt - 1 > 0
      <4>1. Return(t, "ok", ex[t]) /\ fl' = fl /\ ex[t] \in ExKinds
        BY <1>3, <2>3, <3>3, <1>1 DEF UnlockRd, ThreadType
      <4>2. Leaves(t)
        BY <4>1, <1>1, <2>1, ReturnStep
      <4>3. OwnRecord(t)'
        BY <4>1, <4>2, <2>1 DEF OwnRecord, Owning, Leaves
      <4> QED BY <4>1, <4>2, <4>3, <3>1, <3>2, <2>1, <1>1, <1>6, OwnStepSerial, ConstantsAssumption
             DEF Leaves, NoDanglingUse, Record
    <3>4. CASE ~(heap[o].cnt - 1 > 0)
      <4>1. Goto(t, "unlock", "wr") /\ fl' = [fl EXCEPT ![t] = o]
        BY <1>3, <2>3, <3>4 DEF UnlockRd
      <4>2. /\ Alone(t) /\ pc'[t] = "wr" /\ meth'[t] = "unlock"
            /\ path'[t] = path[t] /\ dest'[t] = dest[t]
        BY <4>1, <1>1 DEF Goto, ThreadType, Alone
      <4>3. fl'[t] = o /\ \A u \in Threads \ {t} : fl'[u] = fl[u]
        BY <4>1, <1>1 DEF TableType
      <4>4. heap[o].cnt \in Int
        BY <3>1 DEF Record
      <4>5. heap'[o].cnt <= 0 /\ heap'[o] # Freed
        BY <3>2, <3>4, <4>4, ConstantsAssumption DEF Record
      <4>6. OwnRecord(t)'
        BY <4>2, <4>3, <4>5, <3>2, <2>1, <2>3 DEF OwnRecord, Owning
      <4> QED BY <4>2, <4>3, <4>5, <4>6, <3>1, <3>2, <2>1, <1>1, <1>6, OwnStepSerial
             DEF NoDanglingUse
    <3> QED BY <3>3, <3>4
  <2> QED BY <2>2, <2>3
<1>4. CASE UnlockWr(t)
  <2>1. /\ pc[t] = "wr" /\ meth[t] = "unlock" /\ path[t] \in Paths
        /\ fl[t] \in Objs /\ tree[path[t]] = fl[t]
        /\ heap[fl[t]] # Freed /\ heap[fl[t]].path = path[t] /\ heap[fl[t]].cnt <= 0
    BY <1>1, <1>4 DEF UnlockWr, At, ControlOK, OwnRecord, Owning, TableType
  <2>2. /\ fl' = [fl EXCEPT ![t] = fl[t]] /\ tree' = [tree EXCEPT ![path[t]] = NoObj]
        /\ Goto(t, "unlock", "req") /\ UNCHANGED <<heap, fault>>
    BY <1>4, <2>1, ConstantsAssumption DEF UnlockWr
  <2>3. /\ Alone(t) /\ pc'[t] = "req" /\ meth'[t] = "unlock"
        /\ path'[t] = path[t] /\ dest'[t] = dest[t]
    BY <2>2, <1>1 DEF Goto, ThreadType, Alone
  <2>4. /\ \A u \in Threads : fl'[u] = fl[u]
        /\ tree'[path[t]] = NoObj /\ \A p \in Paths \ {path[t]} : tree'[p] = tree[p]
    BY <2>1, <2>2, <1>1 DEF TableType
  <2>5. OwnRecord(t)'
    BY <2>1, <2>2, <2>3, <2>4, ConstantsAssumption DEF OwnRecord, Owning
  <2> QED BY <2>1, <2>2, <2>3, <2>4, <2>5, <1>1, <1>6, OwnStepSerial DEF NoDanglingUse
<1>5. CASE UnlockReq(t)
  <2>1. /\ pc[t] = "req" /\ meth[t] = "unlock" /\ path[t] \in Paths
        /\ fl[t] \in Objs /\ tree[path[t]] # fl[t] /\ heap[fl[t]].path = path[t]
    BY <1>1, <1>5 DEF UnlockReq, At, ControlOK, OwnRecord, Owning, TableType
  <2>2. PICK e \in ExKinds : Return(t, "ok", e)
    BY <1>5, <1>1 DEF UnlockReq, ThreadType, ExKinds
  <2>3. Leaves(t)
    BY <2>1, <2>2, <1>1, ReturnStep
  <2>4. /\ heap' = [heap EXCEPT ![fl[t]] = Freed] /\ tree' = tree
        /\ fault' = (\E p \in Paths : tree[p] = fl[t])
        /\ fl' = [fl EXCEPT ![t] = NoObj]
    BY <1>5 DEF UnlockReq, FreeRecord
  <2>5. \A p \in Paths : tree[p] # fl[t]
    BY <2>1, <1>1, ConstantsAssumption DEF RecordsOwned
  <2>6. NoDanglingUse'
    BY <2>4, <2>5 DEF NoDanglingUse
  <2>7. /\ \A u \in Threads \ {t} : fl'[u] = fl[u] /\ fl'[t] = NoObj
        /\ \A o \in Objs \ {fl[t]} : heap'[o] = heap[o]
    BY <2>4, <1>1 DEF TableType
  <2>8. OwnRecord(t)'
    <3>1. fl'[t] = NoObj
      BY <2>4, <1>1 DEF TableType
    <3> QED BY <3>1, <2>3 DEF OwnRecord, Owning, Leaves
  <2>9. tree'[path[t]] # NoObj =>
          heap'[tree'[path[t]]] # Freed /\ heap'[tree'[path[t]]].path = path[t]
    BY <2>1, <2>4, <2>7, <1>1 DEF RecordsOwned, TableType
  <2> QED BY <2>1, <2>3, <2>4, <2>6, <2>7, <2>8, <2>9, <1>6, OwnStepSerial DEF Leaves
<1> QED BY <1>2, <1>3, <1>4, <1>5

LEMMA StartSerial ==
  ASSUME NEW t \in Threads, SerialInv, Start(t)
  PROVE  Releases' /\ Apart' /\ RecordsOwned' /\ NoDanglingUse'
<1>1. ThreadType /\ ControlOK /\ RecordsOwned /\ Releases /\ Apart
  BY TypeParts DEF SerialInv, Inv
<1>2. PICK o \in Ops \ {"unmount"}, p \in Paths, q \in Paths \cup {NoPath} :
        /\ Dispatchable(o, p, q)
        /\ op' = [op EXCEPT ![t] = o]
        /\ meth' = [meth EXCEPT ![t] = FirstMethod(o)]
        /\ pc' = [pc EXCEPT ![t] = "start"]
        /\ path' = [path EXCEPT ![t] = p]
        /\ dest' = [dest EXCEPT ![t] = q]
  BY DEF Start
<1>3. UNCHANGED tableVars /\ pc[t] = "idle"
  BY DEF Start
<1>4. /\ Alone(t) /\ pc'[t] = "start" /\ path'[t] = p /\ dest'[t] = q
      /\ op'[t] = o /\ \A u \in Threads \ {t} : op'[u] = op[u]
  BY <1>1, <1>2 DEF Alone, ThreadType
<1>5. Names(t)' = {p, q} \ {NoPath}
  BY <1>4 DEF Names
<1>6. \A u \in Threads \ {t} : Names(u)' = Names(u)
  BY <1>4 DEF Names, Alone
<1>7. \A u \in Threads : {o, op[u]} \cap (Exclusive \cup Solo) # {} =>
                         Names(u) \cap ({p, q} \ {NoPath}) = {}
  <2> SUFFICES ASSUME NEW u \in Threads, NEW r \in {p, q} \ {NoPath}, r \in Names(u),
                      {o, op[u]} \cap (Exclusive \cup Solo) # {}
               PROVE  FALSE
    OBVIOUS
  <2>1. Running(u)
    BY <1>1 DEF Running, ControlOK, Names
  <2> QED BY <2>1, <1>2 DEF Dispatchable, Compatible
<1>8. Apart'
  <2> SUFFICES ASSUME NEW u \in Threads, NEW v \in Threads, u # v,
                      op'[u] \in Exclusive \cup Solo
               PROVE  Names(u)' \cap Names(v)' = {}
    BY DEF Apart
  <2>1. CASE u = t
    BY <2>1, <1>4, <1>5, <1>6, <1>7
  <2>2. CASE v = t
    BY <2>2, <1>4, <1>5, <1>6, <1>7
  <2>3. CASE u # t /\ v # t
    BY <2>3, <1>1, <1>4, <1>6 DEF Apart
  <2> QED BY <2>1, <2>2, <2>3
<1>9. \A u \in Threads : OwnRecord(u)'
  <2>1. OwnRecord(t)'
    BY <1>1, <1>3, <1>4 DEF RecordsOwned, OwnRecord, Owning, tableVars
  <2>2. ASSUME NEW u \in Threads \ {t} PROVE OwnRecord(u)'
    BY <2>2, <1>1, <1>3, <1>4 DEF RecordsOwned, OwnRecord, Owning, tableVars, Alone
  <2> QED BY <2>1, <2>2
<1>10. RecordsOwned'
  BY <1>1, <1>3, <1>9 DEF RecordsOwned, tableVars
<1>11. Releases'
  <2>1. FirstMethod(o) = "unlock" => o = "release"
    BY <1>2, ConstantsAssumption DEF FirstMethod
  <2> QED BY <2>1, <1>1, <1>2 DEF Releases, ThreadType
<1> QED BY <1>3, <1>8, <1>10, <1>11 DEF SerialInv, NoDanglingUse, tableVars

LEMMA MountSerial ==
  ASSUME SerialInv,
         \/ \E p \in Paths : Expire(p) \/ DestroyNode(p)
         \/ Destroy \/ Destroyed \/ UNCHANGED vars
  PROVE  Releases' /\ Apart' /\ RecordsOwned' /\ NoDanglingUse'
<1>1. /\ TableType /\ ControlOK /\ PhaseOK /\ Releases /\ Apart /\ RecordsOwned /\ ~fault
  BY TypeParts DEF SerialInv, Inv, NoDanglingUse
<1>2. UNCHANGED <<fl, fault, threadVars>>
  BY DEF Expire, DestroyNode, Destroy, Destroyed, vars, tableVars
<1>3. Releases' /\ Apart' /\ NoDanglingUse'
  BY <1>1, <1>2 DEF Releases, Apart, Names, NoDanglingUse, threadVars
<1>4. CASE UNCHANGED <<tree, heap>>
  BY <1>1, <1>2, <1>3, <1>4 DEF RecordsOwned, OwnRecord, Owning, threadVars
<1>5. ASSUME NEW p \in Paths, DestroyNode(p) PROVE RecordsOwned'
  <2>1. \A t \in Threads : pc[t] = "idle" /\ pc'[t] = "idle"
    BY <1>1, <1>2, <1>5 DEF DestroyNode, PhaseOK, threadVars
  <2>2. \A t \in Threads : OwnRecord(t)'
    BY <2>1, <1>1, <1>2 DEF RecordsOwned, OwnRecord, Owning
  <2>3. /\ tree' = [tree EXCEPT ![p] = NoObj] /\ heap' = [heap EXCEPT ![tree[p]] = Freed]
        /\ tree[p] \in Objs
    BY <1>1, <1>5 DEF DestroyNode, DropRecord, TableType
  <2>4. \A q \in Paths : tree'[q] # NoObj =>
          tree'[q] = tree[q] /\ heap'[tree[q]] = heap[tree[q]]
    BY <2>3, <1>1 DEF RecordsOwned, TableType
  <2> QED BY <2>2, <2>4, <1>1 DEF RecordsOwned
<1> QED BY <1>3, <1>4, <1>5 DEF Expire, Destroy, Destroyed, vars, tableVars

LEMMA SerialInit ==
  ASSUME ReleasesAlone, Init
  PROVE  SerialInv
<1>1. Releases /\ Apart /\ RecordsOwned /\ NoDanglingUse
  BY DEF Init, Releases, Apart, Names, RecordsOwned, OwnRecord, Owning, NoDanglingUse
<1> QED BY <1>1, InvInit DEF SerialInv

LEMMA SerialNext ==
  ASSUME SerialInv, [Next]_vars
  PROVE  SerialInv'
<1>1. Inv' /\ ReleasesAlone
  BY InvNext DEF SerialInv
<1>2. ASSUME NEW t \in Threads, Step(t) PROVE SerialInv'
  <2>1. RecordsOwned' /\ NoDanglingUse'
    BY <1>2, OtherMethodsSerial, LockStepsSerial, UnlockStepsSerial DEF Step
  <2> QED BY <1>1, <1>2, <2>1, StepApart DEF SerialInv, ReleasesAlone
<1>3. ASSUME NEW t \in Threads, Start(t) PROVE SerialInv'
  BY <1>1, <1>3, StartSerial DEF SerialInv, ReleasesAlone
<1>4. CASE \/ \E p \in Paths : Expire(p) \/ DestroyNode(p)
           \/ Destroy \/ Destroyed \/ UNCHANGED vars
  BY <1>1, <1>4, MountSerial DEF SerialInv, ReleasesAlone
<1> QED BY <1>2, <1>3, <1>4 DEF Next, Halt

LEMMA Serial ==
  ASSUME ReleasesAlone
  PROVE  Spec => []SerialInv
<1>1. Init => SerialInv
  BY SerialInit
<1>2. SerialInv /\ [Next]_vars => SerialInv'
  BY SerialNext
<1> QED BY <1>1, <1>2, PTL DEF Spec

\* When no release overlaps another request on its path, no interleaving of
\* requests and no failure breaks the ownership of records: each one of the tree
\* is live and filed under its own path, and the one in a thread's local variable
\* is the thread's own, freed by it alone. The second look of dav_lock and the
\* rwlock are enough for all the other operations of dav.c.
THEOREM MemorySafe ==
  ASSUME ReleasesAlone
  PROVE  Spec => []RecordsOwned
<1>1. SerialInv => RecordsOwned
  BY DEF SerialInv
<1> QED BY <1>1, Serial, PTL
=============================================================================
