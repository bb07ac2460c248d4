-------------------------- MODULE FileLocksHealthy --------------------------
(***************************************************************************)
(* Proofs about FileLocks on a healthy mount: the server and the memory    *)
(* never fail (Faults = {}) and a release overlaps no other request on its *)
(* path. What the table says and what the server says then agree, every    *)
(* request made under the rwlock is admitted, and so the unlock after it   *)
(* is never skipped.                                                       *)
(***************************************************************************)
EXTENDS FileLocksProofs

-----------------------------------------------------------------------------
(* The mounts the theorems are about.                                      *)

\* No operation takes a record away from a file that is open.
Steady == Ops \cap {"opentrunc", "truncate", "rename"} = {}

Orderly == Faults = {} /\ ReleasesAlone /\ ("release" \in Ops => Steady)

\* Nothing changes the mode of a file that is locked: a create has its file for
\* itself, and applications do not call chmod.
Served == Steady /\ "chmod" \notin Ops /\ ("create" \in Ops => "create" \in Solo)

-----------------------------------------------------------------------------
(* The inductive invariant, by thread and by path.                         *)

\* The methods each handler calls when nothing fails.
MethodsOf(o) ==
  CASE o = "open" -> {"lock"}
    [] o = "opentrunc" -> {"getattr", "delete", "put", "chmod", "lock"}
    [] o = "create" -> {"head", "put", "chmod", "lock"}
    [] o = "release" -> {"unlock"}
    [] o = "write" -> {"put"}
    [] o = "truncate" -> {"getattr", "delete", "put", "chmod"}
    [] o = "chmod" -> {"chmod"}
    [] o = "unlink" -> {"delete"}
    [] o = "rename" -> {"move"}
    [] o = "copy" -> {"getattr", "copy"}
    [] OTHER -> {"none"}

\* The thread runs a method of its handler, with no exception left behind.
Course(t) ==
  /\ meth[t] \in MethodsOf(op[t]) /\ ex[t] = "none"
  /\ (pc[t] = "idle") = (op[t] = "none")

\* It holds the rwlock only during a request made under it, and once.
Holding(t) == pc[t] = "req" /\ meth[t] \in Guarded \cup {"lock"}

HoldExact(t) ==
  rdHold[t] <= 1 /\ (Holding(t) \/ (rdHold[t] = 0 /\ wrHold # t))

\* While it waits for the answer: dav_lock, dav_unlock, DELETE and MOVE have no
\* record for their path in the tree; a new record counts one handle; the server admits
\* every request under the rwlock; the token dav_unlock sends is the server's.
InFlight(t) ==
  pc[t] = "req" =>
    /\ meth[t] \in {"lock", "unlock", "delete", "move"} => tree[path[t]] = NoObj
    /\ meth[t] = "lock" => heap[fl[t]].cnt = 1
    /\ meth[t] \in Guarded => Admits(Targets(t), hdr[t])
    /\ meth[t] = "unlock" => heap[fl[t]].token = srvLock[path[t]]

\* An unlink, and a create once it has seen that the file is new, work on a file
\* that is not open.
Unopened(t) ==
  /\ Steady /\ op[t] = "unlink" => nopen[path[t]] = 0
  /\ Served /\ op[t] = "create" /\ meth[t] # "head" => srvLock[path[t]] = NoTok

ThreadOK(t) == Course(t) /\ HoldExact(t) /\ InFlight(t) /\ Unopened(t)

\* A request in flight that takes the server's lock of p away.
Departing(t, p) ==
  /\ path[t] = p /\ pc[t] = "req"
  /\ meth[t] = "unlock" \/ (meth[t] \in {"delete", "move"} /\ wrHold = t)

\* The table and the server agree about p.
Agree(p) ==
  IF tree[p] = NoObj
    THEN srvLock[p] = NoTok \/ \E t \in Threads : Departing(t, p)
    ELSE srvLock[p] = heap[tree[p]].token

Releasing(p, s) == \E t \in Threads : meth[t] = "unlock" /\ pc[t] = s /\ path[t] = p

\* The count of a record is the number of open handles, and of one release that
\* has not counted down yet.
Counted(p) ==
  IF tree[p] = NoObj
    THEN nopen[p] = 0 /\ ~Releasing(p, "start")
    ELSE /\ heap[tree[p]].cnt = nopen[p] + (IF Releasing(p, "start") THEN 1 ELSE 0)
         /\ heap[tree[p]].cnt > 0 \/ Releasing(p, "wr")

PathOK(p) == Agree(p) /\ (Steady /\ phase = "mounted" => Counted(p))

MountOK ==
  /\ ~mainEx /\ ~missed /\ (Served => ~errs)
  /\ phase = "down" => \A p \in Paths : tree[p] = NoObj

HealthyInv ==
  /\ Orderly /\ SerialInv /\ MountOK
  /\ \A t \in Threads : ThreadOK(t)
  /\ \A p \in Paths : PathOK(p)

-----------------------------------------------------------------------------
(* What a step of one thread leaves alone.                                 *)

\* The step changes the control, the header and the holds of thread t only.
OwnThread(t) ==
  /\ Alone(t)
  /\ \A u \in Threads \ {t} :
       /\ op'[u] = op[u] /\ ex'[u] = ex[u] /\ fl'[u] = fl[u] /\ hdr'[u] = hdr[u]
       /\ rdHold'[u] = rdHold[u] /\ (wrHold' = u <=> wrHold = u)

\* It changes the tree, the records, the server's lock and the handles of p only.
OwnPath(p) ==
  /\ \A q \in Paths \ {p} :
       tree'[q] = tree[q] /\ srvLock'[q] = srvLock[q] /\ (Steady => nopen'[q] = nopen[q])
  /\ \A o \in Objs : heap[o] # Freed /\ heap[o].path # p => heap'[o] = heap[o]

\* The path p is the one thread t works on, before or after the step.
WorksOn(t, p) ==
  p \in {path[t], path'[t]} /\ path[t] \in {p, NoPath} /\ path'[t] \in {p, NoPath}

\* It may change more of p than the count of its record only when no other thread
\* has a request on p in flight under the rwlock.
Careful(t, p) ==
  \/ /\ tree'[p] = tree[p] /\ srvLock'[p] = srvLock[p]
     /\ \A o \in Objs \ {tree[p]} : heap[o] # Freed => heap'[o] = heap[o]
  \/ \A u \in Threads \ {t} : Holding(u) => p \notin Names(u)

Local(t, p) == OwnThread(t) /\ OwnPath(p) /\ WorksOn(t, p) /\ Careful(t, p)

\* A thread that has its names for itself is not disturbed by t.
LEMMA Elsewhere ==
  ASSUME NEW t \in Threads, NEW p \in Paths, NEW u \in Threads \ {t}, SerialInv, SerialInv',
         OwnThread(t), WorksOn(t, p), op[u] \in Exclusive \cup Solo
  PROVE  path[u] # p
<1>1. op'[u] = op[u] /\ path'[u] = path[u]
  BY DEF OwnThread, Alone
<1>2. CASE p = path[t]
  BY <1>2, ConstantsAssumption DEF SerialInv, Apart, Names
<1>3. CASE p = path'[t]
  BY <1>1, <1>3, ConstantsAssumption DEF SerialInv, Apart, Names
<1> QED BY <1>2, <1>3 DEF WorksOn

LEMMA UnlockElsewhere ==
  ASSUME NEW t \in Threads, NEW p \in Paths, NEW u \in Threads \ {t}, SerialInv, SerialInv',
         OwnThread(t), WorksOn(t, p), meth[u] = "unlock"
  PROVE  path[u] # p
<1>1. op[u] \in Solo
  BY DEF SerialInv, Releases, ReleasesAlone
<1> QED BY <1>1, Elsewhere

LEMMA OtherThread ==
  ASSUME NEW t \in Threads, NEW p \in Paths, NEW u \in Threads \ {t},
         Orderly, SerialInv, SerialInv', Local(t, p), ThreadOK(u)
  PROVE  ThreadOK(u)'
<1>1. /\ pc'[u] = pc[u] /\ meth'[u] = meth[u] /\ path'[u] = path[u] /\ dest'[u] = dest[u]
      /\ op'[u] = op[u] /\ ex'[u] = ex[u] /\ fl'[u] = fl[u] /\ hdr'[u] = hdr[u]
      /\ rdHold'[u] = rdHold[u] /\ (wrHold' = u <=> wrHold = u)
  BY DEF Local, OwnThread, Alone
<1>2. Course(u)'
  BY <1>1 DEF ThreadOK, Course
<1>3. HoldExact(u)'
  BY <1>1 DEF ThreadOK, HoldExact, Holding
<1>4. InFlight(u)'
  <2> SUFFICES ASSUME pc[u] = "req" PROVE InFlight(u)'
    BY <1>1 DEF InFlight
  <2>1. InFlight(u) /\ path[u] \in Paths
        /\ (meth[u] \in {"move", "copy"} => dest[u] \in Paths)
    BY DEF ThreadOK, SerialInv, Inv, ControlOK
  <2>2. CASE Holding(u)
    <3>1. Targets(u)' = Targets(u) /\ Targets(u) \subseteq Names(u)
          /\ Names(u) \subseteq Paths /\ path[u] \in Names(u)
      BY <1>1, <2>1, ConstantsAssumption DEF Targets, Names, SerialInv, Inv, TypeOK
    <3>2. \A q \in Names(u) : tree'[q] = tree[q] /\ srvLock'[q] = srvLock[q]
      BY <2>2, <3>1 DEF Local, Careful, OwnPath
    <3>3. Admits(Targets(u), hdr[u]) => Admits(Targets(u), hdr[u])'
      BY <3>1, <3>2, <1>1 DEF Admits
    <3>4. ASSUME meth[u] = "lock" PROVE heap'[fl[u]] = heap[fl[u]]
      <4>1. fl[u] \in Objs /\ heap[fl[u]] # Freed /\ heap[fl[u]].path = path[u]
        BY <3>4 DEF SerialInv, RecordsOwned, OwnRecord, Owning, Inv, TypeOK
      <4>2. CASE path[u] # p
        BY <4>1, <4>2 DEF Local, OwnPath
      <4>3. CASE path[u] = p
        <5>1. tree[p] # fl[u]
          BY <3>4, <4>1, <4>3, <2>1, ConstantsAssumption DEF InFlight
        <5> QED BY <4>1, <4>3, <5>1, <2>2, <3>1 DEF Local, Careful
      <4> QED BY <4>2, <4>3
    <3>5. meth[u] # "unlock"
      BY <2>2 DEF Holding, Guarded, Puts
    <3> QED BY <1>1, <2>1, <3>1, <3>2, <3>3, <3>4, <3>5 DEF InFlight
  <2>3. CASE ~Holding(u)
    <3>1. meth[u] \notin Guarded \cup {"lock", "delete", "move"}
      BY <2>3 DEF Holding, Guarded
    <3>2. ASSUME meth[u] = "unlock"
          PROVE  heap'[fl[u]].token = srvLock'[path[u]] /\ tree'[path[u]] = NoObj
      <4>1. path[u] # p
        BY <3>2, UnlockElsewhere DEF Local
      <4>2. fl[u] \in Objs /\ heap[fl[u]] # Freed /\ heap[fl[u]].path = path[u]
        BY <3>2 DEF SerialInv, RecordsOwned, OwnRecord, Owning, Inv, TypeOK
      <4>3. /\ heap'[fl[u]] = heap[fl[u]] /\ srvLock'[path[u]] = srvLock[path[u]]
            /\ tree'[path[u]] = tree[path[u]]
        BY <4>1, <4>2, <2>1 DEF Local, OwnPath
      <4> QED BY <4>3, <3>2, <2>1 DEF InFlight
    <3> QED BY <1>1, <3>1, <3>2 DEF InFlight
  <2> QED BY <2>2, <2>3
<1>5. Unopened(u)'
  <2>1. ASSUME Steady, op[u] = "unlink" PROVE nopen'[path[u]] = 0
    <3>1. path[u] # p /\ path[u] \in Paths /\ nopen[path[u]] = 0
      BY <2>1, Elsewhere DEF Local, Exclusive, ThreadOK, Unopened, Course, SerialInv, Inv, ControlOK
    <3> QED BY <3>1, <2>1 DEF Local, OwnPath
  <2>2. ASSUME Served, op[u] = "create", meth[u] # "head" PROVE srvLock'[path[u]] = NoTok
    <3>1. op[u] \in Solo
      BY <2>2 DEF SerialInv, Releases, Served
    <3>2. path[u] # p /\ path[u] \in Paths /\ srvLock[path[u]] = NoTok
      BY <2>2, <3>1, Elsewhere DEF Local, ThreadOK, Unopened, Course, SerialInv, Inv, ControlOK
    <3> QED BY <3>2 DEF Local, OwnPath
  <2> QED BY <1>1, <2>1, <2>2 DEF Unopened
<1> QED BY <1>2, <1>3, <1>4, <1>5 DEF ThreadOK

LEMMA OtherPath ==
  ASSUME NEW t \in Threads, NEW p \in Paths, NEW q \in Paths \ {p},
         SerialInv, Local(t, p), phase' = phase, PathOK(q)
  PROVE  PathOK(q)'
<1>1. /\ path[t] # q /\ path'[t] # q
      /\ \A u \in Threads \ {t} :
           /\ pc'[u] = pc[u] /\ meth'[u] = meth[u] /\ path'[u] = path[u]
           /\ (wrHold' = u <=> wrHold = u)
  BY ConstantsAssumption DEF Local, WorksOn, OwnThread, Alone
<1>2. \A u \in Threads : Departing(u, q) => Departing(u, q)'
  <2> SUFFICES ASSUME NEW u \in Threads, Departing(u, q) PROVE Departing(u, q)'
    OBVIOUS
  <2>1. u # t
    BY <1>1 DEF Departing
  <2> QED BY <2>1, <1>1 DEF Departing
<1>3. \A s : Releasing(q, s)' = Releasing(q, s)
  BY <1>1 DEF Releasing
<1>4. /\ tree'[q] = tree[q] /\ srvLock'[q] = srvLock[q] /\ (Steady => nopen'[q] = nopen[q])
      /\ tree[q] # NoObj => heap'[tree[q]] = heap[tree[q]]
  BY DEF Local, OwnPath, SerialInv, RecordsOwned, Inv, TypeOK
<1>5. Agree(q)'
  BY <1>2, <1>4 DEF PathOK, Agree
<1>6. Steady /\ Counted(q) => Counted(q)'
  BY <1>3, <1>4 DEF Counted
<1> QED BY <1>5, <1>6 DEF PathOK

\* The invariant is kept by a local step that keeps it for its own thread and
\* path.
LEMMA LocalStep ==
  ASSUME NEW t \in Threads, NEW p \in Paths, HealthyInv, SerialInv', Local(t, p),
         phase = "mounted", UNCHANGED <<mountVars, missed>>, Served => ~errs',
         ThreadOK(t)', PathOK(p)'
  PROVE  HealthyInv'
<1>1. MountOK'
  BY DEF HealthyInv, MountOK, mountVars
<1>2. \A u \in Threads : ThreadOK(u)'
  <2> SUFFICES ASSUME NEW u \in Threads \ {t} PROVE ThreadOK(u)'
    OBVIOUS
  <2> QED BY OtherThread DEF HealthyInv
<1>3. \A q \in Paths : PathOK(q)'
  <2> SUFFICES ASSUME NEW q \in Paths \ {p} PROVE PathOK(q)'
    OBVIOUS
  <2> QED BY OtherPath DEF HealthyInv, mountVars
<1> QED BY <1>1, <1>2, <1>3 DEF HealthyInv, Orderly, Steady, ReleasesAlone

-----------------------------------------------------------------------------
(* What the invariant says of a thread that takes a step.                  *)

LEMMA Alive ==
  ASSUME NEW t \in Threads, HealthyInv, pc[t] # "idle"
  PROVE  /\ ThreadType /\ RwType /\ TableType /\ NetType /\ ControlOK /\ TreeLive
         /\ RwExclusive /\ RequestsHoldLock /\ ~fault /\ phase = "mounted"
         /\ path[t] \in Paths /\ path[t] \in Names(t)
         /\ ThreadOK(t) /\ PathOK(path[t]) /\ ex[t] = "none" /\ Faults = {}
         /\ op[t] \in Ops /\ op[t] \in AllOps \ {"none"}
<1>1. Inv /\ ~fault /\ ThreadOK(t) /\ Faults = {}
  BY DEF HealthyInv, SerialInv, NoDanglingUse, Orderly
<1>2. path[t] \in Paths /\ phase = "mounted"
  BY <1>1 DEF Inv, ControlOK, PhaseOK
<1>3. op[t] \in Ops /\ op[t] \in AllOps \ {"none"}
  BY <1>1, ConstantsAssumption DEF ThreadOK, Course, HealthyInv, SerialInv, Releases
<1> QED BY <1>1, <1>2, <1>3, TypeParts, ConstantsAssumption
       DEF Inv, HealthyInv, Names, ThreadOK, Course

\* Whoever has, or can take, the write lock is the only one with a request in
\* flight under the rwlock.
LEMMA WriterCareful ==
  ASSUME NEW t \in Threads, HealthyInv, wrHold = t \/ WrFree
  PROVE  \A u \in Threads \ {t} : ~Holding(u)
<1>1. RwType /\ RwExclusive /\ RequestsHoldLock
  BY TypeParts DEF HealthyInv, SerialInv, Inv
<1> QED BY <1>1, WriterAlone DEF Holding

\* Under the rwlock, the If header that __dav_header_if makes for a name of the
\* thread is what the server wants for it.
LEMMA HeaderRight ==
  ASSUME NEW t \in Threads, HealthyInv, pc[t] # "idle", NEW p \in Paths, p \in Names(t),
         wrHold = NoThread \/ wrHold = t \/ rdHold[t] > 0, ~Departing(t, p)
  PROVE  /\ tree[p] = NoObj => srvLock[p] = NoTok
         /\ tree[p] # NoObj => srvLock[p] = heap[tree[p]].token /\ srvLock[p] \in Tokens
         /\ srvLock[p] \in Token(p) \cup {NoTok}
         /\ Token(p) # {} => srvLock[p] \in Token(p)
<1>1. RwType /\ RwExclusive /\ TableType /\ TreeLive /\ ~fault /\ PathOK(p)
  BY Alive DEF HealthyInv
<1>2. ASSUME NEW u \in Threads, Departing(u, p) PROVE FALSE
  <2>1. u # t /\ p \in Names(u)
    BY <1>2, ConstantsAssumption DEF Departing, Names
  <2>2. wrHold # u
    BY <2>1, <1>1, ConstantsAssumption DEF RwType, RwExclusive
  <2>3. op[u] = "release" /\ op[u] \in Solo
    BY <1>2, <2>2 DEF Departing, HealthyInv, SerialInv, Releases, ReleasesAlone
  <2> QED BY <2>1, <2>3 DEF HealthyInv, SerialInv, Apart
<1>3. tree[p] = NoObj => srvLock[p] = NoTok
  BY <1>1, <1>2 DEF PathOK, Agree
<1>4. tree[p] # NoObj => srvLock[p] = heap[tree[p]].token /\ srvLock[p] \in Tokens
  BY <1>1 DEF PathOK, Agree, TreeLive
<1> QED BY <1>3, <1>4 DEF Token

-----------------------------------------------------------------------------
(* Steps that change nothing but the control.                              *)

SameWorld == UNCHANGED <<tableVars, rwVars, srvLock, hdr, mountVars, missed>>

LEMMA StillGoto ==
  ASSUME NEW t \in Threads, HealthyInv, SerialInv', SameWorld,
         pc[t] \in {"start", "wr"}, meth[t] # "unlock",
         NEW m \in Methods, NEW s \in {"start", "wr"}, Goto(t, m, s),
         m # "unlock", m \in MethodsOf(op[t]),
         Served /\ op[t] = "create" /\ m # "head" => srvLock[path[t]] = NoTok
  PROVE  HealthyInv'
<1>0. PICK p \in Paths : p = path[t]
  BY Alive
<1>1. /\ ThreadType /\ phase = "mounted" /\ ThreadOK(t) /\ PathOK(p)
      /\ op[t] \in AllOps \ {"none"}
  BY <1>0, Alive
<1>2. /\ Alone(t) /\ pc'[t] = s /\ meth'[t] = m /\ path' = path /\ dest' = dest
      /\ op' = op /\ ex' = ex /\ errs' = errs /\ nopen' = nopen
  BY <1>1 DEF Goto, ThreadType, Alone
<1>3. /\ tree' = tree /\ heap' = heap /\ fl' = fl /\ rdHold' = rdHold /\ wrHold' = wrHold
      /\ srvLock' = srvLock /\ hdr' = hdr /\ phase' = phase
      /\ UNCHANGED <<mountVars, missed>>
  BY DEF SameWorld, tableVars, rwVars, mountVars
<1>4. Local(t, p)
  BY <1>0, <1>2, <1>3 DEF Local, OwnThread, OwnPath, WorksOn, Careful
<1>5. ThreadOK(t)'
  <2>1. Course(t)'
    BY <1>1, <1>2 DEF ThreadOK, Course
  <2>2. HoldExact(t)' /\ InFlight(t)'
    BY <1>1, <1>2, <1>3 DEF ThreadOK, HoldExact, Holding, InFlight
  <2>3. Unopened(t)'
    BY <1>1, <1>2, <1>3 DEF ThreadOK, Unopened
  <2> QED BY <2>1, <2>2, <2>3 DEF ThreadOK
<1>6. PathOK(p)'
  <2>1. \A u \in Threads : Departing(u, p) => Departing(u, p)'
    BY <1>0, <1>2, <1>3 DEF Departing, Alone
  <2>2. \A x : Releasing(p, x)' = Releasing(p, x)
    BY <1>0, <1>2 DEF Releasing, Alone
  <2> QED BY <1>1, <1>2, <1>3, <2>1, <2>2 DEF PathOK, Agree, Counted
<1>7. Served => ~errs'
  BY <1>2 DEF HealthyInv, MountOK
<1> QED BY <1>1, <1>3, <1>4, <1>5, <1>6, <1>7, LocalStep

\* A handler returns without having opened anything.
LEMMA StillReturn ==
  ASSUME NEW t \in Threads, HealthyInv, SerialInv', SameWorld,
         pc[t] \in {"start", "wr"}, meth[t] # "unlock",
         NEW r, Return(t, r, "none"), r = "error" => ~Served,
         r = "ok" => op[t] \notin OpenOps \cup {"rename"}
  PROVE  HealthyInv'
<1>0. PICK p \in Paths : p = path[t]
  BY Alive
<1>1. /\ ThreadType /\ phase = "mounted" /\ ThreadOK(t) /\ PathOK(p)
  BY <1>0, Alive
<1>2. nopen' = nopen
  BY DEF Return
<1>3. /\ Alone(t) /\ pc'[t] = "idle" /\ meth'[t] = "none" /\ path'[t] = NoPath /\ ex'[t] = "none"
      /\ op'[t] = "none" /\ \A u \in Threads \ {t} : op'[u] = op[u] /\ ex'[u] = ex[u]
      /\ errs' = (errs \/ r = "error")
  BY <1>1 DEF Return, ThreadType, Alone
<1>4. /\ tree' = tree /\ heap' = heap /\ fl' = fl /\ rdHold' = rdHold /\ wrHold' = wrHold
      /\ srvLock' = srvLock /\ hdr' = hdr /\ phase' = phase
      /\ UNCHANGED <<mountVars, missed>>
  BY DEF SameWorld, tableVars, rwVars, mountVars
<1>5. Local(t, p)
  BY <1>0, <1>2, <1>3, <1>4 DEF Local, OwnThread, OwnPath, WorksOn, Careful
<1>6. ThreadOK(t)'
  <2>1. Course(t)' /\ Unopened(t)'
    BY <1>3 DEF Course, MethodsOf, Unopened
  <2>2. HoldExact(t)' /\ InFlight(t)'
    BY <1>1, <1>3, <1>4 DEF ThreadOK, HoldExact, Holding, InFlight
  <2> QED BY <2>1, <2>2 DEF ThreadOK
<1>7. PathOK(p)'
  <2>1. \A u \in Threads : Departing(u, p) => Departing(u, p)'
    BY <1>0, <1>3, <1>4 DEF Departing, Alone
  <2>2. \A x : Releasing(p, x)' = Releasing(p, x)
    BY <1>0, <1>3 DEF Releasing, Alone
  <2> QED BY <1>1, <1>2, <1>4, <2>1, <2>2 DEF PathOK, Agree, Counted
<1>8. Served => ~errs'
  BY <1>3 DEF HealthyInv, MountOK
<1> QED BY <1>1, <1>4, <1>5, <1>6, <1>7, <1>8, LocalStep

\* dav_getattr, dav_head and dav_chmod. A chmod of a locked file is refused, but
\* without any lock held.
LEMMA SimpleHealthy ==
  ASSUME NEW t \in Threads, HealthyInv, SerialInv', SimpleOk(t) \/ SimpleError(t)
  PROVE  HealthyInv'
<1>1. /\ ~fault /\ pc[t] = "start" /\ meth[t] \in Simple /\ ex[t] = "none" /\ SameWorld
  BY DEF SimpleOk, SimpleError, SameWorld
<1>2. ThreadOK(t) /\ Faults = {} /\ op[t] \in Ops
  BY <1>1, Alive
<1>3. \/ op[t] = "opentrunc" /\ meth[t] \in {"getattr", "chmod"}
      \/ op[t] = "truncate" /\ meth[t] \in {"getattr", "chmod"}
      \/ op[t] = "create" /\ meth[t] \in {"head", "chmod"}
      \/ op[t] = "copy" /\ meth[t] = "getattr"
      \/ op[t] = "chmod" /\ meth[t] = "chmod"
  BY <1>1, <1>2 DEF ThreadOK, Course, MethodsOf, Simple
<1>4. meth[t] # "unlock" /\ pc[t] \in {"start", "wr"}
  BY <1>1, <1>3
<1>5. ASSUME NEW m \in Methods, Goto(t, m, "start"), m # "unlock", m \in MethodsOf(op[t]),
             op[t] = "create" /\ meth[t] = "head" => srvLock[path[t]] = NoTok
      PROVE  HealthyInv'
  <2>1. Served /\ op[t] = "create" /\ m # "head" => srvLock[path[t]] = NoTok
    BY <1>2, <1>5 DEF ThreadOK, Unopened
  <2> QED BY <1>1, <1>4, <1>5, <2>1, StillGoto
<1>6. CASE SimpleOk(t) /\ Advance(t) /\ (meth[t] = "head" => srvLock[path[t]] = NoTok)
  <2> DEFINE m == NextMethod(op[t], meth[t])
  <2>1. CASE m = "end"
    <3>1. Return(t, "ok", "none")
      BY <1>1, <1>6, <2>1 DEF Advance
    <3>2. op[t] \notin OpenOps \cup {"rename"}
      BY <1>3, <2>1 DEF NextMethod, OpenOps
    <3> QED BY <3>1, <3>2, <1>1, <1>4, StillReturn
  <2>2. CASE m # "end"
    <3>1. Goto(t, m, "start")
      BY <1>6, <2>2 DEF Advance
    <3>2. m \in Methods /\ m # "unlock" /\ m \in MethodsOf(op[t])
      BY <1>3, <2>2 DEF NextMethod, MethodsOf, Methods, Guarded, Puts, Simple
    <3> QED BY <3>1, <3>2, <1>5, <1>6
  <2> QED BY <2>1, <2>2
<1>7. CASE SimpleOk(t) /\ meth[t] = "getattr"
           /\ IF op[t] = "opentrunc" THEN Goto(t, "lock", "start") ELSE Return(t, "ok", "none")
  <2>1. CASE op[t] = "opentrunc"
    <3>1. Goto(t, "lock", "start") /\ "lock" \in Methods /\ "lock" \in MethodsOf(op[t])
      BY <1>7, <2>1 DEF Methods, MethodsOf
    <3>2. op[t] # "create"
      BY <2>1
    <3> QED BY <3>1, <3>2, <1>5
  <2>2. CASE op[t] # "opentrunc"
    <3>1. Return(t, "ok", "none") /\ op[t] \notin OpenOps \cup {"rename"}
      BY <1>3, <1>7, <2>2 DEF OpenOps
    <3> QED BY <3>1, <1>1, <1>4, StillReturn
  <2> QED BY <2>1, <2>2
<1>8. CASE SimpleOk(t) /\ meth[t] = "head" /\ Return(t, "exists", "none")
  BY <1>1, <1>4, <1>8, StillReturn
<1>9. CASE SimpleError(t)
  <2>1. Return(t, "error", "none") /\ meth[t] = "chmod" /\ ~Admits({path[t]}, {})
    BY <1>2, <1>9 DEF SimpleError, Fail
  <2>2. ~Served
    <3> SUFFICES ASSUME Served PROVE FALSE
      OBVIOUS
    <3>1. op[t] = "create"
      BY <1>2, <1>3, <2>1 DEF Served, Steady
    <3>2. srvLock[path[t]] = NoTok
      BY <3>1, <2>1, <1>2 DEF ThreadOK, Unopened
    <3> QED BY <2>1, <3>2 DEF Admits
  <2> QED BY <2>1, <2>2, <1>1, <1>4, StillReturn
<1> QED BY <1>3, <1>6, <1>7, <1>8, <1>9 DEF SimpleOk

-----------------------------------------------------------------------------
(* Requests made under the rwlock.                                         *)

LEMMA RequestBegins ==
  ASSUME NEW t \in Threads, HealthyInv, SerialInv',
         pc[t] \in {"start", "wr"}, meth[t] \in Guarded, Goto(t, meth[t], "req"),
         RdLock(t) \/ WrLock(t), UNCHANGED <<fl, fault, srvLock, mountVars, missed>>,
         \A u \in Threads \ {t} : hdr'[u] = hdr[u], Admits(Targets(t), hdr'[t]),
         \/ UNCHANGED <<tree, heap>>
         \/ /\ WrLock(t) /\ DropRecord(path[t]) /\ meth[t] \in {"delete", "move"}
            /\ Steady => tree[path[t]] = NoObj,
         meth[t] \in {"delete", "move"} => tree'[path[t]] = NoObj
  PROVE  HealthyInv'
<1>0. PICK p \in Paths : p = path[t]
  BY Alive
<1>1. /\ ThreadType /\ RwType /\ TableType /\ TreeLive /\ RwExclusive /\ ~fault
      /\ phase = "mounted" /\ ThreadOK(t) /\ PathOK(p)
  BY <1>0, Alive
<1>2. /\ Alone(t) /\ pc'[t] = "req" /\ meth' = meth /\ path' = path /\ dest' = dest
      /\ op' = op /\ ex' = ex /\ errs' = errs /\ nopen' = nopen
  BY <1>1 DEF Goto, ThreadType, Alone
<1>3. /\ \A u \in Threads \ {t} : rdHold'[u] = rdHold[u] /\ (wrHold' = u <=> wrHold = u)
      /\ rdHold'[t] <= 1
  <2>1. rdHold[t] = 0
    BY <1>1 DEF ThreadOK, HoldExact, Holding
  <2>2. CASE RdLock(t)
    BY <1>1, <2>1, <2>2 DEF RdLock, RwType
  <2>3. CASE WrLock(t)
    BY <1>1, <2>1, <2>3, ConstantsAssumption DEF WrLock, WrFree, RwType
  <2> QED BY <2>2, <2>3
<1>4. meth[t] # "unlock" /\ meth[t] # "lock" /\ phase' = phase /\ UNCHANGED <<mountVars, missed>>
  BY DEF Guarded, Puts, mountVars
<1>5. /\ \A q \in Paths \ {p} : tree'[q] = tree[q]
      /\ \A o \in Objs : heap[o] # Freed /\ heap[o].path # p => heap'[o] = heap[o]
  <2>1. CASE UNCHANGED <<tree, heap>>
    BY <2>1
  <2>2. CASE DropRecord(path[t])
    BY <2>2, <1>0, <1>1 DEF DropRecord, TableType, TreeLive
  <2> QED BY <2>1, <2>2
<1>6. Local(t, p)
  <2>1. OwnThread(t) /\ OwnPath(p) /\ WorksOn(t, p)
    BY <1>0, <1>2, <1>3, <1>5 DEF OwnThread, OwnPath, WorksOn
  <2>2. Careful(t, p)
    BY WriterCareful DEF Careful, WrLock
  <2> QED BY <2>1, <2>2 DEF Local
<1>7. ThreadOK(t)'
  <2>1. Course(t)' /\ Unopened(t)' /\ HoldExact(t)'
    BY <1>1, <1>2, <1>3 DEF ThreadOK, Course, Unopened, HoldExact, Holding
  <2>2. Targets(t)' = Targets(t)
    BY <1>2 DEF Targets
  <2>3. Admits(Targets(t), hdr[t])'
    BY <2>2 DEF Admits
  <2>4. InFlight(t)'
    BY <2>3, <1>2, <1>4 DEF InFlight
  <2> QED BY <2>1, <2>4 DEF ThreadOK
<1>8. PathOK(p)'
  <2>1. \A x : Releasing(p, x)' = Releasing(p, x)
    BY <1>0, <1>2, <1>4 DEF Releasing, Alone
  <2>2. CASE UNCHANGED <<tree, heap>>
    <3>1. \A u \in Threads : Departing(u, p) => Departing(u, p)'
      BY <1>0, <1>2, <1>3, <1>4 DEF Departing, Alone
    <3> QED BY <2>1, <2>2, <3>1, <1>1, <1>2, <1>4 DEF PathOK, Agree, Counted
  <2>3. CASE /\ WrLock(t) /\ DropRecord(path[t]) /\ meth[t] \in {"delete", "move"}
             /\ Steady => tree[path[t]] = NoObj
    <3>1. Departing(t, p)' /\ tree'[p] = NoObj
      BY <2>3, <1>0, <1>2 DEF Departing, WrLock
    <3>2. Steady => tree[p] = NoObj
      BY <2>3, <1>0
    <3> QED BY <2>1, <3>1, <3>2, <1>1, <1>2, <1>4 DEF PathOK, Agree, Counted
  <2> QED BY <2>2, <2>3
<1>9. Served => ~errs'
  BY <1>2 DEF HealthyInv, MountOK
<1> QED BY <1>1, <1>4, <1>6, <1>7, <1>8, <1>9, LocalStep

\* A file that is unlinked has no record, unless truncations and renames may take
\* records from open files.
LEMMA UnlinkNoRecord ==
  ASSUME NEW t \in Threads, HealthyInv, Steady, op[t] = "unlink", pc[t] # "idle"
  PROVE  tree[path[t]] = NoObj
<1>1. PICK p \in Paths : p = path[t]
  BY Alive
<1>2. nopen[p] = 0 /\ Counted(p)
  BY <1>1, Alive DEF ThreadOK, Unopened, PathOK
<1>3. ASSUME NEW s, Releasing(p, s) PROVE FALSE
  <2>1. PICK u \in Threads : meth[u] = "unlock" /\ path[u] = p
    BY <1>3 DEF Releasing
  <2>2. op[u] = "release"
    BY <2>1 DEF HealthyInv, SerialInv, Releases
  <2> QED BY <1>1, <2>1, <2>2, ConstantsAssumption DEF HealthyInv, SerialInv, Apart, Exclusive, Names
<1> QED BY <1>1, <1>2, <1>3 DEF Counted

LEMMA BeginSteps ==
  ASSUME NEW t \in Threads, HealthyInv, SerialInv',
         PutStart(t) \/ DeleteStart(t) \/ MoveStart(t) \/ MoveWr(t)
  PROVE  HealthyInv'
<1>1. pc[t] \in {"start", "wr"} /\ meth[t] \in Guarded /\ ~fault
  BY DEF PutStart, DeleteStart, MoveStart, MoveWr, At, Guarded
<1>2. /\ ThreadType /\ TableType /\ NetType /\ TreeLive /\ path[t] \in Paths /\ ThreadOK(t)
      /\ ControlOK /\ op[t] \in Ops
  BY <1>1, Alive
<1>3. wrHold = NoThread
  BY DEF PutStart, DeleteStart, MoveStart, MoveWr, RdLock, WrLock, RdFree, WrFree
<1>4. ASSUME NEW p \in Paths, p \in Names(t)
      PROVE  /\ srvLock[p] \in Token(p) \cup {NoTok}
             /\ Token(p) # {} => srvLock[p] \in Token(p)
             /\ tree[p] = NoObj => srvLock[p] = NoTok
  <2>1. ~Departing(t, p) /\ pc[t] # "idle"
    BY <1>1 DEF Departing
  <2> QED BY <1>3, <1>4, <2>1, HeaderRight
<1>5. meth[t] \in {"move", "copy"} => dest[t] \in Paths
  BY <1>1, <1>2 DEF ControlOK
<1>6. path[t] \in Names(t) /\ (dest[t] \in Paths => dest[t] \in Names(t))
  BY <1>2, ConstantsAssumption DEF Names
<1>7. CASE PutStart(t)
  <2>1. /\ meth[t] \in Puts \cup {"copy"} /\ RdLock(t) /\ Goto(t, meth[t], "req")
        /\ UNCHANGED <<tree, heap, fl, fault, srvLock, mountVars, missed>>
        /\ hdr' = [hdr EXCEPT ![t] = Token(HeaderPath(t))]
    BY <1>7 DEF PutStart, tableVars
  <2>2. hdr'[t] = Token(HeaderPath(t)) /\ \A u \in Threads \ {t} : hdr'[u] = hdr[u]
    BY <2>1, <1>2 DEF NetType
  <2>3. /\ Targets(t) = {HeaderPath(t)} /\ HeaderPath(t) \in Paths /\ HeaderPath(t) \in Names(t)
        /\ meth[t] \notin {"delete", "move"}
    BY <2>1, <1>2, <1>5, <1>6 DEF Targets, HeaderPath, Puts
  <2>4. Admits(Targets(t), hdr'[t])
    BY <2>2, <2>3, <1>4 DEF Admits
  <2> QED BY <2>1, <2>2, <2>3, <2>4, <1>1, RequestBegins
<1>8. CASE DeleteStart(t)
  <2>1. /\ meth[t] = "delete" /\ WrLock(t) /\ Goto(t, meth[t], "req") /\ DropRecord(path[t])
        /\ UNCHANGED <<fl, fault, srvLock, mountVars, missed>>
        /\ hdr' = [hdr EXCEPT ![t] = Token(path[t])]
    BY <1>8 DEF DeleteStart, At
  <2>2. hdr'[t] = Token(path[t]) /\ \A u \in Threads \ {t} : hdr'[u] = hdr[u]
    BY <2>1, <1>2 DEF NetType
  <2>3. Admits(Targets(t), hdr'[t])
    BY <2>1, <2>2, <1>2, <1>4, <1>6 DEF Admits, Targets
  <2>4. Steady => tree[path[t]] = NoObj
    <3>1. Steady => op[t] = "unlink"
      BY <2>1, <1>2 DEF ThreadOK, Course, MethodsOf, Steady
    <3> QED BY <3>1, <1>1, UnlinkNoRecord
  <2>5. tree'[path[t]] = NoObj
    BY <2>1, <1>2 DEF DropRecord, TableType
  <2> QED BY <2>1, <2>2, <2>3, <2>4, <2>5, <1>1, RequestBegins
<1>9. CASE MoveStart(t) /\ tree[path[t]] = NoObj
  <2>1. /\ meth[t] = "move" /\ RdLock(t) /\ Goto(t, meth[t], "req")
        /\ UNCHANGED <<tree, heap, fl, fault, srvLock, mountVars, missed>>
        /\ hdr' = [hdr EXCEPT ![t] = Token(dest[t])]
    BY <1>9 DEF MoveStart, At, tableVars
  <2>2. hdr'[t] = Token(dest[t]) /\ \A u \in Threads \ {t} : hdr'[u] = hdr[u]
    BY <2>1, <1>2 DEF NetType
  <2>3. Targets(t) = {path[t], dest[t]}
    BY <2>1 DEF Targets
  <2>4. Admits(Targets(t), hdr'[t])
    BY <2>1, <2>2, <2>3, <1>2, <1>4, <1>5, <1>6, <1>9 DEF Admits
  <2>5. tree'[path[t]] = NoObj
    BY <2>1, <1>9
  <2> QED BY <2>1, <2>2, <2>4, <2>5, <1>1, RequestBegins
<1>10. CASE MoveStart(t) /\ tree[path[t]] # NoObj
  <2>1. meth[t] = "move" /\ pc[t] = "start" /\ Goto(t, "move", "wr") /\ SameWorld
    BY <1>10 DEF MoveStart, At, SameWorld
  <2>2. "move" \in MethodsOf(op[t]) /\ op[t] # "create" /\ "move" \in Methods
    BY <2>1, <1>2 DEF ThreadOK, Course, MethodsOf, Methods, Guarded
  <2> QED BY <2>1, <2>2, <1>1, StillGoto
<1>11. CASE MoveWr(t)
  <2>1. /\ meth[t] = "move" /\ WrLock(t) /\ Goto(t, meth[t], "req") /\ DropRecord(path[t])
        /\ UNCHANGED <<fl, fault, srvLock, mountVars, missed>>
        /\ hdr' = [hdr EXCEPT ![t] = Token(path[t]) \cup Token(dest[t])]
    BY <1>11 DEF MoveWr, At
  <2>2. /\ hdr'[t] = Token(path[t]) \cup Token(dest[t])
        /\ \A u \in Threads \ {t} : hdr'[u] = hdr[u]
    BY <2>1, <1>2 DEF NetType
  <2>3. Targets(t) = {path[t], dest[t]}
    BY <2>1 DEF Targets
  <2>4. Admits(Targets(t), hdr'[t])
    BY <2>1, <2>2, <2>3, <1>2, <1>4, <1>5, <1>6 DEF Admits
  <2>5. ~Steady
    BY <2>1, <1>2 DEF ThreadOK, Course, MethodsOf, Steady
  <2>6. tree'[path[t]] = NoObj
    BY <2>1, <1>2 DEF DropRecord, TableType
  <2> QED BY <2>1, <2>2, <2>4, <2>5, <2>6, <1>1, RequestBegins
<1> QED BY <1>7, <1>8, <1>9, <1>10, <1>11

\* After the answer the handler returns, or goes on with its next method.
LEMMA AfterRequest ==
  ASSUME NEW t \in Threads, HealthyInv, pc[t] = "req", meth[t] \in Guarded, Advance(t)
  PROVE  /\ Alone(t) /\ ThreadType' /\ errs' = errs /\ ex' = ex
         /\ \A u \in Threads \ {t} : op'[u] = op[u]
         /\ pc'[t] # "req" /\ meth'[t] # "unlock" /\ meth[t] # "unlock"
         /\ path'[t] \in {path[t], NoPath} /\ Course(t)'
         /\ op'[t] \in {op[t], "none"} /\ (op'[t] = "create" => meth[t] # "head")
         /\ op'[t] # "none" => path'[t] = path[t]
         /\ Steady => nopen' = nopen
<1>1. /\ ThreadType /\ ControlOK /\ ThreadOK(t) /\ op[t] \in Ops /\ op[t] # "none" /\ ex[t] = "none"
  BY Alive
<1>2. \/ op[t] = "write" /\ meth[t] = "put"
      \/ op[t] = "create" /\ meth[t] = "put"
      \/ op[t] = "opentrunc" /\ meth[t] \in {"delete", "put"}
      \/ op[t] = "truncate" /\ meth[t] \in {"delete", "put"}
      \/ op[t] = "unlink" /\ meth[t] = "delete"
      \/ op[t] = "rename" /\ meth[t] = "move"
      \/ op[t] = "copy" /\ meth[t] = "copy"
  BY <1>1 DEF ThreadOK, Course, MethodsOf, Guarded, Puts
<1> DEFINE m == NextMethod(op[t], meth[t])
<1>3. ThreadType' /\ Alone(t)
  BY <1>1, AdvanceStep DEF Leaves
<1>4. CASE m = "end"
  <2>1. Return(t, "ok", ex[t])
    BY <1>4 DEF Advance
  <2>2. op[t] \notin OpenOps /\ (Steady => op[t] # "rename")
    BY <1>1, <1>2, <1>4 DEF NextMethod, OpenOps, Steady
  <2>3. Steady => nopen' = nopen
    BY <2>1, <2>2 DEF Return
  <2>4. /\ pc'[t] = "idle" /\ meth'[t] = "none" /\ path'[t] = NoPath /\ op'[t] = "none"
        /\ ex' = ex /\ errs' = errs /\ \A u \in Threads \ {t} : op'[u] = op[u]
    <3>1. ex' = [ex EXCEPT ![t] = ex[t]] /\ errs' = (errs \/ "ok" = "error")
      BY <2>1 DEF Return
    <3>2. ex' = ex
      BY <3>1, <1>1 DEF ThreadType
    <3>3. errs' = errs
      BY <3>1, <1>1 DEF ThreadType
    <3> QED BY <3>2, <3>3, <2>1, <1>1 DEF Return, ThreadType
  <2>5. Course(t)'
    BY <2>4, <1>1 DEF Course, MethodsOf
  <2> QED BY <2>3, <2>4, <2>5, <1>2, <1>3
<1>5. CASE m # "end"
  <2>1. Goto(t, m, "start")
    BY <1>5 DEF Advance
  <2>2. m \in MethodsOf(op[t]) /\ m # "unlock" /\ meth[t] \notin {"unlock", "head"}
    BY <1>2, <1>5 DEF NextMethod, MethodsOf
  <2> HIDE DEF m
  <2>3. /\ pc'[t] = "start" /\ meth'[t] = m /\ path' = path /\ op' = op
        /\ ex' = ex /\ errs' = errs /\ nopen' = nopen
    BY <2>1, <1>1 DEF Goto, ThreadType
  <2>4. Course(t)'
    BY <2>2, <2>3, <1>1 DEF Course
  <2> QED BY <2>2, <2>3, <2>4, <1>3
<1> QED BY <1>4, <1>5

\* The rwlock is released as often as it was taken.
LEMMA UnlockExact ==
  ASSUME NEW t \in Threads, HealthyInv, Holding(t), RwUnlock(t)
  PROVE  /\ rdHold'[t] = 0 /\ wrHold' # t
         /\ \A u \in Threads \ {t} : rdHold'[u] = rdHold[u] /\ (wrHold' = u <=> wrHold = u)
<1>1. /\ RwType /\ RwExclusive /\ rdHold[t] <= 1 /\ (rdHold[t] > 0 \/ wrHold = t)
  BY Alive DEF Holding, ThreadOK, HoldExact, RequestsHoldLock
<1> QED BY <1>1, ConstantsAssumption DEF RwUnlock, RwType, RwExclusive

LEMMA RequestOkHealthy ==
  ASSUME NEW t \in Threads, HealthyInv, SerialInv', RequestOk(t)
  PROVE  HealthyInv'
<1>1. /\ pc[t] = "req" /\ meth[t] \in Guarded /\ Holding(t) /\ Advance(t) /\ RwUnlock(t)
      /\ srvLock' = Effect(t) /\ hdr' = [hdr EXCEPT ![t] = {}]
      /\ tree' = tree /\ heap' = heap /\ fl' = fl /\ phase' = phase
      /\ UNCHANGED <<mountVars, missed>>
  BY DEF RequestOk, Holding, tableVars, mountVars
<1>0. PICK p \in Paths : p = path[t]
  BY <1>1, Alive
<1>2. /\ ThreadType /\ RwType /\ NetType /\ RequestsHoldLock
      /\ phase = "mounted" /\ ThreadOK(t) /\ PathOK(p) /\ p \in Names(t)
  BY <1>0, <1>1, Alive
<1>3. /\ rdHold'[t] = 0 /\ wrHold' # t
      /\ \A u \in Threads \ {t} : rdHold'[u] = rdHold[u] /\ (wrHold' = u <=> wrHold = u)
  BY <1>1, UnlockExact
<1>4. /\ Alone(t) /\ ThreadType' /\ errs' = errs /\ ex' = ex
      /\ \A u \in Threads \ {t} : op'[u] = op[u]
      /\ pc'[t] # "req" /\ meth'[t] # "unlock" /\ meth[t] # "unlock"
      /\ path'[t] \in {p, NoPath} /\ Course(t)'
      /\ op'[t] \in {op[t], "none"} /\ (op'[t] = "create" => meth[t] # "head")
      /\ op'[t] # "none" => path'[t] = p
      /\ Steady => nopen' = nopen
  BY <1>0, <1>1, AfterRequest
<1>5. \A q \in Paths \ {p} : srvLock'[q] = srvLock[q]
  BY <1>0, <1>1, <1>2 DEF Effect, NetType
<1>6. IF meth[t] \in {"delete", "move"} THEN tree[p] = NoObj /\ srvLock'[p] = NoTok
                                        ELSE srvLock'[p] = srvLock[p]
  BY <1>0, <1>1, <1>2 DEF Effect, NetType, ThreadOK, InFlight
<1>7. Local(t, p)
  <2>1. \A u \in Threads \ {t} : hdr'[u] = hdr[u]
    BY <1>1, <1>2 DEF NetType
  <2>2. OwnThread(t) /\ OwnPath(p) /\ WorksOn(t, p)
    BY <1>0, <1>1, <1>3, <1>4, <1>5, <2>1 DEF OwnThread, OwnPath, WorksOn
  <2>3. Careful(t, p)
    <3>1. CASE wrHold = t
      BY <3>1, WriterCareful DEF Careful
    <3>2. CASE wrHold # t /\ meth[t] \in {"delete", "move"}
      <4>1. rdHold[t] > 0
        BY <3>2, <1>1, <1>2 DEF RequestsHoldLock
      <4>2. ~Departing(t, p) /\ pc[t] # "idle"
        BY <3>2, <1>1, <1>4 DEF Departing
      <4>3. srvLock[p] = NoTok
        BY <3>2, <4>1, <4>2, <1>2, <1>6, HeaderRight
      <4> QED BY <3>2, <4>3, <1>1, <1>6 DEF Careful
    <3>3. CASE meth[t] \notin {"delete", "move"}
      BY <3>3, <1>1, <1>6 DEF Careful
    <3> QED BY <3>1, <3>2, <3>3
  <2> QED BY <2>2, <2>3 DEF Local
<1>8. ThreadOK(t)'
  <2>1. HoldExact(t)' /\ InFlight(t)'
    BY <1>3, <1>4 DEF HoldExact, InFlight
  <2>2. Unopened(t)'
    <3>1. ASSUME Steady, op'[t] = "unlink" PROVE nopen'[path'[t]] = 0
      BY <3>1, <1>0, <1>2, <1>4 DEF ThreadOK, Unopened
    <3>2. ASSUME Served, op'[t] = "create" PROVE srvLock'[path'[t]] = NoTok
      <4>1. op[t] = "create" /\ meth[t] # "head" /\ path'[t] = p
        BY <3>2, <1>4
      <4>2. srvLock[p] = NoTok
        BY <4>1, <3>2, <1>0, <1>2 DEF ThreadOK, Unopened
      <4> QED BY <4>1, <4>2, <1>6
    <3> QED BY <3>1, <3>2 DEF Unopened
  <2> QED BY <2>1, <2>2, <1>4 DEF ThreadOK
<1>9. PathOK(p)'
  <2>1. \A x : Releasing(p, x)' = Releasing(p, x)
    BY <1>4 DEF Releasing, Alone
  <2>2. Agree(p)'
    <3>1. CASE meth[t] \in {"delete", "move"}
      BY <3>1, <1>1, <1>6 DEF Agree
    <3>2. CASE meth[t] \notin {"delete", "move"}
      <4>1. ASSUME NEW u \in Threads, Departing(u, p) PROVE Departing(u, p)'
        <5>1. u # t
          BY <3>2, <4>1, <1>4 DEF Departing
        <5> QED BY <4>1, <5>1, <1>3, <1>4 DEF Departing, Alone
      <4> QED BY <3>2, <4>1, <1>1, <1>2, <1>6 DEF PathOK, Agree
    <3> QED BY <3>1, <3>2
  <2> QED BY <2>1, <2>2, <1>1, <1>2, <1>4 DEF PathOK, Counted
<1>10. Served => ~errs'
  BY <1>4 DEF HealthyInv, MountOK
<1> QED BY <1>1, <1>2, <1>7, <1>8, <1>9, <1>10, LocalStep

\* On a healthy mount no request fails and no exception is pending.
LEMMA Impossible ==
  ASSUME NEW t \in Threads, HealthyInv,
         \/ StaleFail(t) \/ StaleHead(t) \/ HeaderOom(t) \/ RequestError(t)
         \/ Request416(t) \/ LockError(t) \/ UseAfterFree(t)
  PROVE  FALSE
<1>1. pc[t] # "idle"
  BY DEF StaleFail, StaleHead, HeaderOom, RequestError, Request416, LockError,
         UseAfterFree, At
<1>2. /\ RequestsHoldLock /\ ThreadOK(t) /\ ex[t] = "none" /\ Faults = {}
      /\ path[t] \in Paths /\ path[t] \in Names(t)
  BY <1>1, Alive
<1>3. CASE StaleFail(t) \/ StaleHead(t) \/ HeaderOom(t) \/ Request416(t)
  BY <1>2, <1>3 DEF StaleFail, StaleHead, HeaderOom, Request416
<1>4. CASE RequestError(t)
  BY <1>2, <1>4 DEF RequestError, ThreadOK, InFlight
<1>5. CASE LockError(t)
  <2>1. meth[t] = "lock" /\ pc[t] = "req" /\ srvLock[path[t]] # NoTok
    BY <1>2, <1>5 DEF LockError, At
  <2>2. tree[path[t]] = NoObj /\ wrHold = t /\ ~Departing(t, path[t])
    BY <1>2, <2>1 DEF ThreadOK, InFlight, RequestsHoldLock, Departing
  <2> QED BY <1>1, <1>2, <2>1, <2>2, HeaderRight
<1>6. CASE UseAfterFree(t)
  BY <1>6 DEF UseAfterFree, HealthyInv, SerialInv, RecordsOwned, OwnRecord, Owning
<1> QED BY <1>3, <1>4, <1>5, <1>6

-----------------------------------------------------------------------------
(* dav_lock.                                                               *)

\* An open that has its lock counts one handle more.
LEMMA OpenReturns ==
  ASSUME NEW t \in Threads, HealthyInv, pc[t] # "idle", meth[t] = "lock", Advance(t)
  PROVE  /\ Alone(t) /\ pc'[t] = "idle" /\ path'[t] = NoPath /\ errs' = errs /\ ex' = ex
         /\ meth'[t] = "none" /\ \A u \in Threads \ {t} : op'[u] = op[u]
         /\ Course(t)' /\ Unopened(t)'
         /\ nopen' = [nopen EXCEPT ![path[t]] = @ + 1]
<1>1. ThreadType /\ ThreadOK(t) /\ ex[t] = "none"
  BY Alive
<1>2. op[t] \in OpenOps
  BY <1>1 DEF ThreadOK, Course, MethodsOf, OpenOps
<1>3. Return(t, "ok", ex[t])
  BY <1>2 DEF Advance, NextMethod, OpenOps
<1>4. nopen' = [nopen EXCEPT ![path[t]] = @ + 1]
  BY <1>2, <1>3 DEF Return, OpenOps
<1>5. ex' = [ex EXCEPT ![t] = ex[t]] /\ errs' = (errs \/ "ok" = "error")
  BY <1>3 DEF Return
<1>6. ex' = ex
  BY <1>1, <1>5 DEF ThreadType
<1>7. errs' = errs
  BY <1>1, <1>5 DEF ThreadType
<1>8. /\ Alone(t) /\ pc'[t] = "idle" /\ path'[t] = NoPath /\ meth'[t] = "none" /\ op'[t] = "none"
      /\ \A u \in Threads \ {t} : op'[u] = op[u]
  BY <1>1, <1>3 DEF Return, ThreadType, Alone
<1>9. Course(t)' /\ Unopened(t)'
  BY <1>1, <1>6, <1>8 DEF Course, MethodsOf, Unopened
<1> QED BY <1>4, <1>6, <1>7, <1>8, <1>9

LEMMA LockFoundHealthy ==
  ASSUME NEW t \in Threads, HealthyInv, SerialInv', LockRd(t) \/ LockWr(t),
         tree[path[t]] # NoObj
  PROVE  HealthyInv'
<1>1. /\ meth[t] = "lock" /\ pc[t] \in {"start", "wr"} /\ CountUp(tree[path[t]]) /\ Advance(t)
      /\ tree' = tree /\ fl' = fl /\ rdHold' = rdHold /\ wrHold' = wrHold
      /\ srvLock' = srvLock /\ hdr' = hdr /\ phase' = phase /\ UNCHANGED <<mountVars, missed>>
  BY DEF LockRd, LockWr, At, rwVars, mountVars
<1>0. PICK p \in Paths : p = path[t]
  BY <1>1, Alive
<1>2. /\ ThreadType /\ TableType /\ TreeLive /\ ~fault /\ phase = "mounted"
      /\ ThreadOK(t) /\ PathOK(p)
  BY <1>0, <1>1, Alive
<1>3. PICK o \in Objs : o = tree[p] /\ heap[o] \in Record /\ heap[o].path = p
  BY <1>0, <1>2 DEF TableType, TreeLive
<1>4. /\ heap'[o].cnt = heap[o].cnt + 1 /\ heap'[o].token = heap[o].token
      /\ \A x \in Objs \ {o} : heap'[x] = heap[x]
  BY <1>0, <1>1, <1>2, <1>3 DEF CountUp, TableType, Record
<1>5. /\ Alone(t) /\ pc'[t] = "idle" /\ path'[t] = NoPath /\ errs' = errs /\ ex' = ex
      /\ meth'[t] = "none" /\ \A u \in Threads \ {t} : op'[u] = op[u]
      /\ Course(t)' /\ Unopened(t)'
      /\ nopen' = [nopen EXCEPT ![p] = @ + 1]
  BY <1>0, <1>1, OpenReturns
<1>6. Local(t, p)
  <2>1. OwnThread(t) /\ WorksOn(t, p)
    BY <1>0, <1>1, <1>5 DEF OwnThread, WorksOn
  <2>2. OwnPath(p)
    BY <1>1, <1>2, <1>3, <1>4, <1>5 DEF OwnPath, ThreadType
  <2>3. Careful(t, p)
    BY <1>1, <1>3, <1>4 DEF Careful
  <2> QED BY <2>1, <2>2, <2>3 DEF Local
<1>7. ThreadOK(t)'
  <2>1. HoldExact(t)' /\ InFlight(t)'
    BY <1>1, <1>2, <1>5 DEF ThreadOK, HoldExact, Holding, InFlight
  <2> QED BY <2>1, <1>5 DEF ThreadOK
<1>8. PathOK(p)'
  <2>1. \A x : Releasing(p, x)' = Releasing(p, x)
    BY <1>1, <1>5 DEF Releasing, Alone
  <2>2. Agree(p)'
    BY <1>1, <1>2, <1>3, <1>4, ConstantsAssumption DEF PathOK, Agree
  <2>3. ASSUME Counted(p) PROVE Counted(p)'
    <3>1. nopen[p] \in Nat /\ nopen'[p] = nopen[p] + 1 /\ heap[o].cnt \in Int
      BY <1>2, <1>3, <1>5 DEF ThreadType, Record
    <3>2. tree[p] = o /\ o # NoObj /\ tree'[p] = o
      BY <1>1, <1>3, ConstantsAssumption
    <3>3. heap[o].cnt = nopen[p] + (IF Releasing(p, "start") THEN 1 ELSE 0)
      BY <2>3, <3>2 DEF Counted
    <3>4. heap'[o].cnt = nopen'[p] + (IF Releasing(p, "start")' THEN 1 ELSE 0)
          /\ heap'[o].cnt > 0
      BY <1>4, <2>1, <3>1, <3>3
    <3> QED BY <3>2, <3>4 DEF Counted
  <2> QED BY <2>2, <2>3, <1>1, <1>2 DEF PathOK
<1>9. Served => ~errs'
  BY <1>5 DEF HealthyInv, MountOK
<1> QED BY <1>1, <1>2, <1>6, <1>7, <1>8, <1>9, LocalStep

LEMMA LockNewHealthy ==
  ASSUME NEW t \in Threads, HealthyInv, SerialInv', LockRd(t) \/ LockWr(t),
         tree[path[t]] = NoObj
  PROVE  HealthyInv'
<1>1. meth[t] = "lock" /\ pc[t] \in {"start", "wr"}
  BY DEF LockRd, LockWr, At
<1>0. PICK p \in Paths : p = path[t]
  BY <1>1, Alive
<1>2. /\ ThreadType /\ TableType /\ RwType /\ ~fault /\ phase = "mounted"
      /\ ThreadOK(t) /\ PathOK(p) /\ ex[t] = "none" /\ Faults = {}
  BY <1>0, <1>1, Alive
<1>3. CASE LockRd(t)
  <2>1. Goto(t, "lock", "wr") /\ SameWorld
    BY <1>2, <1>3 DEF LockRd, SameWorld, tableVars
  <2>2. "lock" \in MethodsOf(op[t]) /\ "lock" \in Methods
    BY <1>1, <1>2 DEF ThreadOK, Course, Methods
  <2>3. Served /\ op[t] = "create" => srvLock[path[t]] = NoTok
    BY <1>1, <1>2 DEF ThreadOK, Unopened
  <2> QED BY <1>1, <2>1, <2>2, <2>3, StillGoto
<1>4. CASE LockWr(t)
  <2>1. /\ WrLock(t) /\ Goto(t, "lock", "req") /\ tree' = tree
        /\ srvLock' = srvLock /\ hdr' = hdr /\ phase' = phase /\ UNCHANGED <<mountVars, missed>>
    BY <1>4 DEF LockWr, NewFileLock, mountVars
  <2>2. PICK o \in Objs :
          /\ heap[o] = Freed
          /\ heap' = [heap EXCEPT ![o] = [path |-> path[t], token |-> NoTok, cnt |-> 1]]
          /\ fl' = [fl EXCEPT ![t] = o]
    BY <1>4 DEF LockWr, NewFileLock
  <2>3. /\ heap'[o].cnt = 1 /\ \A x \in Objs \ {o} : heap'[x] = heap[x]
        /\ fl'[t] = o /\ \A u \in Threads \ {t} : fl'[u] = fl[u]
    BY <2>2, <1>2 DEF TableType
  <2>4. /\ Alone(t) /\ pc'[t] = "req" /\ meth'[t] = "lock" /\ path' = path /\ op' = op
        /\ ex' = ex /\ errs' = errs /\ nopen' = nopen
    BY <2>1, <1>2 DEF Goto, ThreadType, Alone
  <2>5. /\ rdHold' = rdHold /\ rdHold[t] = 0
        /\ \A u \in Threads \ {t} : wrHold' = u <=> wrHold = u
    BY <2>1, <1>2, ConstantsAssumption DEF WrLock, WrFree
  <2>6. Local(t, p)
    BY <1>0, <2>1, <2>2, <2>3, <2>4, <2>5 DEF Local, OwnThread, OwnPath, WorksOn, Careful
  <2>7. ThreadOK(t)'
    <3>1. Course(t)' /\ Unopened(t)'
      BY <1>1, <1>2, <2>1, <2>4 DEF ThreadOK, Course, Unopened
    <3>2. HoldExact(t)'
      BY <2>4, <2>5 DEF HoldExact, Holding
    <3>3. InFlight(t)'
      BY <2>1, <2>3, <2>4 DEF InFlight, Guarded, Puts
    <3> QED BY <3>1, <3>2, <3>3 DEF ThreadOK
  <2>8. PathOK(p)'
    <3>1. \A x : Releasing(p, x)' = Releasing(p, x)
      BY <1>1, <2>4 DEF Releasing, Alone
    <3>2. ASSUME NEW u \in Threads, Departing(u, p) PROVE Departing(u, p)'
      <4>1. u # t
        BY <1>1, <3>2 DEF Departing
      <4> QED BY <3>2, <4>1, <2>4, <2>5 DEF Departing, Alone
    <3> QED BY <3>1, <3>2, <1>0, <1>2, <2>1, <2>4 DEF PathOK, Agree, Counted
  <2>9. Served => ~errs'
    BY <2>4 DEF HealthyInv, MountOK
  <2> QED BY <1>2, <2>1, <2>6, <2>7, <2>8, <2>9, LocalStep
<1> QED BY <1>3, <1>4

LEMMA LockOkHealthy ==
  ASSUME NEW t \in Threads, HealthyInv, SerialInv', LockOk(t)
  PROVE  HealthyInv'
<1>1. /\ meth[t] = "lock" /\ pc[t] = "req" /\ Holding(t) /\ RwUnlock(t) /\ Advance(t)
      /\ hdr' = hdr /\ phase' = phase /\ UNCHANGED <<mountVars, missed>>
  BY DEF LockOk, At, Holding, mountVars
<1>0. PICK p \in Paths : p = path[t]
  BY <1>1, Alive
<1>2. /\ ThreadType /\ TableType /\ NetType /\ RequestsHoldLock /\ phase = "mounted"
      /\ ThreadOK(t) /\ PathOK(p)
  BY <1>0, <1>1, Alive
<1>3. PICK o \in Objs :
        /\ o = fl[t] /\ heap[o] \in Record /\ heap[o].path = p /\ heap[o].cnt = 1
        /\ tree[p] = NoObj
  BY <1>0, <1>1, <1>2 DEF ThreadOK, InFlight, HealthyInv, SerialInv, RecordsOwned,
                          OwnRecord, Owning, TableType
<1>4. PICK tok \in Tokens :
        /\ srvLock' = [srvLock EXCEPT ![p] = tok]
        /\ heap' = [heap EXCEPT ![o].token = tok]
        /\ tree' = [tree EXCEPT ![p] = o]
        /\ fl' = [fl EXCEPT ![t] = NoObj]
  BY <1>0, <1>3 DEF LockOk
<1>5. /\ heap'[o].cnt = 1 /\ heap'[o].token = tok /\ srvLock'[p] = tok /\ tree'[p] = o
      /\ o # NoObj /\ \A x \in Objs \ {o} : heap'[x] = heap[x]
      /\ \A u \in Threads \ {t} : fl'[u] = fl[u]
      /\ \A q \in Paths \ {p} : tree'[q] = tree[q] /\ srvLock'[q] = srvLock[q]
  BY <1>2, <1>3, <1>4, ConstantsAssumption DEF TableType, NetType, Record
<1>6. /\ rdHold'[t] = 0 /\ wrHold' # t
      /\ \A u \in Threads \ {t} : rdHold'[u] = rdHold[u] /\ (wrHold' = u <=> wrHold = u)
  BY <1>1, UnlockExact
<1>7. /\ Alone(t) /\ pc'[t] = "idle" /\ path'[t] = NoPath /\ errs' = errs /\ ex' = ex
      /\ meth'[t] = "none" /\ \A u \in Threads \ {t} : op'[u] = op[u]
      /\ Course(t)' /\ Unopened(t)'
      /\ nopen' = [nopen EXCEPT ![p] = @ + 1]
  BY <1>0, <1>1, OpenReturns
<1>8. Local(t, p)
  <2>1. OwnThread(t) /\ WorksOn(t, p)
    BY <1>0, <1>1, <1>5, <1>6, <1>7 DEF OwnThread, WorksOn
  <2>2. OwnPath(p)
    BY <1>2, <1>3, <1>5, <1>7 DEF OwnPath, ThreadType
  <2>3. wrHold = t
    BY <1>1, <1>2 DEF RequestsHoldLock
  <2>4. Careful(t, p)
    BY <2>3, WriterCareful DEF Careful
  <2> QED BY <2>1, <2>2, <2>4 DEF Local
<1>9. ThreadOK(t)'
  <2>1. HoldExact(t)' /\ InFlight(t)'
    BY <1>6, <1>7 DEF HoldExact, InFlight
  <2> QED BY <2>1, <1>7 DEF ThreadOK
<1>10. PathOK(p)'
  <2>1. \A x : Releasing(p, x)' = Releasing(p, x)
    BY <1>1, <1>7 DEF Releasing, Alone
  <2>2. Agree(p)'
    BY <1>5 DEF Agree
  <2>3. ASSUME Counted(p) PROVE Counted(p)'
    <3>1. nopen[p] = 0 /\ ~Releasing(p, "start")
      BY <1>3, <2>3 DEF Counted
    <3>2. nopen'[p] = 1
      BY <3>1, <1>2, <1>7 DEF ThreadType
    <3> QED BY <3>1, <3>2, <2>1, <1>5 DEF Counted
  <2> QED BY <2>2, <2>3, <1>1, <1>2 DEF PathOK
<1>11. Served => ~errs'
  BY <1>7 DEF HealthyInv, MountOK
<1> QED BY <1>1, <1>2, <1>8, <1>9, <1>10, <1>11, LocalStep

-----------------------------------------------------------------------------
(* dav_unlock.                                                             *)

\* A release works on its path alone, and the counts are right there.
LEMMA ReleaseAlone ==
  ASSUME NEW t \in Threads, HealthyInv, pc[t] # "idle", meth[t] = "unlock"
  PROVE  /\ op[t] = "release" /\ Steady /\ Counted(path[t])
         /\ \A u \in Threads \ {t} : path[t] \notin Names(u) /\ path[u] # path[t]
<1>1. path[t] \in Paths /\ path[t] \in Names(t) /\ op[t] \in Ops /\ phase = "mounted"
      /\ PathOK(path[t])
  BY Alive
<1>2. op[t] = "release" /\ Steady /\ op[t] \in Solo
  BY <1>1 DEF HealthyInv, SerialInv, Releases, ReleasesAlone, Orderly
<1>3. \A u \in Threads \ {t} : path[t] \notin Names(u)
  BY <1>1, <1>2 DEF HealthyInv, SerialInv, Apart
<1> QED BY <1>1, <1>2, <1>3, ConstantsAssumption DEF PathOK, Names

\* The handler of a release returns.
LEMMA ReleaseReturns ==
  ASSUME NEW t \in Threads, HealthyInv, pc[t] # "idle", meth[t] = "unlock",
         Return(t, "ok", "none")
  PROVE  /\ Alone(t) /\ pc'[t] = "idle" /\ path'[t] = NoPath /\ errs' = errs
         /\ meth'[t] = "none" /\ nopen' = nopen
         /\ \A u \in Threads \ {t} : op'[u] = op[u] /\ ex'[u] = ex[u]
         /\ Course(t)' /\ Unopened(t)'
<1>1. ThreadType /\ op[t] = "release"
  BY Alive, ReleaseAlone
<1>2. nopen' = nopen
  BY <1>1 DEF Return, OpenOps
<1>3. errs' = (errs \/ "ok" = "error")
  BY DEF Return
<1>4. errs' = errs
  BY <1>1, <1>3 DEF ThreadType
<1>5. /\ Alone(t) /\ pc'[t] = "idle" /\ path'[t] = NoPath /\ meth'[t] = "none" /\ op'[t] = "none"
      /\ ex'[t] = "none"
      /\ \A u \in Threads \ {t} : op'[u] = op[u] /\ ex'[u] = ex[u]
  BY <1>1 DEF Return, ThreadType, Alone
<1>6. Course(t)' /\ Unopened(t)'
  BY <1>5 DEF Course, MethodsOf, Unopened
<1> QED BY <1>2, <1>4, <1>5, <1>6

LEMMA UnlockRdHealthy ==
  ASSUME NEW t \in Threads, HealthyInv, SerialInv', UnlockRd(t)
  PROVE  HealthyInv'
<1>1. meth[t] = "unlock" /\ pc[t] = "start"
  BY DEF UnlockRd, At
<1>0. PICK p \in Paths : p = path[t]
  BY <1>1, Alive
<1>2. /\ ThreadType /\ TableType /\ TreeLive /\ ~fault /\ phase = "mounted"
      /\ ThreadOK(t) /\ PathOK(p) /\ ex[t] = "none"
      /\ op[t] = "release" /\ Steady /\ Counted(p)
      /\ \A u \in Threads \ {t} : p \notin Names(u) /\ path[u] # p
  BY <1>0, <1>1, Alive, ReleaseAlone
<1>3. PICK o \in Objs : o = tree[p] /\ o # NoObj /\ heap[o] \in Record /\ heap[o].path = p
  BY <1>0, <1>1, <1>2, ConstantsAssumption DEF Counted, Releasing, TableType, TreeLive
<1>4. /\ heap' = [heap EXCEPT ![o].cnt = @ - 1]
      /\ tree' = tree /\ rdHold' = rdHold /\ wrHold' = wrHold
      /\ srvLock' = srvLock /\ hdr' = hdr /\ phase' = phase /\ UNCHANGED <<mountVars, missed>>
      /\ IF heap[o].cnt - 1 > 0
           THEN Return(t, "ok", ex[t]) /\ fl' = fl
           ELSE fl' = [fl EXCEPT ![t] = o] /\ Goto(t, "unlock", "wr")
  BY <1>0, <1>3 DEF UnlockRd, rwVars, mountVars
<1>5. /\ heap'[o].cnt = heap[o].cnt - 1 /\ heap'[o].token = heap[o].token
      /\ \A x \in Objs \ {o} : heap'[x] = heap[x]
      /\ heap[o].cnt \in Int /\ nopen[p] \in Nat
  BY <1>2, <1>3, <1>4 DEF TableType, Record, ThreadType
<1>6. heap[o].cnt = nopen[p] + 1
  <2>1. Releasing(p, "start")
    BY <1>0, <1>1 DEF Releasing
  <2> QED BY <2>1, <1>2, <1>3 DEF Counted
<1>7. heap'[o].cnt = nopen[p]
  BY <1>5, <1>6
<1>8. /\ Alone(t) /\ ThreadOK(t)' /\ errs' = errs /\ nopen' = nopen
      /\ path'[t] \in {p, NoPath} /\ pc'[t] # "start"
      /\ \A u \in Threads \ {t} : op'[u] = op[u] /\ ex'[u] = ex[u] /\ fl'[u] = fl[u]
      /\ nopen[p] > 0 \/ (meth'[t] = "unlock" /\ pc'[t] = "wr" /\ path'[t] = p)
  <2>1. CASE heap[o].cnt - 1 > 0
    <3>1. Return(t, "ok", "none") /\ fl' = fl
      BY <2>1, <1>2, <1>4
    <3>2. /\ Alone(t) /\ pc'[t] = "idle" /\ path'[t] = NoPath /\ errs' = errs
          /\ meth'[t] = "none" /\ nopen' = nopen
          /\ \A u \in Threads \ {t} : op'[u] = op[u] /\ ex'[u] = ex[u]
          /\ Course(t)' /\ Unopened(t)'
      BY <3>1, <1>1, ReleaseReturns
    <3>3. HoldExact(t)' /\ InFlight(t)'
      BY <3>2, <1>1, <1>2, <1>4 DEF ThreadOK, HoldExact, Holding, InFlight
    <3>4. nopen[p] > 0
      BY <2>1, <1>5, <1>6
    <3> QED BY <3>1, <3>2, <3>3, <3>4 DEF ThreadOK
  <2>2. CASE ~(heap[o].cnt - 1 > 0)
    <3>1. fl' = [fl EXCEPT ![t] = o] /\ Goto(t, "unlock", "wr")
      BY <2>2, <1>4
    <3>2. /\ Alone(t) /\ pc'[t] = "wr" /\ meth'[t] = "unlock" /\ path' = path /\ op' = op
          /\ ex' = ex /\ errs' = errs /\ nopen' = nopen
      BY <3>1, <1>2 DEF Goto, ThreadType, Alone
    <3>3. \A u \in Threads \ {t} : fl'[u] = fl[u]
      BY <3>1, <1>2 DEF TableType
    <3>4. ThreadOK(t)'
      <4>1. Course(t)' /\ Unopened(t)'
        BY <3>2, <1>1, <1>2 DEF ThreadOK, Course, Unopened
      <4>2. HoldExact(t)' /\ InFlight(t)'
        BY <3>2, <1>1, <1>2, <1>4 DEF ThreadOK, HoldExact, Holding, InFlight
      <4> QED BY <4>1, <4>2 DEF ThreadOK
    <3> QED BY <3>2, <3>3, <3>4, <1>0
  <2> QED BY <2>1, <2>2
<1>9. Local(t, p)
  <2>1. OwnThread(t) /\ OwnPath(p) /\ WorksOn(t, p)
    BY <1>0, <1>3, <1>4, <1>5, <1>8 DEF OwnThread, OwnPath, WorksOn
  <2>2. Careful(t, p)
    BY <1>3, <1>4, <1>5 DEF Careful
  <2> QED BY <2>1, <2>2 DEF Local
<1>10. PathOK(p)'
  <2>1. ~Releasing(p, "start")'
    BY <1>2, <1>8 DEF Releasing, Alone
  <2>2. heap'[o].cnt > 0 \/ Releasing(p, "wr")'
    BY <1>7, <1>8 DEF Releasing
  <2>3. Agree(p)'
    BY <1>2, <1>3, <1>4, <1>5 DEF PathOK, Agree
  <2>4. Counted(p)'
    BY <2>1, <2>2, <1>3, <1>4, <1>5, <1>7, <1>8 DEF Counted
  <2> QED BY <2>3, <2>4 DEF PathOK
<1>11. Served => ~errs'
  BY <1>8 DEF HealthyInv, MountOK
<1> QED BY <1>2, <1>4, <1>8, <1>9, <1>10, <1>11, LocalStep

LEMMA UnlockWrHealthy ==
  ASSUME NEW t \in Threads, HealthyInv, SerialInv', UnlockWr(t)
  PROVE  HealthyInv'
<1>1. meth[t] = "unlock" /\ pc[t] = "wr" /\ WrFree
  BY DEF UnlockWr, At
<1>0. PICK p \in Paths : p = path[t]
  BY <1>1, Alive
<1>2. /\ ThreadType /\ TableType /\ TreeLive /\ ~fault /\ phase = "mounted"
      /\ ThreadOK(t) /\ PathOK(p) /\ Steady /\ Counted(p)
      /\ \A u \in Threads \ {t} : p \notin Names(u) /\ path[u] # p
  BY <1>0, <1>1, Alive, ReleaseAlone
<1>3. PICK o \in Objs : o = fl[t] /\ o = tree[p] /\ o # NoObj /\ heap[o].cnt <= 0
                        /\ heap[o] \in Record
  BY <1>0, <1>1, <1>2, ConstantsAssumption
     DEF HealthyInv, SerialInv, RecordsOwned, OwnRecord, Owning, TableType, TreeLive
<1>4. /\ tree' = [tree EXCEPT ![p] = NoObj] /\ fl' = [fl EXCEPT ![t] = o]
      /\ Goto(t, "unlock", "req") /\ heap' = heap /\ rdHold' = rdHold /\ wrHold' = wrHold
      /\ srvLock' = srvLock /\ hdr' = hdr /\ phase' = phase /\ UNCHANGED <<mountVars, missed>>
  BY <1>0, <1>3 DEF UnlockWr, rwVars, mountVars
<1>5. /\ Alone(t) /\ pc'[t] = "req" /\ meth'[t] = "unlock" /\ path' = path /\ op' = op
      /\ ex' = ex /\ errs' = errs /\ nopen' = nopen
  BY <1>2, <1>4 DEF Goto, ThreadType, Alone
<1>6. /\ tree'[p] = NoObj /\ fl' = fl /\ \A q \in Paths \ {p} : tree'[q] = tree[q]
  BY <1>2, <1>3, <1>4 DEF TableType
<1>7. nopen[p] = 0 /\ ~Releasing(p, "start")
  <2>1. nopen[p] \in Nat /\ heap[o].cnt = nopen[p] + (IF Releasing(p, "start") THEN 1 ELSE 0)
    BY <1>2, <1>3 DEF ThreadType, Counted
  <2> QED BY <2>1, <1>3
<1>8. Local(t, p)
  <2>1. OwnThread(t) /\ OwnPath(p) /\ WorksOn(t, p)
    BY <1>0, <1>4, <1>5, <1>6 DEF OwnThread, OwnPath, WorksOn
  <2>2. Careful(t, p)
    BY <1>2 DEF Careful
  <2> QED BY <2>1, <2>2 DEF Local
<1>9. ThreadOK(t)'
  <2>1. Course(t)' /\ Unopened(t)'
    BY <1>1, <1>2, <1>4, <1>5 DEF ThreadOK, Course, Unopened
  <2>2. HoldExact(t)'
    BY <1>1, <1>2, <1>4, <1>5 DEF ThreadOK, HoldExact, Holding
  <2>3. heap'[fl'[t]].token = srvLock'[path'[t]]
    BY <1>0, <1>2, <1>3, <1>4, <1>5, <1>6 DEF PathOK, Agree
  <2>4. InFlight(t)'
    BY <2>3, <1>0, <1>5, <1>6 DEF InFlight, Guarded, Puts
  <2> QED BY <2>1, <2>2, <2>4 DEF ThreadOK
<1>10. PathOK(p)'
  <2>1. Departing(t, p)'
    BY <1>0, <1>5 DEF Departing
  <2>2. ~Releasing(p, "start")'
    BY <1>2, <1>5 DEF Releasing, Alone
  <2> QED BY <2>1, <2>2, <1>5, <1>6, <1>7 DEF PathOK, Agree, Counted
<1>11. Served => ~errs'
  BY <1>5 DEF HealthyInv, MountOK
<1> QED BY <1>2, <1>4, <1>8, <1>9, <1>10, <1>11, LocalStep

LEMMA UnlockReqHealthy ==
  ASSUME NEW t \in Threads, HealthyInv, SerialInv', UnlockReq(t)
  PROVE  HealthyInv'
<1>1. meth[t] = "unlock" /\ pc[t] = "req"
  BY DEF UnlockReq, At
<1>0. PICK p \in Paths : p = path[t]
  BY <1>1, Alive
<1>2. /\ ThreadType /\ TableType /\ NetType /\ ~fault /\ phase = "mounted"
      /\ ThreadOK(t) /\ PathOK(p) /\ Steady /\ Counted(p) /\ ex[t] = "none" /\ Faults = {}
      /\ \A u \in Threads \ {t} : p \notin Names(u) /\ path[u] # p
  BY <1>0, <1>1, Alive, ReleaseAlone
<1>3. PICK o \in Objs : o = fl[t] /\ heap[o] # Freed /\ heap[o].path = p /\ tree[p] = NoObj
                        /\ heap[o].token = srvLock[p]
  BY <1>0, <1>1, <1>2 DEF HealthyInv, SerialInv, RecordsOwned, OwnRecord, Owning, TableType,
                          ThreadOK, InFlight
<1>4. /\ heap' = [heap EXCEPT ![o] = Freed] /\ fl' = [fl EXCEPT ![t] = NoObj]
      /\ srvLock' = [srvLock EXCEPT ![p] = NoTok] /\ Return(t, "ok", "none")
      /\ tree' = tree /\ rdHold' = rdHold /\ wrHold' = wrHold
      /\ hdr' = hdr /\ phase' = phase /\ UNCHANGED <<mountVars, missed>>
  BY <1>0, <1>2, <1>3 DEF UnlockReq, FreeRecord, rwVars, mountVars
<1>5. /\ Alone(t) /\ pc'[t] = "idle" /\ path'[t] = NoPath /\ errs' = errs
      /\ meth'[t] = "none" /\ nopen' = nopen
      /\ \A u \in Threads \ {t} : op'[u] = op[u] /\ ex'[u] = ex[u]
      /\ Course(t)' /\ Unopened(t)'
  BY <1>1, <1>4, ReleaseReturns
<1>6. /\ srvLock'[p] = NoTok /\ \A q \in Paths \ {p} : srvLock'[q] = srvLock[q]
      /\ \A x \in Objs \ {o} : heap'[x] = heap[x]
      /\ \A u \in Threads \ {t} : fl'[u] = fl[u]
  BY <1>2, <1>4 DEF NetType, TableType
<1>7. Local(t, p)
  <2>1. OwnThread(t) /\ OwnPath(p) /\ WorksOn(t, p)
    BY <1>0, <1>3, <1>4, <1>5, <1>6 DEF OwnThread, OwnPath, WorksOn
  <2>2. Careful(t, p)
    BY <1>2 DEF Careful
  <2> QED BY <2>1, <2>2 DEF Local
<1>8. ThreadOK(t)'
  <2>1. HoldExact(t)' /\ InFlight(t)'
    BY <1>1, <1>2, <1>4, <1>5 DEF ThreadOK, HoldExact, Holding, InFlight, Guarded, Puts
  <2> QED BY <2>1, <1>5 DEF ThreadOK
<1>9. PathOK(p)'
  <2>1. ~Releasing(p, "start")'
    BY <1>2, <1>5 DEF Releasing, Alone
  <2>2. nopen[p] = 0
    BY <1>2, <1>3 DEF Counted
  <2> QED BY <2>1, <2>2, <1>3, <1>4, <1>5, <1>6 DEF PathOK, Agree, Counted
<1>10. Served => ~errs'
  BY <1>5 DEF HealthyInv, MountOK
<1> QED BY <1>2, <1>4, <1>7, <1>8, <1>9, <1>10, LocalStep

-----------------------------------------------------------------------------
(* Dispatch, unmounting, and the invariant.                                *)

LEMMA StartHealthy ==
  ASSUME NEW t \in Threads, HealthyInv, SerialInv', Start(t)
  PROVE  HealthyInv'
<1>1. PICK o \in Ops \ {"unmount"}, p \in Paths, q \in Paths \cup {NoPath} :
        /\ Dispatchable(o, p, q)
        /\ op' = [op EXCEPT ![t] = o]
        /\ meth' = [meth EXCEPT ![t] = FirstMethod(o)]
        /\ pc' = [pc EXCEPT ![t] = "start"]
        /\ path' = [path EXCEPT ![t] = p]
        /\ dest' = [dest EXCEPT ![t] = q]
        /\ nopen' = IF o = "release" THEN [nopen EXCEPT ![p] = @ - 1] ELSE nopen
  BY DEF Start
<1>2. /\ pc[t] = "idle" /\ phase = "mounted" /\ phase' = phase /\ ex' = ex /\ errs' = errs
      /\ tree' = tree /\ heap' = heap /\ fl' = fl /\ rdHold' = rdHold /\ wrHold' = wrHold
      /\ srvLock' = srvLock /\ hdr' = hdr /\ UNCHANGED <<mountVars, missed>>
  BY DEF Start, tableVars, rwVars, mountVars
<1>3. /\ ThreadType /\ TableType /\ TreeLive /\ ~fault /\ path[t] = NoPath
      /\ ThreadOK(t) /\ PathOK(p)
  BY <1>2, TypeParts DEF HealthyInv, SerialInv, Inv, ControlOK, NoDanglingUse
<1>4. /\ Alone(t) /\ pc'[t] = "start" /\ meth'[t] = FirstMethod(o) /\ path'[t] = p /\ op'[t] = o
      /\ \A u \in Threads \ {t} : op'[u] = op[u]
      /\ \A r \in Paths \ {p} : nopen'[r] = nopen[r]
  BY <1>1, <1>3 DEF Alone, ThreadType
<1>5. o \in AllOps \ {"none", "unmount"} /\ MayStart(o, p, q)
  BY <1>1, ConstantsAssumption DEF AllOps, Dispatchable
<1>6. Local(t, p)
  BY <1>2, <1>3, <1>4 DEF Local, OwnThread, OwnPath, WorksOn, Careful
<1>7. ThreadOK(t)'
  <2>1. Course(t)'
    <3>1. FirstMethod(o) \in MethodsOf(o)
      BY <1>5 DEF FirstMethod, MethodsOf, AllOps
    <3> QED BY <3>1, <1>2, <1>3, <1>4, <1>5 DEF ThreadOK, Course
  <2>2. HoldExact(t)' /\ InFlight(t)'
    BY <1>2, <1>3, <1>4 DEF ThreadOK, HoldExact, Holding, InFlight
  <2>3. Unopened(t)'
    <3>1. o = "unlink" => nopen[p] = 0
      BY <1>5 DEF MayStart, OpenOps
    <3>2. o = "create" => FirstMethod(o) = "head"
      BY DEF FirstMethod
    <3> QED BY <3>1, <3>2, <1>1, <1>4 DEF Unopened
  <2> QED BY <2>1, <2>2, <2>3 DEF ThreadOK
<1>8. Agree(p)'
  <2>1. ASSUME NEW u \in Threads, Departing(u, p) PROVE Departing(u, p)'
    <3>1. u # t
      BY <2>1, <1>2 DEF Departing
    <3> QED BY <2>1, <3>1, <1>2, <1>4 DEF Departing, Alone
  <2> QED BY <2>1, <1>2, <1>3 DEF PathOK, Agree
<1>9. ASSUME Counted(p), Steady PROVE Counted(p)'
  <2>1. CASE o = "release"
    <3>1. \A u \in Threads : meth[u] = "unlock" => path[u] # p
      <4> SUFFICES ASSUME NEW u \in Threads, meth[u] = "unlock", path[u] = p PROVE FALSE
        OBVIOUS
      <4>1. u # t
        BY <1>3, ConstantsAssumption
      <4> QED BY <4>1, <1>6, UnlockElsewhere DEF HealthyInv, Local
    <3>2. ~Releasing(p, "start") /\ ~Releasing(p, "wr")
      BY <3>1 DEF Releasing
    <3>3. Releasing(p, "start")'
      BY <2>1, <1>4 DEF Releasing, FirstMethod
    <3>4. nopen[p] \in Nat /\ nopen[p] > 0
      BY <2>1, <1>3, <1>5 DEF MayStart, OpenOps, ThreadType
    <3>5. nopen'[p] = nopen[p] - 1
      BY <2>1, <1>1, <1>3 DEF ThreadType
    <3>6. tree[p] # NoObj /\ heap[tree[p]].cnt = nopen[p]
      BY <1>9, <3>2, <3>4 DEF Counted
    <3>7. heap[tree[p]].cnt = nopen'[p] + 1 /\ heap[tree[p]].cnt > 0
      BY <3>4, <3>5, <3>6
    <3> QED BY <1>2, <3>3, <3>6, <3>7 DEF Counted
  <2>2. CASE o # "release"
    <3>1. FirstMethod(o) # "unlock"
      BY <2>2, <1>5 DEF FirstMethod
    <3>2. \A u \in Threads : meth[u] = "unlock" /\ path[u] = p => u # t
      BY <1>3, ConstantsAssumption
    <3>3. \A s : Releasing(p, s)' = Releasing(p, s)
      BY <3>1, <3>2, <1>4 DEF Releasing, Alone
    <3> QED BY <2>2, <3>3, <1>1, <1>2, <1>9 DEF Counted
  <2> QED BY <2>1, <2>2
<1>10. PathOK(p)'
  BY <1>2, <1>3, <1>8, <1>9 DEF PathOK
<1>11. Served => ~errs'
  BY <1>2 DEF HealthyInv, MountOK
<1> QED BY <1>2, <1>6, <1>7, <1>10, <1>11, LocalStep

\* dav_destory gives every lock of the table back.
LEMMA MountHealthy ==
  ASSUME HealthyInv, SerialInv',
         \/ \E p \in Paths : Expire(p) \/ DestroyNode(p)
         \/ Destroy \/ Destroyed \/ UNCHANGED vars
  PROVE  HealthyInv'
<1>1. /\ Orderly /\ MountOK /\ TableType /\ NetType /\ ThreadType /\ PhaseOK
      /\ \A t \in Threads : ThreadOK(t)
      /\ \A p \in Paths : PathOK(p)
  BY TypeParts DEF HealthyInv, SerialInv, Inv
<1>2. ~\E p \in Paths : Expire(p)
  BY <1>1 DEF Expire, Orderly
<1>3. CASE Destroy \/ Destroyed \/ UNCHANGED vars
  <2>1. UNCHANGED <<tableVars, rwVars, srvLock, threadVars, hdr, mainEx, missed>>
        /\ (phase' = phase \/ phase' # "mounted")
        /\ (phase' = "down" => \A p \in Paths : tree[p] = NoObj)
    BY <1>1, <1>3 DEF Destroy, Destroyed, vars, mountVars, MountOK
  <2>2. MountOK'
    BY <2>1, <1>1 DEF MountOK, tableVars, threadVars
  <2>3. \A t \in Threads : ThreadOK(t)'
    BY <2>1, <1>1 DEF ThreadOK, Course, HoldExact, Holding, InFlight, Admits, Targets, Unopened,
                      tableVars, rwVars, threadVars
  <2>4. \A p \in Paths : PathOK(p)'
    BY <2>1, <1>1 DEF PathOK, Agree, Counted, Departing, Releasing, tableVars, rwVars, threadVars
  <2> QED BY <2>2, <2>3, <2>4, <1>1 DEF HealthyInv, Orderly, Steady, ReleasesAlone
<1>4. ASSUME NEW p \in Paths, DestroyNode(p) PROVE HealthyInv'
  <2>1. /\ \A t \in Threads : pc[t] = "idle" /\ op[t] = "none"
        /\ phase = "destroy" /\ tree[p] # NoObj /\ srvLock[p] = heap[tree[p]].token
    BY <1>1, <1>4 DEF DestroyNode, PhaseOK, PathOK, Agree, ThreadOK, Course
  <2>2. /\ srvLock' = [srvLock EXCEPT ![p] = NoTok] /\ UNCHANGED mainEx
        /\ tree' = [tree EXCEPT ![p] = NoObj] /\ heap' = [heap EXCEPT ![tree[p]] = Freed]
        /\ UNCHANGED <<fl, fault, rwVars, threadVars, hdr, phase, missed>>
    BY <1>1, <1>4, <2>1 DEF DestroyNode, DropRecord, MountOK, Orderly
  <2>3. MountOK'
    BY <2>1, <2>2, <1>1 DEF MountOK, threadVars
  <2>4. \A t \in Threads : ThreadOK(t)'
    BY <2>1, <2>2, <1>1 DEF ThreadOK, Course, HoldExact, Holding, InFlight, Unopened,
                            rwVars, threadVars
  <2>5. ASSUME NEW r \in Paths PROVE PathOK(r)'
    <3>1. CASE r = p
      BY <3>1, <2>1, <2>2, <1>1 DEF PathOK, Agree, TableType, NetType
    <3>2. CASE r # p
      <4>1. tree'[r] = tree[r] /\ srvLock'[r] = srvLock[r]
        BY <3>2, <2>2, <1>1 DEF TableType, NetType
      <4>2. tree[r] # NoObj => tree[r] # tree[p]
        BY <3>2, <2>1 DEF HealthyInv, SerialInv, RecordsOwned
      <4>3. tree[r] # NoObj => heap'[tree[r]] = heap[tree[r]]
        BY <4>2, <2>2, <1>1 DEF TableType
      <4>4. \A t \in Threads : ~Departing(t, r)
        BY <2>1 DEF Departing
      <4> QED BY <4>1, <4>3, <4>4, <2>1, <2>2, <1>1 DEF PathOK, Agree
    <3> QED BY <3>1, <3>2
  <2> QED BY <2>3, <2>4, <2>5, <1>1 DEF HealthyInv, Orderly, Steady, ReleasesAlone
<1> QED BY <1>2, <1>3, <1>4

LEMMA HealthyInit ==
  ASSUME Orderly, Init
  PROVE  HealthyInv
<1>1. SerialInv
  BY SerialInit DEF Orderly
<1>2. MountOK
  BY DEF Init, MountOK
<1>3. \A t \in Threads : ThreadOK(t)
  <2> SUFFICES ASSUME NEW t \in Threads PROVE ThreadOK(t)
    OBVIOUS
  <2>1. /\ pc[t] = "idle" /\ op[t] = "none" /\ meth[t] = "none" /\ ex[t] = "none"
        /\ rdHold[t] = 0 /\ wrHold # t
    BY ConstantsAssumption DEF Init
  <2>2. Course(t)
    BY <2>1 DEF Course, MethodsOf
  <2>3. HoldExact(t) /\ InFlight(t) /\ Unopened(t)
    BY <2>1 DEF HoldExact, InFlight, Unopened
  <2> QED BY <2>2, <2>3 DEF ThreadOK
<1>4. \A p \in Paths : PathOK(p)
  BY DEF Init, PathOK, Agree, Counted, Releasing
<1> QED BY <1>1, <1>2, <1>3, <1>4 DEF HealthyInv

LEMMA HealthyNext ==
  ASSUME HealthyInv, [Next]_vars
  PROVE  HealthyInv'
<1>1. SerialInv'
  BY SerialNext DEF HealthyInv
<1>2. ASSUME NEW t \in Threads, Step(t) PROVE HealthyInv'
  <2>1. CASE SimpleOk(t) \/ SimpleError(t)
    BY <1>1, <2>1, SimpleHealthy
  <2>2. CASE PutStart(t) \/ DeleteStart(t) \/ MoveStart(t) \/ MoveWr(t)
    BY <1>1, <2>2, BeginSteps
  <2>3. CASE RequestOk(t)
    BY <1>1, <2>3, RequestOkHealthy
  <2>4. CASE LockRd(t) \/ LockWr(t)
    BY <1>1, <2>4, LockFoundHealthy, LockNewHealthy
  <2>5. CASE LockOk(t)
    BY <1>1, <2>5, LockOkHealthy
  <2>6. CASE UnlockRd(t) \/ UnlockWr(t) \/ UnlockReq(t)
    BY <1>1, <2>6, UnlockRdHealthy, UnlockWrHealthy, UnlockReqHealthy
  <2> QED BY <1>2, <2>1, <2>2, <2>3, <2>4, <2>5, <2>6, Impossible DEF Step
<1>3. ASSUME NEW t \in Threads, Start(t) PROVE HealthyInv'
  BY <1>1, <1>3, StartHealthy
<1>4. CASE \/ \E p \in Paths : Expire(p) \/ DestroyNode(p)
           \/ Destroy \/ Destroyed \/ UNCHANGED vars
  BY <1>1, <1>4, MountHealthy
<1> QED BY <1>2, <1>3, <1>4 DEF Next, Halt

LEMMA Healthy ==
  ASSUME Orderly
  PROVE  Spec => []HealthyInv
<1>1. Init => HealthyInv
  BY HealthyInit
<1>2. HealthyInv /\ [Next]_vars => HealthyInv'
  BY HealthyNext
<1> QED BY <1>1, <1>2, PTL DEF Spec

-----------------------------------------------------------------------------
(* The theorems.                                                           *)

\* On a healthy mount, for any number of threads and paths, no handler returns
\* with filelock_tree_lock held: the unlock that dav_put, __dav_method,
\* __dav_move and dav_copy skip when a request fails is never skipped, because
\* the server refuses no request made under the lock. The mount has no releases,
\* or none that overlap and nothing that takes records from open files.
THEOREM LocksAreReturned ==
  ASSUME Orderly
  PROVE  Spec => []IdleHoldsNothing
<1>1. HealthyInv => IdleHoldsNothing
  BY DEF HealthyInv, ThreadOK, HoldExact, Holding, IdleHoldsNothing
<1> QED BY <1>1, Healthy, PTL

\* An orderly mount without truncations and renames.
LEMMA SteadyMount ==
  ASSUME Faults = {}, ReleasesAlone, Steady
  PROVE  Orderly
BY DEF Orderly

\* What the invariant says of a path no request is using.
LEMMA QuietPath ==
  ASSUME HealthyInv, Steady, NEW p \in Paths, Quiet(p)
  PROVE  /\ Counted(p) /\ Agree(p) /\ \A s : ~Releasing(p, s)
         /\ \A t \in Threads : ~Departing(t, p)
<1>1. \A t \in Threads : path[t] # p
  BY ConstantsAssumption DEF Quiet, Names
<1> QED BY <1>1 DEF HealthyInv, PathOK, Quiet, Releasing, Departing

\* Every file that is open for writing is locked on the server, however many
\* threads open, write, copy, create and release: dav_lock and dav_unlock never
\* give the lock of an open file away.
THEOREM OpenFilesAreLocked ==
  ASSUME Faults = {}, ReleasesAlone, Steady
  PROVE  Spec => []LockedWhileOpen
<1>1. HealthyInv => LockedWhileOpen
  <2> SUFFICES ASSUME HealthyInv, phase = "mounted", NEW p \in Paths, nopen[p] > 0
               PROVE  srvLock[p] # NoTok
    BY DEF LockedWhileOpen
  <2>1. Counted(p) /\ Agree(p)
    BY DEF HealthyInv, PathOK
  <2>2. tree[p] # NoObj
    BY <2>1 DEF Counted
  <2>3. srvLock[p] = heap[tree[p]].token /\ heap[tree[p]].token \in Tokens
    BY <2>1, <2>2 DEF Agree, HealthyInv, SerialInv, Inv, TreeLive, NoDanglingUse
  <2> QED BY <2>3, ConstantsAssumption
<1> QED BY <1>1, SteadyMount, Healthy, PTL

\* When no request on a file is in flight, its record exists exactly if the file
\* is open for writing and counts its handles, although dav_lock and dav_unlock
\* change the count in two sections that other opens come between.
THEOREM CountsAreExact ==
  ASSUME Faults = {}, ReleasesAlone, Steady
  PROVE  Spec => []CountMatches
<1>1. HealthyInv => CountMatches
  <2> SUFFICES ASSUME HealthyInv, NEW p \in Paths, Quiet(p)
               PROVE  IF tree[p] = NoObj THEN nopen[p] = 0 ELSE heap[tree[p]].cnt = nopen[p]
    BY DEF CountMatches
  <2>1. nopen[p] \in Nat
    BY DEF HealthyInv, SerialInv, Inv, TypeOK
  <2> QED BY <2>1, QuietPath DEF Counted
<1> QED BY <1>1, SteadyMount, Healthy, PTL

\* No lock stays on the server for a file that nobody has open, nor after
\* dav_destory has unmounted the file system.
THEOREM NoLockIsLeftBehind ==
  ASSUME Faults = {}, ReleasesAlone, Steady
  PROVE  Spec => []NoStrayLock
<1>1. HealthyInv => NoStrayLock
  <2> SUFFICES ASSUME HealthyInv, NEW p \in Paths,
                      (Quiet(p) /\ nopen[p] = 0) \/ phase = "down"
               PROVE  srvLock[p] = NoTok
    BY DEF NoStrayLock
  <2>1. tree[p] = NoObj
    <3>1. CASE Quiet(p) /\ nopen[p] = 0
      BY <3>1, QuietPath DEF Counted
    <3>2. CASE phase = "down"
      BY <3>2 DEF HealthyInv, MountOK
    <3> QED BY <3>1, <3>2
  <2>2. \A t \in Threads : ~Departing(t, p)
    <3>1. CASE Quiet(p) /\ nopen[p] = 0
      BY <3>1, QuietPath
    <3>2. CASE phase = "down"
      BY <3>2 DEF HealthyInv, SerialInv, Inv, PhaseOK, Departing
    <3> QED BY <3>1, <3>2
  <2> QED BY <2>1, <2>2 DEF HealthyInv, PathOK, Agree
<1> QED BY <1>1, SteadyMount, Healthy, PTL

\* When moreover a create has its file for itself and applications do not call
\* chmod, no handler returns an error: every request carries the token the
\* server asks for.
THEOREM ErrorsAreGenuine ==
  ASSUME Faults = {}, ReleasesAlone, Served
  PROVE  Spec => []NoSpuriousError
<1>1. HealthyInv => NoSpuriousError
  BY DEF HealthyInv, MountOK, NoSpuriousError
<1>2. Steady
  BY DEF Served
<1> QED BY <1>1, <1>2, SteadyMount, Healthy, PTL

\* A release always finds the record its open has inserted, unless truncations
\* or renames take records from open files (after a rename it does not: the run
\* viol_rename).
THEOREM ReleasesFindTheirLock ==
  ASSUME Faults = {}, ReleasesAlone, Steady
  PROVE  Spec => []ReleaseFindsLock
<1>1. HealthyInv => ReleaseFindsLock
  BY DEF HealthyInv, MountOK, ReleaseFindsLock
<1> QED BY <1>1, SteadyMount, Healthy, PTL
=============================================================================
