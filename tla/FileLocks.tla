------------------------------ MODULE FileLocks ------------------------------
(***************************************************************************)
(* The WebDAV lock table of a networkfs mount (proto/dav/method.c): the    *)
(* tree of struct FileLock, the read-write lock that guards it, the        *)
(* methods that search or change it (dav_lock, dav_unlock, dav_put,        *)
(* __dav_method, __dav_move, dav_copy, dav_destory) and the FUSE handlers  *)
(* of proto/dav/dav.c that call them, run by several FUSE worker threads.  *)
(* The mount uses -o use_lock and the server advertises LOCK and UNLOCK.   *)
(*                                                                         *)
(* The server's own lock state, the dispatching done by libfuse and the    *)
(* semantics of pthread_rwlock_t are external: they are modelled from how  *)
(* the code uses them.                                                     *)
(***************************************************************************)
EXTENDS Integers

CONSTANTS
  Threads,        \* FUSE worker threads
  Paths,          \* file names below the mount point
  Objs,           \* heap addresses malloc may return for a struct FileLock
  Tokens,         \* lock tokens the server may hand out
  NoThread, NoPath, NoObj, NoTok, Freed,
  Ops,            \* the FUSE operations the applications use
  Faults,         \* what may go wrong, see FaultKinds
  Solo,           \* operations during which no other request uses their paths
  MaxOpen,        \* bound: open write handles per path
  MaxHold         \* bound: read locks a thread may have leaked and still be given work

\* "truncate" is a truncation to zero: DELETE, PUT, PROPPATCH. (A shrinking one
\* that gets past its read makes the same DELETE and PUT.) "copy" is a
\* copy_file_range over the whole of its target.
AllOps == {"open", "opentrunc", "create", "release", "write", "truncate",
           "chmod", "unlink", "rename", "copy", "unmount"}

\* "unapplied": a request fails without effect (HTTP error, connection refused).
\* "applied"  : the server did it but the answer is lost (timeout).
\* "416"      : a PUT beyond the end of file is refused with 416.
\* "oom"      : malloc, or tsearch for its node, or the header list, fails.
\* "expire"   : the server drops a lock ("Timeout: Second-600" is never renewed).
FaultKinds == {"unapplied", "applied", "416", "oom", "expire"}

ASSUME ConstantsAssumption ==
  /\ NoThread \notin Threads
  /\ NoPath \notin Paths
  /\ NoObj \notin Objs
  /\ NoTok \notin Tokens
  /\ Freed \notin [path : Paths, token : Tokens \cup {NoTok}, cnt : Int]
  /\ Ops \subseteq AllOps
  /\ Faults \subseteq FaultKinds
  /\ Solo \subseteq AllOps
  /\ MaxOpen \in Nat /\ MaxHold \in Nat

VARIABLES
  tree,     \* server->filelock_tree: the record of each path, or NoObj
  heap,     \* each address: a struct FileLock, or Freed
  rdHold,   \* server->filelock_tree_lock: read locks held by each thread,
  wrHold,   \*   and the thread holding the write lock
  srvLock,  \* external: the token locking each path on the server
  nopen,    \* external: write handles the kernel holds on each path
  op, meth, pc,   \* each thread: FUSE operation, dav_ method, step of the method
  path, dest,     \* each thread: path arguments
  fl,       \* each thread: its local variable filelock
  hdr,      \* each thread: the tokens in the If header of its request
  ex,       \* each thread: the thread-local exception left behind
  mainEx,   \* the main thread's exception, used by dav_destory
  phase,    \* "mounted", "destroy", "down"
  errs,     \* history: some operation returned an error to the application
  missed,   \* history: a release found no record for its path
  fault     \* history: freed memory was used, freed again, or left in the tree

tableVars  == <<tree, heap, fl, fault>>
rwVars     == <<rdHold, wrHold>>
threadVars == <<op, meth, pc, path, dest, ex, errs, nopen>>
mountVars  == <<mainEx, phase>>
vars == <<tableVars, rwVars, srvLock, threadVars, hdr, mountVars, missed>>

Puts     == {"put", "padput", "put2"}           \* dav_put_simple, dav_put
Guarded  == Puts \cup {"delete", "move", "copy"} \* requests made under the rwlock
Simple   == {"getattr", "head", "padhead", "chmod"} \* requests that ignore the table
Methods  == Guarded \cup Simple \cup {"lock", "unlock"}

Record == [path : Paths, token : Tokens \cup {NoTok}, cnt : Int]

\* "none", or the class of the pending exception: UnspecifiedException, or the
\* CurlException of a failed request.
ExKinds == {"none", "unspecified", "curl"}

TypeOK ==
  /\ tree \in [Paths -> Objs \cup {NoObj}]
  /\ heap \in [Objs -> Record \cup {Freed}]
  /\ rdHold \in [Threads -> Nat]
  /\ wrHold \in Threads \cup {NoThread}
  /\ srvLock \in [Paths -> Tokens \cup {NoTok}]
  /\ nopen \in [Paths -> Nat]
  /\ op \in [Threads -> AllOps \cup {"none"}]
  /\ meth \in [Threads -> Methods \cup {"none"}]
  /\ pc \in [Threads -> {"idle", "start", "wr", "req"}]
  /\ path \in [Threads -> Paths \cup {NoPath}]
  /\ dest \in [Threads -> Paths \cup {NoPath}]
  /\ fl \in [Threads -> Objs \cup {NoObj}]
  /\ hdr \in [Threads -> SUBSET Tokens]
  /\ ex \in [Threads -> ExKinds]
  /\ mainEx \in BOOLEAN
  /\ phase \in {"mounted", "destroy", "down"}
  /\ errs \in BOOLEAN /\ missed \in BOOLEAN /\ fault \in BOOLEAN

Init ==
  /\ tree = [p \in Paths |-> NoObj]
  /\ heap = [o \in Objs |-> Freed]
  /\ rdHold = [t \in Threads |-> 0]
  /\ wrHold = NoThread
  /\ srvLock = [p \in Paths |-> NoTok]
  /\ nopen = [p \in Paths |-> 0]
  /\ op = [t \in Threads |-> "none"]
  /\ meth = [t \in Threads |-> "none"]
  /\ pc = [t \in Threads |-> "idle"]
  /\ path = [t \in Threads |-> NoPath]
  /\ dest = [t \in Threads |-> NoPath]
  /\ fl = [t \in Threads |-> NoObj]
  /\ hdr = [t \in Threads |-> {}]
  /\ ex = [t \in Threads |-> "none"]
  /\ mainEx = FALSE
  /\ phase = "mounted"
  /\ errs = FALSE /\ missed = FALSE /\ fault = FALSE

-----------------------------------------------------------------------------
(* The FUSE handlers of dav.c as sequences of methods.                     *)

FirstMethod(o) ==
  CASE o = "open" -> "lock"
    [] o \in {"opentrunc", "truncate", "copy"} -> "getattr"
    [] o = "create" -> "head"
    [] o = "release" -> "unlock"
    [] o = "write" -> "put"
    [] o = "chmod" -> "chmod"
    [] o = "unlink" -> "delete"
    [] OTHER -> "move"

NextMethod(o, m) ==
  CASE m = "getattr" -> IF o = "copy" THEN "copy" ELSE "delete"
    [] m = "head" -> "put"
    [] m = "delete" /\ o # "unlink" -> "put"
    [] m = "put" /\ o # "write" -> "chmod"
    [] m = "chmod" /\ o \in {"opentrunc", "create"} -> "lock"
    [] m = "padhead" -> "padput"
    [] m = "padput" -> "put2"
    [] OTHER -> "end"

OpenOps == {"open", "opentrunc", "create"}

\* The handler returns r ("ok", "exists" for -EEXIST, "error") and leaves e
\* behind in the thread-local ex. The kernel counts the handles; libfuse gives
\* the handles of a renamed file its new name.
Return(t, r, e) ==
  /\ op' = [op EXCEPT ![t] = "none"]
  /\ meth' = [meth EXCEPT ![t] = "none"]
  /\ pc' = [pc EXCEPT ![t] = "idle"]
  /\ path' = [path EXCEPT ![t] = NoPath]
  /\ dest' = [dest EXCEPT ![t] = NoPath]
  /\ ex' = [ex EXCEPT ![t] = e]
  /\ errs' = (errs \/ r = "error")
  /\ nopen' = CASE r = "ok" /\ op[t] \in OpenOps ->
                     [nopen EXCEPT ![path[t]] = @ + 1]
                [] r = "ok" /\ op[t] = "rename" ->
                     [nopen EXCEPT ![path[t]] = 0, ![dest[t]] = nopen[path[t]]]
                [] OTHER -> nopen

Goto(t, m, s) ==
  /\ meth' = [meth EXCEPT ![t] = m]
  /\ pc' = [pc EXCEPT ![t] = s]
  /\ UNCHANGED <<op, path, dest, ex, errs, nopen>>

Advance(t) ==
  LET m == NextMethod(op[t], meth[t]) IN
  IF m = "end" THEN Return(t, "ok", ex[t]) ELSE Goto(t, m, "start")

\* dav_exception_map: the exception becomes an errno and is destroyed.
Fail(t) == Return(t, "error", "none")

-----------------------------------------------------------------------------
(* filelock_tree_lock (external): glibc's default, reader-preferring       *)
(* pthread_rwlock_t. A thread that already holds it for writing gets       *)
(* EDEADLK and spins in while (pthread_rwlock_..lock (..)).                *)

RdFree == wrHold = NoThread
WrFree == wrHold = NoThread /\ \A t \in Threads : rdHold[t] = 0

RdLock(t) ==
  /\ RdFree
  /\ rdHold' = [rdHold EXCEPT ![t] = @ + 1]
  /\ UNCHANGED wrHold

WrLock(t) ==
  /\ WrFree
  /\ wrHold' = t
  /\ UNCHANGED rdHold

RwUnlock(t) ==
  IF wrHold = t
    THEN wrHold' = NoThread /\ UNCHANGED rdHold
    ELSE rdHold' = [rdHold EXCEPT ![t] = @ - 1] /\ UNCHANGED wrHold

-----------------------------------------------------------------------------
(* Dispatch (external): what the kernel and libfuse let applications do.   *)

Running(t) == pc[t] # "idle"

Names(t) == {path[t], dest[t]} \ {NoPath}

\* libfuse's path locks: unlink and rename exclude every other operation on
\* their names, all other operations share them.
Exclusive == {"unlink", "rename"}

Compatible(o, p) ==
  \A t \in Threads :
    Running(t) /\ p \in Names(t) =>
      {o, op[t]} \cap (Exclusive \cup Solo) = {}

\* A write in flight keeps one handle of its file open.
Writing(p) ==
  \E t \in Threads : \/ op[t] = "write" /\ path[t] = p
                     \/ op[t] = "copy" /\ dest[t] = p

\* unlink of an open file, and rename onto one, are turned into renames to a
\* hidden name by libfuse.
MayStart(o, p, q) ==
  CASE o \in OpenOps -> nopen[p] < MaxOpen
    [] o = "release" -> nopen[p] > (IF Writing(p) THEN 1 ELSE 0)
    [] o = "write" -> nopen[p] > 0
    [] o = "unlink" -> nopen[p] = 0
    [] o = "rename" -> nopen[q] = 0
    [] o = "copy" -> nopen[q] > 0
    [] OTHER -> TRUE

Dispatchable(o, p, q) ==
  /\ IF o \in {"rename", "copy"} THEN q \in Paths \ {p} ELSE q = NoPath
  /\ \A r \in {p, q} \ {NoPath} : Compatible(o, r)
  /\ MayStart(o, p, q)

Start(t) ==
  /\ phase = "mounted" /\ ~fault
  /\ pc[t] = "idle" /\ rdHold[t] <= MaxHold
  /\ \E o \in Ops \ {"unmount"}, p \in Paths, q \in Paths \cup {NoPath} :
       /\ Dispatchable(o, p, q)
       /\ op' = [op EXCEPT ![t] = o]
       /\ meth' = [meth EXCEPT ![t] = FirstMethod(o)]
       /\ pc' = [pc EXCEPT ![t] = "start"]
       /\ path' = [path EXCEPT ![t] = p]
       /\ dest' = [dest EXCEPT ![t] = q]
       /\ nopen' = IF o = "release" THEN [nopen EXCEPT ![p] = @ - 1] ELSE nopen
  /\ UNCHANGED <<ex, errs, tableVars, rwVars, srvLock, hdr, mountVars, missed>>

At(t, m, s) == ~fault /\ meth[t] = m /\ pc[t] = s

-----------------------------------------------------------------------------
(* The server (external).                                                  *)

\* A request on the resources rs that submits the tokens toks in its If header:
\* a locked resource needs its token, and the header must match something.
Admits(rs, toks) ==
  /\ \A r \in rs : srvLock[r] \in toks \cup {NoTok}
  /\ toks = {} \/ \E r \in rs : srvLock[r] \in toks

\* Tokens are never handed out twice.
Fresh(tok) ==
  /\ \A p \in Paths : srvLock[p] # tok
  /\ \A o \in Objs : heap[o] # Freed => heap[o].token # tok
  /\ \A t \in Threads : tok \notin hdr[t]

\* The server's lock times out; networkfs never renews it.
Expire(p) ==
  /\ "expire" \in Faults /\ phase = "mounted" /\ ~fault
  /\ srvLock[p] # NoTok
  /\ srvLock' = [srvLock EXCEPT ![p] = NoTok]
  /\ UNCHANGED <<threadVars, tableVars, rwVars, hdr, mountVars, missed>>

-----------------------------------------------------------------------------
(* Requests that neither read nor change the table.                        *)

\* With a pending exception, or when no curl handle can be had, the with_curl
\* body is skipped: the method fails at once, before it takes any lock.
StaleFail(t) ==
  /\ ~fault /\ pc[t] = "start" /\ (ex[t] # "none" \/ "oom" \in Faults)
  /\ meth[t] \in Guarded \cup Simple
  /\ Fail(t)
  /\ UNCHANGED <<tableVars, rwVars, srvLock, hdr, mountVars, missed>>

\* dav_mknod takes a pending CurlException with status 404 or 403 for the
\* answer to its own HEAD and goes on to PUT; dav_copy_file_range takes a 404
\* for a missing target and goes on to COPY.
StaleHead(t) ==
  /\ ex[t] = "curl"
  /\ ex' = [ex EXCEPT ![t] = "none"]
  /\ \/ At(t, "head", "start") /\ meth' = [meth EXCEPT ![t] = "put"]
     \/ /\ At(t, "getattr", "start") /\ op[t] = "copy"
        /\ meth' = [meth EXCEPT ![t] = "copy"]
  /\ UNCHANGED <<op, pc, path, dest, errs, nopen>>
  /\ UNCHANGED <<tableVars, rwVars, srvLock, hdr, mountVars, missed>>

\* dav_getattr, dav_head and dav_chmod (no If header, so a locked file refuses
\* the PROPPATCH). A locked file exists.
SimpleOk(t) ==
  /\ ~fault /\ pc[t] = "start" /\ meth[t] \in Simple /\ ex[t] = "none"
  /\ meth[t] = "chmod" => Admits({path[t]}, {})
  /\ \/ (meth[t] = "head" => srvLock[path[t]] = NoTok) /\ Advance(t)
     \/ meth[t] = "getattr"  \* the size is 0 already; -EOPNOTSUPP of a copy
        /\ IF op[t] = "opentrunc" THEN Goto(t, "lock", "start")
                                  ELSE Return(t, "ok", "none")
     \/ meth[t] = "head" /\ Return(t, "exists", "none")
     \/ meth[t] = "padhead" /\ Goto(t, "put2", "start") \* nothing to pad
  /\ UNCHANGED <<tableVars, rwVars, srvLock, hdr, mountVars, missed>>

SimpleError(t) ==
  /\ ~fault /\ pc[t] = "start" /\ meth[t] \in Simple /\ ex[t] = "none"
  /\ \/ meth[t] = "chmod" /\ ~Admits({path[t]}, {})
     \/ Faults \cap {"unapplied", "applied"} # {}
  /\ Fail(t)
  /\ UNCHANGED <<tableVars, rwVars, srvLock, hdr, mountVars, missed>>

-----------------------------------------------------------------------------
(* Requests made under the rwlock: dav_put, __dav_method, __dav_move,      *)
(* dav_copy.                                                               *)

\* __dav_header_if: the token of the record of p.
Token(p) == IF tree[p] = NoObj THEN {} ELSE {heap[tree[p]].token}

\* The resources whose locks the server consults.
Targets(t) == CASE meth[t] = "copy" -> {dest[t]}
                [] meth[t] = "move" -> {path[t], dest[t]}
                [] OTHER -> {path[t]}

\* The path whose record gives dav_put and dav_copy their If header.
HeaderPath(t) == IF meth[t] = "copy" THEN dest[t] ELSE path[t]

\* __dav_header_if with RW_LOCK_WRITE: the record leaves the tree and is freed,
\* before the request is made.
DropRecord(p) ==
  IF tree[p] = NoObj
    THEN UNCHANGED <<tree, heap>>
    ELSE /\ tree' = [tree EXCEPT ![p] = NoObj]
         /\ heap' = [heap EXCEPT ![tree[p]] = Freed]

\* Mutant of PutStart: pthread_rwlock_rdlock is forgotten.
PutStartUnlocked(t) ==
  /\ ~fault /\ pc[t] = "start" /\ meth[t] \in Puts \cup {"copy"} /\ ex[t] = "none"
  /\ hdr' = [hdr EXCEPT ![t] = Token(HeaderPath(t))]
  /\ Goto(t, meth[t], "req")
  /\ UNCHANGED <<rwVars, tableVars, srvLock, mountVars, missed>>

PutStart(t) ==
  /\ ~fault /\ pc[t] = "start" /\ meth[t] \in Puts \cup {"copy"} /\ ex[t] = "none"
  /\ RdLock(t)
  /\ hdr' = [hdr EXCEPT ![t] = Token(HeaderPath(t))]
  /\ Goto(t, meth[t], "req")
  /\ UNCHANGED <<tableVars, srvLock, mountVars, missed>>

\* Mutant of DeleteStart: DELETE takes the lock for reading.
DeleteStartShared(t) ==
  /\ At(t, "delete", "start") /\ ex[t] = "none"
  /\ RdLock(t)
  /\ hdr' = [hdr EXCEPT ![t] = Token(path[t])]
  /\ DropRecord(path[t])
  /\ Goto(t, "delete", "req")
  /\ UNCHANGED <<fl, fault, srvLock, mountVars, missed>>

DeleteStart(t) ==
  /\ At(t, "delete", "start") /\ ex[t] = "none"
  /\ WrLock(t)
  /\ hdr' = [hdr EXCEPT ![t] = Token(path[t])]
  /\ DropRecord(path[t])
  /\ Goto(t, "delete", "req")
  /\ UNCHANGED <<fl, fault, srvLock, mountVars, missed>>

\* Mutant of MoveStart: the read lock is also given back when the source has no
\* record.
MoveStartUnlocked(t) ==
  /\ At(t, "move", "start") /\ ex[t] = "none"
  /\ RdFree
  /\ IF tree[path[t]] = NoObj
       THEN hdr' = [hdr EXCEPT ![t] = Token(dest[t])] /\ Goto(t, "move", "req")
       ELSE Goto(t, "move", "wr") /\ UNCHANGED hdr
  /\ UNCHANGED <<rwVars, tableVars, srvLock, mountVars, missed>>

\* Mutant of MoveStart: the read lock is upgraded without being given back.
MoveStartUpgrade(t) ==
  /\ At(t, "move", "start") /\ ex[t] = "none"
  /\ RdLock(t)
  /\ IF tree[path[t]] = NoObj
       THEN hdr' = [hdr EXCEPT ![t] = Token(dest[t])] /\ Goto(t, "move", "req")
       ELSE Goto(t, "move", "wr") /\ UNCHANGED hdr
  /\ UNCHANGED <<tableVars, srvLock, mountVars, missed>>

\* __dav_move looks for a record of its source under the read lock. Without one
\* it keeps that lock, otherwise it trades it for the write lock.
MoveStart(t) ==
  /\ At(t, "move", "start") /\ ex[t] = "none"
  /\ IF tree[path[t]] = NoObj
       THEN /\ RdLock(t)
            /\ hdr' = [hdr EXCEPT ![t] = Token(dest[t])]
            /\ Goto(t, "move", "req")
       ELSE /\ RdFree
            /\ Goto(t, "move", "wr")
            /\ UNCHANGED <<rwVars, hdr>>
  /\ UNCHANGED <<tableVars, srvLock, mountVars, missed>>

MoveWr(t) ==
  /\ At(t, "move", "wr")
  /\ WrLock(t)
  /\ hdr' = [hdr EXCEPT ![t] = Token(path[t]) \cup Token(dest[t])]
  /\ DropRecord(path[t])
  /\ Goto(t, "move", "req")
  /\ UNCHANGED <<fl, fault, srvLock, mountVars, missed>>

\* curl_slist_append_e fails for the first If header: the method gives up with
\* the rwlock held and the record in place.
HeaderOom(t) ==
  /\ "oom" \in Faults /\ ~fault /\ ex[t] = "none"
  /\ \/ /\ pc[t] = "start" /\ meth[t] \in Puts \cup {"copy"}
        /\ Token(HeaderPath(t)) # {}
        /\ RdLock(t)
     \/ /\ <<meth[t], pc[t]>> \in {<<"delete", "start">>, <<"move", "wr">>}
        /\ Token(path[t]) # {}
        /\ WrLock(t)
     \/ /\ pc[t] = "start" /\ meth[t] = "move"
        /\ Token(path[t]) = {} /\ Token(dest[t]) # {}
        /\ RdLock(t)
  /\ Fail(t)
  /\ UNCHANGED <<tableVars, srvLock, hdr, mountVars, missed>>

\* DELETE and MOVE remove the lock of the resource they take away.
Effect(t) == IF meth[t] \in {"delete", "move"}
               THEN [srvLock EXCEPT ![path[t]] = NoTok]
               ELSE srvLock

\* Mutant of RequestOk: the unlock after the request is forgotten.
RequestOkLeaks(t) ==
  /\ ~fault /\ pc[t] = "req" /\ meth[t] \in Guarded
  /\ Admits(Targets(t), hdr[t])
  /\ srvLock' = Effect(t)
  /\ hdr' = [hdr EXCEPT ![t] = {}]
  /\ Advance(t)
  /\ UNCHANGED <<rwVars, tableVars, mountVars, missed>>

RequestOk(t) ==
  /\ ~fault /\ pc[t] = "req" /\ meth[t] \in Guarded
  /\ Admits(Targets(t), hdr[t])
  /\ srvLock' = Effect(t)
  /\ RwUnlock(t)
  /\ hdr' = [hdr EXCEPT ![t] = {}]
  /\ Advance(t)
  /\ UNCHANGED <<tableVars, mountVars, missed>>

\* curl_easy_perform_or_die throws: the statements after it, the unlock among
\* them, are skipped.
RequestError(t) ==
  /\ ~fault /\ pc[t] = "req" /\ meth[t] \in Guarded
  /\ \/ /\ ~Admits(Targets(t), hdr[t]) \/ "unapplied" \in Faults
        /\ UNCHANGED srvLock
     \/ /\ Admits(Targets(t), hdr[t]) /\ "applied" \in Faults
        /\ srvLock' = Effect(t)
  /\ hdr' = [hdr EXCEPT ![t] = {}]
  /\ Fail(t)
  /\ UNCHANGED <<tableVars, rwVars, mountVars, missed>>

\* dav_write destroys the exception of a 416 and pads the file by hand; the
\* read lock of the failed dav_put stays.
Request416(t) ==
  /\ "416" \in Faults
  /\ At(t, "put", "req") /\ op[t] = "write"
  /\ Admits(Targets(t), hdr[t])
  /\ hdr' = [hdr EXCEPT ![t] = {}]
  /\ Goto(t, "padhead", "start")
  /\ UNCHANGED <<tableVars, rwVars, srvLock, mountVars, missed>>

-----------------------------------------------------------------------------
(* dav_lock.                                                               *)

CountUp(o) == heap' = [heap EXCEPT ![o].cnt = @ + 1]

\* The read-locked section, and malloc when it finds nothing.
LockRd(t) ==
  /\ At(t, "lock", "start")
  /\ RdFree
  /\ IF tree[path[t]] # NoObj
       THEN CountUp(tree[path[t]]) /\ Advance(t)
       ELSE /\ UNCHANGED heap
            /\ \/ ex[t] = "none" /\ Goto(t, "lock", "wr")
               \/ (ex[t] # "none" \/ "oom" \in Faults) /\ Fail(t)
  /\ UNCHANGED <<tree, fl, fault, rwVars, srvLock, hdr, mountVars, missed>>

\* The LOCK request is prepared with a new record, which counts one handle.
NewFileLock(t) ==
  /\ \E o \in Objs :
       /\ heap[o] = Freed
       /\ heap' = [heap EXCEPT ![o] =
                     [path |-> path[t], token |-> NoTok, cnt |-> 1]]
       /\ fl' = [fl EXCEPT ![t] = o]
  /\ WrLock(t)
  /\ Goto(t, "lock", "req")

\* Mutant of LockWr: the second look finds the record but does not count.
LockWrNoCount(t) ==
  /\ At(t, "lock", "wr")
  /\ WrFree
  /\ IF tree[path[t]] # NoObj
       THEN Advance(t) /\ UNCHANGED <<heap, fl, rwVars>>
       ELSE NewFileLock(t)
  /\ UNCHANGED <<tree, fault, srvLock, hdr, mountVars, missed>>

\* Mutant of LockWr: no second look under the write lock.
LockWrNoRecheck(t) ==
  /\ At(t, "lock", "wr")
  /\ WrFree
  /\ NewFileLock(t)
  /\ UNCHANGED <<tree, fault, srvLock, hdr, mountVars, missed>>

\* The write-locked section up to the LOCK request: another thread may have
\* inserted the record since.
LockWr(t) ==
  /\ At(t, "lock", "wr")
  /\ WrFree
  /\ IF tree[path[t]] # NoObj
       THEN CountUp(tree[path[t]]) /\ Advance(t) /\ UNCHANGED <<fl, rwVars>>
       ELSE NewFileLock(t)
  /\ UNCHANGED <<tree, fault, srvLock, hdr, mountVars, missed>>

LockOk(t) ==
  /\ At(t, "lock", "req") /\ heap[fl[t]] # Freed
  /\ srvLock[path[t]] = NoTok
  /\ \E tok \in Tokens :
       /\ Fresh(tok)
       /\ srvLock' = [srvLock EXCEPT ![path[t]] = tok]
       /\ heap' = [heap EXCEPT ![fl[t]].token = tok]
  /\ tree' = [tree EXCEPT ![path[t]] = fl[t]]
  /\ fl' = [fl EXCEPT ![t] = NoObj]
  /\ RwUnlock(t)
  /\ Advance(t)
  /\ UNCHANGED <<fault, hdr, mountVars, missed>>

\* The request fails, or tsearch does: then the server's lock stays, because
\* __dav_unlock does nothing while the exception is pending.
LockError(t) ==
  /\ At(t, "lock", "req") /\ heap[fl[t]] # Freed
  /\ \/ /\ srvLock[path[t]] # NoTok \/ "unapplied" \in Faults
        /\ UNCHANGED srvLock
     \/ /\ srvLock[path[t]] = NoTok /\ Faults \cap {"applied", "oom"} # {}
        /\ \E tok \in Tokens :
             Fresh(tok) /\ srvLock' = [srvLock EXCEPT ![path[t]] = tok]
  /\ heap' = [heap EXCEPT ![fl[t]] = Freed]
  /\ fl' = [fl EXCEPT ![t] = NoObj]
  /\ RwUnlock(t)
  /\ Fail(t)
  /\ UNCHANGED <<tree, fault, hdr, mountVars, missed>>

-----------------------------------------------------------------------------
(* dav_unlock, called by dav_release, which ignores its result and any     *)
(* exception.                                                              *)

\* Mutant of UnlockRd: the test after counting down is off by one.
UnlockRdOffByOne(t) ==
  /\ At(t, "unlock", "start")
  /\ RdFree
  /\ tree[path[t]] # NoObj
  /\ LET o == tree[path[t]] IN
     /\ heap' = [heap EXCEPT ![o].cnt = @ - 1]
     /\ IF heap[o].cnt - 1 > 1
          THEN Return(t, "ok", ex[t]) /\ UNCHANGED fl
          ELSE fl' = [fl EXCEPT ![t] = o] /\ Goto(t, "unlock", "wr")
  /\ UNCHANGED <<tree, fault, rwVars, srvLock, hdr, mountVars, missed>>

\* The read-locked section: find the record and count down.
UnlockRd(t) ==
  /\ At(t, "unlock", "start")
  /\ RdFree
  /\ IF tree[path[t]] = NoObj
       THEN /\ missed' = TRUE
            /\ Return(t, "ok", "unspecified")
            /\ UNCHANGED <<heap, fl>>
       ELSE LET o == tree[path[t]] IN
            /\ heap' = [heap EXCEPT ![o].cnt = @ - 1]
            /\ IF heap[o].cnt - 1 > 0
                 THEN Return(t, "ok", ex[t]) /\ UNCHANGED fl
                 ELSE /\ fl' = [fl EXCEPT ![t] = o]
                      /\ Goto(t, "unlock", "wr")
            /\ UNCHANGED missed
  /\ UNCHANGED <<tree, fault, rwVars, srvLock, hdr, mountVars>>

\* Mutant of UnlockWr: the record is not removed from the tree.
UnlockWrKeeps(t) ==
  /\ At(t, "unlock", "wr")
  /\ WrFree
  /\ Goto(t, "unlock", "req")
  /\ UNCHANGED <<tree, heap, fl, fault, rwVars, srvLock, hdr, mountVars, missed>>

\* The write-locked section: look again, remove the record if its count is not
\* positive. Otherwise fl keeps the pointer of the first section.
UnlockWr(t) ==
  LET o == tree[path[t]] IN
  /\ At(t, "unlock", "wr")
  /\ WrFree
  /\ IF o # NoObj /\ heap[o].cnt <= 0
       THEN /\ fl' = [fl EXCEPT ![t] = o]
            /\ tree' = [tree EXCEPT ![path[t]] = NoObj]
       ELSE UNCHANGED <<fl, tree>>
  /\ Goto(t, "unlock", "req")
  /\ UNCHANGED <<heap, fault, rwVars, srvLock, hdr, mountVars, missed>>

\* delete(FileLock) filelock: the heap is corrupt if the tree still holds it.
FreeRecord(t) ==
  /\ heap' = [heap EXCEPT ![fl[t]] = Freed]
  /\ fault' = \E p \in Paths : tree[p] = fl[t]
  /\ fl' = [fl EXCEPT ![t] = NoObj]

\* The UNLOCK request, outside the rwlock, and the free. A pending exception
\* skips the request.
UnlockReq(t) ==
  /\ At(t, "unlock", "req") /\ heap[fl[t]] # Freed
  /\ LET held == srvLock[path[t]] = heap[fl[t]].token IN
     \/ /\ ex[t] # "none"
        /\ Return(t, "ok", ex[t])
        /\ UNCHANGED srvLock
     \/ /\ ex[t] = "none" /\ held
        /\ srvLock' = [srvLock EXCEPT ![path[t]] = NoTok]
        /\ \/ Return(t, "ok", "none")
           \/ "applied" \in Faults /\ Return(t, "ok", "curl")
     \/ /\ ex[t] = "none" /\ (~held \/ "unapplied" \in Faults)
        /\ Return(t, "ok", "curl")
        /\ UNCHANGED srvLock
  /\ FreeRecord(t)
  /\ UNCHANGED <<tree, rwVars, hdr, mountVars, missed>>

\* dav_lock or dav_unlock goes on with a record that was freed meanwhile.
UseAfterFree(t) ==
  /\ ~fault /\ pc[t] = "req" /\ meth[t] \in {"lock", "unlock"}
  /\ heap[fl[t]] = Freed
  /\ fault' = TRUE
  /\ UNCHANGED <<tree, heap, fl, rwVars, srvLock, threadVars, hdr, mountVars, missed>>

-----------------------------------------------------------------------------
(* dav_destory, run by the main thread after the workers have stopped:     *)
(* tdestroy unlocks and frees each record.                                 *)

Destroy ==
  /\ "unmount" \in Ops /\ phase = "mounted" /\ ~fault
  /\ \A t \in Threads : pc[t] = "idle"
  /\ phase' = "destroy"
  /\ UNCHANGED <<tableVars, rwVars, srvLock, threadVars, hdr, mainEx, missed>>

\* Mutant of DestroyNode: the records are freed without an UNLOCK.
DestroyNodeSilent(p) ==
  /\ phase = "destroy" /\ tree[p] # NoObj
  /\ DropRecord(p)
  /\ UNCHANGED <<fl, fault, rwVars, srvLock, threadVars, hdr, mountVars, missed>>

\* __dav_unlock_node. An UNLOCK that failed leaves its exception pending, and
\* the ones after it are not sent.
DestroyNode(p) ==
  /\ phase = "destroy" /\ tree[p] # NoObj
  /\ LET held == srvLock[p] = heap[tree[p]].token IN
     \/ /\ mainEx
        /\ UNCHANGED <<srvLock, mainEx>>
     \/ /\ ~mainEx /\ held
        /\ srvLock' = [srvLock EXCEPT ![p] = NoTok]
        /\ \/ UNCHANGED mainEx
           \/ "applied" \in Faults /\ mainEx' = TRUE
     \/ /\ ~mainEx /\ (~held \/ "unapplied" \in Faults)
        /\ mainEx' = TRUE
        /\ UNCHANGED srvLock
  /\ DropRecord(p)
  /\ UNCHANGED <<fl, fault, rwVars, threadVars, hdr, phase, missed>>

Destroyed ==
  /\ phase = "destroy"
  /\ \A p \in Paths : tree[p] = NoObj
  /\ phase' = "down"
  /\ UNCHANGED <<tableVars, rwVars, srvLock, threadVars, hdr, mainEx, missed>>

-----------------------------------------------------------------------------
Step(t) ==
  \/ StaleFail(t) \/ StaleHead(t) \/ SimpleOk(t) \/ SimpleError(t)
  \/ PutStart(t) \/ DeleteStart(t) \/ MoveStart(t) \/ MoveWr(t) \/ HeaderOom(t)
  \/ RequestOk(t) \/ RequestError(t) \/ Request416(t)
  \/ LockRd(t) \/ LockWr(t) \/ LockOk(t) \/ LockError(t)
  \/ UnlockRd(t) \/ UnlockWr(t) \/ UnlockReq(t) \/ UseAfterFree(t)

\* Nothing more happens once the file system is unmounted or has crashed.
Halt == (phase = "down" \/ fault) /\ UNCHANGED vars

Next ==
  \/ \E t \in Threads : Start(t) \/ Step(t)
  \/ \E p \in Paths : Expire(p) \/ DestroyNode(p)
  \/ Destroy \/ Destroyed \/ Halt

\* A worker goes on with its request as long as it can: it is a thread of its
\* own. That a request in flight ends, because the server answers or because the
\* connection fails, is an assumption: -o timeout has no default.
Spec == Init /\ [][Next]_vars /\ \A t \in Threads : WF_vars(Step(t))

-----------------------------------------------------------------------------
(* Properties.                                                             *)

\* No step of dav_lock or dav_unlock has used a struct FileLock that another
\* thread had freed, or freed one the tree points to (part of the inductive
\* invariant from which RecordsOwned is proved).
NoDanglingUse == ~fault

\* The steps during which the local variable filelock points to a record.
Owning(t) == \/ meth[t] = "lock" /\ pc[t] = "req"
             \/ meth[t] = "unlock" /\ pc[t] \in {"wr", "req"}

OwnRecord(t) ==
  IF Owning(t)
    THEN /\ fl[t] # NoObj /\ heap[fl[t]] # Freed /\ heap[fl[t]].path = path[t]
         /\ (tree[path[t]] = fl[t]) = (pc[t] = "wr")
         /\ pc[t] = "wr" => heap[fl[t]].cnt <= 0
    ELSE fl[t] = NoObj

\* Who owns which record, when a release overlaps nothing on its path: a record in
\* the tree is live and filed under its own path; the record in a thread's local
\* variable is live, belongs to the thread's path, and is in the tree only
\* between the two sections of dav_unlock.
RecordsOwned ==
  /\ \A p \in Paths : tree[p] # NoObj =>
       heap[tree[p]] # Freed /\ heap[tree[p]].path = p
  /\ \A t \in Threads : OwnRecord(t)

\* The If header of a PUT or COPY in flight carries the token of the record the
\* tree holds for that path now: the read lock taken by dav_put, __dav_method
\* and dav_copy keeps every other thread from replacing the record meanwhile.
HeaderCurrent ==
  ~fault => \A t \in Threads :
    pc[t] = "req" /\ meth[t] \in Puts \cup {"copy"} =>
      hdr[t] = Token(HeaderPath(t))

\* A thread that will call pthread_rwlock_unlock after its request holds the
\* lock, alone if it is about to change the tree (dav_lock, DELETE).
RequestsHoldLock ==
  \A t \in Threads : pc[t] = "req" =>
    /\ meth[t] \in Guarded \cup {"lock"} => rdHold[t] > 0 \/ wrHold = t
    /\ meth[t] \in {"lock", "delete"} => wrHold = t

\* A file open for writing is locked on the server ("use WebDAV lock").
LockedWhileOpen ==
  phase = "mounted" => \A p \in Paths : nopen[p] > 0 => srvLock[p] # NoTok

Quiet(p) == phase = "mounted" /\ \A t \in Threads : p \notin Names(t)

\* When no request on p is in flight, its record exists exactly if p is open
\* for writing, and dav_lock and dav_unlock have counted its handles right.
CountMatches ==
  \A p \in Paths : Quiet(p) =>
    IF tree[p] = NoObj THEN nopen[p] = 0 ELSE heap[tree[p]].cnt = nopen[p]

\* No lock is left on the server for a file nobody has open, nor after unmount.
NoStrayLock ==
  \A p \in Paths : (Quiet(p) /\ nopen[p] = 0) \/ phase = "down" =>
    srvLock[p] = NoTok

\* As long as the server serves every legitimate request, no handler fails.
NoSpuriousError == ~errs

\* A thread between two operations holds filelock_tree_lock neither for reading
\* nor for writing.
IdleHoldsNothing ==
  \A t \in Threads : pc[t] = "idle" => rdHold[t] = 0 /\ wrHold # t

\* A release finds the record that the open inserted ("release cannot find
\* file lock" is never thrown).
ReleaseFindsLock == ~missed

\* Once the applications stop issuing requests, those in flight all return.
OpsDrain ==
  <>[][~\E t \in Threads : Start(t)]_vars =>
    \A t \in Threads : <>[](pc[t] = "idle")
=============================================================================
