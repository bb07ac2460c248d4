------------------------------ MODULE CurlPool ------------------------------
(***************************************************************************)
(* The pool of libcurl easy handles shared by all FUSE worker threads      *)
(* (curl_easy_init_common and curl_easy_cleanup_common in common/wrapper/  *)
(* curl.c), the intrusive stack below it (common/template/stack.c) and its *)
(* spinlock as ensure_synchronized and synchronized take it (common/       *)
(* grammar/synchronized.h). One with_curl block is one pass of a thread    *)
(* from "idle" back to "idle".                                             *)
(*                                                                         *)
(* libcurl itself, malloc and the spinlock are external.                   *)
(***************************************************************************)
EXTENDS Integers, FiniteSets

CONSTANTS
  Threads,      \* FUSE worker threads
  Handles,      \* addresses curl_easy_init may return
  Nodes,        \* addresses malloc may return for a LinkedList node
  Kinds,        \* the with_curl bodies: each sets options of its own
  NoThread, NoHandle, Null,
  Faults        \* "oom": an allocation fails; "setopt": curl_easy_setopt does;
                \* "stale": the thread has an exception pending already

ASSUME PoolAssumption ==
  /\ IsFiniteSet(Threads)
  /\ NoThread \notin Threads
  /\ NoHandle \notin Handles
  /\ Null \notin Nodes
  /\ "common" \notin Kinds /\ "none" \notin Kinds

VARIABLES
  head,   \* curl_handler_stack.next
  size,   \* curl_handler_stack.size
  lock,   \* curl_handler_stack.lock: the thread holding it
  nxt,    \* each node: its next
  val,    \* each allocated node: the handle it carries; NoHandle if free
  live,   \* the handles that exist
  opts,   \* each handle: the options set on it since curl_easy_reset
  buf,    \* each handle: the thread whose ex.error_buf it reports to
  pc, kind, node, cur  \* each thread: step, body, local node (res, node),
                       \*   handle (this)

stackVars  == <<head, size, lock, nxt, val>>
handleVars == <<live, opts, buf>>
vars == <<stackVars, handleVars, pc, kind, node, cur>>

Steps == {"idle", "trylock", "check", "pop", "unlink", "popped", "reuse",
          "make", "setopt", "body", "perform", "cleanup", "pushlock", "push",
          "link", "pushed"}

TypeOK ==
  /\ head \in Nodes \cup {Null}
  /\ size \in Nat
  /\ lock \in Threads \cup {NoThread}
  /\ nxt \in [Nodes -> Nodes \cup {Null}]
  /\ val \in [Nodes -> Handles \cup {NoHandle}]
  /\ live \subseteq Handles
  /\ opts \in [Handles -> SUBSET (Kinds \cup {"common"})]
  /\ buf \in [Handles -> Threads \cup {NoThread}]
  /\ pc \in [Threads -> Steps]
  /\ kind \in [Threads -> Kinds \cup {"none"}]
  /\ node \in [Threads -> Nodes \cup {Null}]
  /\ cur \in [Threads -> Handles \cup {NoHandle}]

Init ==
  /\ head = Null /\ size = 0 /\ lock = NoThread
  /\ nxt = [n \in Nodes |-> Null]
  /\ val = [n \in Nodes |-> NoHandle]
  /\ live = {}
  /\ opts = [h \in Handles |-> {}]
  /\ buf = [h \in Handles |-> NoThread]
  /\ pc = [t \in Threads |-> "idle"]
  /\ kind = [t \in Threads |-> "none"]
  /\ node = [t \in Threads |-> Null]
  /\ cur = [t \in Threads |-> NoHandle]

Goto(t, s) == pc' = [pc EXCEPT ![t] = s]

-----------------------------------------------------------------------------
(* Stack_pop, in the order ensure_synchronized runs it: try the lock; look *)
(* at the stack, locked or not; pop once the lock is held and the stack    *)
(* was seen not to be empty, else try again.                               *)

\* A method enters with_curl.
Request(t) ==
  /\ pc[t] = "idle"
  /\ Goto(t, "trylock")
  /\ UNCHANGED <<stackVars, handleVars, kind, node, cur>>

TryLock(t) ==
  /\ pc[t] = "trylock"
  /\ lock' = IF lock = NoThread THEN t ELSE lock
  /\ Goto(t, "check")
  /\ UNCHANGED <<head, size, nxt, val, handleVars, kind, node, cur>>

\* Mutant of CheckEmpty: a busy lock counts as an empty stack.
CheckEmptyGivesUp(t) ==
  /\ pc[t] = "check"
  /\ IF head = Null \/ lock # t
       THEN lock' = (IF lock = t THEN NoThread ELSE lock) /\ Goto(t, "make")
       ELSE UNCHANGED lock /\ Goto(t, "pop")
  /\ UNCHANGED <<head, size, nxt, val, handleVars, kind, node, cur>>

\* Mutant of CheckEmpty: the break out of an empty stack skips the unlock.
CheckEmptyKeepsLock(t) ==
  /\ pc[t] = "check"
  /\ Goto(t, IF head = Null THEN "make" ELSE IF lock = t THEN "pop" ELSE "trylock")
  /\ UNCHANGED <<stackVars, handleVars, kind, node, cur>>

CheckEmpty(t) ==
  /\ pc[t] = "check"
  /\ IF head = Null
       THEN lock' = (IF lock = t THEN NoThread ELSE lock) /\ Goto(t, "make")
       ELSE UNCHANGED lock /\ Goto(t, IF lock = t THEN "pop" ELSE "trylock")
  /\ UNCHANGED <<head, size, nxt, val, handleVars, kind, node, cur>>

\* res = this->next
PopHead(t) ==
  /\ pc[t] = "pop"
  /\ node' = [node EXCEPT ![t] = head]
  /\ Goto(t, "unlink")
  /\ UNCHANGED <<stackVars, handleVars, kind, cur>>

\* this->next = res->next
PopUnlink(t) ==
  /\ pc[t] = "unlink"
  /\ head' = nxt[node[t]]
  /\ Goto(t, "popped")
  /\ UNCHANGED <<size, lock, nxt, val, handleVars, kind, node, cur>>

PopDone(t) ==
  /\ pc[t] = "popped"
  /\ nxt' = [nxt EXCEPT ![node[t]] = Null]
  /\ size' = size - 1
  /\ lock' = NoThread
  /\ Goto(t, "reuse")
  /\ UNCHANGED <<head, val, handleVars, kind, node, cur>>

-----------------------------------------------------------------------------
(* curl_easy_init_common.                                                  *)

\* Mutant of Reuse: no curl_easy_reset.
ReuseDirty(t) ==
  /\ pc[t] = "reuse"
  /\ cur' = [cur EXCEPT ![t] = val[node[t]]]
  /\ val' = [val EXCEPT ![node[t]] = NoHandle]
  /\ node' = [node EXCEPT ![t] = Null]
  /\ Goto(t, "setopt")
  /\ UNCHANGED <<head, size, lock, nxt, handleVars, kind>>

\* free(node), curl_easy_reset
Reuse(t) ==
  LET h == val[node[t]] IN
  /\ pc[t] = "reuse"
  /\ cur' = [cur EXCEPT ![t] = h]
  /\ val' = [val EXCEPT ![node[t]] = NoHandle]
  /\ node' = [node EXCEPT ![t] = Null]
  /\ opts' = [opts EXCEPT ![h] = {}]
  /\ buf' = [buf EXCEPT ![h] = NoThread]
  /\ Goto(t, "setopt")
  /\ UNCHANGED <<head, size, lock, nxt, live, kind>>

\* curl_easy_init
MakeHandle(t) ==
  /\ pc[t] = "make"
  /\ \/ \E h \in Handles \ live :
          /\ live' = live \cup {h}
          /\ opts' = [opts EXCEPT ![h] = {}]
          /\ buf' = [buf EXCEPT ![h] = NoThread]
          /\ cur' = [cur EXCEPT ![t] = h]
          /\ Goto(t, "setopt")
     \/ "oom" \in Faults /\ Goto(t, "idle") /\ UNCHANGED <<handleVars, cur>>
  /\ UNCHANGED <<stackVars, kind, node>>

\* curl_easy_cleanup: the handle is closed and the thread is done.
Close(t) ==
  /\ live' = live \ {cur[t]}
  /\ opts' = [opts EXCEPT ![cur[t]] = {}]
  /\ buf' = [buf EXCEPT ![cur[t]] = NoThread]
  /\ cur' = [cur EXCEPT ![t] = NoHandle]
  /\ Goto(t, "idle")

\* Mutant of SetCommon: this = NULL is missing after curl_easy_cleanup, so that
\* the closed handle goes back to the pool.
SetCommonDangling(t) ==
  /\ pc[t] = "setopt"
  /\ \/ /\ buf' = [buf EXCEPT ![cur[t]] = t]
        /\ opts' = [opts EXCEPT ![cur[t]] = @ \cup {"common"}]
        /\ Goto(t, "body")
        /\ UNCHANGED live
     \/ /\ Faults \cap {"stale", "setopt"} # {}
        /\ live' = live \ {cur[t]}
        /\ Goto(t, "cleanup")
        /\ UNCHANGED <<opts, buf>>
  /\ UNCHANGED <<stackVars, kind, node, cur>>

\* The error buffer, then the options every request has. A pending exception
\* stops at the first throwable, as does a failing setopt.
SetCommon(t) ==
  /\ pc[t] = "setopt"
  /\ \/ /\ buf' = [buf EXCEPT ![cur[t]] = t]
        /\ opts' = [opts EXCEPT ![cur[t]] = @ \cup {"common"}]
        /\ Goto(t, "body")
        /\ UNCHANGED <<live, cur>>
     \/ Faults \cap {"stale", "setopt"} # {} /\ Close(t)
  /\ UNCHANGED <<stackVars, kind, node>>

-----------------------------------------------------------------------------
(* The body of with_curl, then curl_easy_cleanup_common.                   *)

SetOwn(t) ==
  /\ pc[t] = "body"
  /\ \E k \in Kinds : /\ kind' = [kind EXCEPT ![t] = k]
                      /\ opts' = [opts EXCEPT ![cur[t]] = @ \cup {k}]
  /\ Goto(t, "perform")
  /\ UNCHANGED <<stackVars, live, buf, node, cur>>

\* curl_easy_perform returns, with or without an error: both end the body.
Perform(t) ==
  /\ pc[t] = "perform"
  /\ kind' = [kind EXCEPT ![t] = "none"]
  /\ Goto(t, "cleanup")
  /\ UNCHANGED <<stackVars, handleVars, node, cur>>

\* malloc of the node, or curl_easy_cleanup without one.
Cleanup(t) ==
  /\ pc[t] = "cleanup"
  /\ \/ \E n \in Nodes :
          /\ val[n] = NoHandle
          /\ val' = [val EXCEPT ![n] = cur[t]]
          /\ node' = [node EXCEPT ![t] = n]
          /\ cur' = [cur EXCEPT ![t] = NoHandle]
          /\ Goto(t, "pushlock")
          /\ UNCHANGED handleVars
     \/ "oom" \in Faults /\ Close(t) /\ UNCHANGED <<val, node>>
  /\ UNCHANGED <<head, size, lock, nxt, kind>>

-----------------------------------------------------------------------------
(* Stack_push.                                                             *)

\* Mutant of PushLock: one attempt, whose failure is not noticed.
PushLockOnce(t) ==
  /\ pc[t] = "pushlock"
  /\ lock' = IF lock = NoThread THEN t ELSE lock
  /\ Goto(t, "push")
  /\ UNCHANGED <<head, size, nxt, val, handleVars, kind, node, cur>>

PushLock(t) ==
  /\ pc[t] = "pushlock"
  /\ lock = NoThread
  /\ lock' = t
  /\ Goto(t, "push")
  /\ UNCHANGED <<head, size, nxt, val, handleVars, kind, node, cur>>

\* node->next = this->next
PushNext(t) ==
  /\ pc[t] = "push"
  /\ nxt' = [nxt EXCEPT ![node[t]] = head]
  /\ Goto(t, "link")
  /\ UNCHANGED <<head, size, lock, val, handleVars, kind, node, cur>>

\* this->next = node
PushLink(t) ==
  /\ pc[t] = "link"
  /\ head' = node[t]
  /\ node' = [node EXCEPT ![t] = Null]
  /\ Goto(t, "pushed")
  /\ UNCHANGED <<size, lock, nxt, val, handleVars, kind, cur>>

\* Mutant of PushDone: size is not incremented.
PushDoneNoCount(t) ==
  /\ pc[t] = "pushed"
  /\ lock' = NoThread
  /\ Goto(t, "idle")
  /\ UNCHANGED <<head, size, nxt, val, handleVars, kind, node, cur>>

PushDone(t) ==
  /\ pc[t] = "pushed"
  /\ size' = size + 1
  /\ lock' = NoThread
  /\ Goto(t, "idle")
  /\ UNCHANGED <<head, nxt, val, handleVars, kind, node, cur>>

-----------------------------------------------------------------------------
Step(t) ==
  \/ TryLock(t) \/ CheckEmpty(t) \/ PopHead(t) \/ PopUnlink(t) \/ PopDone(t)
  \/ Reuse(t) \/ MakeHandle(t) \/ SetCommon(t) \/ SetOwn(t) \/ Perform(t)
  \/ Cleanup(t) \/ PushLock(t) \/ PushNext(t) \/ PushLink(t) \/ PushDone(t)

Next == \E t \in Threads : Request(t) \/ Step(t)

\* Each worker is an operating system thread, which goes on as long as it can.
Spec == Init /\ [][Next]_vars /\ \A t \in Threads : WF_vars(Step(t))

-----------------------------------------------------------------------------
(* Properties.                                                             *)

\* The threads and the nodes that hold handle h.
Holders(h) == {t \in Threads : cur[t] = h} \cup {n \in Nodes : val[n] = h}

\* No two requests share a handle, and no handle is in the pool while a request
\* uses it or twice at once: a handle that exists has at most one holder, and
\* what a holder holds exists.
HandleExclusive ==
  /\ \A t \in Threads : cur[t] # NoHandle => cur[t] \in live
  /\ \A n \in Nodes : val[n] # NoHandle => val[n] \in live
  /\ \A t, u \in Threads : t # u /\ cur[t] # NoHandle => cur[t] # cur[u]
  /\ \A m, n \in Nodes : m # n /\ val[m] # NoHandle => val[m] # val[n]
  /\ \A t \in Threads, n \in Nodes : cur[t] # NoHandle => cur[t] # val[n]

\* curl_easy_perform runs with the options of its own request and no others,
\* and reports to the error buffer of the thread that calls it: nothing is left
\* over from whoever used the pooled handle before.
CleanRequest ==
  \A t \in Threads : pc[t] = "perform" =>
    opts[cur[t]] = {"common", kind[t]} /\ buf[cur[t]] = t

\* A set of nodes that contains the top of the stack and the successors of its
\* members; the nodes on the stack are those in every such set.
HoldsStack(S) == /\ head \in S \cup {Null}
                 /\ \A n \in S : nxt[n] \in S \cup {Null}

Stacked == {n \in Nodes : \A S \in SUBSET Nodes : HoldsStack(S) => n \in S}

\* When nobody holds the spinlock, the stack is a list of size nodes, and every
\* handle that exists is on it or in the hands of a thread: none is lost.
PoolIntact ==
  lock = NoThread =>
    /\ Cardinality(Stacked) = size
    /\ live = {val[n] : n \in Stacked} \cup ({cur[t] : t \in Threads} \ {NoHandle})
                \cup {val[node[t]] : t \in {u \in Threads : node[u] # Null}}

\* Once no new request starts, those under way all end, although Stack_pop may
\* fail to get the spinlock many times before it does.
RequestsEnd ==
  <>[][~\E t \in Threads : Request(t)]_vars =>
    \A t \in Threads : <>[](pc[t] = "idle")

\* A thread owns the handle it uses, carries to the stack or has unlinked.
ownOf == [t \in Threads |->
            IF cur[t] # NoHandle THEN cur[t]
            ELSE IF node[t] # Null /\ pc[t] # "unlink" THEN val[node[t]]
            ELSE NoHandle]

Pool == INSTANCE HandlePool
          WITH idle <- {val[n] : n \in Stacked}, own <- ownOf

\* Stack_pop, Stack_push and the two common functions implement the abstract
\* pool: the pop takes effect at this->next = res->next, the push at
\* this->next = node, and a thread that saw the stack empty makes a handle
\* without ever exceeding one per thread.
ImplementsPool == Pool!PoolSpec
=============================================================================
