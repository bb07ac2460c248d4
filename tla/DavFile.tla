------------------------------ MODULE DavFile ------------------------------
(***************************************************************************)
(* What the handlers of proto/dav/dav.c that need several requests do to   *)
(* the files of the server: dav_write with its padding after a 416,        *)
(* dav_truncate, dav_mknod, dav_symlink and dav_copy_file_range.           *)
(*                                                                         *)
(* One handler runs from the first request to its result. The kernel keeps *)
(* two handlers that change one file from overlapping. What a handler does *)
(* depends on the files it finds, over which Init ranges, and on the       *)
(* exception the thread's last release may have left pending. The server   *)
(* is external.                                                            *)
(***************************************************************************)
EXTENDS Integers, Sequences

CONSTANTS
  Paths,       \* file names
  NoFile,      \* what a name without a file stands for
  MaxLen,      \* bound: the length of a file, the end of a request
  Width,       \* bits of an unsigned int, 32 in the program
  Faults,      \* "unapplied", "applied": as in FileLocks. "416": the server
               \* refuses a PUT that begins beyond the end of the file. "403":
               \* it may refuse the HEAD of a file. "length": it may answer one
               \* without a line that begins with "Content-Length:". "pending":
               \* a handler may begin with an exception pending
  MaxFaults    \* bound: requests that fail in one handler

Modes == {"none", "default", "file", "link"}

ASSUME FileAssumption ==
  /\ MaxLen \in Nat \ {0} /\ Width \in Nat /\ MaxFaults \in Nat
  /\ 2^Width \in Nat \ {0}
  /\ Faults \subseteq {"unapplied", "applied", "416", "403", "length", "pending"}
  /\ NoFile \notin [data : Seq(Int), mode : Modes]

\* Bytes: 0, the bytes 1, 2, 3... a file had at first, the bytes a handler is
\* told to write, and what an uninitialised buffer holds.
New     == -1
Garbage == -2

\* Results of a handler that fails. EIO stands for all that dav_exception_map
\* makes of a failed request.
EIO        == -5
EEXIST     == -17
EOPNOTSUPP == -95

VARIABLES
  files,  \* each name: its contents and N:mode property, or NoFile
  op,     \* the handler's arguments
  pc,     \* its next request, or "idle", "done"
  real,   \* its local real_size
  mode,   \* its local st.st_mode
  res,    \* its result: a count, 0, or an error
  ex,     \* the thread's pending exception: a CurlException with status 404 or
          \* 403, "other", or "none"
  nfault, \* requests that have failed
  met,    \* history: which of "403", "length" and "pending" the handler has met
  was     \* history: files when the handler was called

vars == <<files, op, pc, real, mode, res, ex, nfault, met, was>>

\* Mutant of Fill: the buffer is not set.
FillUnset(n, b) == [i \in 1..n |-> Garbage]

Fill(n, b) == [i \in 1..n |-> b]

Original(n) == [data |-> [i \in 1..n |-> i], mode |-> "file"]

Init ==
  /\ files \in [Paths -> {Original(n) : n \in 0..MaxLen}
                           \cup {[data |-> <<>>, mode |-> "none"], NoFile}]
  /\ op = [name |-> "none"] /\ pc = "idle"
  /\ real = 0 /\ mode = "none" /\ res = 0 /\ nfault = 0
  /\ ex = "none" /\ met = {} /\ was = files

TypeOK ==
  /\ DOMAIN files = Paths
  /\ \A p \in Paths : files[p] # NoFile =>
       files[p].mode \in Modes /\ Len(files[p].data) \in 0..MaxLen
  /\ real \in 0..MaxLen /\ mode \in Modes /\ nfault \in 0..MaxFaults
  /\ res \in 0..MaxLen \cup {EIO, EEXIST, EOPNOTSUPP}
  /\ ex \in {"none", "404", "403", "other"} /\ met \subseteq {"403", "length", "pending"}

-----------------------------------------------------------------------------
(* Control.                                                                *)

Goto(s) == pc' = s /\ UNCHANGED <<op, res, was>>

Finish(r) == pc' = "done" /\ res' = r /\ UNCHANGED <<op, was>>

\* Mutant of Bail: dav_symlink leaves what it has made.
BailKeeps(r) == Finish(r)

\* A handler that fails; dav_symlink first removes its target.
Bail(r) ==
  IF op.name = "symlink" THEN pc' = "undo" /\ res' = r /\ UNCHANGED <<op, was>>
                         ELSE Finish(r)

Unsigned(n) == n % 2^Width

Length(f) == IF f = NoFile THEN 0 ELSE Len(f.data)

Size(p) == Length(files[p])

\* dav_getattr shows the server's length, since N:size is never set.
StSize(p) == Size(p)

\* dav_get: the bytes from the beginning, at most as many as the buffer holds.
Fetched(p, n) == IF n < Size(p) THEN n ELSE Size(p)

\* dav_read returns their number; a 416 for an empty file counts as no bytes.
Read(p, n) == IF files[p] = NoFile THEN EIO ELSE Fetched(p, n)

\* Mutant of HeadSizes: the size is not preset, and stays what the stack held.
HeadSizesUnset(p) == {Size(p)} \cup (IF "length" \in Faults THEN {MaxLen + 1} ELSE {})

\* What dav_head finds as the size: that of the file, or the 0 it begins with
\* where no header line tells the length in the spelling it looks for.
HeadSizes(p) == {Size(p)} \cup (IF "length" \in Faults THEN {0} ELSE {})

\* dav_head into real_size.
Headed(p) ==
  /\ real' \in HeadSizes(p)
  /\ met' = IF real' = Size(p) THEN met ELSE met \cup {"length"}

\* dav_getattr shows a default where the property was never set.
ModeOf(f) == IF f.mode = "none" THEN "default" ELSE f.mode

\* A request that would turn the files into fs fails, for the handler. None is
\* sent while an exception is pending.
Lost(fs) ==
  /\ nfault < MaxFaults /\ ex = "none" /\ UNCHANGED ex
  /\ nfault' = nfault + 1
  /\ \/ "unapplied" \in Faults /\ UNCHANGED files
     \/ "applied" \in Faults /\ files' = fs

\* It succeeds.
Answered(fs) == ex = "none" /\ files' = fs /\ UNCHANGED <<ex, nfault>>

-----------------------------------------------------------------------------
(* The server (external): what a request makes of the files.               *)

Larger(m, n) == IF m > n THEN m ELSE n

Overlay(d, off, new) ==
  [i \in 1..Larger(Len(d), off + Len(new)) |->
     IF i \in off + 1 .. off + Len(new) THEN new[i - off]
     ELSE IF i <= Len(d) THEN d[i] ELSE 0]

Put(p, off, new) ==
  LET f == IF files[p] = NoFile THEN [data |-> <<>>, mode |-> "none"] ELSE files[p]
  IN  [files EXCEPT ![p] = [data |-> Overlay(f.data, off, new), mode |-> f.mode]]

PutEmpty(p) ==
  [files EXCEPT ![p] = [data |-> <<>>,
                        mode |-> IF files[p] = NoFile THEN "none" ELSE files[p].mode]]

Delete(p) == [files EXCEPT ![p] = NoFile]

Patch(p, m) == [files EXCEPT ![p].mode = m]

Refuses(p, off) == "416" \in Faults /\ off > Size(p)

-----------------------------------------------------------------------------
(* The calls, as the kernel makes them. It asks for a new name only where  *)
(* it knows of no file; what it knows may be out of date by the            *)
(* negative_timeout main sets, so another client's file may be there.      *)

Start ==
  /\ pc = "idle"
  /\ \E p \in Paths :
       \/ /\ files[p] # NoFile
          /\ \E off \in 0..MaxLen - 1 : \E n \in 1..MaxLen - off :
               op' = [name |-> "write", path |-> p, off |-> off, data |-> Fill(n, New)]
          /\ pc' = "put"
       \/ /\ files[p] # NoFile
          /\ \E n \in 0..MaxLen : op' = [name |-> "truncate", path |-> p, size |-> n]
          /\ pc' = "getattr"
       \/ op' = [name |-> "mknod", path |-> p] /\ pc' = "head"
       \/ /\ op' = [name |-> "symlink", path |-> p, off |-> 0, data |-> Fill(1, New)]
          /\ pc' = "linkhead"
       \/ \E q \in Paths \ {p}, off \in 0..MaxLen - 1 : \E n \in 1..MaxLen - off :
            /\ files[q] # NoFile
            /\ \E in \in {0, off} :
                 op' = [name |-> "copy", from |-> q, in |-> in,
                        path |-> p, off |-> off, len |-> n]
            /\ pc' = "copyattr"
  /\ ex' \in IF "pending" \in Faults THEN {"none", "404", "403", "other"} ELSE {"none"}
  /\ met' = IF ex' = "none" THEN {} ELSE {"pending"}
  /\ UNCHANGED <<files, real, mode, res, nfault, was>>

-----------------------------------------------------------------------------
(* dav_write.                                                              *)

\* Mutant of PadOffset: the padding is put at the beginning of the file.
PadOffsetZero == 0

PadOffset == real

WriteDone == IF op.name = "symlink" THEN Finish(0) ELSE Finish(Len(op.data))

\* dav_put of the data, or of the padding.
WritePut ==
  /\ pc \in {"put", "pad", "put2"}
  /\ LET off == IF pc = "pad" THEN PadOffset ELSE op.off
         d   == IF pc = "pad" THEN Fill(op.off - real, 0) ELSE op.data
         fs  == IF Refuses(op.path, off) THEN files ELSE Put(op.path, off, d)
     IN  \/ /\ ~Refuses(op.path, off) /\ Answered(fs)
            /\ IF pc = "pad" THEN Goto("put2") ELSE WriteDone
         \/ /\ Refuses(op.path, off) /\ Answered(fs)
            /\ IF pc = "put" THEN Goto("padhead") ELSE Bail(EIO)
         \/ Lost(fs) /\ Bail(EIO)
  /\ UNCHANGED <<real, mode, met>>

\* Mutant of WriteHead: the comparison is off by one.
WriteHeadOffByOne ==
  /\ pc = "padhead"
  /\ Headed(op.path)
  /\ Answered(files)
  /\ Goto(IF real' + 1 < Unsigned(op.off) THEN "pad" ELSE "put2")
  /\ UNCHANGED mode

\* dav_head after a 416.
WriteHead ==
  /\ pc = "padhead"
  /\ \/ /\ Headed(op.path)
        /\ Answered(files)
        /\ Goto(IF real' < Unsigned(op.off) THEN "pad" ELSE "put2")
     \/ Lost(files) /\ Bail(EIO) /\ UNCHANGED <<real, met>>
  /\ UNCHANGED mode

-----------------------------------------------------------------------------
(* dav_truncate.                                                           *)

TruncGetattr ==
  /\ pc = "getattr"
  /\ \/ /\ mode' = ModeOf(files[op.path])
        /\ Answered(files)
        /\ CASE StSize(op.path) = op.size -> Finish(0)
             [] StSize(op.path) # op.size /\ op.size = 0 -> Goto("delete")
             [] OTHER -> Goto("trunchead")
     \/ Lost(files) /\ Bail(EIO) /\ UNCHANGED mode
  /\ UNCHANGED <<real, met>>

TruncDelete ==
  /\ pc = "delete"
  /\ \/ Answered(Delete(op.path)) /\ Goto("putempty")
     \/ Lost(Delete(op.path)) /\ Bail(EIO)
  /\ UNCHANGED <<real, mode, met>>

\* Mutant of TruncPut: the mode is not set again.
TruncPutOnly ==
  /\ pc = "putempty"
  /\ \/ Answered(PutEmpty(op.path)) /\ Finish(0)
     \/ Lost(PutEmpty(op.path)) /\ Bail(EIO)
  /\ UNCHANGED <<real, mode, met>>

TruncPut ==
  /\ pc = "putempty"
  /\ \/ Answered(PutEmpty(op.path)) /\ Goto("chmod")
     \/ Lost(PutEmpty(op.path)) /\ Bail(EIO)
  /\ UNCHANGED <<real, mode, met>>

\* To another size. A file shrunk to less than half is read first, and the
\* number of bytes read, never 0 here, is returned as if it were an error: what
\* follows in the code, a DELETE and a PUT, is not reached.
TruncResize ==
  /\ pc = "trunchead"
  /\ \/ /\ Headed(op.path)
        /\ Answered(files)
        /\ Goto(IF Unsigned(op.size) < real' \div 2 THEN "read" ELSE "size")
     \/ Lost(files) /\ Bail(EIO) /\ UNCHANGED <<real, met>>
  /\ UNCHANGED mode

TruncRead ==
  /\ pc = "read"
  /\ \/ Answered(files) /\ Finish(Read(op.path, op.size))
     \/ Lost(files) /\ Bail(EIO)
  /\ UNCHANGED <<real, mode, met>>

\* PROPPATCH of "size", a property of no namespace. dav_getattr reads N:size,
\* so neither the contents nor the size it shows change.
TruncSize ==
  /\ pc = "size"
  /\ \/ Answered(files) /\ Finish(0)
     \/ Lost(files) /\ Bail(EIO)
  /\ UNCHANGED <<real, mode, met>>

-----------------------------------------------------------------------------
(* dav_mknod and dav_symlink.                                              *)

\* Mutant of MknodHead: a file that is there is not noticed.
MknodHeadBlind ==
  /\ pc = "head"
  /\ Answered(files) /\ Goto("create")
  /\ UNCHANGED <<real, mode, met>>

\* The HEAD is answered as if there were no file, which 404 and 403 both mean
\* to the handler.
Missing ==
  /\ Answered(files)
  /\ \/ files[op.path] = NoFile /\ UNCHANGED met
     \/ "403" \in Faults /\ files[op.path] # NoFile /\ met' = met \cup {"403"}

\* The HEAD finds the file.
Found == Answered(files) /\ files[op.path] # NoFile /\ UNCHANGED met

MknodHead ==
  /\ pc = "head"
  /\ \/ Missing /\ Goto("create")
     \/ Found /\ Bail(EEXIST)
     \/ Lost(files) /\ Bail(EIO) /\ UNCHANGED met
  /\ UNCHANGED <<real, mode>>

Create ==
  /\ pc = "create"
  /\ mode' = IF op.name = "symlink" THEN "link" ELSE "file"
  /\ \/ Answered(PutEmpty(op.path)) /\ Goto("chmod")
     \/ Lost(PutEmpty(op.path)) /\ Bail(EIO)
  /\ UNCHANGED <<real, met>>

\* dav_chmod, the last step of dav_mknod and of a truncation to zero.
Chmod ==
  /\ pc = "chmod"
  /\ \/ /\ Answered(Patch(op.path, mode))
        /\ IF op.name = "symlink" THEN Goto("put") ELSE Finish(0)
     \/ Lost(Patch(op.path, mode)) /\ Bail(EIO)
  /\ UNCHANGED <<real, mode, met>>

\* The first HEAD of dav_symlink. Its failure stays pending, dav_mknod turns it
\* into an error, and the target is removed.
LinkHead ==
  /\ pc = "linkhead"
  /\ \/ Missing /\ Goto("head")
     \/ Found /\ Finish(EEXIST)
     \/ Lost(files) /\ Bail(EIO) /\ UNCHANGED met
  /\ UNCHANGED <<real, mode>>

\* dav_unlink of the target, whose own failure is ignored.
LinkUndo ==
  /\ pc = "undo"
  /\ Answered(Delete(op.path)) \/ Lost(Delete(op.path))
  /\ pc' = "done"
  /\ UNCHANGED <<op, res, was, real, mode, met>>

-----------------------------------------------------------------------------
(* dav_copy_file_range.                                                    *)

\* The tests on the size of the target. The reads that save the parts of the
\* target outside the range return their byte counts, which the handler returns
\* as its own result; only an empty target lets it go on.
CopyTests(size) ==
  CASE op.len < size \div 2 -> Finish(EOPNOTSUPP)
    [] op.len >= size \div 2 /\ op.off > 0 -> Goto("before")
    [] op.len >= size \div 2 /\ op.off = 0 /\ op.len < size -> Goto("after")
    [] OTHER -> Goto("copy")

\* dav_getattr; a target that is not there counts as empty.
CopyAttr ==
  /\ pc = "copyattr"
  /\ \/ op.in # op.off /\ Finish(EOPNOTSUPP) /\ UNCHANGED <<files, ex, nfault>>
     \/ op.in = op.off /\ Answered(files) /\ CopyTests(Unsigned(StSize(op.path)))
     \/ op.in = op.off /\ Lost(files) /\ Bail(EIO)
  /\ UNCHANGED <<real, mode, met>>

CopyRead ==
  /\ pc \in {"before", "after"}
  /\ LET n == IF pc = "before" THEN op.off ELSE StSize(op.path) - op.len
     IN  \/ /\ Answered(files)
            /\ IF Read(op.path, n) # 0 THEN Finish(Read(op.path, n)) ELSE Goto("copy")
         \/ Lost(files) /\ Bail(EIO)
  /\ UNCHANGED <<real, mode, met>>

\* Mutant of Copied: source and target are swapped.
CopiedBack == [files EXCEPT ![op.from] = files[op.path]]

Copied == [files EXCEPT ![op.path] = files[op.from]]

\* COPY, after which the saved parts are written back.
Copy ==
  /\ pc = "copy"
  /\ \/ Answered(Copied) /\ IF op.off > 0 THEN Goto("restore") ELSE Finish(op.len)
     \/ Lost(Copied) /\ Bail(EIO)
  /\ UNCHANGED <<real, mode, met>>

\* The buffer was never filled: its reading found an empty file.
CopyRestore ==
  /\ pc = "restore"
  /\ LET fs == Put(op.path, 0, Fill(op.off, Garbage)) IN
     \/ Answered(fs) /\ Finish(op.off)
     \/ Lost(fs) /\ Bail(EIO)
  /\ UNCHANGED <<real, mode, met>>

-----------------------------------------------------------------------------
\* With an exception pending the first request of a handler is not sent, and the
\* exception is taken for its failure: by dav_mknod and dav_symlink for a file
\* that is missing, by dav_copy_file_range for a target that is.
\* (It is that of an UNLOCK, which no server answers with the 416 of a range.)
Stale ==
  /\ ex # "none" /\ pc # "done"
  /\ pc = "copyattr" => op.in = op.off
  /\ CASE pc = "head" /\ ex \in {"404", "403"} -> Goto("create")
       [] pc = "linkhead" /\ ex \in {"404", "403"} -> Goto("head")
       [] pc = "copyattr" /\ ex = "404" -> CopyTests(0)
       [] OTHER -> Bail(EIO)
  /\ ex' = "none"
  /\ UNCHANGED <<files, real, mode, nfault, met>>

Halt == pc = "done" /\ UNCHANGED vars

Next ==
  \/ Start \/ WritePut \/ WriteHead
  \/ TruncGetattr \/ TruncDelete \/ TruncPut \/ TruncResize \/ TruncRead \/ TruncSize
  \/ MknodHead \/ Create \/ Chmod \/ LinkHead \/ LinkUndo
  \/ CopyAttr \/ CopyRead \/ Copy \/ CopyRestore \/ Stale
  \/ Halt

Spec == Init /\ [][Next]_vars

-----------------------------------------------------------------------------
(* Properties.                                                             *)

Ended(name) == pc = "done" /\ op.name = name

\* A dav_write that returns the number of bytes has written them where they
\* belong and zeroes into the gap before them, and nothing else has changed,
\* whether or not the file had to be padded by hand. Only if dav_head was not
\* told the length for the padding has everything before them become zero.
WriteExact ==
  Ended("write") /\ res = Len(op.data) =>
    LET base == IF "length" \in met THEN <<>> ELSE was[op.path].data
    IN  files[op.path] = [was[op.path] EXCEPT !.data = Overlay(base, op.off, op.data)]

\* A dav_write that fails, at whichever of its requests, leaves every byte that
\* was outside its range as it was, and adds nothing but zeroes before it; where
\* dav_head was not told the length, bytes before the range may be zeroed.
FailedWriteContained ==
  Ended("write") /\ res = EIO =>
    LET old == was[op.path].data
        now == files[op.path].data
    IN  /\ Len(now) >= Len(old)
        /\ \A i \in (1..Len(now)) \ (op.off + 1 .. op.off + Len(op.data)) :
             \/ now[i] = IF i <= Len(old) THEN old[i] ELSE 0
             \/ "length" \in met /\ i <= op.off /\ now[i] = 0

\* A dav_write below 2^Width that begins with no exception pending and none of
\* whose requests was lost succeeds, although the server refuses to write beyond
\* the end of the file and may not tell where that is.
HealthyWriteSucceeds ==
  Ended("write") /\ op.off < 2^Width /\ nfault = 0 /\ "pending" \notin met =>
    res = Len(op.data)

\* A truncation to zero that succeeds leaves an empty file with its old mode,
\* although the file was deleted and made again.
TruncateEmpties ==
  Ended("truncate") /\ op.size = 0 /\ res = 0 =>
    /\ files[op.path] # NoFile /\ files[op.path].data = <<>>
    /\ ModeOf(files[op.path]) = ModeOf(was[op.path])

\* dav_mknod and dav_symlink never touch a file that is there already, unless
\* its HEAD was answered with 403 or they began with an exception pending; but
\* dav_symlink removes it when one of its requests fails.
NoClobber ==
  /\ pc = "done" /\ op.name \in {"mknod", "symlink"}
  /\ was[op.path] # NoFile /\ met \cap {"403", "pending"} = {}
  => /\ res # 0
     /\ \/ files = was
        \/ op.name = "symlink" /\ nfault > 0 /\ files = [was EXCEPT ![op.path] = NoFile]

\* dav_symlink makes the whole link or, if one of its requests fails, none.
SymlinkAllOrNothing ==
  Ended("symlink") /\ was[op.path] = NoFile =>
    files[op.path] = IF res = 0 THEN [data |-> op.data, mode |-> "link"] ELSE NoFile

\* A dav_copy_file_range that returns its length, over the whole of a target
\* that is not longer, has made the target equal to its source.
CopyWhole ==
  Ended("copy") /\ op.off = 0 /\ res = op.len /\ op.len >= Size(op.from)
      /\ Length(was[op.path]) <= op.len /\ nfault = 0 =>
    files[op.path] = was[op.from] /\ files[op.from] = was[op.from]
=============================================================================
