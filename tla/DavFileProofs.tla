--------------------------- MODULE DavFileProofs ---------------------------
(***************************************************************************)
(* Proofs about DavFile, for files of any length, any width of an unsigned *)
(* int and any number of failing requests: what each handler leaves behind *)
(* on the server, whichever of its requests fails.                         *)
(***************************************************************************)
EXTENDS DavFile, SequenceTheorems, TLAPS

LEMMA Bounds == MaxLen \in Nat /\ MaxLen > 0 /\ MaxFaults \in Nat
  BY FileAssumption

-----------------------------------------------------------------------------
(* The operators on contents.                                              *)

\* A function on 1..n is a sequence of length n.
LEMMA SeqOf ==
  ASSUME NEW n \in Nat, NEW f \in [1..n -> Int]
  PROVE  f \in Seq(Int) /\ Len(f) = n
<1>1. f \in Seq(Int)
  BY SeqDef
<1>2. Len(f) \in Nat /\ 1..Len(f) = 1..n
  BY <1>1, LenProperties
<1> QED BY <1>1, <1>2

LEMMA FillSeq ==
  ASSUME NEW n \in Nat, NEW b \in Int
  PROVE  /\ Fill(n, b) \in Seq(Int) /\ Len(Fill(n, b)) = n
         /\ \A i \in 1..n : Fill(n, b)[i] = b
<1>1. Fill(n, b) \in [1..n -> Int]
  BY DEF Fill
<1> QED BY <1>1, SeqOf DEF Fill

LEMMA OverlaySeq ==
  ASSUME NEW d \in Seq(Int), NEW off \in Nat, NEW new \in Seq(Int)
  PROVE  /\ Overlay(d, off, new) \in Seq(Int)
         /\ Len(Overlay(d, off, new)) = Larger(Len(d), off + Len(new))
         /\ \A i \in 1..Larger(Len(d), off + Len(new)) :
              Overlay(d, off, new)[i] =
                IF i \in off + 1 .. off + Len(new) THEN new[i - off]
                ELSE IF i <= Len(d) THEN d[i] ELSE 0
<1> DEFINE n == Larger(Len(d), off + Len(new))
<1>1. Len(d) \in Nat /\ Len(new) \in Nat
  BY LenProperties
<1>2. n \in Nat
  BY <1>1 DEF Larger
<1>3. ASSUME NEW i \in 1..n
      PROVE  (IF i \in off + 1 .. off + Len(new) THEN new[i - off]
              ELSE IF i <= Len(d) THEN d[i] ELSE 0) \in Int
  BY <1>1, <1>2, ElementOfSeq
<1>4. Overlay(d, off, new) \in [1..n -> Int]
  BY <1>3 DEF Overlay
<1> HIDE DEF n
<1>5. Overlay(d, off, new) \in Seq(Int) /\ Len(Overlay(d, off, new)) = n
  BY <1>2, <1>4, SeqOf
<1> QED BY <1>5 DEF Overlay, n

\* Zeroes from the end of a file to the offset, then the data: what one PUT at
\* the offset would have made.
LEMMA PaddedThenWritten ==
  ASSUME NEW d \in Seq(Int), NEW off \in Nat, NEW new \in Seq(Int), Len(d) <= off
  PROVE  /\ Overlay(d, Len(d), Fill(off - Len(d), 0)) \in Seq(Int)
         /\ Len(Overlay(d, Len(d), Fill(off - Len(d), 0))) = off
         /\ \A i \in 1..off : Overlay(d, Len(d), Fill(off - Len(d), 0))[i] =
                               IF i <= Len(d) THEN d[i] ELSE 0
         /\ Overlay(Overlay(d, Len(d), Fill(off - Len(d), 0)), off, new)
              = Overlay(d, off, new)
<1> DEFINE len == Len(d)
           gap == off - len
           z == Fill(gap, 0)
           p == Overlay(d, len, z)
           q == Overlay(p, off, new)
           r == Overlay(d, off, new)
<1>1. len = Len(d) /\ len \in Nat /\ Len(new) \in Nat /\ gap \in Nat /\ off = len + gap
  BY LenProperties
<1> HIDE DEF len, gap
<1>2. z \in Seq(Int) /\ Len(z) = gap /\ \A i \in 1..gap : z[i] = 0
  <2>1. z \in [1..gap -> Int] /\ \A i \in 1..gap : z[i] = 0
    BY DEF Fill
  <2> HIDE DEF z
  <2> QED BY <1>1, <2>1, SeqOf
<1> HIDE DEF z
<1>3. /\ p \in Seq(Int) /\ Len(p) = off
      /\ \A i \in 1..off : p[i] = IF i <= Len(d) THEN d[i] ELSE 0
  <2>1. z \in Seq(Int) /\ len \in Nat
    BY <1>1, <1>2
  <2>2. /\ p \in Seq(Int) /\ Len(p) = Larger(Len(d), len + Len(z))
        /\ \A i \in 1..Larger(Len(d), len + Len(z)) :
             p[i] = IF i \in len + 1 .. len + Len(z) THEN z[i - len]
                    ELSE IF i <= Len(d) THEN d[i] ELSE 0
    BY <2>1, OverlaySeq
  <2> HIDE DEF p
  <2>3. Larger(Len(d), len + Len(z)) = off
    BY <1>1, <1>2 DEF Larger
  <2>4. \A i \in 1..off : i \in len + 1 .. len + Len(z) => z[i - len] = 0
    BY <1>1, <1>2
  <2> QED BY <1>1, <1>2, <2>2, <2>3, <2>4
<1> HIDE DEF p
<1>4. /\ q \in Seq(Int) /\ Len(q) = off + Len(new)
      /\ \A i \in 1..off + Len(new) :
           q[i] = IF i \in off + 1 .. off + Len(new) THEN new[i - off]
                  ELSE IF i <= Len(p) THEN p[i] ELSE 0
  <2>1. p \in Seq(Int)
    BY <1>3
  <2>2. /\ q \in Seq(Int) /\ Len(q) = Larger(Len(p), off + Len(new))
        /\ \A i \in 1..Larger(Len(p), off + Len(new)) :
             q[i] = IF i \in off + 1 .. off + Len(new) THEN new[i - off]
                    ELSE IF i <= Len(p) THEN p[i] ELSE 0
    BY <2>1, OverlaySeq
  <2> HIDE DEF q
  <2>3. Larger(Len(p), off + Len(new)) = off + Len(new)
    BY <1>1, <1>3 DEF Larger
  <2> QED BY <2>2, <2>3
<1>5. /\ r \in Seq(Int) /\ Len(r) = off + Len(new)
      /\ \A i \in 1..off + Len(new) :
           r[i] = IF i \in off + 1 .. off + Len(new) THEN new[i - off]
                  ELSE IF i <= Len(d) THEN d[i] ELSE 0
  <2>1. Larger(Len(d), off + Len(new)) = off + Len(new)
    BY <1>1 DEF Larger
  <2> QED BY <2>1, OverlaySeq, Zenon
<1> HIDE DEF q, r
<1>6. ASSUME NEW i \in 1..off + Len(new) PROVE q[i] = r[i]
  <2>1. CASE i \in off + 1 .. off + Len(new)
    BY <1>4, <1>5, <2>1
  <2>2. CASE i \notin off + 1 .. off + Len(new)
    <3>1. i \in 1..off
      BY <1>1, <2>2
    <3>2. i <= Len(p) /\ q[i] = p[i]
      BY <1>3, <1>4, <2>2, <3>1
    <3>3. r[i] = IF i <= Len(d) THEN d[i] ELSE 0
      BY <1>5, <2>2
    <3> QED BY <1>3, <3>1, <3>2, <3>3
  <2> QED BY <2>1, <2>2
<1>7. q = r
  BY <1>4, <1>5, <1>6, SeqEqual
<1> QED BY <1>3, <1>7 DEF p, q, r, z, gap, len

\* Zeroes from the beginning of a file to beyond its end leave nothing of it.
LEMMA ZeroedFromStart ==
  ASSUME NEW d \in Seq(Int), NEW off \in Nat, NEW z \in Seq(Int)
  PROVE  off = 0 /\ Len(d) <= Len(z) => Overlay(d, off, z) = Overlay(<<>>, off, z)
<1> DEFINE e == <<>>
           p == Overlay(d, off, z)
           q == Overlay(e, off, z)
<1>1. Len(d) \in Nat /\ Len(z) \in Nat
  BY LenProperties
<1>2. e \in Seq(Int) /\ Len(e) = 0
  BY EmptySeq
<1> HIDE DEF e
<1>3. /\ p \in Seq(Int) /\ Len(p) = Larger(Len(d), off + Len(z))
      /\ \A i \in 1..Larger(Len(d), off + Len(z)) :
           p[i] = IF i \in off + 1 .. off + Len(z) THEN z[i - off]
                  ELSE IF i <= Len(d) THEN d[i] ELSE 0
  BY OverlaySeq
<1>4. /\ q \in Seq(Int) /\ Len(q) = Larger(Len(e), off + Len(z))
      /\ \A i \in 1..Larger(Len(e), off + Len(z)) :
           q[i] = IF i \in off + 1 .. off + Len(z) THEN z[i - off]
                  ELSE IF i <= Len(e) THEN e[i] ELSE 0
  <2>1. e \in Seq(Int)
    BY <1>2
  <2> QED BY <2>1, OverlaySeq
<1> HIDE DEF p, q
<1> SUFFICES ASSUME off = 0, Len(d) <= Len(z) PROVE p = q
  BY DEF p, q, e
<1>5. Larger(Len(d), off + Len(z)) = Len(z) /\ Larger(Len(e), off + Len(z)) = Len(z)
  BY <1>1, <1>2 DEF Larger
<1>6. ASSUME NEW i \in 1..Len(z) PROVE p[i] = q[i]
  BY <1>1, <1>3, <1>4, <1>5
<1> QED BY <1>3, <1>4, <1>5, <1>6, SeqEqual

\* The first write to an empty file.
LEMMA OverlayNothing ==
  ASSUME NEW d \in Seq(Int), NEW off \in Nat, NEW new \in Seq(Int)
  PROVE  Len(d) = 0 /\ off = 0 => Overlay(d, off, new) = new
<1> DEFINE r == Overlay(d, off, new)
<1>1. /\ r \in Seq(Int) /\ Len(r) = Larger(Len(d), off + Len(new))
      /\ \A i \in 1..Larger(Len(d), off + Len(new)) :
           r[i] = IF i \in off + 1 .. off + Len(new) THEN new[i - off]
                  ELSE IF i <= Len(d) THEN d[i] ELSE 0
  BY OverlaySeq
<1> HIDE DEF r
<1> SUFFICES ASSUME Len(d) = 0, off = 0 PROVE r = new
  BY DEF r
<1>2. Len(new) \in Nat
  BY LenProperties
<1>3. Larger(Len(d), off + Len(new)) = Len(new)
  BY <1>2 DEF Larger
<1>4. ASSUME NEW i \in 1..Len(new) PROVE r[i] = new[i]
  <2>1. i \in off + 1 .. off + Len(new) /\ i - off = i
    BY <1>2
  <2> QED BY <1>1, <1>3, <2>1
<1> QED BY <1>1, <1>3, <1>4, SeqEqual

LEMMA UnsignedBounds ==
  ASSUME NEW n \in Nat
  PROVE  Unsigned(n) \in 0..n /\ (n < 2^Width => Unsigned(n) = n)
<1> DEFINE m == 2^Width
<1>1. m \in Nat \ {0}
  BY FileAssumption
<1> HIDE DEF m
<1>2. n % m \in 0..n /\ (n < m => n % m = n)
  BY <1>1
<1> QED BY <1>2 DEF Unsigned, m

-----------------------------------------------------------------------------
(* The invariant: for each handler, what the file it changes holds before  *)
(* each of its requests and when it is done.                               *)

Contents == [data : Seq(Int), mode : Modes]

FilesOK(fs) ==
  /\ fs \in [Paths -> Contents \cup {NoFile}]
  /\ \A p \in Paths : fs[p] # NoFile => Len(fs[p].data) <= MaxLen

LocalsOK ==
  /\ real \in 0..MaxLen /\ mode \in Modes /\ nfault \in 0..MaxFaults
  /\ res \in 0..MaxLen \cup {EIO, EEXIST, EOPNOTSUPP}

\* Only the file the handler is called for changes.
OthersKept == \A q \in Paths \ {op.path} : files[q] = was[q]

Untouched == files[op.path] = was[op.path]

Empty(m) == [data |-> <<>>, mode |-> m]

\* Beyond what an unsigned int can say.
Wide == op.off >= 2^Width

\* dav_write begins behind the end of the file, and the server minds.
Short == "416" \in Faults /\ op.off > Length(was[op.path])

Was(d) == [data |-> d, mode |-> was[op.path].mode]

\* What dav_head took the file for, when the padding began behind it.
Base == IF "length" \in met THEN <<>> ELSE was[op.path].data

Target == Was(Overlay(Base, op.off, op.data))

Padded == Was(Overlay(Base, Len(Base), Fill(op.off - Len(Base), 0)))

IdleInv == pc = "idle" /\ files = was /\ nfault = 0

WriteInv ==
  /\ op \in [name : {"write"}, path : Paths, off : Nat, data : Seq(Int)]
  /\ op.off + Len(op.data) <= MaxLen /\ was[op.path] # NoFile
  /\ OthersKept
  /\ "length" \in met => Short
  /\ \/ pc = "put" /\ Untouched /\ "length" \notin met
     \/ pc = "padhead" /\ Short /\ Untouched /\ "length" \notin met
     \/ pc = "pad" /\ Short /\ Untouched /\ real = Len(Base)
     \/ /\ pc = "put2" /\ Short
        /\ files[op.path] = Padded \/ (Untouched /\ Wide)
     \/ pc = "done" /\ res = Len(op.data) /\ files[op.path] = Target
     \/ /\ pc = "done" /\ res = EIO
        /\ nfault = 0 /\ "pending" \notin met => Wide
        /\ Untouched \/ files[op.path] = Target \/ (Short /\ files[op.path] = Padded)

TruncInv ==
  /\ op \in [name : {"truncate"}, path : Paths, size : 0..MaxLen]
  /\ was[op.path] # NoFile
  /\ OthersKept
  /\ \/ pc = "getattr" /\ Untouched
     \/ /\ op.size = 0 /\ mode = ModeOf(was[op.path])
        /\ \/ pc = "delete" /\ Untouched
           \/ pc = "putempty" /\ files[op.path] = NoFile
           \/ pc = "chmod" /\ files[op.path] = Empty("none")
     \/ pc \in {"trunchead", "read", "size"} /\ Untouched /\ op.size # 0
     \/ /\ pc = "done"
        /\ op.size = 0 /\ res = 0 =>
             /\ files[op.path] # NoFile /\ files[op.path].data = <<>>
             /\ ModeOf(files[op.path]) = ModeOf(was[op.path])

\* The handler may have taken a file that is there for missing.
Misled == met \cap {"403", "pending"} # {}

MknodInv ==
  /\ op \in [name : {"mknod"}, path : Paths]
  /\ OthersKept
  /\ \/ pc = "head" /\ Untouched
     \/ /\ was[op.path] = NoFile \/ Misled
        /\ \/ pc = "create" /\ Untouched
           \/ pc = "chmod" /\ mode = "file" /\ \E m \in Modes : files[op.path] = Empty(m)
     \/ pc = "done" /\ (was[op.path] = NoFile \/ Misled \/ (Untouched /\ res # 0))

\* Only a failed request, or an exception it began with, brings dav_symlink to
\* remove a link of its own.
LinkInv ==
  /\ op \in [name : {"symlink"}, path : Paths, off : {0}, data : Seq(Int)]
  /\ Len(op.data) = 1
  /\ OthersKept
  /\ \/ pc = "linkhead" /\ Untouched
     \/ /\ was[op.path] = NoFile \/ Misled
        /\ \/ pc \in {"head", "create"} /\ Untouched
           \/ pc = "chmod" /\ mode = "link" /\ \E m \in Modes : files[op.path] = Empty(m)
           \/ pc = "put" /\ files[op.path] = Empty("link")
     \/ /\ pc = "undo" /\ res \in {EIO, EEXIST}
        /\ nfault >= 1 \/ Untouched
        /\ was[op.path] = NoFile \/ Misled \/ (nfault >= 1 /\ Untouched)
     \/ /\ pc = "done"
        /\ \/ /\ was[op.path] = NoFile /\ res = 0
              /\ files[op.path] = [data |-> op.data, mode |-> "link"]
           \/ /\ was[op.path] = NoFile /\ res # 0
              /\ nfault >= 2 \/ files[op.path] = NoFile
           \/ was[op.path] # NoFile /\ Misled
           \/ was[op.path] # NoFile /\ res # 0 /\ Untouched
           \/ was[op.path] # NoFile /\ res # 0 /\ nfault >= 1 /\ files[op.path] = NoFile

CopyInv ==
  /\ op \in [name : {"copy"}, from : Paths, in : Nat, path : Paths, off : Nat, len : Nat]
  /\ op.from # op.path /\ was[op.from] # NoFile
  /\ op.off + op.len <= MaxLen
  /\ OthersKept
  /\ \/ pc \in {"copyattr", "copy"} /\ Untouched
     \/ pc = "before" /\ Untouched /\ op.off > 0
     \/ pc = "after" /\ Untouched /\ Length(was[op.path]) > op.len
     \/ pc = "restore" /\ op.off > 0 /\ files[op.path] = was[op.from]
     \/ /\ pc = "done"
        /\ op.off = 0 /\ Length(was[op.path]) <= op.len =>
             res \in {EIO, EOPNOTSUPP} \/ files[op.path] = was[op.from]

\* An exception is pending at most until the first request of the handler that
\* began with it.
Pending ==
  /\ ex \in {"none", "404", "403", "other"} /\ met \subseteq {"403", "length", "pending"}
  /\ ex # "none" =>
       /\ "pending" \in met
       /\ pc \in {"put", "getattr", "head", "linkhead", "copyattr", "done"}
       /\ pc = "put" => op.name = "write"

FileInv ==
  /\ FilesOK(files) /\ FilesOK(was) /\ LocalsOK
  /\ IdleInv \/ WriteInv \/ TruncInv \/ MknodInv \/ LinkInv \/ CopyInv

-----------------------------------------------------------------------------
(* What a request makes of the files.                                      *)

LEMMA LengthType ==
  ASSUME NEW fs, FilesOK(fs), NEW p \in Paths
  PROVE  /\ Length(fs[p]) \in 0..MaxLen
         /\ fs[p] # NoFile => /\ fs[p] \in Contents
                              /\ Length(fs[p]) = Len(fs[p].data)
                              /\ fs[p] = [data |-> fs[p].data, mode |-> fs[p].mode]
<1>1. fs[p] # NoFile => fs[p] \in Contents /\ fs[p].data \in Seq(Int)
  BY DEF FilesOK, Contents
<1>2. fs[p] # NoFile => Len(fs[p].data) \in Nat
  BY <1>1, LenProperties
<1> QED BY <1>1, <1>2, FileAssumption DEF FilesOK, Length, Contents

LEMMA EmptyType ==
  ASSUME NEW m \in Modes
  PROVE  Empty(m) \in Contents /\ Empty(m) # NoFile /\ Len(Empty(m).data) = 0
<1>1. <<>> \in Seq(Int) /\ Len(<<>>) = 0
  BY EmptySeq
<1>2. [data |-> <<>>, mode |-> m] \in Contents
  BY <1>1 DEF Contents
<1> QED BY <1>1, <1>2, FileAssumption DEF Empty, Contents

LEMMA PutEffect ==
  ASSUME FilesOK(files), NEW p \in Paths, files[p] # NoFile, NEW off \in Nat,
         NEW new \in Seq(Int), off + Len(new) <= MaxLen
  PROVE  /\ FilesOK(Put(p, off, new))
         /\ Put(p, off, new)[p] = [data |-> Overlay(files[p].data, off, new),
                                    mode |-> files[p].mode]
         /\ \A q \in Paths \ {p} : Put(p, off, new)[q] = files[q]
<1> DEFINE d == files[p].data
           f == [data |-> Overlay(d, off, new), mode |-> files[p].mode]
<1>1. /\ files[p] \in Contents /\ d \in Seq(Int)
      /\ Len(d) \in Nat /\ Len(d) <= MaxLen /\ Len(new) \in Nat
  BY LenProperties DEF FilesOK, Contents
<1>2. Overlay(d, off, new) \in Seq(Int) /\ Len(Overlay(d, off, new)) <= MaxLen
  BY <1>1, OverlaySeq DEF Larger
<1>3. f \in Contents /\ Len(f.data) <= MaxLen
  BY <1>1, <1>2 DEF Contents
<1>4. Put(p, off, new) = [files EXCEPT ![p] = f]
  BY DEF Put
<1> HIDE DEF f
<1>5. /\ FilesOK(Put(p, off, new)) /\ Put(p, off, new)[p] = f
      /\ \A q \in Paths \ {p} : Put(p, off, new)[q] = files[q]
  BY <1>3, <1>4 DEF FilesOK
<1> QED BY <1>5 DEF f

LEMMA PutEmptyEffect ==
  ASSUME FilesOK(files), NEW p \in Paths
  PROVE  /\ FilesOK(PutEmpty(p))
         /\ \E m \in Modes : PutEmpty(p)[p] = Empty(m)
         /\ files[p] = NoFile => PutEmpty(p)[p] = Empty("none")
         /\ \A q \in Paths \ {p} : PutEmpty(p)[q] = files[q]
<1> DEFINE m == IF files[p] = NoFile THEN "none" ELSE files[p].mode
           f == Empty(m)
<1>1. PutEmpty(p) = [files EXCEPT ![p] = f]
  BY DEF PutEmpty, Empty
<1>2. m \in Modes /\ (files[p] = NoFile => m = "none")
  BY LengthType DEF Contents, Modes
<1> HIDE DEF m
<1>3. f \in Contents /\ Len(f.data) <= MaxLen
  BY <1>2, EmptyType, FileAssumption
<1> HIDE DEF f
<1>4. /\ FilesOK(PutEmpty(p)) /\ PutEmpty(p)[p] = f
      /\ \A q \in Paths \ {p} : PutEmpty(p)[q] = files[q]
  BY <1>1, <1>3 DEF FilesOK
<1> QED BY <1>2, <1>4 DEF f

LEMMA DeleteEffect ==
  ASSUME FilesOK(files), NEW p \in Paths
  PROVE  /\ FilesOK(Delete(p)) /\ Delete(p)[p] = NoFile
         /\ \A q \in Paths \ {p} : Delete(p)[q] = files[q]
  BY DEF Delete, FilesOK

LEMMA PatchEffect ==
  ASSUME FilesOK(files), NEW p \in Paths, NEW m \in Modes,
         \E n \in Modes : files[p] = Empty(n)
  PROVE  /\ FilesOK(Patch(p, m)) /\ Patch(p, m)[p] = Empty(m)
         /\ \A q \in Paths \ {p} : Patch(p, m)[q] = files[q]
<1> DEFINE f == Empty(m)
<1>1. [files[p] EXCEPT !.mode = m] = f
  <2>1. PICK n \in Modes : files[p] = Empty(n)
    OBVIOUS
  <2> QED BY <2>1 DEF Empty
<1>2. f \in Contents /\ Len(f.data) <= MaxLen
  BY EmptyType, FileAssumption
<1> HIDE DEF f
<1>3. Patch(p, m) = [files EXCEPT ![p] = f]
  BY <1>1 DEF Patch
<1>4. /\ FilesOK(Patch(p, m)) /\ Patch(p, m)[p] = f
      /\ \A q \in Paths \ {p} : Patch(p, m)[q] = files[q]
  BY <1>2, <1>3 DEF FilesOK
<1> QED BY <1>4 DEF f

\* A request that is lost, if it may be.
LEMMA LostEffect ==
  ASSUME LocalsOK, NEW fs, Lost(fs)
  PROVE  files' \in {files, fs} /\ nfault' = nfault + 1 /\ nfault' \in 1..MaxFaults
  BY FileAssumption DEF LocalsOK, Lost

-----------------------------------------------------------------------------
(* dav_write.                                                              *)

\* What a step of a handler keeps of its frame.
Frame == op' = op /\ was' = was /\ OthersKept'

LEMMA FrameKept ==
  ASSUME OthersKept, op' = op, was' = was,
         \A q \in Paths \ {op.path} : files'[q] = files[q]
  PROVE  OthersKept'
  BY DEF OthersKept

LEMMA BaseType ==
  ASSUME FilesOK(was), WriteInv, Short
  PROVE  /\ Base \in Seq(Int) /\ Len(Base) \in Nat /\ Len(Base) < op.off
         /\ was[op.path].data \in Seq(Int) /\ was[op.path].mode \in Modes
         /\ Len(was[op.path].data) = Length(was[op.path]) /\ Length(was[op.path]) < op.off
<1>1. op.path \in Paths /\ op.off \in Nat /\ was[op.path] # NoFile
  BY DEF WriteInv
<1>2. /\ was[op.path] \in Contents /\ Len(was[op.path].data) = Length(was[op.path])
      /\ Length(was[op.path]) \in 0..MaxLen
  BY <1>1, LengthType
<1>3. Length(was[op.path]) < op.off
  BY <1>1, <1>2, Bounds DEF Short
<1>4. was[op.path].data \in Seq(Int) /\ was[op.path].mode \in Modes
  BY <1>2 DEF Contents
<1>5. <<>> \in Seq(Int) /\ Len(<<>>) = 0
  BY EmptySeq
<1> QED BY <1>1, <1>2, <1>3, <1>4, <1>5, Bounds DEF Base

\* The padding ends where the data begins.
LEMMA PaddedType ==
  ASSUME FilesOK(was), WriteInv, Short
  PROVE  /\ Padded \in Contents /\ Len(Padded.data) = op.off
         /\ Padded.mode = was[op.path].mode
         /\ Padded # NoFile
         /\ Overlay(Padded.data, op.off, op.data) = Target.data
         /\ Fill(op.off - Len(Base), 0) \in Seq(Int)
         /\ Len(Fill(op.off - Len(Base), 0)) = op.off - Len(Base)
<1> DEFINE d == Base
           n == op.off - Len(d)
<1>1. /\ op.path \in Paths /\ op.off \in Nat /\ op.data \in Seq(Int)
      /\ was[op.path] # NoFile
  BY DEF WriteInv
<1>2. /\ d \in Seq(Int) /\ Len(d) \in Nat
      /\ was[op.path].mode \in Modes /\ n \in Nat /\ n = op.off - Len(d) /\ Len(d) <= op.off
  BY <1>1, BaseType
<1>3. /\ Fill(n, 0) \in Seq(Int) /\ Len(Fill(n, 0)) = n
  <2>1. n \in Nat /\ 0 \in Int
    BY <1>2
  <2> HIDE DEF n
  <2> QED BY <2>1, FillSeq
<1>4. Padded = [data |-> Overlay(d, Len(d), Fill(n, 0)), mode |-> was[op.path].mode]
  BY DEF Padded, Was
<1>5. /\ Overlay(d, Len(d), Fill(n, 0)) \in Seq(Int)
      /\ Len(Overlay(d, Len(d), Fill(n, 0))) = op.off
      /\ Overlay(Overlay(d, Len(d), Fill(n, 0)), op.off, op.data) = Overlay(d, op.off, op.data)
  <2> HIDE DEF n, d
  <2> QED BY <1>1, <1>2, PaddedThenWritten
<1>6. Target.data = Overlay(d, op.off, op.data)
  BY DEF Target, Was
<1>7. Padded \in Contents /\ Padded # NoFile
  BY <1>2, <1>4, <1>5, FileAssumption DEF Contents
<1> HIDE DEF n
<1> QED BY <1>3, <1>4, <1>5, <1>6, <1>7 DEF n

LEMMA WritePutStep ==
  ASSUME FileInv, WriteInv, WritePut
  PROVE  FileInv'
<1>1. /\ op.path \in Paths /\ op.off \in Nat /\ op.data \in Seq(Int) /\ op.name = "write"
      /\ was[op.path] # NoFile /\ OthersKept /\ op.off + Len(op.data) <= MaxLen
      /\ Len(op.data) \in Nat
  BY LenProperties DEF WriteInv
<1>2. /\ FilesOK(files) /\ FilesOK(was) /\ LocalsOK
      /\ op' = op /\ was' = was /\ real' = real /\ mode' = mode /\ met' = met
  BY <1>1 DEF FileInv, WritePut, Goto, WriteDone, Bail, Finish
<1>3. /\ was[op.path] = [data |-> was[op.path].data, mode |-> was[op.path].mode]
      /\ Length(was[op.path]) = Len(was[op.path].data)
      /\ Length(was[op.path]) \in Nat
  BY <1>1, <1>2, LengthType, Bounds
<1> DEFINE Ends == \/ /\ pc' = "done" /\ res' = Len(op.data) /\ files'[op.path] = Target
                   \/ /\ pc' = "done" /\ res' = EIO
                      /\ nfault' = 0 /\ "pending" \notin met => Wide
                      /\ \/ files'[op.path] \in {was[op.path], Target}
                         \/ Short /\ files'[op.path] = Padded
           Goes == /\ pc' \in {"padhead", "put2"} /\ Short /\ res' = res
                   /\ pc' = "padhead" => files'[op.path] = was[op.path] /\ "length" \notin met
                   /\ pc' = "put2" => files'[op.path] = Padded
           Kept == /\ FilesOK(files') /\ nfault' \in 0..MaxFaults
                   /\ \A q \in Paths \ {op.path} : files'[q] = files[q]
<1>4. ASSUME pc = "put" PROVE (Ends \/ Goes) /\ Kept
  <2>1. files[op.path] = was[op.path] /\ "length" \notin met
    BY <1>4 DEF WriteInv, Untouched
  <2> DEFINE fs == Put(op.path, op.off, op.data)
  <2>2. /\ FilesOK(fs) /\ \A q \in Paths \ {op.path} : fs[q] = files[q]
        /\ fs[op.path] = Target
    <3>1. files[op.path] # NoFile
      BY <1>1, <2>1
    <3>2. /\ FilesOK(fs) /\ \A q \in Paths \ {op.path} : fs[q] = files[q]
          /\ fs[op.path] = [data |-> Overlay(files[op.path].data, op.off, op.data),
                            mode |-> files[op.path].mode]
      BY <1>1, <1>2, <3>1, PutEffect
    <3>3. Base = was[op.path].data
      BY <2>1 DEF Base
    <3> HIDE DEF fs
    <3> QED BY <2>1, <3>2, <3>3 DEF Target, Was
  <2> HIDE DEF fs
  <2>3. \/ Answered(fs) /\ Finish(Len(op.data))
        \/ Refuses(op.path, op.off) /\ Answered(files) /\ Goto("padhead")
        \/ Lost(fs) /\ Finish(EIO)
        \/ Lost(files) /\ Finish(EIO)
    BY <1>1, <1>4 DEF WritePut, WriteDone, Bail, fs
  <2>4. CASE Answered(fs) /\ Finish(Len(op.data))
    BY <1>2, <2>2, <2>4 DEF Answered, Finish, LocalsOK
  <2>5. CASE Refuses(op.path, op.off) /\ Answered(files) /\ Goto("padhead")
    BY <1>2, <1>3, <2>1, <2>5 DEF Answered, Goto, Refuses, Short, Size, LocalsOK
  <2>6. CASE Lost(fs) /\ Finish(EIO)
    BY <1>2, <2>1, <2>2, <2>6, LostEffect, Bounds DEF Finish
  <2>7. CASE Lost(files) /\ Finish(EIO)
    BY <1>2, <2>1, <2>7, LostEffect, Bounds DEF Finish
  <2> QED BY <2>3, <2>4, <2>5, <2>6, <2>7
<1>5. ASSUME pc = "pad" PROVE (Ends \/ Goes) /\ Kept
  <2>1. files[op.path] = was[op.path] /\ Short /\ real = Len(Base)
    BY <1>5 DEF WriteInv, Untouched
  <2> DEFINE d  == was[op.path].data
             z  == Fill(op.off - real, 0)
             fs == Put(op.path, real, z)
  <2>2. /\ real \in Nat /\ real < op.off /\ z \in Seq(Int) /\ Len(z) = op.off - real
        /\ d \in Seq(Int) /\ Len(d) = Length(was[op.path]) /\ Len(d) < op.off
    BY <1>2, <2>1, BaseType, PaddedType
  <2>3. real <= Len(d) /\ Overlay(d, real, z) = Overlay(Base, real, z)
    <3>1. CASE "length" \notin met
      BY <2>1, <2>2, <3>1 DEF Base
    <3>2. CASE "length" \in met
      <4>1. Base = <<>> /\ real = 0
        BY <2>1, <3>2, EmptySeq DEF Base
      <4>2. d \in Seq(Int) /\ z \in Seq(Int) /\ Len(d) <= Len(z) /\ Len(d) \in Nat
        BY <1>1, <1>3, <2>2, <4>1
      <4> HIDE DEF d, z
      <4>3. Overlay(d, real, z) = Overlay(<<>>, real, z)
        BY <2>2, <4>1, <4>2, ZeroedFromStart
      <4> QED BY <4>1, <4>2, <4>3
    <3> QED BY <3>1, <3>2
  <2>4. z = Fill(op.off - Len(Base), 0)
    BY <2>1
  <2> HIDE DEF z
  <2>5. real + Len(z) <= MaxLen
    <3>1. real + Len(z) = op.off
      BY <1>1, <2>2
    <3> QED BY <1>1, <3>1, Bounds
  <2>6. /\ FilesOK(fs) /\ \A q \in Paths \ {op.path} : fs[q] = files[q]
        /\ fs[op.path] = Padded
    <3>1. FilesOK(files) /\ op.path \in Paths /\ files[op.path] # NoFile
      BY <1>1, <1>2, <2>1
    <3>2. /\ FilesOK(fs) /\ \A q \in Paths \ {op.path} : fs[q] = files[q]
          /\ fs[op.path] = [data |-> Overlay(files[op.path].data, real, z),
                             mode |-> files[op.path].mode]
      BY <2>2, <2>5, <3>1, PutEffect
    <3>3. Padded = Was(Overlay(Base, real, z))
      BY <2>1, <2>4 DEF Padded
    <3> QED BY <2>1, <2>3, <3>2, <3>3 DEF Was
  <2>7. ~Refuses(op.path, real)
    BY <1>3, <2>1, <2>2, <2>3 DEF Refuses, Size
  <2>8. \/ Answered(fs) /\ Goto("put2")
        \/ Lost(fs) /\ Finish(EIO)
    BY <1>1, <1>5, <2>7 DEF WritePut, PadOffset, WriteDone, Bail, z
  <2> HIDE DEF fs
  <2>9. CASE Answered(fs) /\ Goto("put2")
    BY <1>2, <2>1, <2>6, <2>9 DEF Answered, Goto, LocalsOK
  <2>10. CASE Lost(fs) /\ Finish(EIO)
    BY <1>2, <2>1, <2>6, <2>10, LostEffect, Bounds DEF Finish
  <2> QED BY <2>8, <2>9, <2>10
<1>6. ASSUME pc = "put2" PROVE (Ends \/ Goes) /\ Kept
  <2> DEFINE fs == Put(op.path, op.off, op.data)
  <2>1. Short /\ (files[op.path] = Padded \/ (files[op.path] = was[op.path] /\ Wide))
    BY <1>6 DEF WriteInv, Untouched
  <2>2. /\ Padded.mode = was[op.path].mode /\ Padded # NoFile /\ Len(Padded.data) = op.off
        /\ Overlay(Padded.data, op.off, op.data) = Target.data
    BY <1>2, <2>1, PaddedType
  <2>3. Target = [data |-> Target.data, mode |-> was[op.path].mode]
    BY DEF Target, Was
  <2>4. \/ ~Refuses(op.path, op.off) /\ Answered(fs) /\ Finish(Len(op.data))
        \/ ~Refuses(op.path, op.off) /\ Lost(fs) /\ Finish(EIO)
        \/ Refuses(op.path, op.off) /\ Answered(files) /\ Finish(EIO)
        \/ Refuses(op.path, op.off) /\ Lost(files) /\ Finish(EIO)
    BY <1>1, <1>6 DEF WritePut, WriteDone, Bail
  <2>5. CASE files[op.path] = Padded
    <3>1. ~Refuses(op.path, op.off)
      BY <1>1, <2>2, <2>5 DEF Refuses, Size, Length
    <3>2. /\ FilesOK(fs) /\ \A q \in Paths \ {op.path} : fs[q] = files[q]
          /\ fs[op.path] = [data |-> Overlay(files[op.path].data, op.off, op.data),
                            mode |-> files[op.path].mode]
      BY <1>1, <1>2, <2>2, <2>5, PutEffect
    <3>3. fs[op.path] = Target
      BY <2>2, <2>3, <2>5, <3>2
    <3> HIDE DEF fs
    <3>4. CASE Answered(fs) /\ Finish(Len(op.data))
      BY <1>2, <3>2, <3>3, <3>4 DEF Answered, Finish, LocalsOK
    <3>5. CASE Lost(fs) /\ Finish(EIO)
      BY <1>2, <2>1, <2>5, <3>2, <3>3, <3>5, LostEffect, Bounds DEF Finish
    <3> QED BY <2>4, <3>1, <3>4, <3>5
  <2>6. CASE files[op.path] = was[op.path] /\ Wide
    <3>1. Refuses(op.path, op.off)
      BY <2>1, <2>6 DEF Refuses, Short, Size
    <3>2. CASE Answered(files) /\ Finish(EIO)
      BY <1>2, <2>6, <3>2 DEF Answered, Finish, LocalsOK
    <3>3. CASE Lost(files) /\ Finish(EIO)
      BY <1>2, <2>6, <3>3, LostEffect, Bounds DEF Finish
    <3> QED BY <2>4, <3>1, <3>2, <3>3
  <2> QED BY <2>1, <2>5, <2>6
<1>7. (Ends \/ Goes) /\ Kept
  BY <1>4, <1>5, <1>6 DEF WritePut
<1>8. OthersKept'
  BY <1>1, <1>2, <1>7, FrameKept
<1>9. /\ Short' = Short /\ Wide' = Wide /\ Target' = Target /\ Padded' = Padded
      /\ "length" \in met => Short
  BY <1>2 DEF Short, Wide, Target, Padded, Was, Base, WriteInv
<1>10. WriteInv'
  <2>1. CASE Ends
    BY <1>1, <1>2, <1>8, <1>9, <2>1 DEF WriteInv, Untouched
  <2>2. CASE Goes
    BY <1>1, <1>2, <1>8, <1>9, <2>2 DEF WriteInv, Untouched
  <2> QED BY <1>7, <2>1, <2>2
<1>11. LocalsOK'
  BY <1>1, <1>2, <1>7, Bounds DEF LocalsOK
<1> QED BY <1>2, <1>7, <1>10, <1>11 DEF FileInv, FilesOK

LEMMA WriteHeadStep ==
  ASSUME FileInv, WriteInv, WriteHead
  PROVE  FileInv'
<1>1. /\ op.path \in Paths /\ op.off \in Nat /\ op.name = "write" /\ OthersKept /\ Short
      /\ files[op.path] = was[op.path] /\ FilesOK(files) /\ FilesOK(was) /\ LocalsOK
      /\ "length" \notin met /\ was[op.path] # NoFile
  BY DEF FileInv, WriteInv, WriteHead, Untouched
<1> DEFINE len == Length(was[op.path])
<1>2. /\ op' = op /\ was' = was /\ mode' = mode /\ files' = files
      /\ nfault' \in 0..MaxFaults
      /\ \/ /\ real' \in {len, 0} /\ met' = IF real' = len THEN met ELSE met \cup {"length"}
            /\ Goto(IF real' < Unsigned(op.off) THEN "pad" ELSE "put2")
         \/ real' = real /\ met' = met /\ Finish(EIO) /\ nfault' > 0
  <2>1. CASE Answered(files) /\ Headed(op.path)
                /\ Goto(IF real' < Unsigned(op.off) THEN "pad" ELSE "put2")
    BY <1>1, <2>1 DEF WriteHead, Headed, HeadSizes, Size, Answered, Goto, LocalsOK
  <2>2. CASE Lost(files) /\ Bail(EIO) /\ UNCHANGED <<real, met>>
    BY <1>1, <2>2, LostEffect, Bounds DEF WriteHead, Bail, Finish
  <2> QED BY <2>1, <2>2 DEF WriteHead
<1>3. OthersKept' /\ Short' /\ Wide' = Wide /\ Untouched'
  BY <1>1, <1>2 DEF OthersKept, Short, Wide, Untouched
<1>4. /\ len \in 0..MaxLen /\ len < op.off /\ Len(was[op.path].data) = len
  BY <1>1, LengthType, Bounds DEF Short
<1>5. CASE Finish(EIO) /\ nfault' > 0 /\ real' = real /\ met' = met
  <2>1. WriteInv'
    BY <1>1, <1>2, <1>3, <1>5, Bounds DEF WriteInv, Finish
  <2>2. LocalsOK'
    BY <1>1, <1>2, <1>5 DEF LocalsOK, Finish
  <2> QED BY <1>1, <1>2, <2>1, <2>2 DEF FileInv, FilesOK
<1>6. CASE /\ real' \in {len, 0} /\ met' = IF real' = len THEN met ELSE met \cup {"length"}
           /\ Goto(IF real' < Unsigned(op.off) THEN "pad" ELSE "put2")
  <2>1. real' \in 0..MaxLen /\ real' < op.off
    BY <1>1, <1>4, <1>6, Bounds
  <2>2. real' = Len(Base)'
    <3>1. Len(<<>>) = 0
      BY EmptySeq
    <3>2. CASE real' = len
      BY <1>1, <1>2, <1>4, <1>6, <3>2 DEF Base
    <3>3. CASE real' # len
      BY <1>6, <3>1, <3>3 DEF Base
    <3> QED BY <3>2, <3>3
  <2>3. real' < Unsigned(op.off) \/ Wide
    <3>1. op.off < 2^Width \/ op.off >= 2^Width
      BY <1>1, FileAssumption
    <3>2. op.off < 2^Width => Unsigned(op.off) = op.off
      BY <1>1, UnsignedBounds
    <3> QED BY <2>1, <3>1, <3>2 DEF Wide
  <2>4. WriteInv'
    <3>1. CASE real' < Unsigned(op.off)
      BY <1>1, <1>2, <1>3, <1>6, <2>2, <3>1 DEF WriteInv, Goto
    <3>2. CASE ~(real' < Unsigned(op.off))
      BY <1>1, <1>2, <1>3, <1>6, <2>3, <3>2 DEF WriteInv, Goto
    <3> QED BY <3>1, <3>2
  <2>5. LocalsOK'
    BY <1>1, <1>2, <1>6, <2>1 DEF LocalsOK, Goto
  <2> QED BY <1>1, <1>2, <2>4, <2>5 DEF FileInv, FilesOK
<1> QED BY <1>2, <1>5, <1>6

-----------------------------------------------------------------------------
(* The other handlers.                                                     *)

\* What a request does that would turn the files into fs.
LEMMA Requested ==
  ASSUME FilesOK(files), LocalsOK, OthersKept, op' = op, was' = was,
         NEW fs, FilesOK(fs), \A q \in Paths \ {op.path} : fs[q] = files[q],
         Answered(fs) \/ Lost(fs)
  PROVE  /\ FilesOK(files') /\ OthersKept' /\ nfault' \in 0..MaxFaults
         /\ files' \in {files, fs}
         /\ Answered(fs) => files' = fs
         /\ Lost(fs) => nfault' = nfault + 1
  BY LostEffect, Bounds DEF Answered, OthersKept, LocalsOK

LEMMA TruncStep ==
  ASSUME FileInv, TruncInv, Next, ~Stale
  PROVE  FileInv'
<1>1. /\ FilesOK(files) /\ FilesOK(was) /\ LocalsOK
      /\ op.path \in Paths /\ op.name = "truncate" /\ op.size \in 0..MaxLen
      /\ was[op.path] # NoFile /\ OthersKept
      /\ op \in [name : {"truncate"}, path : Paths, size : 0..MaxLen]
  BY DEF FileInv, TruncInv
<1>2. /\ was[op.path] \in Contents /\ ModeOf(was[op.path]) \in Modes \ {"none"}
      /\ Length(was[op.path]) = Len(was[op.path].data) /\ Length(was[op.path]) \in 0..MaxLen
  BY <1>1, LengthType DEF Contents, ModeOf, Modes
<1>3. \A r : Bail(r) <=> Finish(r)
  BY <1>1 DEF Bail
<1>4. /\ op' = op /\ was' = was
      /\ \/ TruncGetattr \/ TruncDelete \/ TruncPut \/ TruncResize \/ TruncRead
         \/ TruncSize \/ Chmod \/ Halt
  <2>1. pc \in {"getattr", "delete", "putempty", "chmod", "trunchead", "read", "size", "done"}
    BY DEF TruncInv
  <2>2. \/ TruncGetattr \/ TruncDelete \/ TruncPut \/ TruncResize \/ TruncRead
        \/ TruncSize \/ Chmod \/ Halt
    BY <2>1 DEF Next, Start, WritePut, WriteHead, MknodHead, Create, LinkHead, LinkUndo,
       CopyAttr, CopyRead, Copy, CopyRestore
  <2> QED BY <1>3, <2>2 DEF TruncGetattr, TruncDelete, TruncPut, TruncResize, TruncRead,
         TruncSize, Chmod, Halt, Goto, Finish, vars
<1> DEFINE Emptied == /\ files[op.path] # NoFile /\ files[op.path].data = <<>>
                      /\ ModeOf(files[op.path]) = ModeOf(was[op.path])
           Reading == Answered(files) \/ Lost(files)
<1>5. ASSUME Reading PROVE FilesOK(files)' /\ files' = files /\ OthersKept' /\ nfault' \in 0..MaxFaults
  BY <1>1, <1>4, <1>5, Requested
<1>6. CASE TruncGetattr
  <2>1. Untouched /\ Reading
    BY <1>6 DEF TruncGetattr, TruncInv
  <2>2. mode' \in Modes /\ real' = real /\ pc' \in {"delete", "trunchead", "done"}
        /\ (pc' # "done" => res' = res /\ mode' = ModeOf(was[op.path]))
        /\ (pc' = "delete" => op.size = 0) /\ (pc' = "trunchead" => op.size # 0)
        /\ (pc' = "done" => res' = EIO \/ (res' = 0 /\ Length(was[op.path]) = op.size))
    BY <1>1, <1>2, <1>3, <1>6, <2>1
    DEF TruncGetattr, Untouched, StSize, Size, Goto, Finish, LocalsOK
  <2>3. pc' = "done" /\ op.size = 0 /\ res' = 0 => Emptied'
    <3>1. res' = 0 /\ pc' = "done" /\ op.size = 0 => was[op.path].data = <<>>
      BY <1>2, <2>2, EmptySeq DEF Contents, EIO
    <3> QED BY <1>1, <1>4, <1>5, <2>1, <3>1 DEF Untouched
  <2>4. TruncInv'
    BY <1>1, <1>4, <1>5, <2>1, <2>2, <2>3 DEF TruncInv, Untouched
  <2>5. LocalsOK'
    BY <1>1, <1>5, <2>1, <2>2, Bounds DEF LocalsOK
  <2> QED BY <1>1, <1>4, <1>5, <2>1, <2>4, <2>5 DEF FileInv, FilesOK
<1>7. CASE TruncResize \/ TruncRead \/ TruncSize
  <2>1. Untouched /\ Reading /\ op.size # 0 /\ mode' = mode
    BY <1>7 DEF TruncResize, TruncRead, TruncSize, TruncInv
  <2>2. pc' \in {"read", "size", "done"}
    BY <1>3, <1>7 DEF TruncResize, TruncRead, TruncSize, Goto, Finish
  <2>3. TruncInv'
    BY <1>1, <1>4, <1>5, <2>1, <2>2 DEF TruncInv, Untouched
  <2>4. real' \in 0..MaxLen
    <3>1. real' = real \/ real' \in {Length(was[op.path]), 0}
      BY <1>7, <2>1 DEF TruncResize, TruncRead, TruncSize, Headed, HeadSizes, Size, Untouched
    <3> QED BY <1>1, <1>2, <3>1, Bounds DEF LocalsOK
  <2>5. res' \in 0..MaxLen \cup {EIO, EEXIST, EOPNOTSUPP}
    <3>1. Read(op.path, op.size) \in 0..MaxLen
      BY <1>1, <1>2, <2>1, Bounds DEF Read, Fetched, Size, Untouched
    <3> QED BY <1>1, <1>3, <1>7, <3>1, Bounds
           DEF TruncResize, TruncRead, TruncSize, Goto, Finish, LocalsOK
  <2>6. LocalsOK'
    BY <1>1, <1>5, <2>1, <2>4, <2>5 DEF LocalsOK
  <2> QED BY <1>1, <1>4, <1>5, <2>1, <2>3, <2>6 DEF FileInv, FilesOK
<1>8. CASE TruncDelete \/ TruncPut \/ Chmod
  <2>1. /\ op.size = 0 /\ mode = ModeOf(was[op.path]) /\ mode' = mode /\ real' = real
        /\ pc = "delete" => Untouched
        /\ pc = "putempty" => files[op.path] = NoFile
        /\ pc = "chmod" => files[op.path] = Empty("none")
    BY <1>8 DEF TruncDelete, TruncPut, Chmod, TruncInv
  <2> DEFINE fs == IF pc = "delete" THEN Delete(op.path)
                   ELSE IF pc = "putempty" THEN PutEmpty(op.path)
                   ELSE Patch(op.path, mode)
  <2>2. /\ FilesOK(fs) /\ \A q \in Paths \ {op.path} : fs[q] = files[q]
        /\ fs[op.path] = IF pc = "delete" THEN NoFile
                         ELSE IF pc = "putempty" THEN Empty("none") ELSE Empty(mode)
    <3>1. mode \in Modes /\ "none" \in Modes
      BY <1>1 DEF LocalsOK, Modes
    <3>2. CASE pc = "delete"
      BY <1>1, <3>2, DeleteEffect
    <3>3. CASE pc = "putempty"
      BY <1>1, <2>1, <3>3, PutEmptyEffect
    <3>4. CASE pc = "chmod"
      BY <1>1, <2>1, <3>1, <3>4, PatchEffect
    <3> QED BY <1>8, <3>2, <3>3, <3>4 DEF TruncDelete, TruncPut, Chmod
  <2>3. \/ Lost(fs) /\ Finish(EIO)
        \/ Answered(fs) /\ pc = "delete" /\ Goto("putempty")
        \/ Answered(fs) /\ pc = "putempty" /\ Goto("chmod")
        \/ Answered(fs) /\ pc = "chmod" /\ Finish(0)
    BY <1>1, <1>3, <1>8 DEF TruncDelete, TruncPut, Chmod
  <2> HIDE DEF fs
  <2>4. /\ FilesOK(files') /\ OthersKept' /\ nfault' \in 0..MaxFaults
        /\ Answered(fs) => files' = fs
    BY <1>1, <1>4, <2>2, <2>3, Requested
  <2>5. /\ Empty(mode) # NoFile /\ Empty(mode).data = <<>>
        /\ ModeOf(Empty(mode)) = ModeOf(was[op.path])
    BY <1>2, <2>1, EmptyType DEF Empty, ModeOf
  <2>6. TruncInv'
    <3>1. CASE Lost(fs) /\ Finish(EIO)
      BY <1>1, <1>4, <2>4, <3>1 DEF TruncInv, Finish, EIO
    <3>2. CASE Answered(fs) /\ pc = "delete" /\ Goto("putempty")
      BY <1>1, <1>4, <2>1, <2>2, <2>4, <3>2 DEF TruncInv, Goto
    <3>3. CASE Answered(fs) /\ pc = "putempty" /\ Goto("chmod")
      BY <1>1, <1>4, <2>1, <2>2, <2>4, <3>3 DEF TruncInv, Goto
    <3>4. CASE Answered(fs) /\ pc = "chmod" /\ Finish(0)
      BY <1>1, <1>4, <2>1, <2>2, <2>4, <2>5, <3>4 DEF TruncInv, Finish
    <3> QED BY <2>3, <3>1, <3>2, <3>3, <3>4
  <2>7. LocalsOK'
    BY <1>1, <2>1, <2>3, <2>4, Bounds DEF LocalsOK, Goto, Finish
  <2> QED BY <1>1, <1>4, <2>4, <2>6, <2>7 DEF FileInv, FilesOK
<1>9. CASE Halt
  BY <1>9 DEF Halt, vars, FileInv, FilesOK, LocalsOK, TruncInv, OthersKept, Untouched
<1> QED BY <1>4, <1>6, <1>7, <1>8, <1>9

LEMMA MknodStep ==
  ASSUME FileInv, MknodInv, Next, ~Stale
  PROVE  FileInv'
<1>1. /\ FilesOK(files) /\ FilesOK(was) /\ LocalsOK /\ OthersKept
      /\ op.path \in Paths /\ op.name = "mknod" /\ op \in [name : {"mknod"}, path : Paths]
  BY DEF FileInv, MknodInv
<1>2. \A r : Bail(r) <=> Finish(r)
  BY <1>1 DEF Bail
<1>3. op' = op /\ was' = was /\ (MknodHead \/ Create \/ Chmod \/ Halt)
  <2>1. pc \in {"head", "create", "chmod", "done"}
    BY DEF MknodInv
  <2>2. MknodHead \/ Create \/ Chmod \/ Halt
    BY <2>1 DEF Next, Start, WritePut, WriteHead, TruncGetattr, TruncDelete, TruncPut,
       TruncResize, TruncRead, TruncSize, LinkHead, LinkUndo, CopyAttr, CopyRead, Copy,
       CopyRestore
  <2> QED BY <1>2, <2>2 DEF MknodHead, Create, Chmod, Halt, Goto, Finish, vars
<1>4. CASE MknodHead
  <2>1. Untouched /\ mode' = mode /\ real' = real
    BY <1>4 DEF MknodHead, MknodInv
  <2>2. FilesOK(files)' /\ files' = files /\ OthersKept' /\ nfault' \in 0..MaxFaults
    BY <1>1, <1>3, <1>4, Requested DEF MknodHead, Missing, Found
  <2>3. \/ (was[op.path] = NoFile \/ Misled') /\ Goto("create")
        \/ Finish(EEXIST) \/ Finish(EIO)
    BY <1>2, <1>4, <2>1 DEF MknodHead, Missing, Found, Untouched, Misled
  <2>4. MknodInv'
    BY <1>1, <1>3, <2>1, <2>2, <2>3 DEF MknodInv, Untouched, Goto, Finish, EIO, EEXIST
  <2>5. LocalsOK'
    BY <1>1, <2>1, <2>2, <2>3 DEF LocalsOK, Goto, Finish
  <2> QED BY <1>1, <1>3, <2>2, <2>4, <2>5 DEF FileInv, FilesOK
<1>5. CASE Create \/ Chmod
  <2>1. /\ was[op.path] = NoFile \/ Misled
        /\ real' = real /\ Misled' = Misled
        /\ pc = "create" => mode' = "file"
        /\ pc = "chmod" => /\ \E m \in Modes : files[op.path] = Empty(m)
                           /\ mode = "file" /\ mode' = mode
    BY <1>1, <1>5 DEF Create, Chmod, MknodInv, Untouched, Misled
  <2> DEFINE fs == IF pc = "create" THEN PutEmpty(op.path) ELSE Patch(op.path, mode)
  <2>2. /\ FilesOK(fs) /\ \A q \in Paths \ {op.path} : fs[q] = files[q]
        /\ pc = "create" => \E m \in Modes : fs[op.path] = Empty(m)
    <3>1. CASE pc = "create"
      BY <1>1, <3>1, PutEmptyEffect
    <3>2. CASE pc = "chmod"
      BY <1>1, <2>1, <3>2, PatchEffect DEF Modes
    <3> QED BY <1>5, <3>1, <3>2 DEF Create, Chmod
  <2>3. \/ Lost(fs) /\ Finish(EIO)
        \/ Answered(fs) /\ pc = "create" /\ Goto("chmod")
        \/ Answered(fs) /\ pc = "chmod" /\ Finish(0)
    BY <1>1, <1>2, <1>5 DEF Create, Chmod
  <2> HIDE DEF fs
  <2>4. /\ FilesOK(files') /\ OthersKept' /\ nfault' \in 0..MaxFaults
        /\ Answered(fs) => files' = fs
    BY <1>1, <1>3, <2>2, <2>3, Requested
  <2>5. MknodInv'
    <3>1. CASE Finish(EIO) \/ Finish(0)
      BY <1>1, <1>3, <2>1, <2>4, <3>1 DEF MknodInv, Finish
    <3>2. CASE Answered(fs) /\ pc = "create" /\ Goto("chmod")
      BY <1>1, <1>3, <2>1, <2>2, <2>4, <3>2 DEF MknodInv, Goto
    <3> QED BY <2>3, <3>1, <3>2
  <2>6. LocalsOK'
    BY <1>1, <1>5, <2>1, <2>3, <2>4, Bounds DEF LocalsOK, Goto, Finish, Modes, Create, Chmod
  <2> QED BY <1>1, <1>3, <2>4, <2>5, <2>6 DEF FileInv, FilesOK
<1>6. CASE Halt
  BY <1>6 DEF Halt, vars, FileInv, FilesOK, LocalsOK, MknodInv, OthersKept, Untouched, Misled
<1> QED BY <1>3, <1>4, <1>5, <1>6

LEMMA LinkStep ==
  ASSUME FileInv, LinkInv, Next, ~Stale
  PROVE  FileInv'
<1>1. /\ FilesOK(files) /\ FilesOK(was) /\ LocalsOK /\ OthersKept
      /\ op.path \in Paths /\ op.name = "symlink" /\ op.off = 0 /\ op.data \in Seq(Int)
      /\ Len(op.data) = 1
      /\ op \in [name : {"symlink"}, path : Paths, off : {0}, data : Seq(Int)]
  BY DEF FileInv, LinkInv
<1>2. \A r : Bail(r) <=> pc' = "undo" /\ res' = r /\ UNCHANGED <<op, was>>
  BY <1>1 DEF Bail
<1>3. /\ op' = op /\ was' = was
      /\ LinkHead \/ MknodHead \/ Create \/ Chmod \/ WritePut \/ LinkUndo \/ Halt
  <2>1. pc \in {"linkhead", "head", "create", "chmod", "put", "undo", "done"}
    BY DEF LinkInv
  <2>2. LinkHead \/ MknodHead \/ Create \/ Chmod \/ WritePut \/ LinkUndo \/ Halt
    BY <2>1 DEF Next, Start, WriteHead, TruncGetattr, TruncDelete, TruncPut,
       TruncResize, TruncRead, TruncSize, CopyAttr, CopyRead, Copy, CopyRestore
  <2> QED BY <1>1, <1>2, <2>2 DEF LinkHead, MknodHead, Create, Chmod, WritePut, WriteDone,
         LinkUndo, Halt, Goto, Finish, vars
<1>4. CASE LinkHead \/ MknodHead
  <2>1. /\ Untouched /\ mode' = mode /\ real' = real
        /\ pc = "head" => was[op.path] = NoFile \/ Misled
    BY <1>4 DEF LinkHead, MknodHead, LinkInv
  <2>2. /\ \/ Answered(files) /\ (was[op.path] = NoFile \/ Misled')
              /\ (Goto("head") \/ Goto("create"))
           \/ Answered(files) /\ was[op.path] # NoFile /\ Finish(EEXIST)
           \/ Answered(files) /\ was[op.path] # NoFile /\ pc = "head" /\ Bail(EEXIST)
           \/ Lost(files) /\ Bail(EIO)
        /\ Misled => Misled'
    BY <1>4, <2>1 DEF LinkHead, MknodHead, Missing, Found, Untouched, Misled
  <2>3. /\ FilesOK(files)' /\ files' = files /\ OthersKept' /\ nfault' \in 0..MaxFaults
        /\ Lost(files) => nfault' >= 1
    BY <1>1, <1>3, <2>2, Requested DEF LocalsOK
  <2>4. LinkInv'
    <3>1. CASE (was[op.path] = NoFile \/ Misled') /\ (Goto("head") \/ Goto("create"))
      BY <1>1, <1>3, <2>1, <2>3, <3>1 DEF LinkInv, Untouched, Goto
    <3>2. CASE was[op.path] # NoFile /\ Finish(EEXIST)
      BY <1>1, <1>3, <2>1, <2>3, <3>2 DEF LinkInv, Untouched, Finish, EEXIST
    <3>3. CASE was[op.path] # NoFile /\ pc = "head" /\ Bail(EEXIST)
      BY <1>1, <1>2, <1>3, <2>1, <2>2, <2>3, <3>3 DEF LinkInv, Untouched
    <3>4. CASE Lost(files) /\ Bail(EIO)
      BY <1>1, <1>2, <1>3, <2>1, <2>3, <3>4 DEF LinkInv, Untouched
    <3> QED BY <2>2, <3>1, <3>2, <3>3, <3>4
  <2>5. LocalsOK'
    BY <1>1, <1>2, <2>1, <2>2, <2>3 DEF LocalsOK, Goto, Finish
  <2> QED BY <1>1, <1>3, <2>3, <2>4, <2>5 DEF FileInv, FilesOK
<1>5. CASE Create \/ Chmod \/ WritePut
  <2>1. /\ was[op.path] = NoFile \/ Misled
        /\ real' = real /\ Misled' = Misled
        /\ pc = "create" => mode' = "link"
        /\ pc = "chmod" => /\ \E m \in Modes : files[op.path] = Empty(m)
                           /\ mode = "link" /\ mode' = mode
        /\ pc \in {"put", "pad", "put2"} =>
             pc = "put" /\ files[op.path] = Empty("link") /\ mode' = mode
    BY <1>1, <1>5 DEF Create, Chmod, WritePut, LinkInv, Untouched, Misled
  <2> DEFINE fs == IF pc = "create" THEN PutEmpty(op.path)
                   ELSE IF pc = "chmod" THEN Patch(op.path, mode)
                   ELSE Put(op.path, op.off, op.data)
  <2>2. /\ FilesOK(fs) /\ \A q \in Paths \ {op.path} : fs[q] = files[q]
        /\ pc = "create" => \E m \in Modes : fs[op.path] = Empty(m)
        /\ pc = "chmod" => fs[op.path] = Empty("link")
        /\ pc = "put" => fs[op.path] = [data |-> op.data, mode |-> "link"]
    <3>1. CASE pc = "create"
      BY <1>1, <2>1, <3>1, PutEmptyEffect
    <3>2. CASE pc = "chmod"
      BY <1>1, <2>1, <3>2, PatchEffect DEF Modes
    <3>3. CASE pc = "put"
      <4> DEFINE e == Empty("link")
      <4>1. e # NoFile /\ e.data = <<>> /\ e.mode = "link"
        BY EmptyType DEF Modes, Empty
      <4>2. Overlay(e.data, op.off, op.data) = op.data
        <5>1. e.data \in Seq(Int) /\ Len(e.data) = 0 /\ op.off \in Nat
          BY <1>1, EmptyType DEF Contents, Modes
        <5> HIDE DEF e
        <5> QED BY <1>1, <5>1, OverlayNothing
      <4>3. op.off \in Nat /\ op.off + Len(op.data) <= MaxLen
        BY <1>1, Bounds
      <4> HIDE DEF e
      <4>4. files[op.path] = e
        BY <2>1, <3>3 DEF e
      <4>5. fs = Put(op.path, op.off, op.data)
        BY <3>3
      <4>6. /\ FilesOK(Put(op.path, op.off, op.data))
            /\ \A q \in Paths \ {op.path} : Put(op.path, op.off, op.data)[q] = files[q]
            /\ Put(op.path, op.off, op.data)[op.path] =
                 [data |-> Overlay(files[op.path].data, op.off, op.data),
                  mode |-> files[op.path].mode]
        BY <1>1, <4>1, <4>3, <4>4, PutEffect
      <4> QED BY <3>3, <4>1, <4>2, <4>4, <4>5, <4>6
    <3> QED BY <1>5, <2>1, <3>1, <3>2, <3>3 DEF Create, Chmod, WritePut
  <2>3. \/ Lost(fs) /\ Bail(EIO)
        \/ Answered(fs) /\ pc = "create" /\ Goto("chmod")
        \/ Answered(fs) /\ pc = "chmod" /\ Goto("put")
        \/ Answered(fs) /\ pc = "put" /\ Finish(0)
    <3>1. CASE Create \/ Chmod
      BY <1>1, <3>1 DEF Create, Chmod
    <3>2. CASE WritePut
      <4>1. pc = "put" /\ fs = Put(op.path, op.off, op.data)
        BY <2>1, <3>2 DEF WritePut
      <4>2. ~Refuses(op.path, op.off)
        <5>1. Size(op.path) = 0
          BY <2>1, <4>1, EmptyType DEF Size, Length, Modes
        <5> QED BY <1>1, <5>1 DEF Refuses
      <4> HIDE DEF fs
      <4> QED BY <1>1, <3>2, <4>1, <4>2 DEF WritePut, WriteDone
    <3> QED BY <1>5, <3>1, <3>2
  <2> HIDE DEF fs
  <2>4. /\ FilesOK(files') /\ OthersKept' /\ nfault' \in 0..MaxFaults
        /\ Answered(fs) => files' = fs
        /\ Lost(fs) => nfault' >= 1
    BY <1>1, <1>3, <2>2, <2>3, Requested DEF LocalsOK
  <2>5. LinkInv'
    <3>1. CASE Lost(fs) /\ Bail(EIO)
      BY <1>1, <1>2, <1>3, <2>1, <2>4, <3>1 DEF LinkInv
    <3>2. CASE Answered(fs) /\ pc = "create" /\ Goto("chmod")
      <4>1. mode' = "link"
        BY <2>1, <3>2
      <4> QED BY <1>1, <1>3, <2>1, <2>2, <2>4, <3>2, <4>1 DEF LinkInv, Goto
    <3>3. CASE Answered(fs) /\ pc = "chmod" /\ Goto("put")
      BY <1>1, <1>3, <2>1, <2>2, <2>4, <3>3 DEF LinkInv, Goto
    <3>4. CASE Answered(fs) /\ pc = "put" /\ Finish(0)
      BY <1>1, <1>3, <2>1, <2>2, <2>4, <3>4 DEF LinkInv, Finish
    <3> QED BY <2>3, <3>1, <3>2, <3>3, <3>4
  <2>6. LocalsOK'
    BY <1>1, <1>2, <1>5, <2>1, <2>3, <2>4, Bounds
    DEF LocalsOK, Goto, Finish, Modes, Create, Chmod, WritePut
  <2> QED BY <1>1, <1>3, <2>4, <2>5, <2>6 DEF FileInv, FilesOK
<1>6. CASE LinkUndo
  <2> DEFINE fs == Delete(op.path)
  <2>1. /\ pc' = "done" /\ res' = res /\ res \in {EIO, EEXIST} /\ mode' = mode /\ real' = real
        /\ nfault >= 1 \/ Untouched
        /\ was[op.path] = NoFile \/ Misled \/ (nfault >= 1 /\ Untouched)
        /\ Misled' = Misled
        /\ Answered(fs) \/ Lost(fs)
    BY <1>6 DEF LinkUndo, LinkInv, Misled
  <2>2. /\ FilesOK(fs) /\ \A q \in Paths \ {op.path} : fs[q] = files[q]
        /\ fs[op.path] = NoFile
    BY <1>1, DeleteEffect
  <2> HIDE DEF fs
  <2>3. /\ FilesOK(files') /\ OthersKept' /\ nfault' \in 0..MaxFaults
        /\ files'[op.path] \in {files[op.path], NoFile}
        /\ files'[op.path] = NoFile \/ (nfault' = nfault + 1)
        /\ nfault' >= nfault
    BY <1>1, <1>3, <2>1, <2>2, Requested DEF LocalsOK, Answered
  <2>4. LinkInv'
    <3>1. res' # 0
      BY <2>1 DEF EIO, EEXIST
    <3>2. CASE was[op.path] = NoFile
      <4>1. nfault' >= 2 \/ files'[op.path] = NoFile
        BY <1>1, <2>1, <2>3, <3>2 DEF Untouched, LocalsOK
      <4> QED BY <1>1, <1>3, <2>1, <2>3, <3>1, <3>2, <4>1 DEF LinkInv
    <3>3. CASE was[op.path] # NoFile
      <4>1. \/ Misled'
            \/ Untouched' \/ (nfault' >= 1 /\ files'[op.path] = NoFile)
        BY <1>1, <1>3, <2>1, <2>3, <3>3, Bounds DEF Untouched, LocalsOK
      <4> QED BY <1>1, <1>3, <2>1, <2>3, <3>1, <3>3, <4>1 DEF LinkInv
    <3> QED BY <3>2, <3>3
  <2>5. LocalsOK'
    BY <1>1, <2>1, <2>3 DEF LocalsOK
  <2> QED BY <1>1, <1>3, <2>3, <2>4, <2>5 DEF FileInv, FilesOK
<1>7. CASE Halt
  BY <1>7 DEF Halt, vars, FileInv, FilesOK, LocalsOK, LinkInv, OthersKept, Untouched, Misled
<1> QED BY <1>3, <1>4, <1>5, <1>6, <1>7

LEMMA CopyGoesOn ==
  ASSUME FileInv, CopyInv, Untouched, OthersKept', FilesOK(files'), nfault' \in 0..MaxFaults,
         files' = files, was' = was, op' = op, mode' = mode, real' = real,
         NEW size \in 0..Length(was[op.path]),
         Finish(EOPNOTSUPP) \/ Finish(EIO) \/ CopyTests(size)
  PROVE  FileInv'
<1>1. /\ LocalsOK /\ FilesOK(was) /\ op.path \in Paths /\ op.len \in Nat /\ op.off \in Nat
  BY DEF FileInv, CopyInv
<1>2. Length(was[op.path]) \in 0..MaxLen
  BY <1>1, LengthType
<1>3. \/ Finish(EOPNOTSUPP) \/ Finish(EIO)
      \/ op.off > 0 /\ Goto("before")
      \/ op.len < Length(was[op.path]) /\ Goto("after")
      \/ Goto("copy")
  <2>1. op.len < size => op.len < Length(was[op.path])
    BY <1>1, <1>2
  <2>2. \/ Finish(EOPNOTSUPP) \/ Finish(EIO)
        \/ CASE op.len < size \div 2 -> Finish(EOPNOTSUPP)
             [] op.len >= size \div 2 /\ op.off > 0 -> Goto("before")
             [] op.len >= size \div 2 /\ op.off = 0 /\ op.len < size -> Goto("after")
             [] OTHER -> Goto("copy")
    BY DEF CopyTests
  <2> QED BY <2>1, <2>2
<1>4. CopyInv'
  <2>1. CASE Finish(EOPNOTSUPP) \/ Finish(EIO)
    BY <2>1 DEF CopyInv, Finish
  <2>2. CASE op.off > 0 /\ Goto("before")
    BY <2>2 DEF CopyInv, Untouched, Goto
  <2>3. CASE op.len < Length(was[op.path]) /\ Goto("after")
    BY <1>1, <1>2, <2>3 DEF CopyInv, Untouched, Goto
  <2>4. CASE Goto("copy")
    BY <2>4 DEF CopyInv, Untouched, Goto
  <2> QED BY <1>3, <2>1, <2>2, <2>3, <2>4
<1>5. LocalsOK'
  BY <1>1, <1>3 DEF LocalsOK, Goto, Finish
<1> QED BY <1>1, <1>4, <1>5 DEF FileInv, FilesOK

LEMMA CopyStep ==
  ASSUME FileInv, CopyInv, Next, ~Stale
  PROVE  FileInv'
<1>1. /\ FilesOK(files) /\ FilesOK(was) /\ LocalsOK /\ OthersKept
      /\ op \in [name : {"copy"}, from : Paths, in : Nat, path : Paths, off : Nat, len : Nat]
      /\ op.path \in Paths /\ op.from \in Paths /\ op.from # op.path /\ op.name = "copy"
      /\ op.off \in Nat /\ op.len \in Nat /\ op.off + op.len <= MaxLen
      /\ was[op.from] # NoFile
  BY DEF FileInv, CopyInv
<1>2. Length(was[op.path]) \in 0..MaxLen
  BY <1>1, LengthType
<1>3. \A r : Bail(r) <=> Finish(r)
  BY <1>1 DEF Bail
<1>4. op' = op /\ was' = was /\ (CopyAttr \/ CopyRead \/ Copy \/ CopyRestore \/ Halt)
  <2>1. pc \in {"copyattr", "copy", "before", "after", "restore", "done"}
    BY DEF CopyInv
  <2>2. CopyAttr \/ CopyRead \/ Copy \/ CopyRestore \/ Halt
    BY <2>1 DEF Next, Start, WritePut, WriteHead, TruncGetattr, TruncDelete, TruncPut,
       TruncResize, TruncRead, TruncSize, MknodHead, Create, Chmod, LinkHead, LinkUndo
  <2> QED BY <1>3, <2>2 DEF CopyAttr, CopyTests, CopyRead, Copy, CopyRestore, Halt, Goto, Finish, vars
<1> DEFINE Reading == Answered(files) \/ Lost(files)
<1>5. ASSUME Reading PROVE FilesOK(files)' /\ files' = files /\ OthersKept' /\ nfault' \in 0..MaxFaults
  BY <1>1, <1>4, <1>5, Requested
<1>6. CASE CopyAttr
  <2>1. /\ Untouched /\ mode' = mode /\ real' = real
        /\ FilesOK(files)' /\ files' = files /\ OthersKept' /\ nfault' \in 0..MaxFaults
    <3>1. CASE op.in # op.off
      BY <1>1, <1>4, <1>6, <3>1 DEF CopyAttr, CopyInv, OthersKept, LocalsOK, FilesOK, Answered, Lost
    <3>2. CASE op.in = op.off
      BY <1>5, <1>6, <3>2 DEF CopyAttr, CopyInv
    <3> QED BY <3>1, <3>2
  <2>2. Unsigned(StSize(op.path)) \in 0..Length(was[op.path])
    BY <1>2, <2>1, UnsignedBounds DEF StSize, Size, Untouched
  <2>3. Finish(EOPNOTSUPP) \/ Finish(EIO) \/ CopyTests(Unsigned(StSize(op.path)))
    BY <1>3, <1>6 DEF CopyAttr
  <2> QED BY <1>1, <1>4, <2>1, <2>2, <2>3, CopyGoesOn
<1>7. CASE CopyRead
  <2>1. /\ Untouched /\ Reading /\ mode' = mode /\ real' = real
        /\ op.off > 0 \/ Length(was[op.path]) > op.len
        /\ pc = "after" => Length(was[op.path]) > op.len
    BY <1>7 DEF CopyRead, CopyInv
  <2> DEFINE n == IF pc = "before" THEN op.off ELSE StSize(op.path) - op.len
  <2>2. n \in Nat
    BY <1>1, <1>2, <1>7, <2>1 DEF CopyRead, StSize, Size, Untouched
  <2>3. Read(op.path, n) \in 0..MaxLen \cup {EIO}
    <3> HIDE DEF n
    <3> QED BY <1>2, <2>1, <2>2, Bounds DEF Read, Fetched, Size, Untouched
  <2>4. Finish(Read(op.path, n)) \/ Finish(EIO) \/ Goto("copy")
    BY <1>3, <1>7 DEF CopyRead
  <2> HIDE DEF n
  <2>5. CopyInv'
    BY <1>1, <1>2, <1>4, <1>5, <2>1, <2>4 DEF CopyInv, Untouched, Goto, Finish
  <2>6. LocalsOK'
    BY <1>1, <1>5, <2>1, <2>3, <2>4 DEF LocalsOK, Goto, Finish
  <2> QED BY <1>1, <1>4, <1>5, <2>1, <2>5, <2>6 DEF FileInv, FilesOK
<1>8. CASE Copy
  <2>1. Untouched /\ mode' = mode /\ real' = real
    BY <1>8 DEF Copy, CopyInv
  <2>2. files[op.from] = was[op.from]
    BY <1>1 DEF OthersKept
  <2>3. /\ FilesOK(Copied) /\ Copied[op.path] = was[op.from]
        /\ \A q \in Paths \ {op.path} : Copied[q] = files[q]
    BY <1>1, <2>2 DEF Copied, FilesOK
  <2>4. \/ Answered(Copied) /\ op.off > 0 /\ Goto("restore")
        \/ Answered(Copied) /\ Finish(op.len)
        \/ Lost(Copied) /\ Finish(EIO)
    BY <1>1, <1>3, <1>8 DEF Copy
  <2>5. /\ FilesOK(files') /\ OthersKept' /\ nfault' \in 0..MaxFaults
        /\ Answered(Copied) => files'[op.path] = was[op.from]
    BY <1>1, <1>4, <2>3, <2>4, Requested
  <2>6. CopyInv'
    BY <1>1, <1>4, <2>4, <2>5 DEF CopyInv, Goto, Finish
  <2>7. LocalsOK'
    BY <1>1, <2>1, <2>4, <2>5, Bounds DEF LocalsOK, Goto, Finish
  <2> QED BY <1>1, <1>4, <2>5, <2>6, <2>7 DEF FileInv, FilesOK
<1>9. CASE CopyRestore
  <2> DEFINE new == Fill(op.off, Garbage)
             fs  == Put(op.path, 0, new)
  <2>1. /\ op.off > 0 /\ files[op.path] # NoFile /\ mode' = mode /\ real' = real
        /\ \/ Answered(fs) /\ Finish(op.off)
           \/ Lost(fs) /\ Finish(EIO)
    BY <1>1, <1>3, <1>9 DEF CopyRestore, CopyInv
  <2>2. new \in Seq(Int) /\ Len(new) = op.off
    <3>1. Garbage \in Int
      BY DEF Garbage
    <3> QED BY <1>1, <3>1, FillSeq
  <2> HIDE DEF new
  <2>3. FilesOK(fs) /\ \A q \in Paths \ {op.path} : fs[q] = files[q]
    <3>1. PICK z \in Nat : z = 0
      OBVIOUS
    <3>2. z + Len(new) <= MaxLen
      BY <1>1, <2>2, <3>1, Bounds
    <3>3. FilesOK(files) /\ op.path \in Paths /\ files[op.path] # NoFile /\ new \in Seq(Int)
      BY <1>1, <2>1, <2>2
    <3>4. /\ FilesOK(Put(op.path, z, new))
          /\ \A q \in Paths \ {op.path} : Put(op.path, z, new)[q] = files[q]
      BY <3>2, <3>3, PutEffect
    <3> QED BY <3>1, <3>4
  <2> HIDE DEF fs
  <2>4. FilesOK(files') /\ OthersKept' /\ nfault' \in 0..MaxFaults
    BY <1>1, <1>4, <2>1, <2>3, Requested
  <2>5. CopyInv'
    BY <1>1, <1>4, <2>1, <2>4 DEF CopyInv, Finish
  <2>6. LocalsOK'
    BY <1>1, <2>1, <2>4, Bounds DEF LocalsOK, Finish
  <2> QED BY <1>1, <1>4, <2>4, <2>5, <2>6 DEF FileInv, FilesOK
<1>10. CASE Halt
  BY <1>10 DEF Halt, vars, FileInv, FilesOK, LocalsOK, CopyInv, OthersKept, Untouched
<1> QED BY <1>4, <1>6, <1>7, <1>8, <1>9, <1>10

LEMMA StartStep ==
  ASSUME FileInv, Start
  PROVE  FileInv'
<1>1. files = was /\ FilesOK(files) /\ LocalsOK
  <2>1. pc = "idle"
    BY DEF Start
  <2> QED BY <2>1 DEF FileInv, IdleInv, WriteInv, TruncInv, MknodInv, LinkInv, CopyInv
<1>2. files' = files /\ was' = was /\ LocalsOK' /\ "length" \notin met'
  BY <1>1 DEF Start, LocalsOK
<1>3. OthersKept' /\ Untouched'
  BY <1>1, <1>2 DEF OthersKept, Untouched
<1>4. PICK p \in Paths :
       \/ /\ files[p] # NoFile
          /\ \E off \in 0..MaxLen - 1 : \E n \in 1..MaxLen - off :
               op' = [name |-> "write", path |-> p, off |-> off, data |-> Fill(n, New)]
          /\ pc' = "put"
       \/ /\ files[p] # NoFile
          /\ \E n \in 0..MaxLen : op' = [name |-> "truncate", path |-> p, size |-> n]
          /\ pc' = "getattr"
       \/ op' = [name |-> "mknod", path |-> p] /\ pc' = "head"
       \/ /\ op' = [name |-> "symlink", path |-> p, off |-> 0, data |-> Fill(1, New)]
          /\ pc' = "linkhead"
       \/ \E q \in Paths \ {p}, off \in 0..MaxLen - 1 : \E n \in 1..MaxLen - off :
            /\ files[q] # NoFile
            /\ \E in \in {0, off} :
                 op' = [name |-> "copy", from |-> q, in |-> in,
                        path |-> p, off |-> off, len |-> n]
            /\ pc' = "copyattr"
  BY DEF Start
<1>5. ASSUME NEW n \in Nat PROVE Fill(n, New) \in Seq(Int) /\ Len(Fill(n, New)) = n
  <2>1. New \in Int
    BY DEF New
  <2> QED BY <2>1, FillSeq
<1>6. WriteInv' \/ TruncInv' \/ MknodInv' \/ LinkInv' \/ CopyInv'
  <2>1. ASSUME NEW off \in 0..MaxLen - 1, NEW n \in 1..MaxLen - off, files[p] # NoFile,
               op' = [name |-> "write", path |-> p, off |-> off, data |-> Fill(n, New)],
               pc' = "put"
        PROVE  WriteInv'
    <3>1. off \in Nat /\ n \in Nat /\ off + n <= MaxLen
      BY Bounds
    <3>2. Fill(n, New) \in Seq(Int) /\ Len(Fill(n, New)) = n
      BY <1>5, <3>1
    <3> QED BY <1>1, <1>2, <1>3, <2>1, <3>1, <3>2 DEF WriteInv
  <2>2. ASSUME NEW n \in 0..MaxLen, files[p] # NoFile, pc' = "getattr",
               op' = [name |-> "truncate", path |-> p, size |-> n]
        PROVE  TruncInv'
    BY <1>1, <1>2, <1>3, <2>2 DEF TruncInv
  <2>3. ASSUME op' = [name |-> "mknod", path |-> p], pc' = "head"
        PROVE  MknodInv'
    BY <1>3, <2>3 DEF MknodInv
  <2>4. ASSUME op' = [name |-> "symlink", path |-> p, off |-> 0, data |-> Fill(1, New)],
               pc' = "linkhead"
        PROVE  LinkInv'
    <3>1. PICK n \in Nat : n = 1
      OBVIOUS
    <3>2. Fill(n, New) \in Seq(Int) /\ Len(Fill(n, New)) = n
      BY <1>5
    <3>3. Fill(1, New) \in Seq(Int) /\ Len(Fill(1, New)) = 1
      BY <3>1, <3>2
    <3> QED BY <1>3, <2>4, <3>3 DEF LinkInv
  <2>5. ASSUME NEW q \in Paths \ {p}, NEW off \in 0..MaxLen - 1, NEW n \in 1..MaxLen - off,
               NEW in \in {0, off}, files[q] # NoFile, pc' = "copyattr",
               op' = [name |-> "copy", from |-> q, in |-> in,
                      path |-> p, off |-> off, len |-> n]
        PROVE  CopyInv'
    <3>1. off \in Nat /\ n \in Nat /\ in \in Nat /\ off + n <= MaxLen
      BY Bounds
    <3> QED BY <1>1, <1>2, <1>3, <2>5, <3>1 DEF CopyInv
  <2> QED BY <1>4, <2>1, <2>2, <2>3, <2>4, <2>5
<1> QED BY <1>1, <1>2, <1>6 DEF FileInv, FilesOK

\* A handler that begins with an exception pending.
LEMMA StaleStep ==
  ASSUME FileInv, Pending, Stale
  PROVE  FileInv'
<1>1. /\ FilesOK(files) /\ FilesOK(was) /\ LocalsOK /\ "pending" \in met /\ Misled
      /\ pc \in {"put", "getattr", "head", "linkhead", "copyattr"}
      /\ pc = "put" => op.name = "write"
  BY DEF FileInv, Stale, Pending, Misled
<1>2. /\ files' = files /\ real' = real /\ mode' = mode /\ nfault' = nfault /\ met' = met
      /\ was' = was /\ op' = op
  BY DEF Stale, Goto, Bail, Finish, CopyTests
<1>3. FilesOK(files') /\ FilesOK(was') /\ Misled' /\ (OthersKept => OthersKept')
      /\ (Untouched => Untouched')
  BY <1>1, <1>2 DEF FilesOK, Misled, OthersKept, Untouched
<1>4. CASE IdleInv
  BY <1>1, <1>4 DEF IdleInv
<1>5. CASE WriteInv
  <2>1. pc = "put" /\ Untouched /\ "length" \notin met /\ op.name = "write"
    BY <1>1, <1>5 DEF WriteInv
  <2>2. Finish(EIO)
    BY <2>1 DEF Stale, Bail
  <2>3. WriteInv'
    BY <1>1, <1>2, <1>3, <1>5, <2>1, <2>2 DEF WriteInv, Finish
  <2> QED BY <1>1, <1>2, <1>3, <2>2, <2>3 DEF FileInv, LocalsOK, Finish
<1>6. CASE TruncInv
  <2>1. pc = "getattr" /\ op.name = "truncate"
    BY <1>1, <1>6 DEF TruncInv
  <2>2. Finish(EIO)
    BY <2>1 DEF Stale, Bail
  <2>3. TruncInv'
    BY <1>2, <1>3, <1>6, <2>2 DEF TruncInv, Finish, EIO
  <2> QED BY <1>1, <1>2, <1>3, <2>2, <2>3 DEF FileInv, LocalsOK, Finish
<1>7. CASE MknodInv
  <2>1. pc = "head" /\ op.name = "mknod" /\ Untouched
    BY <1>1, <1>7 DEF MknodInv
  <2>2. Goto("create") \/ Finish(EIO)
    BY <2>1 DEF Stale, Bail
  <2>3. MknodInv'
    BY <1>2, <1>3, <1>7, <2>1, <2>2 DEF MknodInv, Finish, Goto
  <2> QED BY <1>1, <1>2, <1>3, <2>2, <2>3 DEF FileInv, LocalsOK, Finish, Goto
<1>8. CASE LinkInv
  <2>1. pc \in {"linkhead", "head"} /\ op.name = "symlink" /\ Untouched
    BY <1>1, <1>8 DEF LinkInv
  <2>2. \/ Goto("create") \/ Goto("head")
        \/ pc' = "undo" /\ res' = EIO
    BY <2>1 DEF Stale, Bail
  <2>3. LinkInv'
    BY <1>2, <1>3, <1>8, <2>1, <2>2 DEF LinkInv, Goto
  <2> QED BY <1>1, <1>2, <1>3, <2>2, <2>3 DEF FileInv, LocalsOK, Goto
<1>9. CASE CopyInv
  <2>1. /\ pc = "copyattr" /\ op.name = "copy" /\ Untouched /\ OthersKept /\ op.path \in Paths
    BY <1>1, <1>9 DEF CopyInv
  <2>2. Finish(EIO) \/ CopyTests(0)
    BY <2>1 DEF Stale, Bail
  <2>3. 0 \in 0..Length(was[op.path]) /\ nfault' \in 0..MaxFaults
    <3>1. Length(was[op.path]) \in 0..MaxLen
      BY <1>1, <2>1, LengthType
    <3> QED BY <1>1, <1>2, <3>1, Bounds DEF LocalsOK
  <2> QED BY <1>2, <1>3, <1>9, <2>1, <2>2, <2>3, CopyGoesOn
<1> QED BY <1>4, <1>5, <1>6, <1>7, <1>8, <1>9 DEF FileInv

LEMMA PendingNext == Pending /\ [Next]_vars => Pending'
<1> SUFFICES ASSUME Pending, [Next]_vars PROVE Pending'
  OBVIOUS
<1>1. CASE UNCHANGED vars
  BY <1>1 DEF vars, Pending
<1>2. CASE Start
  <2>1. /\ ex' \in {"none", "404", "403", "other"} /\ met' \subseteq {"403", "length", "pending"}
        /\ ex' # "none" => "pending" \in met'
    BY <1>2 DEF Start
  <2>2. /\ pc' \in {"put", "getattr", "head", "linkhead", "copyattr"}
        /\ pc' = "put" => op'.name = "write"
    BY <1>2 DEF Start
  <2> QED BY <2>1, <2>2 DEF Pending
<1>3. CASE Stale
  BY <1>3 DEF Stale, Pending
<1>4. CASE CopyAttr
  <2>1. ex' = ex /\ met' = met /\ (ex # "none" => pc' = "done")
    BY <1>4 DEF CopyAttr, Answered, Lost, Finish
  <2> QED BY <2>1 DEF Pending
<1>5. ASSUME ex' = "none", met' \subseteq met \cup {"403", "length"} PROVE Pending'
  BY <1>5 DEF Pending
<1>6. CASE WritePut \/ WriteHead
  <2>1. ex' = "none" /\ met' \subseteq met \cup {"403", "length"}
    BY <1>6 DEF WritePut, WriteHead, Headed, Answered, Lost
  <2> QED BY <1>5, <2>1
<1>7. CASE TruncGetattr \/ TruncDelete \/ TruncPut \/ TruncResize \/ TruncRead \/ TruncSize
  <2>1. ex' = "none" /\ met' \subseteq met \cup {"403", "length"}
    BY <1>7 DEF TruncGetattr, TruncDelete, TruncPut, TruncResize, TruncRead, TruncSize,
       Headed, Answered, Lost
  <2> QED BY <1>5, <2>1
<1>8. CASE MknodHead \/ Create \/ Chmod \/ LinkHead \/ LinkUndo
  <2>1. ex' = "none" /\ met' \subseteq met \cup {"403", "length"}
    BY <1>8 DEF MknodHead, Create, Chmod, LinkHead, LinkUndo, Missing, Found, Answered, Lost
  <2> QED BY <1>5, <2>1
<1>9. CASE CopyRead \/ Copy \/ CopyRestore
  <2>1. ex' = "none" /\ met' \subseteq met \cup {"403", "length"}
    BY <1>9 DEF CopyRead, Copy, CopyRestore, Answered, Lost
  <2> QED BY <1>5, <2>1
<1> QED BY <1>1, <1>2, <1>3, <1>4, <1>6, <1>7, <1>8, <1>9 DEF Next, Halt

LEMMA FileInvInit == Init => FileInv /\ Pending
<1> SUFFICES ASSUME Init PROVE FileInv /\ Pending
  OBVIOUS
<1>1. ASSUME NEW n \in 0..MaxLen
      PROVE  Original(n) \in Contents /\ Len(Original(n).data) = n
  <2> DEFINE d == [i \in 1..n |-> i]
  <2>1. n \in Nat /\ d \in [1..n -> Int]
    BY Bounds
  <2>2. d \in Seq(Int) /\ Len(d) = n
    <3> HIDE DEF d
    <3> QED BY <2>1, SeqOf
  <2>3. Original(n) = [data |-> d, mode |-> "file"]
    BY DEF Original
  <2> HIDE DEF d
  <2> QED BY <2>2, <2>3 DEF Contents, Modes
<1>2. Empty("none") \in Contents /\ Len(Empty("none").data) <= MaxLen
  BY EmptyType, Bounds DEF Modes
<1>3. files \in [Paths -> {Original(n) : n \in 0..MaxLen} \cup {Empty("none"), NoFile}]
  BY DEF Init, Empty
<1>4. ASSUME NEW p \in Paths
      PROVE  /\ files[p] \in Contents \cup {NoFile}
             /\ files[p] # NoFile => Len(files[p].data) <= MaxLen
  <2>1. \/ \E n \in 0..MaxLen : files[p] = Original(n)
        \/ files[p] = Empty("none") \/ files[p] = NoFile
    BY <1>3
  <2> QED BY <1>1, <1>2, <2>1, Bounds
<1>5. FilesOK(files) /\ FilesOK(was)
  BY <1>3, <1>4 DEF Init, FilesOK
<1>6. LocalsOK
  BY Bounds DEF Init, LocalsOK, Modes
<1>7. IdleInv /\ Pending
  BY DEF Init, IdleInv, Pending
<1> QED BY <1>5, <1>6, <1>7 DEF FileInv

LEMMA FileInvNext == FileInv /\ Pending /\ [Next]_vars => FileInv'
<1> SUFFICES ASSUME FileInv, Pending, [Next]_vars PROVE FileInv'
  OBVIOUS
<1>1. CASE UNCHANGED vars
  BY <1>1 DEF vars, FileInv, FilesOK, LocalsOK, IdleInv, WriteInv, TruncInv, MknodInv,
     LinkInv, CopyInv, OthersKept, Untouched, Short, Wide, Target, Padded, Base, Was, Misled
<1>2. CASE Stale
  BY <1>2, StaleStep
<1>3. CASE Next /\ ~Stale /\ IdleInv
  <2>1. Start
    BY <1>3 DEF IdleInv, Next, WritePut, WriteHead, TruncGetattr, TruncDelete, TruncPut,
       TruncResize, TruncRead, TruncSize, MknodHead, Create, Chmod, LinkHead, LinkUndo,
       CopyAttr, CopyRead, Copy, CopyRestore, Halt
  <2> QED BY <2>1, StartStep
<1>4. CASE Next /\ ~Stale /\ WriteInv
  <2>1. pc \in {"put", "padhead", "pad", "put2", "done"}
    BY <1>4 DEF WriteInv
  <2>2. WritePut \/ WriteHead \/ Halt
    BY <1>4, <2>1 DEF Next, Start, TruncGetattr, TruncDelete, TruncPut, TruncResize,
       TruncRead, TruncSize, MknodHead, Create, Chmod, LinkHead, LinkUndo, CopyAttr,
       CopyRead, Copy, CopyRestore
  <2> QED BY <1>1, <1>4, <2>2, WritePutStep, WriteHeadStep DEF Halt
<1> QED BY <1>1, <1>2, <1>3, <1>4, TruncStep, MknodStep, LinkStep, CopyStep DEF FileInv

-----------------------------------------------------------------------------
\* The files stay within the lengths asked for, and the locals and the result of
\* every handler within their types, whichever requests fail.
THEOREM TypeCorrect == Spec => []TypeOK
<1>1. FileInv /\ Pending => TypeOK
  <2> SUFFICES ASSUME FileInv, Pending PROVE TypeOK
    OBVIOUS
  <2>1. ASSUME NEW p \in Paths, files[p] # NoFile
        PROVE  files[p].mode \in Modes /\ Len(files[p].data) \in 0..MaxLen
    BY <2>1, LengthType DEF FileInv, Contents
  <2>2. DOMAIN files = Paths
    BY DEF FileInv, FilesOK
  <2> QED BY <2>1, <2>2 DEF FileInv, LocalsOK, Pending, TypeOK
<1> QED BY <1>1, FileInvInit, FileInvNext, PendingNext, PTL DEF Spec

\* A handler that is done is in the part of the invariant that is about it.
LEMMA Handler ==
  ASSUME FileInv, pc = "done"
  PROVE  /\ op.name = "write" => WriteInv
         /\ op.name = "truncate" => TruncInv
         /\ op.name = "mknod" => MknodInv
         /\ op.name = "symlink" => LinkInv
         /\ op.name = "copy" => CopyInv
<1>1. /\ ~IdleInv /\ (WriteInv => op.name = "write") /\ (TruncInv => op.name = "truncate")
      /\ (MknodInv => op.name = "mknod") /\ (LinkInv => op.name = "symlink")
      /\ (CopyInv => op.name = "copy")
  BY DEF IdleInv, WriteInv, TruncInv, MknodInv, LinkInv, CopyInv
<1> QED BY <1>1 DEF FileInv

\* A dav_write that reports all its bytes written has written exactly them, in
\* any file and at any offset, with or without the padding after a 416; if
\* dav_head was not told the length, on top of zeroes in place of the old bytes.
THEOREM WritesAreExact == Spec => []WriteExact
<1>1. FileInv => WriteExact
  <2> SUFFICES ASSUME FileInv, pc = "done", op.name = "write", res = Len(op.data)
               PROVE  files[op.path] =
                        [was[op.path] EXCEPT !.data = Overlay(Base, op.off, op.data)]
    BY DEF WriteExact, Ended, Base
  <2>1. WriteInv
    BY Handler
  <2>2. op.path \in Paths /\ was[op.path] # NoFile /\ res # EIO
    BY <2>1, LenProperties DEF WriteInv, EIO
  <2>3. files[op.path] = Target
    BY <2>1, <2>2 DEF WriteInv
  <2>4. was[op.path] = [data |-> was[op.path].data, mode |-> was[op.path].mode]
    BY <2>2, LengthType DEF FileInv
  <2> QED BY <2>3, <2>4 DEF Target, Was
<1> QED BY <1>1, FileInvInit, FileInvNext, PendingNext, PTL DEF Spec

\* A dav_write below 2^Width that begins with no exception pending succeeds if
\* none of its requests is lost: the 416 of a strict server is always answered
\* by enough padding, even where the server does not tell the length.
THEOREM HealthyWritesSucceed == Spec => []HealthyWriteSucceeds
<1>1. FileInv => HealthyWriteSucceeds
  <2> SUFFICES ASSUME FileInv, pc = "done", op.name = "write", op.off < 2^Width, nfault = 0,
                      "pending" \notin met
               PROVE  res = Len(op.data)
    BY DEF HealthyWriteSucceeds, Ended
  <2>1. WriteInv
    BY Handler
  <2>2. ~Wide
    <3>1. op.off \in Nat
      BY <2>1 DEF WriteInv
    <3> QED BY <3>1, FileAssumption DEF Wide
  <2> QED BY <2>1, <2>2 DEF WriteInv
<1> QED BY <1>1, FileInvInit, FileInvNext, PendingNext, PTL DEF Spec

\* A dav_write that fails, at whichever request and with or without effect on
\* the server, changes no byte outside its range but for zeroes behind the old
\* end of the file, or before its range if dav_head was not told the length.
THEOREM FailedWritesAreContained == Spec => []FailedWriteContained
<1>1. FileInv => FailedWriteContained
  <2> DEFINE old == was[op.path].data
             now == files[op.path].data
             off == op.off
             new == op.data
             Blind == "length" \in met
             Contained == /\ Len(now) >= Len(old)
                          /\ \A i \in (1..Len(now)) \ (off + 1 .. off + Len(new)) :
                               \/ now[i] = IF i <= Len(old) THEN old[i] ELSE 0
                               \/ Blind /\ i <= off /\ now[i] = 0
  <2> SUFFICES ASSUME FileInv, pc = "done", op.name = "write", res = EIO
               PROVE  Contained
    BY DEF FailedWriteContained, Ended
  <2>1. WriteInv
    BY Handler
  <2>2. op.path \in Paths /\ was[op.path] # NoFile /\ off \in Nat /\ new \in Seq(Int)
    BY <2>1 DEF WriteInv
  <2>3. /\ old \in Seq(Int) /\ Len(old) = Length(was[op.path])
        /\ Len(old) \in Nat /\ Len(new) \in Nat
    BY <2>2, LengthType, LenProperties DEF FileInv, Contents
  <2>4. /\ Base \in Seq(Int) /\ Len(Base) \in Nat
        /\ Blind => Len(Base) = 0 /\ Len(old) < off
        /\ ~Blind => Base = old
    <3>1. <<>> \in Seq(Int) /\ Len(<<>>) = 0
      BY EmptySeq
    <3> QED BY <2>1, <2>2, <2>3, <3>1 DEF WriteInv, Base, Short
  <2>5. \/ now = old
        \/ now = Overlay(Base, off, new)
        \/ Len(Base) < off /\ now = Overlay(Base, Len(Base), Fill(off - Len(Base), 0))
              /\ Len(old) <= off
    <3>1. Len(new) # EIO
      BY <2>3 DEF EIO
    <3>2. CASE Short /\ files[op.path] = Padded
      <4>1. Len(Base) < off /\ Len(old) <= off
        BY <2>1, <2>2, <2>3, <3>2, BaseType DEF FileInv
      <4> QED BY <3>2, <4>1 DEF Padded, Was
    <3> QED BY <2>1, <3>1, <3>2 DEF WriteInv, Untouched, Target, Was
  <2> HIDE DEF old, now, off, new, Blind
  <2>6. CASE now = old
    BY <2>3, <2>6
  <2>7. CASE now = Overlay(Base, off, new)
    <3> DEFINE w == Overlay(Base, off, new)
    <3>1. /\ Len(w) = Larger(Len(Base), off + Len(new))
          /\ \A i \in 1..Larger(Len(Base), off + Len(new)) :
               w[i] = IF i \in off + 1 .. off + Len(new) THEN new[i - off]
                      ELSE IF i <= Len(Base) THEN Base[i] ELSE 0
      BY <2>2, <2>4, OverlaySeq
    <3>2. now = w
      BY <2>7
    <3> HIDE DEF w
    <3>3. CASE ~Blind
      <4>1. Larger(Len(Base), off + Len(new)) >= Len(old)
        BY <2>2, <2>3, <2>4, <3>3 DEF Larger
      <4> QED BY <2>4, <3>1, <3>2, <3>3, <4>1
    <3>4. CASE Blind
      <4>1. Larger(Len(Base), off + Len(new)) = off + Len(new)
        BY <2>2, <2>3, <2>4, <3>4 DEF Larger
      <4>2. Len(now) = off + Len(new) /\ Len(now) >= Len(old)
        BY <2>2, <2>3, <2>4, <3>1, <3>2, <3>4, <4>1
      <4>3. ASSUME NEW i \in (1..Len(now)) \ (off + 1 .. off + Len(new))
            PROVE  i <= off /\ now[i] = 0
        BY <2>2, <2>3, <2>4, <3>1, <3>2, <3>4, <4>1, <4>2
      <4> QED BY <3>4, <4>2, <4>3
    <3> QED BY <3>3, <3>4
  <2>8. CASE Len(Base) < off /\ now = Overlay(Base, Len(Base), Fill(off - Len(Base), 0))
               /\ Len(old) <= off
    <3> DEFINE w == Overlay(Base, Len(Base), Fill(off - Len(Base), 0))
    <3>1. Len(Base) <= off
      BY <2>2, <2>4, <2>8
    <3>2. Len(w) = off /\ \A i \in 1..off : w[i] = IF i <= Len(Base) THEN Base[i] ELSE 0
      BY <2>2, <2>4, <3>1, PaddedThenWritten
    <3>3. now = w
      BY <2>8
    <3> HIDE DEF w
    <3> QED BY <2>2, <2>3, <2>4, <2>8, <3>2, <3>3
  <2> QED BY <2>5, <2>6, <2>7, <2>8
<1> QED BY <1>1, FileInvInit, FileInvNext, PendingNext, PTL DEF Spec

\* A dav_truncate to zero that succeeds leaves an empty file with the mode it
\* had, although it deletes the file, makes a new one and sets its mode again.
THEOREM TruncationEmpties == Spec => []TruncateEmpties
<1>1. FileInv => TruncateEmpties
  BY Handler DEF TruncateEmpties, Ended, TruncInv
<1> QED BY <1>1, FileInvInit, FileInvNext, PendingNext, PTL DEF Spec

\* dav_mknod and dav_symlink fail and change nothing where there is a file
\* already, unless its HEAD was refused with 403 or an exception was pending when
\* they began; and dav_symlink removes the file when a request of its own fails.
THEOREM MknodNeverClobbers == Spec => []NoClobber
<1>1. FileInv => NoClobber
  <2> SUFFICES ASSUME FileInv, pc = "done", op.name \in {"mknod", "symlink"},
                      was[op.path] # NoFile, ~Misled
               PROVE  /\ res # 0
                      /\ \/ files = was
                         \/ /\ op.name = "symlink" /\ nfault > 0
                            /\ files = [was EXCEPT ![op.path] = NoFile]
    BY DEF NoClobber, Misled
  <2>1. (op.name = "mknod" /\ MknodInv) \/ (op.name = "symlink" /\ LinkInv)
    BY Handler
  <2>2. /\ res # 0 /\ OthersKept /\ op.path \in Paths
        /\ \/ files[op.path] = was[op.path]
           \/ op.name = "symlink" /\ nfault >= 1 /\ files[op.path] = NoFile
    BY <2>1 DEF MknodInv, LinkInv, Untouched
  <2>3. nfault \in Nat
    BY Bounds DEF FileInv, LocalsOK
  <2> QED BY <2>2, <2>3 DEF FileInv, FilesOK, OthersKept
<1> QED BY <1>1, FileInvInit, FileInvNext, PendingNext, PTL DEF Spec

\* With at most one failing request dav_symlink makes the whole link or none:
\* the request that fails is not also the one that removes what was made.
THEOREM SymlinksAreWhole == MaxFaults <= 1 => (Spec => []SymlinkAllOrNothing)
<1> SUFFICES ASSUME MaxFaults <= 1 PROVE Spec => []SymlinkAllOrNothing
  OBVIOUS
<1>1. FileInv => SymlinkAllOrNothing
  <2> SUFFICES ASSUME FileInv, pc = "done", op.name = "symlink", was[op.path] = NoFile
               PROVE  files[op.path] = IF res = 0 THEN [data |-> op.data, mode |-> "link"]
                                                  ELSE NoFile
    BY DEF SymlinkAllOrNothing, Ended
  <2>1. LinkInv
    BY Handler
  <2>2. ~(nfault >= 2)
    BY Bounds DEF FileInv, LocalsOK
  <2> QED BY <2>1, <2>2 DEF LinkInv, EIO, EEXIST
<1> QED BY <1>1, FileInvInit, FileInvNext, PendingNext, PTL DEF Spec

\* A dav_copy_file_range over the whole of a target that is not longer has made
\* it equal to the source, which it leaves alone.
THEOREM CopiesAreWhole == Spec => []CopyWhole
<1>1. FileInv => CopyWhole
  <2> SUFFICES ASSUME FileInv, pc = "done", op.name = "copy", op.off = 0, res = op.len,
                      Length(was[op.path]) <= op.len
               PROVE  files[op.path] = was[op.from] /\ files[op.from] = was[op.from]
    BY DEF CopyWhole, Ended
  <2>1. CopyInv
    BY Handler
  <2>2. op.from \in Paths \ {op.path} /\ OthersKept /\ op.len \in Nat
    BY <2>1 DEF CopyInv
  <2> QED BY <2>1, <2>2 DEF CopyInv, OthersKept, EIO, EOPNOTSUPP
<1> QED BY <1>1, FileInvInit, FileInvNext, PendingNext, PTL DEF Spec
============================================================================
