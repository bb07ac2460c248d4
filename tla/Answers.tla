------------------------------ MODULE Answers ------------------------------
(***************************************************************************)
(* How the requests of proto/dav/method.c turn the server's answer, which  *)
(* libcurl hands to callbacks in pieces of any size, into a result:        *)
(* dav_read over dav_get and dav_put over the Buffer of common/template/   *)
(* buffer.c and the range text of with_range, dav_head and the LOCK of     *)
(* __dav_lock over their header callbacks, dav_readdir and dav_getattr     *)
(* over dav_propfind and the push parser of proto/dav/parser.c.            *)
(*                                                                         *)
(* One request of one thread; what requests share is modelled elsewhere:   *)
(* the handle pool (CurlPool), the lock table and the exception a thread   *)
(* may still have pending from its last call (FileLocks, DavFile). With    *)
(* one pending, a request is not sent and fails as if it were lost, except *)
(* for dav_get, whose result is then never assigned (StaleGet).            *)
(*                                                                         *)
(* A token is a sequence of opaque parts and an href the first step below  *)
(* the directory. libcurl, libxml2 and the server are external.            *)
(***************************************************************************)
EXTENDS Integers, Sequences, SequencesExt

CONSTANTS
  MaxLen,   \* longest file
  Base,     \* base of the numbers in a range
  Digits,   \* digits the range text has room for, per number
  Requests, \* requests to try: records with a field kind
  Replies   \* for each request, the answers the server may give

ASSUME RangeAssumption == Base \in Nat \ {0, 1} /\ Digits \in Nat \ {0} /\ MaxLen \in Nat

\* Results that are no byte count. EIO stands for every error a handler returns.
EIO   == -5
CRASH == -99

VARIABLES
  req,   \* the request
  ans,   \* the answer
  left,  \* what of it libcurl has not yet handed over
  got,   \* what the callbacks have taken: bytes, header value, parsed parts
  fills, \* the calls of the filler of a listing
  pc, res

vars == <<req, ans, left, got, fills, pc, res>>

Finish(r) == pc' = "done" /\ res' = r

-----------------------------------------------------------------------------
(* with_range.                                                             *)

Dash == -1

\* "%zd" of a number.
Text[n \in Nat] == IF n < Base THEN <<n>> ELSE Append(Text[n \div Base], n % Base)

Value(s) ==
  LET v[i \in 0..Len(s)] == IF i = 0 THEN 0 ELSE v[i - 1] * Base + s[i]
  IN  v[Len(s)]

\* Mutant of RangeText: the buffer has room for one number.
RangeTextShort(off, size) ==
  LET full == Text[off] \o <<Dash>> \o Text[size + off - 1]
  IN  SubSeq(full, 1, IF Len(full) < Digits + 1 THEN Len(full) ELSE Digits + 1)

\* snprintf cuts the text at the size of its buffer.
RangeText(off, size) ==
  LET full == Text[off] \o <<Dash>> \o Text[size + off - 1]
  IN  SubSeq(full, 1, IF Len(full) < 2 * Digits + 1 THEN Len(full) ELSE 2 * Digits + 1)

\* What a server reads in it: without a last byte, up to the end.
RangeOf(t) ==
  LET dash == SelectInSeq(t, LAMBDA c : c = Dash)
  IN  [first |-> Value(SubSeq(t, 1, IF dash = 0 THEN Len(t) ELSE dash - 1)),
       last  |-> IF dash \in {0, Len(t)} THEN MaxLen
                 ELSE Value(SubSeq(t, dash + 1, Len(t)))]

-----------------------------------------------------------------------------
(* The server (external).                                                  *)

\* A file of n bytes, told apart by their position, and a part of it.
Part(n, first, last) == [i \in 1..(IF last < n THEN last ELSE n - 1) - first + 1 |-> first + i]

\* The answer to GET: a 416, or the bytes. A range that ends before it begins is
\* ignored or refused; some servers ignore all ranges.
GetBody(q, a) ==
  LET r == RangeOf(RangeText(q.off, q.size))
  IN  IF a.ranges = "none" \/ (r.last < r.first /\ a.invalid = "ignored")
      THEN Part(a.len, 0, a.len) ELSE Part(a.len, r.first, r.last)

Refused(q, a) ==
  LET r == RangeOf(RangeText(q.off, q.size))
  IN  /\ a.ranges = "honoured"
      /\ IF r.last < r.first THEN a.invalid = "416" ELSE r.first >= a.len

\* The parts of a listing: responses, its end tag, and text that is no XML.
End    == [href |-> "end", stats |-> <<>>]
Broken == [href |-> "broken", stats |-> <<>>]

Listing == {"readdir", "getattr"}
Kinds   == {"get", "put", "head", "lock"} \cup Listing

\* An off_t (19 digits) always fits into the range text (two numbers of 10).
ASSUME RequestAssumption ==
  \A q \in Requests :
    /\ q.kind \in Kinds
    /\ q.kind = "get" => q.stale \in BOOLEAN
    /\ q.kind \in {"get", "put"} =>
         q.off \in Nat /\ q.size \in Nat \ {0} /\ Len(Text[q.off]) <= 2 * Digits + 1

\* A Lock-Token line holds the token with or without '<' and '>'. The URL a listing
\* was in the end read from (redirections may add one) has a '/' at its end or not;
\* the end tag of a listing is its last part.
ASSUME ReplyAssumption ==
  /\ \A a \in Replies["get"] : a.len \in 0..MaxLen
  /\ \A a \in Replies["head"] :
       a.body \in Seq([name : STRING, value : {<<n>> : n \in 0..MaxLen}])
  /\ \A a \in Replies["lock"] :
       a.body \in Seq([name : STRING, value : {<<"<", "token", ">">>, <<"token">>}])
  /\ \A k \in Listing : \A a \in Replies[k] :
       /\ a.slash \in BOOLEAN
       /\ a.body \in Seq([href : STRING, stats : Seq(STRING)])
       /\ \A i \in 1..Len(a.body) : a.body[i] = End => i = Len(a.body)

TypeOK ==
  /\ pc \in {"body", "parsed", "done"}
  /\ res \in {EIO, CRASH} \cup 0..MaxLen
  /\ req.kind \in {"get", "put"} => Len(got) <= req.size

Init ==
  /\ req \in Requests
  /\ ans \in Replies[req.kind]
  /\ left = CASE req.kind = "get" -> GetBody(req, ans)
              [] req.kind = "put" -> <<>>
              [] OTHER -> ans.body
  /\ got = IF req.kind = "head" THEN <<0>> ELSE <<>>
  /\ fills = IF req.kind = "readdir" THEN <<"..">> ELSE <<>>
  /\ pc = "body" /\ res = 0

-----------------------------------------------------------------------------
(* dav_get: Buffer_append on the buffer of the caller.                     *)

\* Mutant of Room: the buffer grows.
RoomEndless == MaxLen

\* Buffer_resize leaves a buffer that is not extensible as it is.
Room == req.size - Len(got)

\* A piece of n bytes. Taking less than was offered makes libcurl fail.
BufferAppend(n) ==
  /\ got' = got \o SubSeq(left, 1, IF n < Room THEN n ELSE Room)
  /\ left' = SubSeq(left, n + 1, Len(left))
  /\ IF n > Room THEN Finish(EIO) ELSE UNCHANGED <<pc, res>>

\* With an exception pending the request is skipped together with the only
\* assignment to res: what dav_get returns is any number.
StaleGet ==
  /\ pc = "body" /\ req.kind = "get" /\ req.stale
  /\ \E r \in {EIO} \cup 0..MaxLen : Finish(r)
  /\ UNCHANGED <<req, ans, left, got, fills>>

Get ==
  /\ pc = "body" /\ req.kind = "get" /\ ~req.stale
  /\ IF Refused(req, ans) THEN Finish(0) /\ UNCHANGED <<got, left>>
     ELSE IF left = <<>> THEN Finish(Len(got)) /\ UNCHANGED <<got, left>>
     ELSE \E n \in 1..Len(left) : BufferAppend(n)
  /\ UNCHANGED <<req, ans, fills>>

-----------------------------------------------------------------------------
(* dav_put: Buffer_fetch.                                                  *)

\* Mutant of Fetched: the last piece is as long as libcurl asked for.
FetchedFull(n) == [i \in 1..n |-> Len(got) + i]

\* libcurl asks for n bytes and gets those that are left.
Fetched(n) ==
  [i \in 1..(IF Len(got) + n > req.size THEN req.size - Len(got) ELSE n) |-> Len(got) + i]

\* An upload that must start again (a redirection, an authentication) fails
\* once something was fetched, since libcurl cannot rewind the Buffer.
Put ==
  /\ pc = "body" /\ req.kind = "put"
  /\ \/ Len(got) < req.size /\ (\E n \in 1..MaxLen : got' = got \o Fetched(n)) /\ UNCHANGED <<pc, res>>
     \/ Len(got) >= req.size /\ Finish(0) /\ UNCHANGED got
     \/ ans.again /\ got # <<>> /\ Finish(EIO) /\ UNCHANGED got
  /\ UNCHANGED <<req, ans, left, fills>>

-----------------------------------------------------------------------------
(* The header callbacks, once per line, those of redirections included.    *)

\* Mutant of HeadCallback: the first line is kept.
HeadCallbackFirst(line) ==
  IF line.name = "Content-Length" /\ got = <<0>> THEN line.value ELSE got

\* __dav_head_callback knows one spelling; the last line counts.
HeadCallback(line) == IF line.name = "Content-Length" THEN line.value ELSE got

\* Without the '<' and '>' some servers leave out.
Stripped(v) == IF v[1] = "<" THEN SubSeq(v, 2, Len(v) - 1) ELSE v

\* __dav_lock_callback: the first line counts.
LockCallback(line) == IF line.name = "Lock-Token" /\ got = <<>> THEN Stripped(line.value) ELSE got

Header ==
  /\ pc = "body" /\ req.kind \in {"head", "lock"} /\ left # <<>>
  /\ got' = IF req.kind = "head" THEN HeadCallback(Head(left)) ELSE LockCallback(Head(left))
  /\ left' = Tail(left)
  /\ UNCHANGED <<req, ans, fills, pc, res>>

HeadDone ==
  /\ pc = "body" /\ req.kind = "head" /\ left = <<>>
  /\ Finish(got[1])
  /\ UNCHANGED <<req, ans, left, got, fills>>

\* Mutant of LockVerdict: the body is not compared.
LockVerdictBlind == IF got = <<>> THEN EIO ELSE 0

\* The body of the LOCK answer: absent, not well-formed, without lockdiscovery
\* (then nothing is compared), with its parts missing or in another order, with
\* an href that is empty (and read through a null pointer), or with one that is
\* compared, as far as the token goes.
LockVerdict ==
  CASE got = <<>> -> EIO
    [] got # <<>> /\ ans.xml \in {"absent", "emptyhref"} -> CRASH
    [] got # <<>> /\ ans.xml = "nodiscovery" -> 0
    [] got # <<>> /\ ans.xml = "href" -> IF IsPrefix(got, ans.href) THEN 0 ELSE EIO
    [] OTHER -> EIO

\* What __dav_lock returns is got, unless it deletes it for an error.
LockDone ==
  /\ pc = "body" /\ req.kind = "lock" /\ left = <<>>
  /\ Finish(LockVerdict)
  /\ got' = IF LockVerdict = 0 THEN got ELSE <<>>
  /\ UNCHANGED <<req, ans, left, fills>>

-----------------------------------------------------------------------------
(* dav_propfind.                                                           *)

\* curl_parse_xml: the first piece makes the parser; in a later one, what is no
\* XML is noticed and makes libcurl fail.
ParseChunk ==
  /\ pc = "body" /\ req.kind \in Listing /\ left # <<>>
  /\ \E n \in 1..Len(left) :
       LET piece == SubSeq(left, 1, n) IN
       IF got # <<>> /\ Contains(piece, Broken) THEN Finish(EIO) /\ UNCHANGED <<got, left>>
       ELSE /\ got' = got \o piece
            /\ left' = SubSeq(left, n + 1, Len(left))
            /\ UNCHANGED <<pc, res>>
  /\ UNCHANGED <<req, ans, fills>>

WellFormed == Last(got) = End /\ ~Contains(got, Broken)

\* Mutant of ParseDone: wellFormed is not looked at.
ParseDoneTrusting ==
  /\ pc = "body" /\ req.kind \in Listing /\ left = <<>>
  /\ IF ans.code # 207 THEN Finish(0) /\ UNCHANGED got
     ELSE /\ pc' = "parsed"
          /\ got' = SelectSeq(got, LAMBDA p : p \notin {End, Broken})
          /\ UNCHANGED res
  /\ UNCHANGED <<req, ans, left, fills>>

\* A 207 without any body has no parser to ask. Another code than 207 ends the
\* request successfully.
ParseDone ==
  /\ pc = "body" /\ req.kind \in Listing /\ left = <<>>
  /\ CASE ans.code # 207 -> Finish(0) /\ UNCHANGED got
       [] ans.code = 207 /\ got = <<>> -> Finish(CRASH) /\ UNCHANGED got
       [] ans.code = 207 /\ got # <<>> /\ ~WellFormed -> Finish(EIO) /\ UNCHANGED got
       [] OTHER -> pc' = "parsed" /\ got' = Front(got) /\ UNCHANGED res
  /\ UNCHANGED <<req, ans, left, fills>>

\* The first propstat with status 200; "empty" is one with an empty property.
Usable(r) == SelectInSeq(r.stats, LAMBDA s : s \in {"200", "empty"})

\* A propstat before it that has no status, an empty property in it, and then an
\* empty href are read through a null pointer. Nothing is looked at unless there
\* was an href.
Crashes(r) ==
  /\ r.href # "none"
  /\ \/ \E k \in DOMAIN r.stats : r.stats[k] = "nostatus" /\ (Usable(r) = 0 \/ k < Usable(r))
     \/ Usable(r) # 0 /\ (r.stats[Usable(r)] = "empty" \/ r.href = "empty")

\* The name in the listing: what follows the URL in the href, up to the first '/',
\* or "." if that is nothing, as it is for every href when the URL has no '/' at
\* its end. An href that does not begin with the URL is left out.
Name(r, slash) == CASE r.href = "foreign" -> <<>>
                    [] r.href = "self" \/ (r.href # "foreign" /\ ~slash) -> <<".">>
                    [] OTHER -> <<r.href>>

Response ==
  /\ pc = "parsed"
  /\ IF got = <<>> THEN Finish(0) /\ UNCHANGED <<got, fills>>
     ELSE LET r == Head(got) IN
          CASE Crashes(r) -> Finish(CRASH) /\ UNCHANGED <<got, fills>>
            [] ~Crashes(r) /\ (r.href = "none" \/ Usable(r) = 0) ->
                 Finish(EIO) /\ UNCHANGED <<got, fills>>
            [] OTHER -> fills' = fills \o Name(r, ans.slash) /\ got' = Tail(got) /\ UNCHANGED <<pc, res>>
  /\ UNCHANGED <<req, ans, left>>

\* The connection is lost, or the server reports an error. libcurl notices a
\* body that is too short, unless only its end tells how long it is.
Lost ==
  /\ pc = "body"
  /\ \/ Finish(EIO) /\ got' = <<>> /\ UNCHANGED left
     \/ req.kind \in Listing /\ left # <<>> /\ left' = <<>> /\ UNCHANGED <<got, pc, res>>
  /\ UNCHANGED <<req, ans, fills>>

Done == pc = "done" /\ UNCHANGED vars

Next ==
  \/ Get \/ StaleGet \/ Put \/ Header \/ HeadDone \/ LockDone
  \/ ParseChunk \/ ParseDone \/ Response \/ Lost \/ Done

Spec == Init /\ [][Next]_vars

-----------------------------------------------------------------------------
(* Properties.                                                             *)

Succeeded(kinds) == pc = "done" /\ req.kind \in kinds /\ res >= 0

\* dav_read returns the bytes of the file at its offset, as many as there are,
\* however the answer was cut, if the server honours ranges, both ends of the
\* range have at most Digits digits and no exception was pending.
ReadExact ==
  Succeeded({"get"}) /\ ans.ranges = "honoured" /\ ~req.stale
      /\ Len(Text[req.off]) <= Digits /\ Len(Text[req.size + req.off - 1]) <= Digits =>
    /\ res = Len(got)
    /\ got = IF req.off < ans.len THEN Part(ans.len, req.off, req.off + req.size - 1) ELSE <<>>

\* With longer numbers, no server that honours ranges makes it return wrong bytes
\* as long as the file is longer than the buffer and no exception was pending;
\* what it returns may be too short.
ReadNeverWrong ==
  Succeeded({"get"}) /\ ans.ranges = "honoured" /\ ~req.stale /\ ans.len > req.size =>
    /\ res = Len(got)
    /\ \A i \in DOMAIN got : got[i] = req.off + i

\* dav_put sends exactly the bytes it was given, however libcurl asks for them,
\* and the range tells where they go, also where its second number is cut.
PutExact ==
  Succeeded({"put"}) =>
    /\ got = [i \in 1..req.size |-> i]
    /\ RangeOf(RangeText(req.off, req.size)).first = req.off

\* After any redirections dav_head returns the length in the last answer, if
\* that says it in the spelling the callback knows.
HeadExact ==
  Succeeded({"head"}) /\ ans.body # <<>> /\ Last(ans.body).name = "Content-Length" =>
    res = Last(ans.body).value[1]

\* __dav_lock returns the bare token of the header line, and never one with which
\* the href in the body does not at least begin; only an answer without body or
\* with an empty href stops the program.
TokenExact ==
  pc = "done" /\ req.kind = "lock" =>
    /\ got # <<>> => got = <<"token">> /\ (ans.xml = "href" => IsPrefix(got, ans.href))
    /\ res = CRASH => ans.xml \in {"absent", "emptyhref"}

\* A listing that succeeds has an entry for every response under the URL, in order
\* and whatever the pieces; one that was cut off fails. The entries have their own
\* names if the URL the listing was read from ends in '/'; otherwise all are ".".
ListingExact ==
  Succeeded({"readdir"}) /\ ans.code = 207 =>
    fills = <<"..">> \o FlattenSeq([i \in 1..Len(ans.body) - 1 |->
              IF ans.body[i].href = "foreign" THEN <<>>
              ELSE IF ans.slash /\ ans.body[i].href # "self" THEN <<ans.body[i].href>>
              ELSE <<".">>])

\* dav_getattr returns success without having filled in the attributes only if
\* the answer was no 207 or had no response under the URL it was asked for.
GetattrFilled ==
  Succeeded({"getattr"}) /\ fills = <<>> =>
    \/ ans.code # 207
    \/ \A i \in 1..Len(ans.body) - 1 : ans.body[i].href = "foreign"
=============================================================================
