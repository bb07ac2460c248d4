--------------------------- MODULE StartupProofs ---------------------------
(***************************************************************************)
(* The properties of Startup are proved for every set of arguments and any *)
(* number of them. Their common invariant, StartupInv, relates what main   *)
(* has in its variables to the options fuse_opt_parse has done so far,     *)
(* Done: while the command line is read, a value is that of the last       *)
(* option done (ReadInv), and a flag that is off although it was set was   *)
(* cleared by the store of a later option (HideInv, LockInv). When all is  *)
(* read, Done is everything that was given, and LateInv, SchemeInv and     *)
(* BaseInv carry the choice through combine_url, main and dav_getoper to   *)
(* the server. What ps shows is the text of the command line or that text  *)
(* masked (ShownInv); the last sections say what a mask leaves of a text,  *)
(* and that the text of an argument without a separator in its password is *)
(* of a form it covers.                                                    *)
(***************************************************************************)
EXTENDS Startup, Recursion

-----------------------------------------------------------------------------
(* The inductive invariant.                                                *)

\* The options of these names that fuse_opt_parse has done.
Done(names) == {p \in Given(names) : Before(p, <<next, sub + 1>>)}

\* The value of the last option of a set, else the default.
LastOf(G, default) ==
  IF G = {} THEN {default}
  ELSE {OptionAt(p).value : p \in {p \in G : \A q \in G : ~Before(p, q)}}

\* While the command line is read, each value is that of the last option done,
\* and the URL is the first plain argument.
ReadInv ==
  pc \in {"parse", "combine"} =>
    /\ opt.user \in LastOf(Done({"user", "username"}), <<>>)
    /\ opt.password \in LastOf(Done({"password"}), <<>>)
    /\ \E v \in LastOf(Done({"scheme"}), <<"">>) : opt.scheme = v[1]
    /\ opt.ssl = (Done(SslOptions) # {})
    /\ url = None => \A i \in 1..next - 1 : argv[i].kind # "arg"
    /\ url # None => \E u \in 1..next - 1 : IsUrl(u) /\ url = ParsedUrl(argv[u])
    /\ pc = "combine" => url # None

\* A flag that was lost was lost to a later option.
HideInv ==
  ~opt.flags["hide_password"] =>
    \E p \in Done({"no_hide_password"} \cup Timeouts) :
      \A q \in Done({"hide_password"}) : Before(q, p)

LockInv ==
  ~opt.flags["use_lock"] /\ Done({"use_lock"}) # {} =>
    \E q \in Done({"proxytunnel"}) : \A p \in Done({"use_lock"}) : Before(p, q)

\* The states after combine_url; fuse_main is also called for its help.
Late ==
  \/ pc \in {"hide", "scheme", "proto", "addargs", "probe", "options", "serving"}
  \/ pc = "fuse" /\ <<"-h">> \notin fargs

\* The user and the password, and what is left of them in the URL u.
Credentials(u) ==
  /\ opt.user \in Settled({"user", "username"}, Copied("user", argv[u].user))
  /\ opt.password \in Settled({"password"}, Copied("password", argv[u].password))
  /\ Given({"user", "username"}) = {} => url.user = <<>>
  /\ Given({"password"}) = {} => url.password = <<>>

\* From there on the whole command line is read and the credentials are settled.
LateInv ==
  Late => /\ next = Len(argv) + 1
          /\ \E u \in DOMAIN argv : IsUrl(u) /\ Credentials(u)

\* Whether https was asked for.
Secure(scheme) == Given(SslOptions) # {} \/ scheme \in DOMAIN Secures

\* The scheme of the URL on its way through main; without one, an option gave it or
\* its copy failed.
SchemeInv ==
  /\ pc \in {"hide", "scheme"} =>
       /\ opt.ssl = (Given(SslOptions) # {})
       /\ opt.scheme = "" => \/ "scheme" \in met
                             \/ \E v \in Settled({"scheme"}, <<"">>) : v[1] \in CurlSchemes
       /\ opt.scheme # "" =>
            \E u \in DOMAIN argv : IsUrl(u) /\ opt.scheme = ParsedUrl(argv[u]).scheme
  /\ pc = "proto" =>
       \E u \in DOMAIN argv :
         LET scheme == ParsedUrl(argv[u]).scheme
         IN  /\ IsUrl(u)
             /\ opt.ssl = Secure(scheme)
             /\ opt.scheme = IF scheme \in DOMAIN Secures THEN Secures[scheme] ELSE scheme

\* The scheme of the server, until it redirects.
BaseInv ==
  /\ pc \in {"parse", "combine", "hide", "scheme", "proto"} => base = "none"
  /\ pc \in {"probe", "options"} => base # "none" /\ <<"arg">> \in fargs
  /\ pc \in {"addargs", "fuse", "probe", "options"} /\ ~redir /\ base # "none" =>
       \E u \in DOMAIN argv :
         /\ IsUrl(u) /\ argv[u].scheme \in {"dav", "davs"}
         /\ base = IF argv[u].scheme = "davs" \/ Given(SslOptions) # {} THEN "https" ELSE "http"

\* What ps shows: the command line, or the command line masked.
Plain == [i \in DOMAIN argv |-> Text(argv[i])]

\* The same after replace_password.
MaskedPlain ==
  [i \in DOMAIN argv |->
     IF i \in Scanned /\ argv[i].kind = "-o" THEN MaskGroup(Plain[i])
     ELSE IF i \in Scanned /\ IsUrl(i) THEN MaskUrl(Plain[i]) ELSE Plain[i]]

\* Either all of it is masked or none.
ShownInv ==
  /\ shown \in {Plain, MaskedPlain}
  /\ pc \in {"parse", "combine", "hide"} => shown = Plain
  /\ Late /\ pc # "hide" =>
       \/ shown = Plain /\ (~opt.flags["hide_password"] \/ opt.password = <<>>)
       \/ shown = MaskedPlain /\ \A i \in Scanned : ~NullValue(argv[i])

\* The fields of struct _networkfs_opts.
OptFields == {"flags", "scheme", "port", "user", "password", "ssl", "auth"}

TypedArgv == argv \in Seq(Args \cup {Mountpoint})

\* Types.
Shape ==
  /\ TypedArgv
  /\ next \in 1..Len(argv) + 1 /\ sub \in Nat
  /\ sub > 0 => next <= Len(argv) /\ argv[next].kind = "-o" /\ sub < Len(argv[next].subs)
  /\ DOMAIN opt = OptFields
  /\ opt.flags \in [Flags -> BOOLEAN]
  /\ base \in {"none", "http", "https"}
  /\ met \subseteq {"scheme", "user", "password", "server"}
  /\ pc \in {"parse", "combine"} => met = {}
  /\ pc \in {"parse", "combine", "hide", "scheme", "proto", "addargs", "fuse", "probe",
             "options", "serving", "cleanup", "exit", "crash"}
  /\ ret \in 0..1
  /\ pc = "combine" => next = Len(argv) + 1

StartupInv ==
  /\ Shape
  /\ ReadInv /\ HideInv /\ LockInv /\ LateInv /\ SchemeInv /\ BaseInv /\ ShownInv
  /\ CrashCauses

-----------------------------------------------------------------------------
(* The arguments and the positions of their options.                       *)

Words == STRING

\* The options of a group are names with values.
TypedSubs(a) == a.subs \in Seq([name : Words, value : Seq(Words)])

\* What an argument is made of.
LEMMA ArgFacts ==
  ASSUME NEW a \in Args \cup {Mountpoint}
  PROVE  /\ a.kind \in {"-h", "-V", "--", "arg", "-o"}
         /\ a.kind = "arg" =>
              /\ a.user \in Seq(Words) /\ a.password \in Seq(Words)
              /\ "@" \notin {a.scheme} \cup ToSet(a.user) \cup ToSet(a.password)
              /\ Secrets \cap ({a.scheme} \cup ToSet(a.user)) = {}
         /\ a.kind = "-o" =>
              /\ TypedSubs(a) /\ a.subs # <<>>
              /\ \A s \in ToSet(a.subs) :
                   /\ s.name \notin Secrets /\ ToSet(s.value) \cap {"", "password"} = {}
                   /\ s.name # "password" => ToSet(s.value) \cap Secrets = {}
<1>1. CASE a \in Args
  <2>1. \/ a \in [kind : {"-h", "-V", "--"}]
        \/ /\ a \in [kind : {"arg"}, scheme : Words, user : Seq(Words), password : Seq(Words)]
           /\ "@" \notin {a.scheme} \cup ToSet(a.user) \cup ToSet(a.password)
           /\ Secrets \cap ({a.scheme} \cup ToSet(a.user)) = {}
        \/ /\ a \in [kind : {"-o"}, subs : Seq([name : Words, value : Seq(Words)])]
           /\ a.subs # <<>>
           /\ \A s \in ToSet(a.subs) :
                /\ s.name \notin Secrets /\ ToSet(s.value) \cap {"", "password"} = {}
                /\ s.name # "password" => ToSet(s.value) \cap Secrets = {}
    BY <1>1, ArgsAssumption DEF Words
  <2> QED BY <2>1 DEF TypedSubs
<1>2. CASE a = Mountpoint
  <2>1. a.kind = "arg" /\ a.scheme = "" /\ a.user = <<>> /\ a.password = <<>>
    BY <1>2 DEF Mountpoint, Url
  <2>2. ToSet(<<>>) = {}
    BY DEF ToSet
  <2>3. <<>> \in Seq(Words)
    OBVIOUS
  <2> QED BY <2>1, <2>2, <2>3, SecretsAssumption
<1> QED BY <1>1, <1>2

\* A position is the place of an option in a group.
LEMMA PositionFacts ==
  ASSUME TypedArgv
  PROVE  /\ \A p \in Positions :
              /\ p = <<p[1], p[2]>>
              /\ p[1] \in 1..Len(argv) /\ argv[p[1]].kind = "-o"
              /\ p[2] \in 1..Len(argv[p[1]].subs)
              /\ p[1] \in Nat /\ p[2] \in Nat
         /\ \A i \in 1..Len(argv) : \A k \in 1..Len(argv[i].subs) :
              argv[i].kind = "-o" => <<i, k>> \in Positions
<1>1. Len(argv) \in Nat /\ DOMAIN argv = 1..Len(argv)
  BY LenProperties DEF TypedArgv
<1>2. ASSUME NEW i \in 1..Len(argv), argv[i].kind = "-o"
      PROVE  DOMAIN argv[i].subs = 1..Len(argv[i].subs) /\ Len(argv[i].subs) \in Nat
  <2>1. argv[i] \in Args \cup {Mountpoint}
    BY <1>1 DEF TypedArgv
  <2>2. TypedSubs(argv[i])
    BY <1>2, <2>1, ArgFacts
  <2> QED BY <2>2, LenProperties DEF TypedSubs
<1>3. ASSUME NEW p \in Positions
      PROVE  /\ p = <<p[1], p[2]>>
             /\ p[1] \in 1..Len(argv) /\ argv[p[1]].kind = "-o"
             /\ p[2] \in 1..Len(argv[p[1]].subs)
             /\ p[1] \in Nat /\ p[2] \in Nat
  <2>1. PICK i \in DOMAIN argv : argv[i].kind = "-o" /\ p \in {i} \X DOMAIN argv[i].subs
    BY DEF Positions
  <2>2. p = <<p[1], p[2]>> /\ p[1] = i /\ p[2] \in DOMAIN argv[i].subs
    BY <2>1
  <2>3. p[2] \in 1..Len(argv[i].subs) /\ Len(argv[i].subs) \in Nat
    BY <1>1, <1>2, <2>1, <2>2
  <2>4. p[2] \in Nat
    BY <2>3
  <2> QED BY <1>1, <2>1, <2>2, <2>3, <2>4
<1>4. ASSUME NEW i \in 1..Len(argv), NEW k \in 1..Len(argv[i].subs), argv[i].kind = "-o"
      PROVE  <<i, k>> \in Positions
  <2>1. i \in DOMAIN argv /\ <<i, k>> \in {i} \X DOMAIN argv[i].subs
    BY <1>1, <1>2, <1>4
  <2> QED BY <1>4, <2>1 DEF Positions
<1> QED BY <1>3, <1>4

\* The command line never changes, and so nothing that is said of it alone.
LEMMA Kept ==
  ASSUME argv' = argv
  PROVE  /\ Positions' = Positions
         /\ \A p : OptionAt(p)' = OptionAt(p)
         /\ \A names : Given(names)' = Given(names)
         /\ \A names, d : Settled(names, d)' = Settled(names, d)
         /\ \A u : IsUrl(u)' = IsUrl(u)
         /\ Scanned' = Scanned /\ Plain' = Plain /\ MaskedPlain' = MaskedPlain
<1>1. Positions' = Positions
  BY DEF Positions
<1>2. \A p : OptionAt(p)' = OptionAt(p)
  BY DEF OptionAt
<1>3. \A names : Given(names)' = Given(names)
  BY <1>1, <1>2 DEF Given
<1>4. \A names, d : Settled(names, d)' = Settled(names, d)
  BY <1>2, <1>3 DEF Settled
<1>5. \A u : IsUrl(u)' = IsUrl(u)
  BY DEF IsUrl
<1>6. Scanned' = Scanned /\ Plain' = Plain
  BY DEF Scanned, Plain
<1>7. MaskedPlain' = MaskedPlain
  BY <1>5, <1>6 DEF MaskedPlain
<1> QED BY <1>1, <1>2, <1>3, <1>4, <1>5, <1>6, <1>7

\* A step of main outside fuse_opt_parse does no option.
LEMMA KeptDone ==
  ASSUME argv' = argv
  PROVE  /\ \A names : Done(names)' = {p \in Given(names) : Before(p, <<next', sub' + 1>>)}
         /\ \A names, d : LastOf(Done(names), d)' = LastOf(Done(names)', d)
         /\ next' = next /\ sub' = sub => \A names : Done(names)' = Done(names)
<1>1. \A names : Done(names)' = {p \in Given(names) : Before(p, <<next', sub' + 1>>)}
  BY Kept DEF Done, Before
<1>2. \A names, d : LastOf(Done(names), d)' = LastOf(Done(names)', d)
  BY Kept DEF LastOf, Before
<1>3. next' = next /\ sub' = sub => \A names : Done(names)' = Done(names)
  BY <1>1 DEF Done
<1> QED BY <1>1, <1>2, <1>3

\* An option that is done now is the last one done.
LEMMA DoneNext ==
  ASSUME TypedArgv, argv' = argv, next \in 1..Len(argv), sub \in Nat,
         argv[next].kind = "-o", sub < Len(argv[next].subs),
         IF sub + 1 < Len(argv[next].subs) THEN sub' = sub + 1 /\ next' = next
         ELSE sub' = 0 /\ next' = next + 1
  PROVE  /\ <<next, sub + 1>> \in Positions
         /\ \A names : \A p \in Done(names) :
              /\ Before(p, <<next, sub + 1>>) /\ ~Before(<<next, sub + 1>>, p)
              /\ p # <<next, sub + 1>>
         /\ \A names :
              Done(names)' = Done(names) \cup ({<<next, sub + 1>>} \cap Given(names))
<1> DEFINE c == <<next, sub + 1>>
<1>0. Len(argv) \in Nat /\ next \in Nat
  BY DEF TypedArgv
<1>1. Len(argv[next].subs) \in Nat
  <2>1. argv[next] \in Args \cup {Mountpoint}
    BY DEF TypedArgv
  <2>2. TypedSubs(argv[next])
    BY <2>1, ArgFacts
  <2> QED BY <2>2, LenProperties DEF TypedSubs
<1>2. sub + 1 \in 1..Len(argv[next].subs)
  BY <1>1
<1>3. c \in Positions
  BY <1>2, PositionFacts
<1>4. ASSUME NEW names, NEW p \in Done(names)
      PROVE  Before(p, c) /\ ~Before(c, p) /\ p # c
  <2>1. p \in Positions /\ Before(p, c)
    BY DEF Done, Given
  <2>2. p[1] \in Nat /\ p[2] \in Nat
    BY <2>1, PositionFacts
  <2> QED BY <1>0, <2>1, <2>2 DEF Before
<1>5. ASSUME NEW names, NEW p \in Given(names)
      PROVE  Before(p, <<next', sub' + 1>>) <=> Before(p, c) \/ p = c
  <2>1. p \in Positions
    BY DEF Given
  <2>2. /\ p = <<p[1], p[2]>> /\ p[1] \in Nat /\ p[2] \in Nat
        /\ p[2] \in 1..Len(argv[p[1]].subs)
    BY <2>1, PositionFacts
  <2>3. p = c <=> p[1] = next /\ p[2] = sub + 1
    BY <2>2
  <2>4. CASE sub + 1 < Len(argv[next].subs)
    BY <1>0, <2>2, <2>3, <2>4 DEF Before
  <2>5. CASE ~(sub + 1 < Len(argv[next].subs))
    <3>1. sub' = 0 /\ next' = next + 1 /\ Len(argv[next].subs) = sub + 1
      BY <1>1, <2>5
    <3>2. Before(p, <<next', sub' + 1>>) <=> p[1] <= next
      <4>1. p[2] >= 1
        BY <2>2
      <4> QED BY <1>0, <2>2, <3>1, <4>1 DEF Before
    <3>3. p[1] = next => p[2] <= sub + 1
      BY <2>2, <3>1
    <3> QED BY <1>0, <2>2, <2>3, <3>2, <3>3 DEF Before
  <2> QED BY <2>4, <2>5
<1>6. ASSUME NEW names
      PROVE  Done(names)' = Done(names) \cup ({c} \cap Given(names))
  BY <1>5, KeptDone DEF Done
<1> QED BY <1>3, <1>4, <1>6

\* Passing an argument that is not a group does no option.
LEMMA DoneSkip ==
  ASSUME TypedArgv, argv' = argv, next \in 1..Len(argv), sub = 0,
         argv[next].kind # "-o", next' = next + 1, sub' = sub
  PROVE  \A names : Done(names)' = Done(names)
<1>0. next \in Nat
  BY DEF TypedArgv
<1>1. ASSUME NEW names, NEW p \in Given(names)
      PROVE  Before(p, <<next', sub' + 1>>) <=> Before(p, <<next, sub + 1>>)
  <2>1. p \in Positions
    BY DEF Given
  <2>2. p[1] \in Nat /\ p[2] \in Nat /\ p[1] # next /\ p[2] >= 1
    BY <2>1, PositionFacts
  <2> QED BY <1>0, <2>2 DEF Before
<1> QED BY <1>1, KeptDone DEF Done

\* When the whole command line is read, all options are done.
LEMMA DoneAll ==
  ASSUME TypedArgv, next = Len(argv) + 1
  PROVE  /\ \A names : Done(names) = Given(names)
         /\ \A names, d : LastOf(Done(names), d) = Settled(names, d)
<1>0. Len(argv) \in Nat
  BY DEF TypedArgv
<1>1. ASSUME NEW names, NEW p \in Given(names)
      PROVE  Before(p, <<next, sub + 1>>)
  <2>1. p \in Positions
    BY DEF Given
  <2>2. p[1] \in 1..Len(argv)
    BY <2>1, PositionFacts
  <2> QED BY <1>0, <2>2 DEF Before
<1>2. \A names : Done(names) = Given(names)
  BY <1>1 DEF Done
<1>3. ASSUME NEW names, NEW d PROVE LastOf(Done(names), d) = Settled(names, d)
  BY <1>2 DEF LastOf, Settled
<1> QED BY <1>2, <1>3

\* The last option done is the last one.
LEMMA LastAdd ==
  ASSUME NEW G, NEW c, NEW d, \A p \in G : Before(p, c) /\ ~Before(c, p), ~Before(c, c)
  PROVE  LastOf(G \cup {c}, d) = {OptionAt(c).value}
BY DEF LastOf

-----------------------------------------------------------------------------
(* What one option does.                                                   *)

OptionNames ==
  {"hide_password", "no_hide_password", "use_lock", "set_uid", "set_gid", "entry_timeout",
   "negative_timeout", "attr_timeout", "proxytunnel", "proxy_anyauth", "proxy_basic",
   "proxy_digest", "proxy_ntlm", "no_verify_hostname", "no_verify_peer"}

\* The table of the flag options.
LEMMA SpecTable ==
  /\ DOMAIN OptionSpec = OptionNames
  /\ \A n \in OptionNames :
       /\ OptionSpec[n][1] \in Flags /\ OptionSpec[n][2] \in BOOLEAN
       /\ OptionSpec[n][2] <=> n # "no_hide_password"
       /\ OptionSpec[n][1] = "hide_password" <=> n \in {"hide_password", "no_hide_password"}
       /\ OptionSpec[n][1] = "use_lock" <=> n = "use_lock"
       /\ OptionSpec[n][1] = "proxytunnel" <=> n = "proxytunnel"
       /\ OptionSpec[n][1] \in {"entry_timeout_set", "negative_timeout_set", "attr_timeout_set"}
            <=> n \in Timeouts
<1>1. DOMAIN OptionSpec = OptionNames
  BY DEF OptionSpec, OptionNames
<1>2. /\ OptionSpec["hide_password"][2] = TRUE /\ OptionSpec["no_hide_password"][2] = FALSE
      /\ OptionSpec["use_lock"][2] = TRUE /\ OptionSpec["set_uid"][2] = TRUE
      /\ OptionSpec["set_gid"][2] = TRUE /\ OptionSpec["entry_timeout"][2] = TRUE
      /\ OptionSpec["negative_timeout"][2] = TRUE /\ OptionSpec["attr_timeout"][2] = TRUE
      /\ OptionSpec["proxytunnel"][2] = TRUE /\ OptionSpec["proxy_anyauth"][2] = TRUE
      /\ OptionSpec["proxy_basic"][2] = TRUE /\ OptionSpec["proxy_digest"][2] = TRUE
      /\ OptionSpec["proxy_ntlm"][2] = TRUE /\ OptionSpec["no_verify_hostname"][2] = TRUE
      /\ OptionSpec["no_verify_peer"][2] = TRUE
  BY DEF OptionSpec
<1>3. \A n \in OptionNames : n # "no_hide_password" => OptionSpec[n][2] = TRUE
  BY <1>2 DEF OptionNames
<1>4. \A n \in OptionNames :
        OptionSpec[n][2] \in BOOLEAN /\ (OptionSpec[n][2] <=> n # "no_hide_password")
  BY <1>2, <1>3
<1>5. \A n \in OptionNames :
        /\ OptionSpec[n][1] \in Flags
        /\ OptionSpec[n][1] = "hide_password" <=> n \in {"hide_password", "no_hide_password"}
  BY DEF OptionSpec, OptionNames, Flags, Offset
<1>6. \A n \in OptionNames :
        /\ OptionSpec[n][1] = "use_lock" <=> n = "use_lock"
        /\ OptionSpec[n][1] = "proxytunnel" <=> n = "proxytunnel"
  BY DEF OptionSpec, OptionNames
<1>7. \A n \in OptionNames :
        OptionSpec[n][1] \in {"entry_timeout_set", "negative_timeout_set", "attr_timeout_set"}
          <=> n \in Timeouts
  BY DEF OptionSpec, OptionNames, Timeouts
<1> QED BY <1>1, <1>4, <1>5, <1>6, <1>7

\* Where hide_password and use_lock are, and what is less than an int before them.
LEMMA OffsetTable ==
  /\ "hide_password" \in Flags /\ "use_lock" \in Flags
  /\ \A f \in Flags :
       /\ Offset["hide_password"] \in Offset[f] + 1 .. Offset[f] + 3
            <=> f \in {"entry_timeout_set", "negative_timeout_set", "attr_timeout_set"}
       /\ Offset["use_lock"] \in Offset[f] + 1 .. Offset[f] + 3 <=> f = "proxytunnel"
BY DEF Flags, Offset

\* A store as the flags see it.
LEMMA StoreAt ==
  ASSUME NEW flags \in [Flags -> BOOLEAN], NEW f, NEW v \in BOOLEAN
  PROVE  /\ Store(flags, f, v) \in [Flags -> BOOLEAN]
         /\ \A g \in Flags :
              Store(flags, f, v)[g] <=>
                \/ g = f /\ v
                \/ g # f /\ Offset[g] \notin Offset[f] + 1 .. Offset[f] + 3 /\ flags[g]
BY DEF Store

\* hide_password is set by its option, and cleared by the one against it and by
\* the timeouts, whose flags are in the three bytes before it. use_lock is set by
\* its option and cleared by proxytunnel, one byte before it.
LEMMA StoreOption ==
  ASSUME NEW flags \in [Flags -> BOOLEAN], NEW n \in DOMAIN OptionSpec
  PROVE  LET after == Store(flags, OptionSpec[n][1], OptionSpec[n][2])
         IN  /\ after \in [Flags -> BOOLEAN]
             /\ after["hide_password"] <=>
                  \/ n = "hide_password"
                  \/ n \notin {"no_hide_password"} \cup Timeouts /\ flags["hide_password"]
             /\ after["use_lock"] <=>
                  n = "use_lock" \/ (n # "proxytunnel" /\ flags["use_lock"])
<1> DEFINE f == OptionSpec[n][1]
           v == OptionSpec[n][2]
<1>1. n \in OptionNames /\ f \in Flags /\ v \in BOOLEAN
  BY SpecTable
<1>2. /\ v <=> n # "no_hide_password"
      /\ f = "hide_password" <=> n \in {"hide_password", "no_hide_password"}
      /\ f = "use_lock" <=> n = "use_lock"
      /\ f = "proxytunnel" <=> n = "proxytunnel"
      /\ f \in {"entry_timeout_set", "negative_timeout_set", "attr_timeout_set"}
           <=> n \in Timeouts
  BY <1>1, SpecTable
<1> HIDE DEF f, v
<1>3. Store(flags, f, v) \in [Flags -> BOOLEAN]
  BY <1>1, StoreAt
<1>4. Store(flags, f, v)["hide_password"] <=>
        \/ f = "hide_password" /\ v
        \/ /\ f # "hide_password" /\ flags["hide_password"]
           /\ f \notin {"entry_timeout_set", "negative_timeout_set", "attr_timeout_set"}
  BY <1>1, StoreAt, OffsetTable
<1>5. Store(flags, f, v)["use_lock"] <=>
        (f = "use_lock" /\ v) \/ (f # "use_lock" /\ f # "proxytunnel" /\ flags["use_lock"])
  BY <1>1, StoreAt, OffsetTable
<1>6. Store(flags, f, v)["hide_password"] <=>
        \/ n = "hide_password"
        \/ n \notin {"no_hide_password"} \cup Timeouts /\ flags["hide_password"]
  BY <1>2, <1>4 DEF Timeouts
<1>7. Store(flags, f, v)["use_lock"] <=>
        n = "use_lock" \/ (n # "proxytunnel" /\ flags["use_lock"])
  BY <1>2, <1>5
<1> QED BY <1>3, <1>6, <1>7 DEF f, v

\* -h changes neither flag.
LEMMA StoreHelp ==
  ASSUME NEW flags \in [Flags -> BOOLEAN], NEW after, after = Store(flags, "show_help", TRUE)
  PROVE  /\ after \in [Flags -> BOOLEAN]
         /\ after["hide_password"] <=> flags["hide_password"]
         /\ after["use_lock"] <=> flags["use_lock"]
<1>1. "show_help" \in Flags
  BY DEF Flags, Offset
<1> DEFINE f == "show_help"
           v == TRUE
<1>2. f \in Flags /\ v \in BOOLEAN /\ f # "hide_password" /\ f # "use_lock"
      /\ f \notin {"entry_timeout_set", "negative_timeout_set", "attr_timeout_set", "proxytunnel"}
  BY <1>1
<1> HIDE DEF f, v
<1>3. Store(flags, f, v) \in [Flags -> BOOLEAN]
  BY <1>2, StoreAt
<1>4. Store(flags, f, v)["hide_password"] <=> flags["hide_password"]
  BY <1>2, StoreAt, OffsetTable
<1>5. Store(flags, f, v)["use_lock"] <=> flags["use_lock"]
  BY <1>2, StoreAt, OffsetTable
<1> QED BY <1>3, <1>4, <1>5 DEF f, v

\* The fields after one option.
LEMMA SetOptionFields ==
  ASSUME NEW o, DOMAIN o = OptFields, NEW s
  PROVE  /\ DOMAIN SetOption(o, s) = OptFields
         /\ SetOption(o, s).flags =
              IF Matches(s) /\ s.name \in DOMAIN OptionSpec
              THEN Store(o.flags, OptionSpec[s.name][1], OptionSpec[s.name][2]) ELSE o.flags
         /\ SetOption(o, s).scheme =
              IF Matches(s) /\ s.name = "scheme" THEN s.value[1] ELSE o.scheme
         /\ SetOption(o, s).user =
              IF Matches(s) /\ s.name \in {"user", "username"} THEN s.value ELSE o.user
         /\ SetOption(o, s).password =
              IF Matches(s) /\ s.name = "password" THEN s.value ELSE o.password
         /\ SetOption(o, s).ssl = IF Matches(s) THEN o.ssl \/ s.name \in SslOptions ELSE o.ssl
BY DEF SetOption, OptFields

-----------------------------------------------------------------------------
(* The actions keep the invariant.                                         *)

\* A step that leaves the options and their flags alone.
LEMMA FlagsKept ==
  ASSUME HideInv, LockInv, argv' = argv, \A names : Done(names)' = Done(names),
         opt'.flags["hide_password"] <=> opt.flags["hide_password"],
         opt'.flags["use_lock"] <=> opt.flags["use_lock"]
  PROVE  HideInv' /\ LockInv'
<1>1. HideInv'
  <2> SUFFICES ASSUME ~opt.flags["hide_password"]
               PROVE  \E p \in Done({"no_hide_password"} \cup Timeouts) :
                        \A q \in Done({"hide_password"}) : Before(q, p)
    BY DEF HideInv, Before
  <2> QED BY DEF HideInv
<1>2. LockInv'
  <2> SUFFICES ASSUME ~opt.flags["use_lock"], Done({"use_lock"}) # {}
               PROVE  \E q \in Done({"proxytunnel"}) : \A p \in Done({"use_lock"}) : Before(p, q)
    BY DEF LockInv, Before
  <2> QED BY DEF LockInv
<1> QED BY <1>1, <1>2

\* Before the options are combined the rest of the invariant only says that
\* nothing has happened yet.
LEMMA EarlyKept ==
  ASSUME StartupInv, argv' = argv, pc \in {"parse", "combine"},
         pc' \in {"parse", "combine", "cleanup", "exit"},
         shown' = shown, base' = base
  PROVE  LateInv' /\ SchemeInv' /\ BaseInv' /\ ShownInv' /\ CrashCauses'
<1>1. LateInv' /\ SchemeInv' /\ CrashCauses'
  BY DEF LateInv, Late, SchemeInv, CrashCauses
<1>2. BaseInv'
  BY DEF StartupInv, BaseInv
<1>3. ShownInv'
  BY Kept DEF StartupInv, ShownInv, Late
<1> QED BY <1>1, <1>2, <1>3

\* One option of a group: it becomes the last one done.
LEMMA ParseOptionStep ==
  ASSUME StartupInv, pc = "parse", next <= Len(argv), ParseOption,
         UNCHANGED <<shown, base, redir, meths>>
  PROVE  StartupInv'
<1> DEFINE s == argv[next].subs[sub + 1]
           c == <<next, sub + 1>>
<1>0. Shape /\ ReadInv /\ HideInv /\ LockInv
  BY DEF StartupInv
<1>1. /\ argv' = argv /\ met' = met /\ pc' = "parse" /\ ret' = ret /\ url' = url
      /\ argv[next].kind = "-o" /\ opt' = SetOption(opt, s)
      /\ IF sub + 1 < Len(argv[next].subs) THEN sub' = sub + 1 /\ next' = next
         ELSE sub' = 0 /\ next' = next + 1
  BY DEF ParseOption, Goto
<1>2. TypedArgv /\ next \in 1..Len(argv) /\ sub \in Nat /\ Len(argv) \in Nat
  BY <1>0 DEF Shape, TypedArgv
<1>3. Len(argv[next].subs) \in Nat \ {0} /\ sub < Len(argv[next].subs)
  <2>1. argv[next] \in Args \cup {Mountpoint}
    BY <1>2 DEF TypedArgv
  <2>2. TypedSubs(argv[next]) /\ argv[next].subs # <<>>
    BY <1>1, <2>1, ArgFacts
  <2>3. Len(argv[next].subs) \in Nat \ {0}
    BY <2>2, EmptySeq, LenProperties DEF TypedSubs
  <2> QED BY <1>0, <1>2, <2>3 DEF Shape
<1>4. /\ c \in Positions
      /\ \A names : \A p \in Done(names) : Before(p, c) /\ ~Before(c, p) /\ p # c
      /\ \A names : Done(names)' = Done(names) \cup ({c} \cap Given(names))
  BY <1>1, <1>2, <1>3, DoneNext
<1>5. \A names : c \in Given(names) <=> Matches(s) /\ s.name \in names
  <2>1. OptionAt(c) = s
    BY DEF OptionAt
  <2> HIDE DEF s, c
  <2> QED BY <1>4, <2>1 DEF Given
<1>6. ~Before(c, c) /\ OptionAt(c).value = s.value
  BY <1>2 DEF Before, OptionAt
<1> DEFINE flags == opt.flags
<1>7. DOMAIN opt = OptFields /\ flags \in [Flags -> BOOLEAN]
  BY <1>0 DEF Shape
<1>8. /\ DOMAIN opt' = OptFields
      /\ opt'.flags =
           IF Matches(s) /\ s.name \in DOMAIN OptionSpec
           THEN Store(flags, OptionSpec[s.name][1], OptionSpec[s.name][2]) ELSE flags
      /\ opt'.scheme = IF Matches(s) /\ s.name = "scheme" THEN s.value[1] ELSE opt.scheme
      /\ opt'.user = IF Matches(s) /\ s.name \in {"user", "username"} THEN s.value ELSE opt.user
      /\ opt'.password = IF Matches(s) /\ s.name = "password" THEN s.value ELSE opt.password
      /\ opt'.ssl = IF Matches(s) THEN opt.ssl \/ s.name \in SslOptions ELSE opt.ssl
  BY <1>1, <1>7, SetOptionFields
<1> HIDE DEF s, c, flags
<1>9. /\ opt'.flags \in [Flags -> BOOLEAN]
      /\ opt'.flags["hide_password"] <=>
           \/ Matches(s) /\ s.name = "hide_password"
           \/ /\ ~(Matches(s) /\ s.name \in {"no_hide_password"} \cup Timeouts)
              /\ flags["hide_password"]
      /\ opt'.flags["use_lock"] <=>
           \/ Matches(s) /\ s.name = "use_lock"
           \/ ~(Matches(s) /\ s.name = "proxytunnel") /\ flags["use_lock"]
  <2>1. CASE Matches(s) /\ s.name \in DOMAIN OptionSpec
    <3> DEFINE n == s.name
    <3>1. n \in DOMAIN OptionSpec
      BY <2>1
    <3> HIDE DEF n
    <3>2. opt'.flags = Store(flags, OptionSpec[n][1], OptionSpec[n][2])
      BY <1>8, <2>1 DEF n
    <3>3. /\ opt'.flags \in [Flags -> BOOLEAN]
          /\ opt'.flags["hide_password"] <=>
               \/ n = "hide_password"
               \/ n \notin {"no_hide_password"} \cup Timeouts /\ flags["hide_password"]
          /\ opt'.flags["use_lock"] <=> n = "use_lock" \/ (n # "proxytunnel" /\ flags["use_lock"])
      BY <1>7, <3>1, <3>2, StoreOption
    <3> QED BY <2>1, <3>3 DEF n
  <2>2. CASE ~(Matches(s) /\ s.name \in DOMAIN OptionSpec)
    <3>1. {"hide_password", "no_hide_password", "use_lock", "proxytunnel"} \cup Timeouts
            \subseteq DOMAIN OptionSpec
      BY SpecTable DEF OptionNames, Timeouts
    <3>2. opt'.flags = flags
      BY <1>8, <2>2
    <3> QED BY <1>7, <2>2, <3>1, <3>2
  <2> QED BY <2>1, <2>2
<1>10. Shape'
  <2>1. TypedArgv' /\ next' \in 1..Len(argv') + 1 /\ sub' \in Nat
    BY <1>1, <1>2, <1>3 DEF TypedArgv
  <2>2. sub' > 0 => /\ next' <= Len(argv') /\ argv'[next'].kind = "-o"
                    /\ sub' < Len(argv'[next'].subs)
    BY <1>1, <1>2, <1>3
  <2> QED BY <1>0, <1>1, <1>8, <1>9, <2>1, <2>2 DEF Shape
<1>11. ASSUME NEW names, NEW d, NEW v, NEW w,
              v \in LastOf(Done(names), d),
              w = IF Matches(s) /\ s.name \in names THEN s.value ELSE v
       PROVE  w \in LastOf(Done(names), d)'
  <2>1. LastOf(Done(names), d)' = LastOf(Done(names)', d)
    BY <1>1, KeptDone
  <2>2. CASE Matches(s) /\ s.name \in names
    <3>1. Done(names)' = Done(names) \cup {c}
      BY <1>4, <1>5, <2>2
    <3>2. LastOf(Done(names) \cup {c}, d) = {s.value}
      BY <1>4, <1>6, LastAdd
    <3> QED BY <1>11, <2>1, <2>2, <3>1, <3>2
  <2>3. CASE ~(Matches(s) /\ s.name \in names)
    <3>1. Done(names)' = Done(names)
      BY <1>4, <1>5, <2>3
    <3> QED BY <1>11, <2>1, <2>3, <3>1
  <2> QED BY <2>2, <2>3
<1>12. ReadInv'
  <2>0. /\ opt.user \in LastOf(Done({"user", "username"}), <<>>)
        /\ opt.password \in LastOf(Done({"password"}), <<>>)
        /\ \E v \in LastOf(Done({"scheme"}), <<"">>) : opt.scheme = v[1]
        /\ opt.ssl = (Done(SslOptions) # {})
        /\ url = None => \A i \in 1..next - 1 : argv[i].kind # "arg"
        /\ url # None => \E u \in 1..next - 1 : IsUrl(u) /\ url = ParsedUrl(argv[u])
    BY <1>0 DEF ReadInv
  <2>1. opt'.user \in LastOf(Done({"user", "username"}), <<>>)'
    BY <1>8, <1>11, <2>0
  <2>2. opt'.password \in LastOf(Done({"password"}), <<>>)'
    <3>1. opt'.password = IF Matches(s) /\ s.name \in {"password"} THEN s.value ELSE opt.password
      BY <1>8
    <3> QED BY <1>11, <2>0, <3>1
  <2>3. \E v \in LastOf(Done({"scheme"}), <<"">>)' : opt'.scheme = v[1]
    <3>1. PICK v \in LastOf(Done({"scheme"}), <<"">>) : opt.scheme = v[1]
      BY <2>0
    <3> DEFINE w == IF Matches(s) /\ s.name \in {"scheme"} THEN s.value ELSE v
    <3>2. w \in LastOf(Done({"scheme"}), <<"">>)'
      BY <1>11, <3>1
    <3>3. opt'.scheme = w[1]
      BY <1>8, <3>1
    <3> QED BY <3>2, <3>3
  <2>4. opt'.ssl = (Done(SslOptions)' # {})
    <3>1. Done(SslOptions)' = Done(SslOptions) \cup ({c} \cap Given(SslOptions))
      BY <1>4
    <3>2. c \in Given(SslOptions) <=> Matches(s) /\ s.name \in SslOptions
      BY <1>5
    <3> QED BY <1>8, <2>0, <3>1, <3>2
  <2>5. url' = None => \A i \in 1..next' - 1 : argv'[i].kind # "arg"
    <3> SUFFICES ASSUME url = None, NEW i \in 1..next' - 1 PROVE argv[i].kind # "arg"
      BY <1>1
    <3>1. i \in 1..next - 1 \/ i = next
      BY <1>1, <1>2
    <3> QED BY <1>1, <2>0, <3>1
  <2>6. url' # None => \E u \in 1..next' - 1 : IsUrl(u)' /\ url' = ParsedUrl(argv'[u])
    <3> SUFFICES ASSUME url # None
                 PROVE  \E u \in 1..next' - 1 : IsUrl(u)' /\ url = ParsedUrl(argv[u])
      BY <1>1
    <3>1. PICK u \in 1..next - 1 : IsUrl(u) /\ url = ParsedUrl(argv[u])
      BY <2>0
    <3>2. u \in 1..next' - 1
      BY <1>1, <1>2
    <3> QED BY <1>1, <3>1, <3>2, Kept
  <2>7. pc' # "combine"
    BY <1>1
  <2> QED BY <2>1, <2>2, <2>3, <2>4, <2>5, <2>6, <2>7 DEF ReadInv, None
<1>13. HideInv'
  <2> DEFINE N == {"no_hide_password"} \cup Timeouts
             H == {"hide_password"}
  <2>0. /\ c \in Given(N) <=> Matches(s) /\ s.name \in N
        /\ c \in Given(H) <=> Matches(s) /\ s.name = "hide_password"
        /\ Done(N)' = Done(N) \cup ({c} \cap Given(N))
        /\ Done(H)' = Done(H) \cup ({c} \cap Given(H))
        /\ \A q \in Done(H) : Before(q, c)
    BY <1>4, <1>5
  <2>1. SUFFICES ASSUME ~opt'.flags["hide_password"]
                 PROVE  \E p \in Done(N)' : \A q \in Done(H)' : Before(q, p)
    BY DEF HideInv, Before
  <2>2. ~flags["hide_password"] => \E p \in Done(N) : \A q \in Done(H) : Before(q, p)
    BY <1>0 DEF HideInv, flags
  <2>3. c \notin Given(H)
    BY <1>9, <2>0, <2>1
  <2> HIDE DEF H
  <2>4. CASE c \in Given(N)
    BY <2>0, <2>3, <2>4
  <2>5. CASE c \notin Given(N)
    <3>1. ~flags["hide_password"]
      BY <1>9, <2>0, <2>1, <2>5
    <3> HIDE DEF N
    <3> QED BY <2>0, <2>2, <2>3, <3>1
  <2> QED BY <2>4, <2>5
<1>14. LockInv'
  <2> DEFINE N == {"proxytunnel"}
             H == {"use_lock"}
  <2>0. /\ c \in Given(N) <=> Matches(s) /\ s.name = "proxytunnel"
        /\ c \in Given(H) <=> Matches(s) /\ s.name = "use_lock"
        /\ Done(N)' = Done(N) \cup ({c} \cap Given(N))
        /\ Done(H)' = Done(H) \cup ({c} \cap Given(H))
        /\ \A q \in Done(H) : Before(q, c)
    BY <1>4, <1>5
  <2>1. SUFFICES ASSUME ~opt'.flags["use_lock"], Done(H)' # {}
                 PROVE  \E p \in Done(N)' : \A q \in Done(H)' : Before(q, p)
    BY DEF LockInv, Before
  <2>2. ~flags["use_lock"] /\ Done(H) # {} => \E p \in Done(N) : \A q \in Done(H) : Before(q, p)
    BY <1>0 DEF LockInv, flags
  <2>3. c \notin Given(H)
    BY <1>9, <2>0, <2>1
  <2> HIDE DEF H
  <2>4. CASE c \in Given(N)
    BY <2>0, <2>3, <2>4
  <2>5. CASE c \notin Given(N)
    <3>1. ~flags["use_lock"]
      BY <1>9, <2>0, <2>1, <2>5
    <3> HIDE DEF N
    <3> QED BY <2>0, <2>1, <2>2, <2>3, <3>1
  <2> QED BY <2>4, <2>5
<1>15. LateInv' /\ SchemeInv' /\ BaseInv' /\ ShownInv' /\ CrashCauses'
  BY <1>1, EarlyKept
<1> QED BY <1>10, <1>12, <1>13, <1>14, <1>15 DEF StartupInv

\* What has been read stays so when an argument that is not a group is passed.
LEMMA ReadKept ==
  ASSUME ReadInv, pc = "parse", argv' = argv, \A names : Done(names)' = Done(names)
  PROVE  /\ opt.user \in LastOf(Done({"user", "username"}), <<>>)'
         /\ opt.password \in LastOf(Done({"password"}), <<>>)'
         /\ \E v \in LastOf(Done({"scheme"}), <<"">>)' : opt.scheme = v[1]
         /\ opt.ssl = (Done(SslOptions)' # {})
<1>1. \A names, d : LastOf(Done(names), d)' = LastOf(Done(names), d)
  BY KeptDone
<1>2. /\ opt.user \in LastOf(Done({"user", "username"}), <<>>)
      /\ opt.password \in LastOf(Done({"password"}), <<>>)
      /\ \E v \in LastOf(Done({"scheme"}), <<"">>) : opt.scheme = v[1]
      /\ opt.ssl = (Done(SslOptions) # {})
  BY DEF ReadInv
<1> QED BY <1>1, <1>2

\* -h, -V and -- change no option but show_help.
LEMMA ParseSwitchStep ==
  ASSUME StartupInv, pc = "parse", next <= Len(argv), ParseSwitch,
         UNCHANGED <<shown, base, redir, meths>>
  PROVE  StartupInv'
<1>0. Shape /\ ReadInv /\ HideInv /\ LockInv
  BY DEF StartupInv
<1>1. /\ argv' = argv /\ met' = met /\ pc' \in {"parse", "exit"} /\ ret' = ret /\ url' = url
      /\ next' = next + 1 /\ sub' = sub
      /\ argv[next].kind \notin {"-o", "arg"}
      /\ opt' = opt \/ opt' = [opt EXCEPT !.flags = Store(@, "show_help", TRUE)]
  BY DEF ParseSwitch, Goto
<1>2. TypedArgv /\ next \in 1..Len(argv) /\ sub = 0 /\ Len(argv) \in Nat
  BY <1>0, <1>1 DEF Shape, TypedArgv
<1>3. \A names : Done(names)' = Done(names)
  BY <1>1, <1>2, DoneSkip
<1>4. /\ DOMAIN opt' = OptFields /\ opt'.flags \in [Flags -> BOOLEAN]
      /\ opt'.flags["hide_password"] <=> opt.flags["hide_password"]
      /\ opt'.flags["use_lock"] <=> opt.flags["use_lock"]
      /\ opt'.user = opt.user /\ opt'.password = opt.password
      /\ opt'.scheme = opt.scheme /\ opt'.ssl = opt.ssl
  <2> DEFINE flags == opt.flags
  <2>1. DOMAIN opt = OptFields /\ flags \in [Flags -> BOOLEAN]
    BY <1>0 DEF Shape
  <2>2. CASE opt' = opt
    BY <2>1, <2>2
  <2>3. CASE opt' = [opt EXCEPT !.flags = Store(flags, "show_help", TRUE)]
    <3>1. /\ DOMAIN opt' = OptFields /\ opt'.flags = Store(flags, "show_help", TRUE)
          /\ opt'.user = opt.user /\ opt'.password = opt.password
          /\ opt'.scheme = opt.scheme /\ opt'.ssl = opt.ssl
      BY <2>1, <2>3 DEF OptFields
    <3> DEFINE after == opt'.flags
    <3>2. after = Store(flags, "show_help", TRUE)
      BY <3>1
    <3> HIDE DEF flags, after
    <3>3. /\ after \in [Flags -> BOOLEAN]
          /\ after["hide_password"] <=> flags["hide_password"]
          /\ after["use_lock"] <=> flags["use_lock"]
      BY <2>1, <3>2, StoreHelp
    <3> QED BY <3>1, <3>3 DEF flags, after
  <2> QED BY <1>1, <2>2, <2>3
<1>5. Shape'
  BY <1>0, <1>1, <1>2, <1>4 DEF Shape, TypedArgv
<1>6. ReadInv'
  <2>1. url' = None => \A i \in 1..next' - 1 : argv'[i].kind # "arg"
    <3> SUFFICES ASSUME url = None, NEW i \in 1..next' - 1 PROVE argv[i].kind # "arg"
      BY <1>1
    <3>1. i \in 1..next - 1 \/ i = next
      BY <1>1, <1>2
    <3> QED BY <1>0, <1>1, <3>1 DEF ReadInv
  <2>2. url' # None => \E u \in 1..next' - 1 : IsUrl(u)' /\ url' = ParsedUrl(argv'[u])
    <3> SUFFICES ASSUME url # None
                 PROVE  \E u \in 1..next' - 1 : IsUrl(u)' /\ url = ParsedUrl(argv[u])
      BY <1>1
    <3>1. PICK u \in 1..next - 1 : IsUrl(u) /\ url = ParsedUrl(argv[u])
      BY <1>0 DEF ReadInv
    <3>2. u \in 1..next' - 1
      BY <1>1, <1>2
    <3> QED BY <1>1, <3>1, <3>2, Kept
  <2>3. pc' # "combine"
    BY <1>1
  <2> QED BY <1>0, <1>1, <1>3, <1>4, <2>1, <2>2, <2>3, ReadKept DEF ReadInv, None
<1>7. HideInv' /\ LockInv'
  BY <1>0, <1>1, <1>3, <1>4, FlagsKept
<1>8. LateInv' /\ SchemeInv' /\ BaseInv' /\ ShownInv' /\ CrashCauses'
  BY <1>1, EarlyKept
<1> QED BY <1>5, <1>6, <1>7, <1>8 DEF StartupInv

\* A plain argument: the first one is the URL.
LEMMA ParseArgStep ==
  ASSUME StartupInv, pc = "parse", next <= Len(argv), ParseArg,
         UNCHANGED <<shown, base, redir, meths>>
  PROVE  StartupInv'
<1>0. Shape /\ ReadInv /\ HideInv /\ LockInv
  BY DEF StartupInv
<1>1. /\ argv' = argv /\ met' = met /\ pc' \in {"parse", "cleanup"} /\ ret' \in 0..1
      /\ next' = next + 1 /\ sub' = sub /\ opt' = opt
      /\ argv[next].kind = "arg"
      /\ pc' = "parse" => \/ url = None /\ url' = ParsedUrl(argv[next])
                          \/ url # None /\ url' = url
  BY <1>0 DEF ParseArg, Goto, Exit, Shape
<1>2. TypedArgv /\ next \in 1..Len(argv) /\ sub = 0 /\ Len(argv) \in Nat
  BY <1>0, <1>1 DEF Shape, TypedArgv
<1>3. \A names : Done(names)' = Done(names)
  BY <1>1, <1>2, DoneSkip
<1>4. Shape'
  BY <1>0, <1>1, <1>2 DEF Shape, TypedArgv
<1>5. ASSUME pc' = "parse"
      PROVE  url' # None /\ \E u \in 1..next' - 1 : IsUrl(u)' /\ url' = ParsedUrl(argv'[u])
  <2>1. CASE url = None /\ url' = ParsedUrl(argv[next])
    <3>1. \A i \in 1..next - 1 : argv[i].kind # "arg"
      BY <1>0, <2>1 DEF ReadInv
    <3>2. PICK u : u = next
      OBVIOUS
    <3>3. IsUrl(u) /\ u \in 1..next' - 1 /\ url' = ParsedUrl(argv[u])
      BY <1>1, <1>2, <2>1, <3>1, <3>2 DEF IsUrl
    <3>4. url'.scheme # "" /\ None.scheme = ""
      BY <2>1 DEF ParsedUrl, None
    <3>5. url' # None
      BY <3>4
    <3> QED BY <1>1, <3>3, <3>5, Kept
  <2>2. CASE url # None /\ url' = url
    <3>1. PICK u \in 1..next - 1 : IsUrl(u) /\ url = ParsedUrl(argv[u])
      BY <1>0, <2>2 DEF ReadInv
    <3>2. u \in 1..next' - 1
      BY <1>1, <1>2
    <3> QED BY <1>1, <2>2, <3>1, <3>2, Kept
  <2> QED BY <1>1, <1>5, <2>1, <2>2
<1>6. ReadInv'
  <2>1. CASE pc' = "parse"
    <3>1. pc' # "combine" /\ url' # None
      BY <1>5, <2>1
    <3> QED BY <1>0, <1>1, <1>3, <1>5, <2>1, <3>1, ReadKept DEF ReadInv, None
  <2>2. CASE pc' = "cleanup"
    BY <2>2 DEF ReadInv
  <2> QED BY <1>1, <2>1, <2>2
<1>7. HideInv' /\ LockInv'
  BY <1>0, <1>1, <1>3, FlagsKept
<1>8. LateInv' /\ SchemeInv' /\ BaseInv' /\ ShownInv' /\ CrashCauses'
  BY <1>1, EarlyKept
<1> QED BY <1>4, <1>6, <1>7, <1>8 DEF StartupInv

\* Each step of fuse_opt_parse.
LEMMA ParseStep ==
  ASSUME StartupInv, Parse
  PROVE  StartupInv'
BY ParseOptionStep, ParseSwitchStep, ParseArgStep DEF Parse

\* The end of the command line.
LEMMA ParsedStep ==
  ASSUME StartupInv, Parsed
  PROVE  StartupInv'
<1>0. Shape /\ ReadInv /\ HideInv /\ LockInv
  BY DEF StartupInv
<1>1. /\ pc = "parse" /\ argv' = argv /\ met' = met /\ next' = next /\ sub' = sub /\ opt' = opt /\ url' = url
      /\ shown' = shown /\ base' = base /\ redir' = redir /\ ret' \in 0..1
      /\ pc' \in {"fuse", "cleanup", "combine"}
      /\ pc' = "fuse" => <<"-h">> \in fargs'
      /\ pc' = "combine" => url # None
  BY <1>0 DEF Parsed, Goto, Exit, Shape
<1>2. next = Len(argv) + 1
  <2>1. next > Len(argv) /\ next \in 1..Len(argv) + 1 /\ Len(argv) \in Nat
    BY <1>0 DEF Parsed, Shape, TypedArgv
  <2> QED BY <2>1
<1>3. \A names : Done(names)' = Done(names)
  BY <1>1, KeptDone
<1>4. Shape'
  BY <1>0, <1>1, <1>2 DEF Shape, TypedArgv
<1>5. ReadInv'
  <2>1. url' = None => \A i \in 1..next' - 1 : argv'[i].kind # "arg"
    BY <1>0, <1>1 DEF ReadInv
  <2>2. url' # None => \E u \in 1..next' - 1 : IsUrl(u)' /\ url' = ParsedUrl(argv'[u])
    <3>1. \A u : IsUrl(u)' = IsUrl(u)
      BY <1>1, Kept
    <3> QED BY <1>0, <1>1, <3>1 DEF ReadInv
  <2> QED BY <1>0, <1>1, <1>3, <2>1, <2>2, ReadKept DEF ReadInv, None
<1>6. HideInv' /\ LockInv'
  BY <1>0, <1>1, <1>3, FlagsKept
<1>7. LateInv' /\ SchemeInv' /\ CrashCauses'
  BY <1>1 DEF LateInv, Late, SchemeInv, CrashCauses
<1>8. BaseInv'
  BY <1>1 DEF StartupInv, BaseInv
<1>9. ShownInv'
  BY <1>1, Kept DEF StartupInv, ShownInv, Late
<1> QED BY <1>4, <1>5, <1>6, <1>7, <1>8, <1>9 DEF StartupInv

\* main goes to its end, or to the place where it waits to be ended.
LEMMA EndStep ==
  ASSUME StartupInv, Shape', argv' = argv, next' = next, sub' = sub, opt'.flags = opt.flags,
         shown' = shown, pc' \in {"cleanup", "exit"}
  PROVE  StartupInv'
<1>1. ReadInv' /\ LateInv' /\ SchemeInv' /\ BaseInv' /\ CrashCauses'
  BY DEF ReadInv, LateInv, Late, SchemeInv, BaseInv, CrashCauses
<1>2. \A names : Done(names)' = Done(names)
  BY KeptDone
<1>3. HideInv' /\ LockInv'
  BY <1>2, FlagsKept DEF StartupInv
<1>4. ShownInv'
  BY Kept DEF StartupInv, ShownInv, Late
<1> QED BY <1>1, <1>3, <1>4 DEF StartupInv

\* The options with a string have one, and then the default does not matter.
LEMMA SettledValue ==
  ASSUME NEW names, names \subseteq StringOptions, NEW d, NEW v \in Settled(names, d)
  PROVE  \/ Given(names) = {} /\ v = d
         \/ Given(names) # {} /\ v # <<>> /\ \A e : v \in Settled(names, e)
<1>1. CASE Given(names) = {}
  BY <1>1 DEF Settled
<1>2. CASE Given(names) # {}
  <2> DEFINE L == {p \in Given(names) : \A q \in Given(names) : ~Before(p, q)}
  <2>1. \A e : Settled(names, e) = {OptionAt(p).value : p \in L}
    BY <1>2 DEF Settled
  <2>2. PICK p \in L : v = OptionAt(p).value
    BY <2>1
  <2>3. Matches(OptionAt(p)) /\ OptionAt(p).name \in StringOptions
    BY <2>2 DEF Given
  <2>4. OptionAt(p).name \notin DOMAIN OptionSpec \cup SslOptions
    BY <2>3, SpecTable DEF OptionNames, StringOptions, SslOptions
  <2>5. v # <<>>
    BY <2>2, <2>3, <2>4 DEF Matches
  <2> HIDE DEF L
  <2> QED BY <1>2, <2>1, <2>2, <2>5
<1> QED BY <1>1, <1>2

\* combine_url: an option, else the same part of the URL.
LEMMA CombineUrlStep ==
  ASSUME StartupInv, CombineUrl
  PROVE  StartupInv'
<1>0. Shape /\ ReadInv /\ BaseInv /\ ShownInv /\ HideInv /\ LockInv
  BY DEF StartupInv
<1>1. /\ pc = "combine" /\ argv' = argv /\ next' = next /\ sub' = sub
      /\ shown' = shown /\ base' = base
  BY DEF CombineUrl, Note, Exit
<1>2. DOMAIN opt = OptFields /\ TypedArgv /\ next = Len(argv) + 1 /\ Len(argv) \in Nat
  BY <1>0, <1>1 DEF Shape, TypedArgv
<1>3. CASE Exit(1) /\ UNCHANGED <<opt, url>>
  <2>1. opt' = opt /\ pc' = "cleanup" /\ ret' \in 0..1 /\ met' = met
    BY <1>3 DEF Exit
  <2>2. Shape'
    BY <1>0, <1>1, <2>1 DEF Shape, TypedArgv
  <2> QED BY <1>1, <2>1, <2>2, EndStep
<1>4. CASE ~(Exit(1) /\ UNCHANGED <<opt, url>>)
  <2>1. /\ opt.scheme \in CurlSchemes \cup {""}
        /\ url' = [scheme |-> IF opt.scheme = "" THEN url.scheme ELSE opt.scheme,
                   user |-> IF opt.user = <<>> THEN <<>> ELSE url.user,
                   password |-> IF opt.password = <<>> THEN <<>> ELSE url.password]
        /\ \E lost \in SUBSET (IF "oom" \in Faults THEN Copies ELSE {}) :
             /\ opt' = [opt EXCEPT
                  !.scheme = IF "scheme" \in lost THEN "" ELSE SchemeLeft, !.port = "",
                  !.user = IF "user" \in lost THEN <<>> ELSE Chosen(@, url.user),
                  !.password = IF "password" \in lost THEN <<>> ELSE Chosen(@, url.password)]
             /\ Note("hide", lost)
    BY <1>4 DEF CombineUrl
  <2>a. PICK lost \in SUBSET Copies :
          /\ opt' = [opt EXCEPT
                  !.scheme = IF "scheme" \in lost THEN "" ELSE SchemeLeft, !.port = "",
                  !.user = IF "user" \in lost THEN <<>> ELSE Chosen(@, url.user),
                  !.password = IF "password" \in lost THEN <<>> ELSE Chosen(@, url.password)]
          /\ pc' = "hide" /\ ret' = ret /\ met' = met \cup lost
    BY <2>1 DEF Note
  <2>b. /\ met' = lost /\ met' \subseteq {"scheme", "user", "password"}
        /\ "user" \in met' => opt.user = <<>>
        /\ "password" \in met' => opt.password = <<>>
    BY <1>0, <1>1, <2>a DEF Shape, Copies
  <2>2. /\ DOMAIN opt' = OptFields /\ opt'.flags = opt.flags /\ opt'.ssl = opt.ssl
        /\ opt'.scheme = IF "scheme" \in met' THEN ""
                         ELSE IF opt.scheme = "" THEN url.scheme ELSE ""
        /\ opt'.user = IF opt.user # <<>> THEN opt.user
                       ELSE IF "user" \in met' THEN <<>> ELSE url.user
        /\ opt'.password = IF opt.password # <<>> THEN opt.password
                           ELSE IF "password" \in met' THEN <<>> ELSE url.password
    BY <1>2, <2>a, <2>b DEF OptFields, SchemeLeft, Chosen
  <2>3. /\ url'.user = IF opt.user = <<>> THEN <<>> ELSE url.user
        /\ url'.password = IF opt.password = <<>> THEN <<>> ELSE url.password
    BY <2>1
  <2>4. /\ opt.user \in Settled({"user", "username"}, <<>>)
        /\ opt.password \in Settled({"password"}, <<>>)
        /\ \E v \in Settled({"scheme"}, <<"">>) : opt.scheme = v[1]
        /\ opt.ssl = (Given(SslOptions) # {})
    <3>1. /\ opt.user \in LastOf(Done({"user", "username"}), <<>>)
          /\ opt.password \in LastOf(Done({"password"}), <<>>)
          /\ \E v \in LastOf(Done({"scheme"}), <<"">>) : opt.scheme = v[1]
          /\ opt.ssl = (Done(SslOptions) # {})
      BY <1>0, <1>1 DEF ReadInv
    <3>2. /\ \A names : Done(names) = Given(names)
          /\ \A names, d : LastOf(Done(names), d) = Settled(names, d)
      BY <1>2, DoneAll
    <3> QED BY <3>1, <3>2
  <2>5. PICK u \in DOMAIN argv : IsUrl(u) /\ url = ParsedUrl(argv[u])
    <3>1. DOMAIN argv = 1..Len(argv) /\ next - 1 = Len(argv)
      BY <1>2, LenProperties DEF TypedArgv
    <3> QED BY <1>0, <1>1, <3>1 DEF ReadInv
  <2>6. url.user = argv[u].user /\ url.password = argv[u].password /\ url.scheme # ""
    BY <2>5 DEF ParsedUrl
  <2>7. Shape'
    BY <1>0, <1>1, <2>a, <2>b, <2>2 DEF Shape, TypedArgv
  <2>8. LateInv'
    <3> DEFINE user == Copied("user", argv[u].user)'
               password == Copied("password", argv[u].password)'
    <3>0. /\ user = IF "user" \in met' THEN <<>> ELSE url.user
          /\ password = IF "password" \in met' THEN <<>> ELSE url.password
      BY <1>1, <2>6 DEF Copied
    <3> HIDE DEF user, password
    <3>1. /\ opt'.user \in Settled({"user", "username"}, user)
          /\ Given({"user", "username"}) = {} => url'.user = <<>>
      <4>1. {"user", "username"} \subseteq StringOptions
        BY DEF StringOptions
      <4>2. Given({"user", "username"}) = {} =>
              user \in Settled({"user", "username"}, user)
        BY DEF Settled
      <4> QED BY <2>2, <2>3, <2>4, <3>0, <4>1, <4>2, SettledValue
    <3>2. /\ opt'.password \in Settled({"password"}, password)
          /\ Given({"password"}) = {} => url'.password = <<>>
      <4>1. {"password"} \subseteq StringOptions
        BY DEF StringOptions
      <4>2. Given({"password"}) = {} => password \in Settled({"password"}, password)
        BY DEF Settled
      <4> QED BY <2>2, <2>3, <2>4, <3>0, <4>1, <4>2, SettledValue
    <3>3. Credentials(u)'
      BY <1>1, <3>1, <3>2, Kept DEF Credentials, user, password
    <3> QED BY <1>1, <1>2, <2>5, <3>3, Kept DEF LateInv
  <2>9. SchemeInv'
    <3>1. opt'.ssl = (Given(SslOptions)' # {})
      <4>1. Given(SslOptions)' = Given(SslOptions)
        BY <1>1, Kept DEF SslOptions
      <4> QED BY <2>2, <2>4, <4>1
    <3>2. ASSUME opt'.scheme = "", "scheme" \notin met'
          PROVE  \E v \in Settled({"scheme"}, <<"">>)' : v[1] \in CurlSchemes
      <4>1. \E v \in Settled({"scheme"}, <<"">>) : v[1] \in CurlSchemes
        BY <2>1, <2>2, <2>4, <2>6, <3>2
      <4> QED BY <1>1, <4>1, Kept
    <3>3. ASSUME opt'.scheme # ""
          PROVE  \E w \in DOMAIN argv' : IsUrl(w)' /\ opt'.scheme = ParsedUrl(argv'[w]).scheme
      <4>1. opt'.scheme = ParsedUrl(argv[u]).scheme
        BY <2>2, <2>5, <3>3
      <4> QED BY <1>1, <2>5, <4>1, Kept
    <3> QED BY <2>a, <3>1, <3>2, <3>3 DEF SchemeInv, CurlSchemes
  <2>10. BaseInv' /\ ReadInv' /\ CrashCauses'
    BY <1>0, <1>1, <2>a DEF BaseInv, ReadInv, CrashCauses
  <2>11. ShownInv'
    BY <1>0, <1>1, <2>a, Kept DEF ShownInv
  <2>12. HideInv' /\ LockInv'
    <3>1. \A names : Done(names)' = Done(names)
      BY <1>1, KeptDone
    <3> QED BY <1>0, <1>1, <2>2, <3>1, FlagsKept
  <2> QED BY <2>7, <2>8, <2>9, <2>10, <2>11, <2>12 DEF StartupInv
<1> QED BY <1>3, <1>4

\* After combine_url the user, the password and the URL stay as they are.
LEMMA LateKept ==
  ASSUME LateInv, Late, HideInv, LockInv, argv' = argv, met' \in {met, met \cup {"server"}}, next' = next, sub' = sub, url' = url,
         opt'.flags = opt.flags, opt'.user = opt.user, opt'.password = opt.password,
         pc' \notin {"parse", "combine"}
  PROVE  ReadInv' /\ LateInv' /\ HideInv' /\ LockInv'
<1>1. PICK u \in DOMAIN argv : IsUrl(u) /\ Credentials(u) /\ next = Len(argv) + 1
  BY DEF LateInv
<1>2. IsUrl(u)' /\ Credentials(u)'
  <2>1. \A v : Copied("user", v)' = Copied("user", v) /\ Copied("password", v)' = Copied("password", v)
    BY DEF Copied
  <2> QED BY <1>1, <2>1, Kept DEF Credentials
<1>3. LateInv'
  BY <1>1, <1>2 DEF LateInv
<1>4. ReadInv'
  BY DEF ReadInv
<1>5. \A names : Done(names)' = Done(names)
  BY KeptDone
<1> QED BY <1>3, <1>4, <1>5, FlagsKept

\* After replace_password so does what ps shows.
LEMMA MaskedKept ==
  ASSUME ShownInv, Late, pc # "hide", argv' = argv, shown' = shown,
         opt'.flags = opt.flags, opt'.password = opt.password,
         pc' \notin {"parse", "combine", "hide"}
  PROVE  ShownInv'
<1>1. \/ shown = Plain /\ (~opt.flags["hide_password"] \/ opt.password = <<>>)
      \/ shown = MaskedPlain /\ \A i \in Scanned : ~NullValue(argv[i])
  BY DEF ShownInv
<1>2. Plain' = Plain /\ MaskedPlain' = MaskedPlain /\ Scanned' = Scanned
  BY Kept
<1>3. (\A i \in Scanned : ~NullValue(argv[i])) => \A i \in Scanned' : ~NullValue(argv'[i])
  BY <1>2
<1> QED BY <1>1, <1>2, <1>3 DEF ShownInv

\* replace_password: all of the text is masked, or none.
LEMMA ReplacePasswordStep ==
  ASSUME StartupInv, ReplacePassword
  PROVE  StartupInv'
<1>0. Shape /\ LateInv /\ HideInv /\ LockInv /\ SchemeInv /\ BaseInv /\ ShownInv
  BY DEF StartupInv
<1>1. /\ pc = "hide" /\ argv' = argv /\ met' = met /\ next' = next /\ sub' = sub /\ opt' = opt /\ url' = url
      /\ fargs' = fargs /\ base' = base /\ ret' = ret /\ pc' \in {"scheme", "crash"}
      /\ \/ /\ pc' = "scheme" /\ shown' = shown
            /\ ~opt.flags["hide_password"] \/ opt.password = <<>>
         \/ /\ pc' = "crash" /\ shown' = shown
            /\ \E i \in Scanned : NullValue(argv[i])
         \/ /\ pc' = "scheme" /\ shown' = Masked
            /\ \A i \in Scanned : ~NullValue(argv[i])
  BY DEF ReplacePassword, Goto
<1>2. Late
  BY <1>1 DEF Late
<1>3. Shape'
  BY <1>0, <1>1 DEF Shape, TypedArgv
<1>4. ReadInv' /\ LateInv' /\ HideInv' /\ LockInv'
  BY <1>0, <1>1, <1>2, LateKept
<1>5. SchemeInv'
  <2>1. /\ Given(SslOptions)' = Given(SslOptions)
        /\ Settled({"scheme"}, <<"">>)' = Settled({"scheme"}, <<"">>)
        /\ \A u : IsUrl(u)' = IsUrl(u)
    BY <1>1, Kept DEF SslOptions
  <2>2. /\ opt.ssl = (Given(SslOptions) # {})
        /\ opt.scheme = "" => \/ "scheme" \in met
                             \/ \E v \in Settled({"scheme"}, <<"">>) : v[1] \in CurlSchemes
        /\ opt.scheme # "" =>
             \E u \in DOMAIN argv : IsUrl(u) /\ opt.scheme = ParsedUrl(argv[u]).scheme
    BY <1>0, <1>1 DEF SchemeInv
  <2> QED BY <1>1, <2>1, <2>2 DEF SchemeInv, CurlSchemes
<1>6. BaseInv'
  BY <1>0, <1>1 DEF BaseInv
<1>7. ShownInv'
  <2>1. shown = Plain
    BY <1>0, <1>1 DEF ShownInv
  <2>2. Masked = MaskedPlain
    BY <2>1 DEF Masked, MaskedPlain
  <2>3. Plain' = Plain /\ MaskedPlain' = MaskedPlain /\ Scanned' = Scanned
    BY <1>1, Kept
  <2>4. (\A i \in Scanned : ~NullValue(argv[i])) => \A i \in Scanned' : ~NullValue(argv'[i])
    BY <1>1, <2>3
  <2>5. pc' \notin {"parse", "combine", "hide"} /\ (pc' = "crash" => ~Late')
    BY <1>1 DEF Late
  <2> QED BY <1>1, <2>1, <2>2, <2>3, <2>4, <2>5 DEF ShownInv
<1>8. CrashCauses'
  <2> SUFFICES ASSUME pc' = "crash"
               PROVE  \E p \in Positions' :
                        OptionAt(p)'.name = "password" /\ OptionAt(p)'.value = <<>>
    BY DEF CrashCauses
  <2>1. PICK i \in Scanned : NullValue(argv[i])
    BY <1>1
  <2>2. i \in DOMAIN argv /\ argv[i].kind = "-o"
    BY <2>1 DEF Scanned, NullValue
  <2>3. PICK k \in DOMAIN argv[i].subs :
          argv[i].subs[k].name = "password" /\ argv[i].subs[k].value = <<>>
    BY <2>1 DEF NullValue
  <2>4. <<i, k>> \in Positions /\ OptionAt(<<i, k>>) = argv[i].subs[k]
    BY <2>2, <2>3 DEF Positions, OptionAt
  <2> QED BY <1>1, <2>3, <2>4, Kept
<1> QED BY <1>3, <1>4, <1>5, <1>6, <1>7, <1>8 DEF StartupInv

\* The s at the end of the scheme.
LEMMA MainSchemeStep ==
  ASSUME StartupInv, MainScheme
  PROVE  StartupInv'
<1>0. Shape /\ LateInv /\ HideInv /\ LockInv /\ SchemeInv /\ BaseInv /\ ShownInv
  BY DEF StartupInv
<1>1. /\ pc = "scheme" /\ argv' = argv /\ met' = met /\ next' = next /\ sub' = sub /\ url' = url
      /\ fargs' = fargs /\ base' = base /\ ret' = ret /\ shown' = shown
      /\ pc' = IF opt.scheme = "" THEN "crash" ELSE "proto"
  BY DEF MainScheme, Goto
<1>2. Late
  BY <1>1 DEF Late
<1>3. /\ DOMAIN opt' = OptFields /\ opt'.flags = opt.flags
      /\ opt'.user = opt.user /\ opt'.password = opt.password
      /\ opt.scheme # "" =>
           /\ opt'.ssl = (opt.ssl \/ opt.scheme \in DOMAIN Secures)
           /\ opt'.scheme =
                IF opt.scheme \in DOMAIN Secures THEN Secures[opt.scheme] ELSE opt.scheme
  <2>1. DOMAIN opt = OptFields
    BY <1>0 DEF Shape
  <2> QED BY <2>1 DEF MainScheme, OptFields
<1>4. Shape'
  BY <1>0, <1>1, <1>3 DEF Shape, TypedArgv
<1>5. ReadInv' /\ LateInv' /\ HideInv' /\ LockInv'
  BY <1>0, <1>1, <1>2, <1>3, LateKept
<1>6. ShownInv'
  BY <1>0, <1>1, <1>2, <1>3, MaskedKept
<1>7. BaseInv'
  BY <1>0, <1>1 DEF BaseInv
<1>8. SchemeInv'
  <2>1. SUFFICES ASSUME pc' = "proto"
                 PROVE  \E u \in DOMAIN argv' :
                          LET scheme == ParsedUrl(argv[u]).scheme
                          IN  /\ IsUrl(u)'
                              /\ opt'.ssl = Secure(scheme)'
                              /\ opt'.scheme = IF scheme \in DOMAIN Secures THEN Secures[scheme]
                                               ELSE scheme
    BY <1>1 DEF SchemeInv, Secures
  <2>2. opt.scheme # ""
    BY <1>1, <2>1
  <2>3. PICK u \in DOMAIN argv : IsUrl(u) /\ opt.scheme = ParsedUrl(argv[u]).scheme
    BY <1>0, <1>1, <2>2 DEF SchemeInv
  <2>4. IsUrl(u)' /\ \A w : Secure(w)' = Secure(w)
    BY <1>1, <2>3, Kept DEF Secure, SslOptions, Secures
  <2>5. opt.ssl = (Given(SslOptions) # {})
    BY <1>0, <1>1 DEF SchemeInv
  <2>6. opt'.ssl = Secure(opt.scheme)
    BY <1>3, <2>2, <2>5 DEF Secure
  <2> QED BY <1>1, <1>3, <2>2, <2>3, <2>4, <2>6
<1>9. CrashCauses'
  <2>1. SUFFICES ASSUME pc' = "crash", "scheme" \notin met'
                 PROVE  \E v \in Settled({"scheme"}, <<"">>)' : v[1] \in CurlSchemes
    BY DEF CrashCauses, CurlSchemes
  <2>2. \E v \in Settled({"scheme"}, <<"">>) : v[1] \in CurlSchemes
    BY <1>0, <1>1, <2>1 DEF SchemeInv
  <2> QED BY <1>1, <2>2, Kept
<1> QED BY <1>4, <1>5, <1>6, <1>7, <1>8, <1>9 DEF StartupInv

\* The registry and dav_getoper: the scheme of the server.
LEMMA GetProtoOperStep ==
  ASSUME StartupInv, GetProtoOper
  PROVE  StartupInv'
<1>0. Shape /\ LateInv /\ HideInv /\ LockInv /\ SchemeInv /\ BaseInv /\ ShownInv
  BY DEF StartupInv
<1>1. /\ pc = "proto" /\ argv' = argv /\ met' = met /\ next' = next /\ sub' = sub /\ url' = url /\ opt' = opt
      /\ fargs' = fargs /\ shown' = shown /\ redir' = redir /\ ret' \in 0..1
      /\ \/ pc' = "cleanup" /\ base' = base
         \/ pc' = "addargs" /\ base' = base
         \/ pc' = "addargs" /\ opt.scheme = "dav" /\ base' = IF opt.ssl THEN "https" ELSE "http"
  BY <1>0 DEF GetProtoOper, Goto, Exit, Shape
<1>2. Late
  BY <1>1 DEF Late
<1>3. Shape'
  BY <1>0, <1>1 DEF Shape, TypedArgv
<1>4. CASE pc' = "cleanup"
  BY <1>1, <1>3, <1>4, EndStep
<1>5. CASE pc' = "addargs"
  <2>1. ReadInv' /\ LateInv' /\ HideInv' /\ LockInv'
    BY <1>0, <1>1, <1>2, <1>5, LateKept
  <2>2. ShownInv'
    BY <1>0, <1>1, <1>2, <1>5, MaskedKept
  <2>3. SchemeInv' /\ CrashCauses'
    BY <1>5 DEF SchemeInv, CrashCauses
  <2>4. BaseInv'
    <3>1. SUFFICES ASSUME base' # "none"
                   PROVE  \E u \in DOMAIN argv' :
                            /\ IsUrl(u)' /\ argv'[u].scheme \in {"dav", "davs"}
                            /\ base' = IF argv'[u].scheme = "davs" \/ Given(SslOptions)' # {}
                                       THEN "https" ELSE "http"
      BY <1>5 DEF BaseInv, SslOptions
    <3>2. base = "none"
      BY <1>0, <1>1 DEF BaseInv
    <3>3. opt.scheme = "dav" /\ base' = IF opt.ssl THEN "https" ELSE "http"
      BY <1>1, <1>5, <3>1, <3>2
    <3>4. PICK u \in DOMAIN argv :
            LET scheme == ParsedUrl(argv[u]).scheme
            IN  /\ IsUrl(u)
                /\ opt.ssl = Secure(scheme)
                /\ opt.scheme = IF scheme \in DOMAIN Secures THEN Secures[scheme] ELSE scheme
      BY <1>0, <1>1 DEF SchemeInv
    <3> DEFINE scheme == ParsedUrl(argv[u]).scheme
    <3>5. DOMAIN Secures = {"davs", "https", "dummys"} /\ Secures["davs"] = "dav"
          /\ Secures["https"] = "http" /\ Secures["dummys"] = "dummy"
      BY DEF Secures
    <3>6. scheme = IF argv[u].scheme = "" THEN "https" ELSE argv[u].scheme
      BY DEF ParsedUrl
    <3>7. opt.scheme = (IF scheme \in DOMAIN Secures THEN Secures[scheme] ELSE scheme)
      BY <3>4
    <3>8. IsUrl(u) /\ opt.ssl = Secure(scheme)
      BY <3>4
    <3> HIDE DEF scheme
    <3>9. scheme \in {"dav", "davs"} /\ argv[u].scheme = scheme
      BY <3>3, <3>5, <3>6, <3>7
    <3>10. Given(SslOptions)' = Given(SslOptions) /\ IsUrl(u)'
      BY <1>1, <3>8, Kept DEF SslOptions
    <3>11. opt.ssl <=> Given(SslOptions) # {} \/ scheme = "davs"
      BY <3>5, <3>8, <3>9 DEF Secure
    <3> QED BY <1>1, <3>3, <3>9, <3>10, <3>11
  <2> QED BY <1>3, <2>1, <2>2, <2>3, <2>4 DEF StartupInv
<1> QED BY <1>1, <1>4, <1>5

\* What the base URL comes from stays so as long as the server does not redirect.
LEMMA BaseKept ==
  ASSUME BaseInv, argv' = argv, base' = base, redir' = redir,
         pc \in {"addargs", "fuse", "probe", "options"},
         pc' \in {"addargs", "fuse", "probe", "options"},
         pc' \in {"probe", "options"} => base # "none" /\ <<"arg">> \in fargs'
  PROVE  BaseInv'
<1> SUFFICES ASSUME ~redir, base # "none"
             PROVE  \E u \in DOMAIN argv' :
                      /\ IsUrl(u)' /\ argv'[u].scheme \in {"dav", "davs"}
                      /\ base' = IF argv'[u].scheme = "davs" \/ Given(SslOptions)' # {}
                                 THEN "https" ELSE "http"
  BY DEF BaseInv, SslOptions
<1>1. PICK u \in DOMAIN argv :
        /\ IsUrl(u) /\ argv[u].scheme \in {"dav", "davs"}
        /\ base = IF argv[u].scheme = "davs" \/ Given(SslOptions) # {} THEN "https" ELSE "http"
  BY DEF BaseInv
<1>2. Given(SslOptions)' = Given(SslOptions) /\ IsUrl(u)'
  BY <1>1, Kept DEF SslOptions
<1> QED BY <1>1, <1>2

\* The arguments main adds.
LEMMA AddArgsStep ==
  ASSUME StartupInv, AddArgs
  PROVE  StartupInv'
<1>0. Shape /\ LateInv /\ HideInv /\ LockInv /\ BaseInv /\ ShownInv
  BY DEF StartupInv
<1>1. /\ pc = "addargs" /\ argv' = argv /\ met' = met /\ next' = next /\ sub' = sub /\ url' = url /\ opt' = opt
      /\ base' = base /\ shown' = shown /\ redir' = redir /\ ret' \in 0..1
      /\ pc' \in {"fuse", "cleanup"}
  BY <1>0 DEF AddArgs, Goto, Exit, Shape
<1>2. Late
  BY <1>1 DEF Late
<1>3. Shape'
  BY <1>0, <1>1 DEF Shape, TypedArgv
<1>4. CASE pc' = "cleanup"
  BY <1>1, <1>3, <1>4, EndStep
<1>5. CASE pc' = "fuse"
  <2>1. ReadInv' /\ LateInv' /\ HideInv' /\ LockInv'
    BY <1>0, <1>1, <1>2, <1>5, LateKept
  <2>2. ShownInv'
    BY <1>0, <1>1, <1>2, <1>5, MaskedKept
  <2>3. SchemeInv' /\ CrashCauses'
    BY <1>5 DEF SchemeInv, CrashCauses
  <2>4. BaseInv'
    BY <1>0, <1>1, <1>5, BaseKept
  <2> QED BY <1>3, <2>1, <2>2, <2>3, <2>4 DEF StartupInv
<1> QED BY <1>1, <1>4, <1>5

\* fuse_main.
LEMMA FuseMainStep ==
  ASSUME StartupInv, FuseMain
  PROVE  StartupInv'
<1>0. Shape /\ LateInv /\ HideInv /\ LockInv /\ BaseInv /\ ShownInv
  BY DEF StartupInv
<1>1. /\ pc = "fuse" /\ argv' = argv /\ met' = met /\ next' = next /\ sub' = sub /\ url' = url /\ opt' = opt
      /\ base' = base /\ shown' = shown /\ redir' = redir /\ fargs' = fargs /\ ret' \in 0..1
      /\ \/ pc' = "cleanup"
         \/ /\ <<"-h">> \notin fargs /\ <<"arg">> \in fargs
            /\ pc' = IF base = "none" THEN "serving" ELSE "probe"
  BY <1>0 DEF FuseMain, Goto, Exit, Shape
<1>2. Shape'
  BY <1>0, <1>1 DEF Shape, TypedArgv
<1>3. CASE pc' = "cleanup"
  BY <1>1, <1>2, <1>3, EndStep
<1>4. CASE pc' # "cleanup"
  <2>0. Late
    BY <1>1, <1>4 DEF Late
  <2>1. ReadInv' /\ LateInv' /\ HideInv' /\ LockInv'
    BY <1>0, <1>1, <1>4, <2>0, LateKept
  <2>2. ShownInv'
    BY <1>0, <1>1, <1>4, <2>0, MaskedKept
  <2>3. SchemeInv' /\ CrashCauses'
    BY <1>1, <1>4 DEF SchemeInv, CrashCauses
  <2>4. BaseInv'
    <3>1. CASE base = "none"
      BY <1>1, <1>4, <3>1 DEF BaseInv
    <3>2. CASE base # "none"
      BY <1>0, <1>1, <1>4, <3>2, BaseKept
    <3> QED BY <3>1, <3>2
  <2> QED BY <1>2, <2>1, <2>2, <2>3, <2>4 DEF StartupInv
<1> QED BY <1>3, <1>4

\* The requests of dav_options and the end of the mount.
LEMMA ServerStep ==
  ASSUME StartupInv, Probe \/ Options \/ Unmount
  PROVE  StartupInv'
<1>0. Shape /\ LateInv /\ HideInv /\ LockInv /\ BaseInv /\ ShownInv
  BY DEF StartupInv
<1>1. /\ pc \in {"probe", "options", "serving"}
      /\ argv' = argv /\ next' = next /\ sub' = sub /\ url' = url /\ opt' = opt
      /\ shown' = shown /\ fargs' = fargs /\ ret' \in 0..1
      /\ \/ pc' = "cleanup" /\ base' = "none"
         \/ pc = "probe" /\ pc' = "options" /\ base' = base /\ redir' = redir
         \/ pc = "probe" /\ pc' = "options" /\ base' \in {"http", "https"} /\ redir' = TRUE
         \/ pc = "options" /\ pc' \in {"serving", "crash"} /\ base' = base
      /\ met' \in {met, met \cup {"server"}}
      /\ pc' = "crash" => "server" \in met'
  BY <1>0 DEF Probe, Options, Unmount, FuseEnds, Goto, Note, Exit, Shape
<1>2. Shape'
  BY <1>0, <1>1 DEF Shape, TypedArgv
<1>3. CASE pc' = "cleanup"
  BY <1>1, <1>2, <1>3, EndStep
<1>4. CASE pc' # "cleanup"
  <2>0. Late
    BY <1>1 DEF Late
  <2>1. ReadInv' /\ LateInv' /\ HideInv' /\ LockInv'
    BY <1>0, <1>1, <1>4, <2>0, LateKept
  <2>2. ShownInv'
    BY <1>0, <1>1, <1>4, <2>0, MaskedKept
  <2>3. SchemeInv'
    BY <1>1, <1>4 DEF SchemeInv
  <2>4. pc \in {"probe", "options"} /\ base # "none" /\ <<"arg">> \in fargs
    BY <1>0, <1>1, <1>4 DEF BaseInv
  <2>5. CrashCauses'
    BY <1>1 DEF CrashCauses
  <2>6. BaseInv'
    <3>1. CASE pc' = "options" /\ base' = base /\ redir' = redir
      BY <1>0, <1>1, <2>4, <3>1, BaseKept
    <3>2. CASE pc' = "options" /\ base' \in {"http", "https"} /\ redir' = TRUE
      BY <1>1, <2>4, <3>2 DEF BaseInv
    <3>3. CASE pc' \in {"serving", "crash"}
      BY <3>3 DEF BaseInv
    <3> QED BY <1>1, <1>4, <3>1, <3>2, <3>3
  <2> QED BY <1>2, <2>1, <2>2, <2>3, <2>5, <2>6 DEF StartupInv
<1> QED BY <1>3, <1>4

\* The end of main.
LEMMA CleanupStep ==
  ASSUME StartupInv, Cleanup
  PROVE  StartupInv'
<1>0. Shape /\ DOMAIN opt = OptFields
  BY DEF StartupInv, Shape
<1>1. /\ argv' = argv /\ met' = met /\ next' = next /\ sub' = sub /\ base' = base /\ shown' = shown
      /\ pc' = "exit" /\ ret' = ret
      /\ opt' = [opt EXCEPT !.scheme = "", !.port = "", !.user = <<>>, !.password = <<>>]
  BY DEF Cleanup, Goto
<1>2. DOMAIN opt' = OptFields /\ opt'.flags = opt.flags
  BY <1>0, <1>1 DEF OptFields
<1>3. Shape'
  BY <1>0, <1>1, <1>2 DEF Shape, TypedArgv
<1> QED BY <1>1, <1>2, <1>3, EndStep

\* A step that changes nothing.
LEMMA StutterStep ==
  ASSUME StartupInv, UNCHANGED vars
  PROVE  StartupInv'
<1>1. /\ argv' = argv /\ met' = met /\ next' = next /\ sub' = sub /\ opt' = opt /\ url' = url
      /\ fargs' = fargs /\ shown' = shown /\ base' = base /\ redir' = redir /\ pc' = pc
      /\ ret' = ret
  BY DEF vars
<1>2. /\ Shape /\ ReadInv /\ HideInv /\ LockInv /\ LateInv /\ SchemeInv /\ BaseInv /\ ShownInv
      /\ CrashCauses
  BY DEF StartupInv
<1>3. Shape'
  BY <1>1, <1>2 DEF Shape, TypedArgv
<1>4. \A names : Done(names)' = Done(names)
  BY <1>1, KeptDone
<1>5. HideInv' /\ LockInv'
  BY <1>1, <1>2, <1>4, FlagsKept
<1>6. \A names, d : LastOf(Done(names), d)' = LastOf(Done(names), d)
  BY <1>1, <1>4, KeptDone
<1>7. /\ Positions' = Positions
      /\ \A p : OptionAt(p)' = OptionAt(p)
      /\ \A names : Given(names)' = Given(names)
      /\ \A names, d : Settled(names, d)' = Settled(names, d)
      /\ \A u : IsUrl(u)' = IsUrl(u)
      /\ Scanned' = Scanned /\ Plain' = Plain /\ MaskedPlain' = MaskedPlain
  BY <1>1, Kept
<1>8. ReadInv'
  BY <1>1, <1>2, <1>4, <1>6, <1>7 DEF ReadInv, None, SslOptions
<1>9. LateInv'
  BY <1>1, <1>2, <1>7 DEF LateInv, Late, Credentials, Copied
<1>10. SchemeInv'
  BY <1>1, <1>2, <1>7 DEF SchemeInv, Secure, SslOptions, Secures, CurlSchemes
<1>11. BaseInv'
  BY <1>1, <1>2, <1>7 DEF BaseInv, SslOptions
<1>12. ShownInv'
  BY <1>1, <1>2, <1>7 DEF ShownInv, Late
<1>13. CrashCauses'
  BY <1>1, <1>2, <1>7 DEF CrashCauses, CurlSchemes
<1> QED BY <1>3, <1>5, <1>8, <1>9, <1>10, <1>11, <1>12, <1>13 DEF StartupInv

\* The command line before main reads it.
LEMMA StartupInit ==
  ASSUME Init
  PROVE  StartupInv
<1>1. /\ next = 1 /\ sub = 0 /\ url = None /\ shown = Plain /\ base = "none"
      /\ pc = "parse" /\ ret = 0 /\ met = {}
  BY DEF Init, Plain
<1>9. opt = [flags |-> [f \in Flags |-> f = "hide_password"], scheme |-> "", port |-> "",
             user |-> <<>>, password |-> <<>>, ssl |-> FALSE, auth |-> {}]
  BY DEF Init
<1>2. TypedArgv
  <2>1. ASSUME NEW s \in CommandLines PROVE s \in Seq(Args)
    <3>1. PICK m \in 0..MaxArgs : s \in [1..m -> Args]
      BY DEF CommandLines, BoundedSeq, SeqOf
    <3>2. m \in Nat
      OBVIOUS
    <3> QED BY <3>1, <3>2, FunctionIsSeq
  <2>2. ASSUME NEW s \in Seq(Args) PROVE s \in Seq(Args \cup {Mountpoint})
    <3>1. Args \subseteq Args \cup {Mountpoint}
      OBVIOUS
    <3> HIDE DEF Mountpoint
    <3> QED BY <3>1, SeqMonotonic
  <2>3. CASE argv \in CommandLines
    BY <2>1, <2>2, <2>3 DEF TypedArgv
  <2>4. CASE argv \notin CommandLines
    <3>1. PICK s \in CommandLines : argv = Append(s, Mountpoint)
      BY <2>4 DEF Init
    <3>2. s \in Seq(Args \cup {Mountpoint})
      BY <2>1, <2>2
    <3> QED BY <3>1, <3>2, AppendProperties DEF TypedArgv
  <2> QED BY <2>3, <2>4
<1>3. /\ DOMAIN opt = OptFields /\ opt.user = <<>> /\ opt.password = <<>> /\ opt.scheme = ""
      /\ opt.ssl = FALSE /\ opt.flags = [f \in Flags |-> f = "hide_password"]
  BY <1>9 DEF OptFields
<1>4. Shape
  <2>1. Len(argv) \in Nat
    BY <1>2 DEF TypedArgv
  <2>2. opt.flags \in [Flags -> BOOLEAN] /\ DOMAIN opt = OptFields
    BY <1>3
  <2>3. next \in 1..Len(argv) + 1 /\ sub \in Nat /\ ~(sub > 0)
    BY <1>1, <2>1
  <2> QED BY <1>1, <1>2, <2>2, <2>3 DEF Shape
<1>5. \A names : Done(names) = {}
  <2> SUFFICES ASSUME NEW names, NEW p \in Given(names), Before(p, <<1, 1>>) PROVE FALSE
    BY <1>1 DEF Done
  <2>1. p \in Positions
    BY DEF Given
  <2>2. p[1] >= 1 /\ p[2] >= 1 /\ p[1] \in Nat /\ p[2] \in Nat
    BY <1>2, <2>1, PositionFacts
  <2> QED BY <2>2 DEF Before
<1>6. ReadInv
  <2>1. \A names, d : LastOf(Done(names), d) = {d}
    BY <1>5 DEF LastOf
  <2>2. <<"">> \in {<<"">>} /\ opt.scheme = <<"">>[1]
    BY <1>3
  <2>3. \A i \in 1..next - 1 : argv[i].kind # "arg"
    BY <1>1
  <2>4. \E v \in LastOf(Done({"scheme"}), <<"">>) : opt.scheme = v[1]
    BY <2>1, <2>2
  <2>5. opt.ssl = (Done(SslOptions) # {})
    BY <1>3, <1>5
  <2>6. /\ opt.user \in LastOf(Done({"user", "username"}), <<>>)
        /\ opt.password \in LastOf(Done({"password"}), <<>>)
    BY <1>3, <2>1
  <2> QED BY <1>1, <2>3, <2>4, <2>5, <2>6 DEF ReadInv
<1>7. HideInv /\ LockInv
  <2>1. opt.flags["hide_password"]
    BY <1>3, OffsetTable
  <2> QED BY <1>5, <2>1 DEF HideInv, LockInv
<1>8. LateInv /\ SchemeInv /\ BaseInv /\ ShownInv /\ CrashCauses
  BY <1>1 DEF LateInv, Late, SchemeInv, BaseInv, ShownInv, CrashCauses
<1> QED BY <1>4, <1>6, <1>7, <1>8 DEF StartupInv

\* Every step keeps the invariant.
LEMMA StartupNext ==
  ASSUME StartupInv, [Next]_vars
  PROVE  StartupInv'
BY ParseStep, ParsedStep, CombineUrlStep, ReplacePasswordStep, MainSchemeStep, GetProtoOperStep,
   AddArgsStep, FuseMainStep, ServerStep, CleanupStep, StutterStep DEF Next, Ended

\* The invariant holds from the beginning to the end of main.
LEMMA StartupInvariant == Spec => []StartupInv
<1>1. Init => StartupInv
  BY StartupInit
<1>2. StartupInv /\ [Next]_vars => StartupInv'
  BY StartupNext
<1> QED BY <1>1, <1>2, PTL DEF Spec

-----------------------------------------------------------------------------
(* What the masks leave.                                                   *)

First(t, c) == SelectInSeq(t, LAMBDA x : x = c)
LastIn(t, c) == SelectLastInSeq(t, LAMBDA x : x = c)

\* strchr: the first place of a character.
LEMMA FirstIs ==
  ASSUME NEW t, NEW c, Len(t) \in Nat, NEW k \in 1..Len(t), t[k] = c,
         \A i \in 1..k - 1 : t[i] # c
  PROVE  First(t, c) = k
<1> DEFINE I == {i \in 1..Len(t) : t[i] = c}
<1>1. k \in I /\ k \in Int /\ I \subseteq Int /\ \A i \in I : k <= i
  OBVIOUS
<1>2. First(t, c) = IF I # {} THEN Min(I) ELSE 0
  BY DEF First, SelectInSeq
<1> HIDE DEF I
<1>3. Min(I) = k
  <2>1. Min(I) \in I /\ \A i \in I : Min(I) <= i
    BY <1>1 DEF Min
  <2>2. Min(I) <= k /\ k <= Min(I) /\ Min(I) \in Int
    BY <1>1, <2>1
  <2> QED BY <1>1, <2>2
<1> QED BY <1>1, <1>2, <1>3

\* strrchr: the last place of a character.
LEMMA LastIs ==
  ASSUME NEW t, NEW c, Len(t) \in Nat, NEW k \in 1..Len(t), t[k] = c,
         \A i \in k + 1 .. Len(t) : t[i] # c
  PROVE  LastIn(t, c) = k
<1> DEFINE I == {i \in 1..Len(t) : t[i] = c}
<1>1. k \in I /\ k \in Int /\ I \subseteq Int /\ \A i \in I : k >= i
  OBVIOUS
<1>2. LastIn(t, c) = IF I # {} THEN Max(I) ELSE 0
  BY DEF LastIn, SelectLastInSeq
<1> HIDE DEF I
<1>3. Max(I) = k
  <2>1. Max(I) \in I /\ \A i \in I : Max(I) >= i
    BY <1>1 DEF Max
  <2>2. Max(I) >= k /\ k >= Max(I) /\ Max(I) \in Int
    BY <1>1, <2>1
  <2> QED BY <1>1, <2>2
<1> QED BY <1>1, <1>2, <1>3

\* A mask keeps the length and puts nothing but '*' into the text.
LEMMA MaskType ==
  ASSUME NEW S, NEW t \in Seq(S)
  PROVE  /\ \A a, b : /\ MaskBetween(t, a, b) \in Seq(S \cup {"*"})
                      /\ Len(MaskBetween(t, a, b)) = Len(t)
         /\ MaskUrl(t) \in Seq(S \cup {"*"}) /\ Len(MaskUrl(t)) = Len(t)
         /\ MaskGroup(t) \in Seq(S \cup {"*"}) /\ Len(MaskGroup(t)) = Len(t)
<1>1. Len(t) \in Nat /\ DOMAIN t = 1..Len(t) /\ \A i \in 1..Len(t) : t[i] \in S
  BY LenProperties
<1>2. ASSUME NEW a, NEW b
      PROVE  MaskBetween(t, a, b) \in Seq(S \cup {"*"}) /\ Len(MaskBetween(t, a, b)) = Len(t)
  <2>1. MaskBetween(t, a, b) \in [1..Len(t) -> S \cup {"*"}]
    BY <1>1 DEF MaskBetween
  <2> QED BY <1>1, <2>1, FunctionIsSeq
<1>3. t \in Seq(S \cup {"*"})
  BY SeqMonotonic
<1>4. MaskUrl(t) = t \/ \E a, b : MaskUrl(t) = MaskBetween(t, a, b)
  BY DEF MaskUrl
<1>5. MaskGroup(t) = t \/ \E a, b : MaskGroup(t) = MaskBetween(t, a, b)
  BY DEF MaskGroup
<1> QED BY <1>2, <1>3, <1>4, <1>5

\* Where the parts of a text are.
LEMMA Placed ==
  ASSUME NEW S, NEW h \in Seq(S), NEW v \in Seq(S), NEW e \in Seq(S), NEW t, t = (h \o v) \o e
  PROVE  /\ t \in Seq(S) /\ Len(t) = Len(h) + Len(v) + Len(e)
         /\ Len(h) \in Nat /\ Len(v) \in Nat /\ Len(e) \in Nat
         /\ \A i \in 1..Len(h) : t[i] = h[i]
         /\ \A i \in 1..Len(v) : t[Len(h) + i] = v[i]
         /\ \A i \in 1..Len(e) : t[Len(h) + Len(v) + i] = e[i]
<1> DEFINE x == h \o v
<1>1. /\ x \in Seq(S) /\ Len(x) = Len(h) + Len(v) /\ Len(h) \in Nat /\ Len(v) \in Nat
      /\ Len(e) \in Nat
      /\ \A i \in 1..Len(x) : x[i] = IF i <= Len(h) THEN h[i] ELSE v[i - Len(h)]
  BY ConcatProperties, LenProperties
<1>2. t = x \o e
  OBVIOUS
<1> HIDE DEF x
<1>3. /\ t \in Seq(S) /\ Len(t) = Len(x) + Len(e)
      /\ \A i \in 1..Len(t) : t[i] = IF i <= Len(x) THEN x[i] ELSE e[i - Len(x)]
  BY <1>1, <1>2, ConcatProperties
<1>4. ASSUME NEW i \in 1..Len(h) PROVE t[i] = h[i]
  BY <1>1, <1>3
<1>5. ASSUME NEW i \in 1..Len(v) PROVE t[Len(h) + i] = v[i]
  <2>1. Len(h) + i \in 1..Len(t) /\ Len(h) + i \in 1..Len(x) /\ Len(h) + i <= Len(x)
        /\ ~(Len(h) + i <= Len(h)) /\ Len(h) + i - Len(h) = i
    BY <1>1, <1>3
  <2> QED BY <1>1, <1>3, <2>1
<1>6. ASSUME NEW i \in 1..Len(e) PROVE t[Len(h) + Len(v) + i] = e[i]
  <2>1. Len(h) + Len(v) + i \in 1..Len(t) /\ ~(Len(h) + Len(v) + i <= Len(x))
        /\ Len(h) + Len(v) + i - Len(x) = i
    BY <1>1, <1>3
  <2> QED BY <1>3, <2>1
<1> QED BY <1>1, <1>3, <1>4, <1>5, <1>6

\* A mask over the middle of a text leaves what is around it.
LEMMA MaskMiddle ==
  ASSUME NEW S, NEW U, S \subseteq U, NEW h \in Seq(S), NEW v \in Seq(U), NEW e \in Seq(S),
         NEW t, t = (h \o v) \o e
  PROVE  MaskBetween(t, Len(h), Len(h) + Len(v) + 1) \in Seq(S \cup {"*"})
<1>1. h \in Seq(U) /\ e \in Seq(U)
  BY SeqMonotonic
<1>2. /\ t \in Seq(U) /\ Len(t) = Len(h) + Len(v) + Len(e)
      /\ Len(h) \in Nat /\ Len(v) \in Nat /\ Len(e) \in Nat
      /\ \A i \in 1..Len(h) : t[i] = h[i]
      /\ \A i \in 1..Len(e) : t[Len(h) + Len(v) + i] = e[i]
  BY <1>1, Placed
<1>3. DOMAIN t = 1..Len(t) /\ Len(t) \in Nat
  BY <1>2, LenProperties
<1>4. ASSUME NEW i \in 1..Len(t)
      PROVE  (IF Len(h) < i /\ i < Len(h) + Len(v) + 1 THEN "*" ELSE t[i]) \in S \cup {"*"}
  <2>1. CASE i <= Len(h)
    <3>1. i \in 1..Len(h)
      BY <1>2, <1>3, <2>1
    <3>2. t[i] \in S
      BY <1>2, <3>1, ElementOfSeq
    <3> QED BY <1>2, <2>1, <3>2
  <2>2. CASE i >= Len(h) + Len(v) + 1
    <3> DEFINE k == i - (Len(h) + Len(v))
    <3>1. k \in 1..Len(e) /\ i = Len(h) + Len(v) + k
      BY <1>2, <1>3, <2>2
    <3>2. t[i] = e[k] /\ e[k] \in S
      BY <1>2, <3>1, ElementOfSeq
    <3> QED BY <1>2, <2>2, <3>2
  <2> QED BY <1>2, <1>3, <2>1, <2>2
<1>5. MaskBetween(t, Len(h), Len(h) + Len(v) + 1) \in [1..Len(t) -> S \cup {"*"}]
  BY <1>3, <1>4 DEF MaskBetween
<1> QED BY <1>3, <1>5, FunctionIsSeq

\* A URL: what comes before the ':', the password and the host.
UrlText(h, v) == ((h \o <<":">>) \o v) \o <<"@", "host">>

\* replace_password on a URL: all of the password, if it has no ':' and no '@'.
LEMMA UrlMasked ==
  ASSUME NEW S, NEW V, "@" \notin S, ":" \notin V, "@" \notin V,
         NEW h \in Seq(S), NEW v \in Seq(V),
         NEW t, t = UrlText(h, v)
  PROVE  MaskUrl(t) \in Seq(S \cup {":", "@", "host", "*"})
<1> DEFINE P == S \cup {":", "@", "host"}
           U == P \cup V
           g == h \o <<":">>
           e == <<"@", "host">>
<1>1. /\ g \in Seq(S \cup {":"}) /\ Len(g) = Len(h) + 1 /\ Len(h) \in Nat /\ g[Len(g)] = ":"
  <2>1. h \in Seq(S \cup {":"}) /\ <<":">> \in Seq(S \cup {":"}) /\ Len(<<":">>) = 1
    BY SeqMonotonic
  <2>2. /\ g \in Seq(S \cup {":"}) /\ Len(g) = Len(h) + 1
        /\ \A i \in 1..Len(g) : g[i] = IF i <= Len(h) THEN h[i] ELSE <<":">>[i - Len(h)]
    BY <2>1, ConcatProperties
  <2>3. Len(h) \in Nat /\ Len(g) \in 1..Len(g) /\ ~(Len(g) <= Len(h)) /\ Len(g) - Len(h) = 1
    BY <2>2, LenProperties
  <2> HIDE DEF g
  <2> QED BY <2>2, <2>3
<1>2. e \in Seq(P) /\ Len(e) = 2 /\ e[1] = "@"
  OBVIOUS
<1>3. t = (g \o v) \o e
  BY DEF UrlText
<1>4. g \in Seq(P) /\ g \in Seq(U) /\ v \in Seq(U) /\ e \in Seq(U)
  <2>1. S \cup {":"} \subseteq P /\ P \subseteq U /\ V \subseteq U /\ S \cup {":"} \subseteq U
    OBVIOUS
  <2> HIDE DEF P, U, g, e
  <2> QED BY <1>1, <1>2, <2>1, SeqMonotonic
<1> DEFINE at == Len(g) + Len(v) + 1
<1>5. P \subseteq U /\ P \cup {"*"} = S \cup {":", "@", "host", "*"}
  OBVIOUS
<1>6. \A i \in 1..Len(g) : g[i] \in S \cup {":"}
  BY <1>1, ElementOfSeq
<1>7. \A i \in 1..Len(v) : v[i] \in V
  BY ElementOfSeq
<1> HIDE DEF P, U, g, e
<1>8. /\ t \in Seq(U) /\ Len(t) = Len(g) + Len(v) + 2
      /\ Len(g) \in Nat \ {0} /\ Len(v) \in Nat
      /\ \A i \in 1..Len(g) : t[i] = g[i]
      /\ \A i \in 1..Len(v) : t[Len(g) + i] = v[i]
      /\ \A i \in 1..2 : t[Len(g) + Len(v) + i] = e[i]
  <2>1. /\ t \in Seq(U) /\ Len(t) = Len(g) + Len(v) + Len(e)
        /\ Len(g) \in Nat /\ Len(v) \in Nat
        /\ \A i \in 1..Len(g) : t[i] = g[i]
        /\ \A i \in 1..Len(v) : t[Len(g) + i] = v[i]
        /\ \A i \in 1..Len(e) : t[Len(g) + Len(v) + i] = e[i]
    BY <1>3, <1>4, Placed
  <2>2. Len(g) # 0
    BY <1>1
  <2> QED BY <1>2, <2>1, <2>2
<1>9. at \in 1..Len(t) /\ t[at] = "@" /\ at \in Nat
  BY <1>2, <1>8
<1>10. \A i \in Len(g) + 1 .. at - 1 : t[i] \in V
  <2> SUFFICES ASSUME NEW i \in Len(g) + 1 .. at - 1 PROVE t[i] \in V
    OBVIOUS
  <2> DEFINE k == i - Len(g)
  <2>1. k \in 1..Len(v) /\ Len(g) + k = i
    BY <1>8
  <2> QED BY <1>7, <1>8, <2>1
<1>11. First(t, "@") = at
  <2>1. \A i \in 1..at - 1 : t[i] # "@"
    <3> SUFFICES ASSUME NEW i \in 1..at - 1 PROVE t[i] # "@"
      OBVIOUS
    <3>1. CASE i <= Len(g)
      <4>1. i \in 1..Len(g)
        BY <1>8, <3>1
      <4> QED BY <1>6, <1>8, <4>1
    <3>2. CASE i > Len(g)
      <4>1. i \in Len(g) + 1 .. at - 1
        BY <1>8, <3>2
      <4> QED BY <1>10, <4>1
    <3> QED BY <1>8, <3>1, <3>2
  <2>2. Len(t) \in Nat
    BY <1>8
  <2> HIDE DEF at
  <2> QED BY <1>9, <2>1, <2>2, FirstIs
<1> DEFINE w == SubSeq(t, 1, at)
<1>12. Len(w) = at /\ \A i \in 1..at : w[i] = t[i]
  <2>1. \A i \in 1..at : t[i] \in U
    BY <1>8, <1>9, ElementOfSeq
  <2> HIDE DEF at
  <2>2. /\ Len(w) = (IF 1 <= at THEN at - 1 + 1 ELSE 0)
        /\ \A i \in 1..at - 1 + 1 : w[i] = t[1 + i - 1]
    BY <1>8, <1>9, <2>1, SubSeqProperties
  <2> QED BY <1>9, <2>2
<1> HIDE DEF w
<1>13. LastIn(w, ":") = Len(g)
  <2>1. Len(g) \in 1..Len(w) /\ Len(w) \in Nat /\ w[Len(g)] = ":"
    <3>1. Len(g) \in 1..Len(g) /\ Len(g) \in 1..at /\ at \in Nat
      BY <1>8
    <3>2. t[Len(g)] = ":"
      BY <1>1, <1>8, <3>1
    <3> HIDE DEF at
    <3> QED BY <1>12, <3>1, <3>2
  <2>2. \A i \in Len(g) + 1 .. Len(w) : w[i] # ":"
    <3> SUFFICES ASSUME NEW i \in Len(g) + 1 .. Len(w) PROVE w[i] # ":"
      OBVIOUS
    <3>1. i \in 1..at /\ (i = at \/ i \in Len(g) + 1 .. at - 1)
      BY <1>8, <1>9, <1>12
    <3> QED BY <1>9, <1>10, <1>12, <3>1
  <2> QED BY <2>1, <2>2, LastIs
<1>14. MaskUrl(t) = MaskBetween(t, Len(g), at)
  <2>1. MaskUrl(t) = IF First(t, "@") = 0 \/ LastIn(SubSeq(t, 1, First(t, "@")), ":") = 0 THEN t
                     ELSE MaskBetween(t, LastIn(SubSeq(t, 1, First(t, "@")), ":"), First(t, "@"))
    BY DEF MaskUrl, First, LastIn
  <2>2. at # 0 /\ Len(g) # 0
    BY <1>8
  <2> HIDE DEF at
  <2> QED BY <1>11, <1>13, <2>1, <2>2 DEF w
<1>15. MaskBetween(t, Len(g), Len(g) + Len(v) + 1) \in Seq(P \cup {"*"})
  BY <1>2, <1>3, <1>4, <1>5, MaskMiddle
<1> QED BY <1>5, <1>14, <1>15

Comma == ","

\* The comma is no other mark.
LEMMA CommaIs == Comma # "=" /\ Comma # "password"
BY DEF Comma

\* A group: the options before the password, its value, the options behind it.
GroupText(pre, v, post) == ((pre \o <<"password", "=">>) \o v) \o (<<Comma>> \o post)

\* replace_password on the options of a group: all of the value of its only
\* password, if that has no ','.
LEMMA GroupMasked ==
  ASSUME NEW S, NEW V, "password" \notin S, Comma \notin V,
         NEW pre \in Seq(S), NEW v \in Seq(V), NEW post \in Seq(S),
         NEW t, t = GroupText(pre, v, post)
  PROVE  MaskGroup(t) \in Seq(S \cup {"password", "=", Comma, "*"})
<1> DEFINE P == S \cup {"password", "=", Comma}
           U == P \cup V
           g == pre \o <<"password", "=">>
           e == <<Comma>> \o post
<1>1. /\ g \in Seq(P) /\ Len(g) = Len(pre) + 2 /\ Len(pre) \in Nat
      /\ \A i \in 1..Len(pre) : g[i] = pre[i]
      /\ g[Len(pre) + 1] = "password" /\ g[Len(pre) + 2] = "="
  <2> DEFINE q == <<"password", "=">>
  <2>1. pre \in Seq(P) /\ q \in Seq(P) /\ Len(q) = 2 /\ q[1] = "password" /\ q[2] = "="
    BY SeqMonotonic
  <2> HIDE DEF q
  <2>2. /\ g \in Seq(P) /\ Len(g) = Len(pre) + 2
        /\ \A i \in 1..Len(g) : g[i] = IF i <= Len(pre) THEN pre[i] ELSE q[i - Len(pre)]
    BY <2>1, ConcatProperties DEF q
  <2>3. Len(pre) \in Nat
    BY LenProperties
  <2> HIDE DEF g
  <2>4. \A i \in 1..Len(pre) : i \in 1..Len(g) /\ i <= Len(pre)
    BY <2>2, <2>3
  <2>5. /\ Len(pre) + 1 \in 1..Len(g) /\ ~(Len(pre) + 1 <= Len(pre)) /\ Len(pre) + 1 - Len(pre) = 1
        /\ Len(pre) + 2 \in 1..Len(g) /\ ~(Len(pre) + 2 <= Len(pre)) /\ Len(pre) + 2 - Len(pre) = 2
    BY <2>2, <2>3
  <2>6. \A i \in 1..Len(pre) : g[i] = pre[i]
    BY <2>2, <2>4
  <2>7. g[Len(pre) + 1] = "password" /\ g[Len(pre) + 2] = "="
    BY <2>1, <2>2, <2>5
  <2> HIDE DEF P
  <2> QED BY <2>2, <2>3, <2>6, <2>7
<1>2. e \in Seq(P) /\ Len(e) \in Nat \ {0} /\ e[1] = Comma
  <2> DEFINE q == <<Comma>>
  <2>1. post \in Seq(P) /\ q \in Seq(P) /\ Len(q) = 1 /\ q[1] = Comma
    BY SeqMonotonic
  <2> HIDE DEF q
  <2>2. /\ e \in Seq(P) /\ Len(e) = 1 + Len(post)
        /\ \A i \in 1..Len(e) : e[i] = IF i <= 1 THEN q[i] ELSE post[i - 1]
    BY <2>1, ConcatProperties DEF q
  <2>3. Len(post) \in Nat
    BY LenProperties
  <2> HIDE DEF e
  <2> QED BY <2>1, <2>2, <2>3
<1>3. t = (g \o v) \o e
  BY DEF GroupText
<1>4. g \in Seq(U) /\ v \in Seq(U) /\ e \in Seq(U) /\ P \subseteq U
  <2>1. P \subseteq U /\ V \subseteq U
    OBVIOUS
  <2> HIDE DEF P, U, g, e
  <2> QED BY <1>1, <1>2, <2>1, SeqMonotonic
<1>5. P \cup {"*"} = S \cup {"password", "=", Comma, "*"}
  OBVIOUS
<1>6. \A i \in 1..Len(pre) : pre[i] \in S
  BY ElementOfSeq
<1>7. \A i \in 1..Len(v) : v[i] \in V
  BY ElementOfSeq
<1> HIDE DEF P, U, g, e
<1>8. /\ t \in Seq(U) /\ Len(t) = Len(g) + Len(v) + Len(e)
      /\ Len(g) \in Nat /\ Len(v) \in Nat /\ Len(t) \in Nat
      /\ \A i \in 1..Len(g) : t[i] = g[i]
      /\ \A i \in 1..Len(v) : t[Len(g) + i] = v[i]
      /\ \A i \in 1..Len(e) : t[Len(g) + Len(v) + i] = e[i]
  BY <1>2, <1>3, <1>4, Placed, LenProperties
<1> DEFINE n == Len(pre) + 1
<1>9. n \in 1..Len(t) /\ t[n] = "password" /\ n \in Nat \ {0}
  <2>1. n \in 1..Len(g) /\ n \in Nat \ {0} /\ Len(g) <= Len(t)
    BY <1>1, <1>2, <1>8
  <2>2. t[n] = g[n]
    BY <1>8, <2>1
  <2>3. n \in 1..Len(t)
    BY <1>8, <2>1
  <2> QED BY <1>1, <2>1, <2>2, <2>3
<1>10. First(t, "password") = n
  <2>1. \A i \in 1..n - 1 : t[i] # "password"
    <3> SUFFICES ASSUME NEW i \in 1..n - 1 PROVE t[i] # "password"
      OBVIOUS
    <3>1. i \in 1..Len(pre) /\ i \in 1..Len(g)
      BY <1>1
    <3>2. t[i] = pre[i] /\ pre[i] \in S
      BY <1>1, <1>6, <1>8, <3>1
    <3> QED BY <3>2
  <2>2. Len(t) \in Nat /\ n \in 1..Len(t) /\ t[n] = "password"
    BY <1>8, <1>9
  <2> HIDE DEF n
  <2> QED BY <2>1, <2>2, FirstIs
<1> DEFINE w == SubSeq(t, n + 1, Len(t))
           c == Len(v) + 2
<1>11. Len(w) = Len(t) - n /\ \A i \in 1..Len(w) : w[i] = t[n + i]
  <2>1. \A i \in n + 1 .. Len(t) : t[i] \in U
    <3> SUFFICES ASSUME NEW i \in n + 1 .. Len(t) PROVE t[i] \in U
      OBVIOUS
    <3>1. i \in 1..Len(t)
      BY <1>8, <1>9
    <3> QED BY <1>8, <3>1, ElementOfSeq
  <2> HIDE DEF n
  <2>2. /\ Len(w) = (IF n + 1 <= Len(t) THEN Len(t) - (n + 1) + 1 ELSE 0)
        /\ \A i \in 1..Len(t) - (n + 1) + 1 : w[i] = t[n + 1 + i - 1]
    BY <1>8, <1>9, <2>1, SubSeqProperties
  <2>3. n <= Len(t)
    BY <1>8, <1>9
  <2> QED BY <1>8, <1>9, <2>2, <2>3
<1> HIDE DEF w
<1>12. First(w, Comma) = c
  <2>1. c \in 1..Len(w) /\ Len(w) \in Nat /\ n + c = Len(g) + Len(v) + 1
    BY <1>1, <1>2, <1>8, <1>11
  <2>2. w[c] = Comma
    <3>1. t[Len(g) + Len(v) + 1] = Comma
      BY <1>2, <1>8
    <3> QED BY <1>11, <2>1, <3>1
  <2>3. \A i \in 1..c - 1 : w[i] # Comma
    <3> SUFFICES ASSUME NEW i \in 1..c - 1 PROVE w[i] # Comma
      OBVIOUS
    <3>1. i \in 1..Len(w) /\ w[i] = t[n + i]
      BY <1>11, <2>1
    <3>2. CASE i = 1
      <4>1. n + i = Len(pre) + 2 /\ Len(pre) + 2 \in 1..Len(g)
        BY <1>1, <3>2
      <4> QED BY <1>1, <1>8, <3>1, <4>1, CommaIs
    <3>3. CASE i # 1
      <4> DEFINE k == i - 1
      <4>1. k \in 1..Len(v) /\ n + i = Len(g) + k
        BY <1>1, <1>8, <3>3
      <4> QED BY <1>7, <1>8, <3>1, <4>1
    <3> QED BY <3>2, <3>3
  <2> HIDE DEF c
  <2> QED BY <2>1, <2>2, <2>3, FirstIs
<1>13. MaskGroup(t) = MaskBetween(t, Len(g), Len(g) + Len(v) + 1)
  <2>1. MaskGroup(t) =
          IF First(t, "password") = 0 THEN t
          ELSE MaskBetween(t, First(t, "password") + 1, First(t, "password")
                 + First(SubSeq(t, First(t, "password") + 1, Len(t)), Comma))
    BY DEF MaskGroup, First, Comma
  <2>2. n # 0 /\ n + 1 = Len(g) /\ n + c = Len(g) + Len(v) + 1
    BY <1>1, <1>8
  <2> HIDE DEF n, c
  <2>3. MaskGroup(t) = MaskBetween(t, n + 1, n + c)
    BY <1>10, <1>12, <2>1, <2>2 DEF w
  <2> QED BY <2>2, <2>3
<1>14. MaskBetween(t, Len(g), Len(g) + Len(v) + 1) \in Seq(P \cup {"*"})
  BY <1>1, <1>2, <1>3, <1>4, MaskMiddle
<1> QED BY <1>5, <1>13, <1>14

-----------------------------------------------------------------------------
(* The characters of the arguments.                                        *)

\* The marks that occur in texts.
Signs == {":", "//", "@", "host", "=", Comma, "*", "password", "-h", "-V", "--"}

Chars == Words \cup Signs

\* The characters that are in no password.
Safe == Chars \ Secrets

\* The marks of an argument are no secrets.
LEMMA SignsSafe == Signs \subseteq Safe /\ Safe \subseteq Chars /\ Signs \subseteq Chars
<1>1. ASSUME NEW c \in Signs PROVE c \notin Secrets
  BY SecretsAssumption DEF Signs, Comma
<1> QED BY <1>1 DEF Safe, Chars

\* A sequence is over each set that has its elements.
LEMMA SeqWithin ==
  ASSUME NEW W, NEW s \in Seq(W), NEW S, ToSet(s) \subseteq S
  PROVE  s \in Seq(S)
<1>1. Len(s) \in Nat /\ DOMAIN s = 1..Len(s) /\ s \in [1..Len(s) -> W]
  BY LenProperties
<1>2. s \in [1..Len(s) -> S]
  BY <1>1 DEF ToSet
<1> QED BY <1>1, <1>2, FunctionIsSeq

\* The parts of the text of a URL.
UrlHead(a) == IF a.scheme = "" THEN <<>> ELSE <<a.scheme, ":", "//">>
UrlPass(a) == IF a.password = <<>> THEN <<>> ELSE <<":">> \o a.password
UrlAt(a)   == IF a.user \o a.password = <<>> THEN <<>> ELSE <<"@">>

\* The text of a URL in its parts.
LEMMA TextOfUrl ==
  ASSUME NEW a, a.kind = "arg"
  PROVE  Text(a) = (((UrlHead(a) \o a.user) \o UrlPass(a)) \o UrlAt(a)) \o <<"host">>
BY DEF Text, UrlHead, UrlPass, UrlAt

\* Short sequences.
LEMMA ThreeSeq ==
  ASSUME NEW S, NEW x \in S, NEW y \in S, NEW z \in S
  PROVE  <<x, y, z>> \in Seq(S)
OBVIOUS

\* Two sequences of one element make a pair.
LEMMA PairSeq ==
  ASSUME NEW S, NEW x \in S, NEW y \in S
  PROVE  <<x>> \o <<y>> = <<x, y>>
<1> DEFINE q == <<x>>
           r == <<y>>
           u == q \o r
           v == <<x, y>>
<1>1. /\ q \in Seq(S) /\ Len(q) = 1 /\ q[1] = x
      /\ r \in Seq(S) /\ Len(r) = 1 /\ r[1] = y
      /\ v \in Seq(S) /\ Len(v) = 2 /\ v[1] = x /\ v[2] = y
  OBVIOUS
<1> HIDE DEF q, r, v
<1>2. /\ u \in Seq(S) /\ Len(u) = Len(q) + Len(r)
      /\ \A i \in 1..Len(u) : u[i] = IF i <= Len(q) THEN q[i] ELSE r[i - Len(q)]
  BY <1>1, ConcatProperties
<1> HIDE DEF u
<1>3. Len(u) = 2 /\ u[1] = x /\ u[2] = y
  BY <1>1, <1>2
<1>4. \A i \in 1..Len(u) : u[i] = v[i]
  BY <1>1, <1>3
<1>5. u = v
  BY <1>1, <1>2, <1>3, <1>4, SeqEqual
<1> QED BY <1>5 DEF u, v, q, r

\* The characters of what comes before the user.
LEMMA UrlHeadIn ==
  ASSUME NEW S, ":" \in S, "//" \in S, NEW a, a.scheme = "" \/ a.scheme \in S
  PROVE  UrlHead(a) \in Seq(S)
<1>1. CASE a.scheme = ""
  <2>1. <<>> \in Seq(S)
    BY EmptySeq
  <2> QED BY <1>1, <2>1 DEF UrlHead
<1>2. CASE a.scheme # ""
  <2>1. ASSUME a.scheme \in S PROVE <<a.scheme, ":", "//">> \in Seq(S)
    BY <2>1, ThreeSeq
  <2> QED BY <1>2, <2>1 DEF UrlHead
<1> QED BY <1>1, <1>2

\* The characters of a URL.
LEMMA UrlTextIn ==
  ASSUME NEW S, ":" \in S, "@" \in S, "host" \in S, NEW a, a.kind = "arg",
         UrlHead(a) \in Seq(S), a.user \in Seq(S), a.password \in Seq(S)
  PROVE  Text(a) \in Seq(S)
<1> DEFINE h == UrlHead(a)
           x == h \o a.user
           y == x \o UrlPass(a)
           z == y \o UrlAt(a)
<1>1. <<>> \in Seq(S) /\ <<":">> \in Seq(S) /\ <<"@">> \in Seq(S) /\ <<"host">> \in Seq(S)
  OBVIOUS
<1>2. \A s, t \in Seq(S) : s \o t \in Seq(S)
  BY ConcatProperties
<1>3. UrlPass(a) \in Seq(S)
  BY <1>1, <1>2 DEF UrlPass
<1>4. UrlAt(a) \in Seq(S)
  BY <1>1 DEF UrlAt
<1>5. Text(a) = z \o <<"host">>
  BY TextOfUrl
<1>6. x \in Seq(S)
  BY <1>2
<1> HIDE DEF h, x
<1>7. y \in Seq(S)
  BY <1>2, <1>3, <1>6
<1> HIDE DEF y
<1>8. z \in Seq(S)
  BY <1>2, <1>4, <1>7
<1> HIDE DEF z
<1> QED BY <1>1, <1>2, <1>5, <1>8

\* A URL with a password is what comes before it, the password and the host.
LEMMA UrlWithPassword ==
  ASSUME NEW S, ":" \in S, "@" \in S, "host" \in S, NEW a, a.kind = "arg",
         UrlHead(a) \in Seq(S), a.user \in Seq(S), a.password \in Seq(S), a.password # <<>>
  PROVE  Text(a) = UrlText(UrlHead(a) \o a.user, a.password)
<1> DEFINE x == UrlHead(a) \o a.user
           c == <<":">>
           p == a.password
           q == <<"@">>
           r == <<"host">>
<1>1. c \in Seq(S) /\ q \in Seq(S) /\ r \in Seq(S) /\ p \in Seq(S)
  OBVIOUS
<1>2. \A s, t \in Seq(S) : s \o t \in Seq(S)
  BY ConcatProperties
<1>3. x \in Seq(S)
  BY <1>2
<1>4. UrlPass(a) = c \o p
  BY DEF UrlPass
<1>5. UrlAt(a) = q
  <2>1. a.user \o a.password # <<>>
    BY BothEmpty
  <2> QED BY <2>1 DEF UrlAt
<1>6. Text(a) = ((x \o (c \o p)) \o q) \o r
  BY <1>4, <1>5, TextOfUrl
<1>7. q \o r = <<"@", "host">>
  BY PairSeq
<1> HIDE DEF x, c, p, q, r
<1>8. \A s, t, u \in Seq(S) : (s \o t) \o u = s \o (t \o u)
  <2>1. Associates(S)
    BY ConcatAssociates
  <2> QED BY <2>1 DEF Associates
<1>9. x \o (c \o p) = (x \o c) \o p /\ (x \o c) \o p \in Seq(S)
  <2>1. \A t, u \in Seq(S) : (x \o t) \o u = x \o (t \o u)
    BY <1>3, <1>8
  <2>2. \A u \in Seq(S) : (x \o c) \o u = x \o (c \o u)
    BY <1>1, <2>1
  <2>3. (x \o c) \o p = x \o (c \o p)
    BY <1>1, <2>2
  <2>4. x \o c \in Seq(S)
    BY <1>1, <1>2, <1>3
  <2>5. (x \o c) \o p \in Seq(S)
    BY <1>1, <1>2, <2>4
  <2> QED BY <2>3, <2>5, Zenon
<1> DEFINE y == (x \o c) \o p
<1>10. (y \o q) \o r = y \o (q \o r)
  <2>1. y \in Seq(S)
    BY <1>9
  <2> HIDE DEF y
  <2>2. \A t, u \in Seq(S) : (y \o t) \o u = y \o (t \o u)
    BY <1>8, <2>1
  <2>3. \A u \in Seq(S) : (y \o q) \o u = y \o (q \o u)
    BY <1>1, <2>2
  <2> QED BY <1>1, <2>3
<1>11. Text(a) = ((x \o c) \o p) \o <<"@", "host">>
  BY <1>6, <1>7, <1>9, <1>10
<1> QED BY <1>11 DEF UrlText, x, c, p

\* The text of one option.
SubEq(s) == IF s.value = <<>> THEN <<>> ELSE <<"=">>

\* The text of an option in its parts.
LEMMA TextOfSub ==
  ASSUME NEW s
  PROVE  SubText(s) = ((<<s.name>> \o SubEq(s)) \o s.value) \o <<Comma>>
BY DEF SubText, SubEq, Comma

\* The characters of an option.
LEMMA SubTextIn ==
  ASSUME NEW S, "=" \in S, Comma \in S, NEW s, s.name \in S, s.value \in Seq(S)
  PROVE  SubText(s) \in Seq(S)
<1> DEFINE n == <<s.name>>
           c == <<Comma>>
           x == n \o SubEq(s)
           y == x \o s.value
<1>1. n \in Seq(S) /\ c \in Seq(S) /\ SubEq(s) \in Seq(S)
  BY DEF SubEq
<1>2. \A p, q \in Seq(S) : p \o q \in Seq(S)
  BY ConcatProperties
<1>3. SubText(s) = y \o c
  BY TextOfSub
<1> HIDE DEF n, c
<1>4. x \in Seq(S)
  BY <1>1, <1>2
<1> HIDE DEF x
<1>5. y \in Seq(S)
  BY <1>2, <1>4
<1> HIDE DEF y
<1> QED BY <1>1, <1>2, <1>3, <1>5

\* The texts of the options of a group.
SubTexts(a) == [i \in DOMAIN a.subs |-> SubText(a.subs[i])]

\* The text of a group is that of its options.
LEMMA TextOfGroup ==
  ASSUME NEW a, a.kind = "-o"
  PROVE  Text(a) = FlattenSeq(SubTexts(a))
BY DEF Text, SubTexts

\* There is one text for each option.
LEMMA SubTextsIn ==
  ASSUME NEW S, NEW a, TypedSubs(a), \A i \in DOMAIN a.subs : SubText(a.subs[i]) \in Seq(S)
  PROVE  /\ SubTexts(a) \in Seq(Seq(S)) /\ Len(SubTexts(a)) = Len(a.subs)
         /\ DOMAIN a.subs = 1..Len(a.subs) /\ Len(a.subs) \in Nat
         /\ \A i \in 1..Len(a.subs) : SubTexts(a)[i] = SubText(a.subs[i])
<1>1. DOMAIN a.subs = 1..Len(a.subs) /\ Len(a.subs) \in Nat
  BY LenProperties DEF TypedSubs
<1>2. SubTexts(a) \in [1..Len(a.subs) -> Seq(S)]
  BY <1>1 DEF SubTexts
<1>3. SubTexts(a) \in Seq(Seq(S)) /\ Len(SubTexts(a)) = Len(a.subs)
  BY <1>1, <1>2, FunctionIsSeq
<1>4. \A i \in 1..Len(a.subs) : SubTexts(a)[i] = SubText(a.subs[i])
  BY <1>1 DEF SubTexts
<1> QED BY <1>1, <1>3, <1>4

\* The characters of a group.
LEMMA GroupTextIn ==
  ASSUME NEW S, NEW a, a.kind = "-o", TypedSubs(a),
         \A i \in DOMAIN a.subs : SubText(a.subs[i]) \in Seq(S)
  PROVE  Text(a) \in Seq(S)
<1>1. SubTexts(a) \in Seq(Seq(S))
  BY SubTextsIn
<1>2. FlattenSeq(SubTexts(a)) \in Seq(S)
  BY <1>1, FlattenType
<1> QED BY <1>2, TextOfGroup

\* A group around one of its options, and taken apart.
Inside(pre, q, v, c, post) == (pre \o ((q \o v) \o c)) \o post
InRow(pre, q, v, c, post)  == ((pre \o q) \o v) \o (c \o post)

Apart(S) ==
  \A pre, q, v, c, post \in Seq(S) : Inside(pre, q, v, c, post) = InRow(pre, q, v, c, post)

\* The two are the same text.
LEMMA Reassociated ==
  ASSUME NEW S
  PROVE  Apart(S)
<1> SUFFICES ASSUME NEW pre \in Seq(S), NEW q \in Seq(S), NEW v \in Seq(S), NEW c \in Seq(S),
                    NEW post \in Seq(S)
             PROVE  (pre \o ((q \o v) \o c)) \o post = ((pre \o q) \o v) \o (c \o post)
  BY DEF Apart, Inside, InRow
<1>1. \A s, t \in Seq(S) : s \o t \in Seq(S)
  BY ConcatProperties
<1>2. \A s, t, u \in Seq(S) : (s \o t) \o u = s \o (t \o u)
  <2>1. Associates(S)
    BY ConcatAssociates
  <2> QED BY <2>1 DEF Associates
<1> DEFINE x == q \o v
           y == pre \o x
<1>3. x \in Seq(S)
  BY <1>1
<1>4. y = (pre \o q) \o v
  <2>1. \A t, u \in Seq(S) : (pre \o t) \o u = pre \o (t \o u)
    BY <1>2
  <2>2. \A u \in Seq(S) : (pre \o q) \o u = pre \o (q \o u)
    BY <2>1
  <2> QED BY <2>2, Zenon
<1> HIDE DEF x
<1>5. y \in Seq(S)
  BY <1>1, <1>3
<1>6. pre \o (x \o c) = y \o c
  <2> HIDE DEF y
  <2>1. \A t, u \in Seq(S) : (pre \o t) \o u = pre \o (t \o u)
    BY <1>2
  <2>2. \A u \in Seq(S) : (pre \o x) \o u = pre \o (x \o u)
    BY <1>3, <2>1
  <2>3. (pre \o x) \o c = pre \o (x \o c)
    BY <2>2
  <2> QED BY <2>3 DEF y
<1> HIDE DEF y
<1>7. (y \o c) \o post = y \o (c \o post)
  <2>1. \A t, u \in Seq(S) : (y \o t) \o u = y \o (t \o u)
    BY <1>2, <1>5
  <2>2. \A u \in Seq(S) : (y \o c) \o u = y \o (c \o u)
    BY <2>1
  <2> QED BY <2>2
<1> QED BY <1>4, <1>6, <1>7 DEF x

\* The options of a group: secrets are in passwords only, and a value does not
\* contain the name of the option.
LEMMA SubFacts ==
  ASSUME NEW a \in Args \cup {Mountpoint}, a.kind = "-o",
         NEW i \in DOMAIN a.subs, NEW s, s = a.subs[i]
  PROVE  /\ TypedSubs(a) /\ s.name \in Words /\ s.value \in Seq(Words)
         /\ s.name \notin Secrets /\ "password" \notin ToSet(s.value)
         /\ s.name # "password" => ToSet(s.value) \cap Secrets = {}
<1>1. s \in ToSet(a.subs)
  BY DEF ToSet
<1>2. /\ TypedSubs(a)
      /\ s.name \notin Secrets /\ "password" \notin ToSet(s.value)
      /\ s.name # "password" => ToSet(s.value) \cap Secrets = {}
  BY <1>1, ArgFacts
<1>3. a.subs \in Seq([name : Words, value : Seq(Words)])
  BY <1>2 DEF TypedSubs
<1>4. DOMAIN a.subs = 1..Len(a.subs)
  BY <1>3, LenProperties
<1>5. s \in [name : Words, value : Seq(Words)]
  BY <1>3, <1>4, ElementOfSeq
<1> QED BY <1>2, <1>5

\* Only the text of a password option has secrets.
LEMMA SubSafe ==
  ASSUME NEW a \in Args \cup {Mountpoint}, a.kind = "-o",
         NEW i \in DOMAIN a.subs, NEW s, s = a.subs[i]
  PROVE  /\ s.value \in Seq(Chars) /\ SubText(s) \in Seq(Chars)
         /\ s.name # "password" => SubText(s) \in Seq(Safe \ {"password"})
         /\ s.value = <<>> => SubText(s) \in Seq(Safe)
<1>1. /\ s.name \in Words /\ s.value \in Seq(Words)
      /\ s.name \notin Secrets /\ "password" \notin ToSet(s.value)
      /\ s.name # "password" => ToSet(s.value) \cap Secrets = {}
  BY SubFacts
<1>2. /\ "=" \in Safe /\ Comma \in Safe /\ "=" \in Chars /\ Comma \in Chars
      /\ "=" # "password" /\ Comma # "password"
  BY SignsSafe, CommaIs DEF Signs
<1>3. /\ s.name \in Safe /\ s.name \in Chars /\ Words \subseteq Chars
      /\ \A c \in Words : c \notin Secrets => c \in Safe
  BY <1>1 DEF Safe, Chars
<1>4. ToSet(s.value) \subseteq Words
  <2>1. DOMAIN s.value = 1..Len(s.value)
    BY <1>1, LenProperties
  <2>2. \A k \in 1..Len(s.value) : s.value[k] \in Words
    BY <1>1, ElementOfSeq
  <2> QED BY <2>1, <2>2 DEF ToSet
<1>5. s.value \in Seq(Chars)
  BY <1>1, <1>3, SeqMonotonic
<1>6. SubText(s) \in Seq(Chars)
  BY <1>2, <1>3, <1>5, SubTextIn
<1>7. ASSUME s.name # "password" PROVE SubText(s) \in Seq(Safe \ {"password"})
  <2>1. ToSet(s.value) \subseteq Safe \ {"password"}
    BY <1>1, <1>3, <1>4, <1>7
  <2>2. s.value \in Seq(Safe \ {"password"})
    BY <1>1, <2>1, SeqWithin
  <2>3. /\ s.name \in Safe \ {"password"}
        /\ "=" \in Safe \ {"password"} /\ Comma \in Safe \ {"password"}
    BY <1>2, <1>3, <1>7
  <2> QED BY <2>2, <2>3, SubTextIn
<1>8. ASSUME s.value = <<>> PROVE SubText(s) \in Seq(Safe)
  <2>1. s.value \in Seq(Safe)
    BY <1>8, EmptySeq
  <2> QED BY <1>2, <1>3, <2>1, SubTextIn
<1> QED BY <1>5, <1>6, <1>7, <1>8

\* A group that gives no password shows none.
LEMMA GroupSafe ==
  ASSUME NEW a \in Args \cup {Mountpoint}, a.kind = "-o",
         \A i \in DOMAIN a.subs : a.subs[i].name = "password" => a.subs[i].value = <<>>
  PROVE  Text(a) \in Seq(Safe)
<1>1. TypedSubs(a)
  BY ArgFacts
<1>2. ASSUME NEW i \in DOMAIN a.subs PROVE SubText(a.subs[i]) \in Seq(Safe)
  <2> DEFINE s == a.subs[i]
  <2>1. /\ s.name # "password" => SubText(s) \in Seq(Safe \ {"password"})
        /\ s.value = <<>> => SubText(s) \in Seq(Safe)
    BY SubSafe
  <2>2. Safe \ {"password"} \subseteq Safe
    OBVIOUS
  <2>3. \A x \in Seq(Safe \ {"password"}) : x \in Seq(Safe)
    BY <2>2, SeqMonotonic
  <2> QED BY <2>1, <2>3
<1> QED BY <1>1, <1>2, GroupTextIn

\* A group that gives one shows none once it is masked.
LEMMA GroupHidden ==
  ASSUME NEW a \in Args \cup {Mountpoint}, a.kind = "-o",
         NEW k \in DOMAIN a.subs, a.subs[k].name = "password", a.subs[k].value # <<>>,
         Comma \notin ToSet(a.subs[k].value),
         \A i \in DOMAIN a.subs : i # k => a.subs[i].name # "password"
  PROVE  MaskGroup(Text(a)) \in Seq(Safe)
<1> DEFINE S == Safe \ {"password"}
           V == Chars \ {Comma}
           e == SubText(a.subs[k])
           v == a.subs[k].value
<1>1. TypedSubs(a)
  BY ArgFacts
<1>2. \A i \in DOMAIN a.subs :
        /\ SubText(a.subs[i]) \in Seq(Chars)
        /\ i # k => SubText(a.subs[i]) \in Seq(S)
  BY SubSafe
<1>3. /\ SubTexts(a) \in Seq(Seq(Chars)) /\ Len(SubTexts(a)) = Len(a.subs)
      /\ DOMAIN a.subs = 1..Len(a.subs) /\ Len(a.subs) \in Nat
      /\ \A i \in 1..Len(a.subs) : SubTexts(a)[i] = SubText(a.subs[i])
  BY <1>1, <1>2, SubTextsIn
<1>4. S \subseteq Chars
  BY SignsSafe
<1>5. OthersIn(SubTexts(a), k, S)
  BY <1>2, <1>3 DEF OthersIn
<1>6. k \in 1..Len(SubTexts(a)) /\ SubTexts(a)[k] = e
  BY <1>3
<1>7. v \in Seq(Chars) /\ v \in Seq(V)
  <2>1. v \in Seq(Chars)
    BY SubSafe
  <2>2. ToSet(v) \subseteq Chars
    <3>1. DOMAIN v = 1..Len(v)
      BY <2>1, LenProperties
    <3>2. \A j \in 1..Len(v) : v[j] \in Chars
      BY <2>1, ElementOfSeq
    <3> QED BY <3>1, <3>2 DEF ToSet
  <2>3. ToSet(v) \subseteq V
    BY <2>2
  <2> QED BY <2>1, <2>3, SeqWithin
<1>8. e = ((<<"password">> \o <<"=">>) \o v) \o <<Comma>>
  <2>1. SubEq(a.subs[k]) = <<"=">>
    BY DEF SubEq
  <2> QED BY <2>1, TextOfSub
<1>9. {"password", "=", Comma, "*"} \subseteq Safe /\ {"password", "=", Comma, "*"} \subseteq Chars
  BY SignsSafe DEF Signs
<1>10. <<"password">> \o <<"=">> = <<"password", "=">>
  <2>1. "password" \in Chars /\ "=" \in Chars
    BY <1>9
  <2> QED BY <2>1, PairSeq
<1> DEFINE q == <<"password", "=">>
           c == <<Comma>>
<1>11. q \in Seq(Chars) /\ c \in Seq(Chars)
  BY <1>9
<1>12. e = (q \o v) \o c
  BY <1>8, <1>10
<1> HIDE DEF S, V, e, v
<1>13. PICK pre, post \in Seq(S) : FlattenSeq(SubTexts(a)) = (pre \o e) \o post
  <2>1. Around(FlattenSeq(SubTexts(a)), SubTexts(a)[k], S)
    BY <1>3, <1>4, <1>5, <1>6, FlattenAround
  <2> QED BY <1>6, <2>1 DEF Around
<1>14. pre \in Seq(Chars) /\ post \in Seq(Chars)
  BY <1>4, SeqMonotonic
<1> HIDE DEF q, c
<1>15. Inside(pre, q, v, c, post) = InRow(pre, q, v, c, post)
  <2>1. Apart(Chars)
    BY Reassociated
  <2> QED BY <1>7, <1>11, <1>14, <2>1 DEF Apart
<1>16. Text(a) = Inside(pre, q, v, c, post)
  BY <1>12, <1>13, TextOfGroup DEF Inside
<1>17. Text(a) = GroupText(pre, v, post)
  BY <1>15, <1>16 DEF GroupText, InRow, q, c
<1>18. MaskGroup(Text(a)) \in Seq(S \cup {"password", "=", Comma, "*"})
  <2>1. "password" \notin S /\ Comma \notin V
    BY DEF S, V
  <2> QED BY <1>7, <1>17, <2>1, GroupMasked
<1>19. S \cup {"password", "=", Comma, "*"} \subseteq Safe
  BY <1>9 DEF S
<1> QED BY <1>18, <1>19, SeqMonotonic

\* What comes before the password in a URL has no secret and no '@'.
LEMMA UrlParts ==
  ASSUME NEW a \in Args \cup {Mountpoint}, a.kind = "arg"
  PROVE  /\ UrlHead(a) \in Seq(Safe \ {"@"}) /\ a.user \in Seq(Safe \ {"@"})
         /\ a.password \in Seq(Chars \ {"@"})
<1> DEFINE S == Safe \ {"@"}
<1>1. /\ a.user \in Seq(Words) /\ a.password \in Seq(Words)
      /\ "@" \notin ToSet(a.user) /\ "@" \notin ToSet(a.password)
      /\ \A c \in ToSet(a.user) : c \notin Secrets
      /\ a.scheme # "@" /\ a.scheme \notin Secrets
  BY ArgFacts
<1>2. \A s \in Seq(Words) : ToSet(s) \subseteq Words
  <2> SUFFICES ASSUME NEW s \in Seq(Words) PROVE ToSet(s) \subseteq Words
    OBVIOUS
  <2>1. DOMAIN s = 1..Len(s)
    BY LenProperties
  <2>2. \A k \in 1..Len(s) : s[k] \in Words
    BY ElementOfSeq
  <2> QED BY <2>1, <2>2 DEF ToSet
<1>3. ToSet(a.user) \subseteq S /\ ToSet(a.password) \subseteq Chars \ {"@"}
  BY <1>1, <1>2 DEF Safe, Chars
<1>4. a.user \in Seq(S) /\ a.password \in Seq(Chars \ {"@"})
  BY <1>1, <1>3, SeqWithin
<1>5. a.scheme = "" \/ a.scheme \in Words
  <2>1. CASE a \in Args
    <3>1. a \in [kind : {"arg"}, scheme : Words, user : Seq(Words), password : Seq(Words)]
      BY <2>1, ArgsAssumption DEF Words
    <3> QED BY <3>1
  <2>2. CASE a = Mountpoint
    BY <2>2 DEF Mountpoint, Url
  <2> QED BY <2>1, <2>2
<1>6. a.scheme = "" \/ a.scheme \in S
  <2>1. a.scheme \in Words => a.scheme \in S
    BY <1>1 DEF Safe, Chars
  <2> QED BY <1>5, <2>1
<1>7. ":" \in S /\ "//" \in S
  BY SignsSafe DEF Signs
<1>8. UrlHead(a) \in Seq(S)
  <2> HIDE DEF S
  <2> QED BY <1>6, <1>7, UrlHeadIn
<1> QED BY <1>4, <1>8

\* A URL without a password has no secrets.
LEMMA UrlChars ==
  ASSUME NEW a \in Args \cup {Mountpoint}, a.kind = "arg"
  PROVE  /\ Text(a) \in Seq(Chars)
         /\ a.password = <<>> => Text(a) \in Seq(Safe)
<1>1. /\ UrlHead(a) \in Seq(Safe \ {"@"}) /\ a.user \in Seq(Safe \ {"@"})
      /\ a.password \in Seq(Chars \ {"@"})
  BY UrlParts
<1>2. Safe \ {"@"} \subseteq Safe /\ Safe \ {"@"} \subseteq Chars /\ Chars \ {"@"} \subseteq Chars
  BY SignsSafe
<1>3. /\ UrlHead(a) \in Seq(Safe) /\ a.user \in Seq(Safe)
      /\ UrlHead(a) \in Seq(Chars) /\ a.user \in Seq(Chars) /\ a.password \in Seq(Chars)
  BY <1>1, <1>2, SeqMonotonic
<1>4. /\ ":" \in Safe /\ "@" \in Safe /\ "host" \in Safe
      /\ ":" \in Chars /\ "@" \in Chars /\ "host" \in Chars
  BY SignsSafe DEF Signs
<1>5. Text(a) \in Seq(Chars)
  BY <1>3, <1>4, UrlTextIn
<1>6. ASSUME a.password = <<>> PROVE Text(a) \in Seq(Safe)
  <2>1. a.password \in Seq(Safe)
    BY <1>6, EmptySeq
  <2> QED BY <1>3, <1>4, <2>1, UrlTextIn
<1> QED BY <1>5, <1>6

\* A URL shows no password once it is masked.
LEMMA UrlHidden ==
  ASSUME NEW a \in Args \cup {Mountpoint}, a.kind = "arg", a.password # <<>>,
         ":" \notin ToSet(a.password)
  PROVE  MaskUrl(Text(a)) \in Seq(Safe)
<1> DEFINE S == Safe \ {"@"}
           V == Chars \ {":", "@"}
           h == UrlHead(a) \o a.user
<1>1. /\ UrlHead(a) \in Seq(S) /\ a.user \in Seq(S) /\ a.password \in Seq(Chars \ {"@"})
  BY UrlParts
<1>2. S \subseteq Chars /\ Chars \ {"@"} \subseteq Chars
  BY SignsSafe
<1>3. UrlHead(a) \in Seq(Chars) /\ a.user \in Seq(Chars) /\ a.password \in Seq(Chars)
  BY <1>1, <1>2, SeqMonotonic
<1>4. {":", "@", "host", "*"} \subseteq Safe /\ ":" \in Chars /\ "@" \in Chars /\ "host" \in Chars
  BY SignsSafe DEF Signs
<1>5. Text(a) = UrlText(h, a.password)
  BY <1>3, <1>4, UrlWithPassword
<1>6. h \in Seq(S)
  BY <1>1, ConcatProperties
<1>7. a.password \in Seq(V)
  <2>1. DOMAIN a.password = 1..Len(a.password)
    BY <1>1, LenProperties
  <2>2. \A k \in 1..Len(a.password) : a.password[k] \in Chars \ {"@"}
    BY <1>1, ElementOfSeq
  <2>3. ToSet(a.password) \subseteq V
    BY <2>1, <2>2 DEF ToSet
  <2> QED BY <1>1, <2>3, SeqWithin
<1>8. "@" \notin S /\ ":" \notin V /\ "@" \notin V
  OBVIOUS
<1>9. S \cup {":", "@", "host", "*"} \subseteq Safe
  BY <1>4
<1> HIDE DEF S, V, h
<1>10. MaskUrl(Text(a)) \in Seq(S \cup {":", "@", "host", "*"})
  BY <1>5, <1>6, <1>7, <1>8, UrlMasked
<1> QED BY <1>9, <1>10, SeqMonotonic

\* The text of an argument is a sequence of characters.
LEMMA TextType ==
  ASSUME NEW a \in Args \cup {Mountpoint}
  PROVE  Text(a) \in Seq(Chars)
<1>1. a.kind \in {"-h", "-V", "--", "arg", "-o"}
  BY ArgFacts
<1>2. CASE a.kind = "arg"
  BY <1>2, UrlChars
<1>3. CASE a.kind = "-o"
  <2>1. TypedSubs(a)
    BY <1>3, ArgFacts
  <2>2. \A i \in DOMAIN a.subs : SubText(a.subs[i]) \in Seq(Chars)
    BY <1>3, SubSafe
  <2> QED BY <1>3, <2>1, <2>2, GroupTextIn
<1>4. CASE a.kind \in {"-h", "-V", "--"}
  <2>1. Text(a) = <<a.kind>>
    BY <1>4 DEF Text
  <2>2. a.kind \in Chars
    BY <1>4, SignsSafe DEF Signs
  <2> QED BY <2>1, <2>2, SingleSeq
<1> QED BY <1>1, <1>2, <1>3, <1>4

-----------------------------------------------------------------------------
(* The theorems.                                                           *)

\* Requests are made with the credentials the command line says, whatever the
\* order and number of its options.
THEOREM CredentialsAreChosen == Spec => []CredentialsChosen
<1>1. StartupInv => CredentialsChosen
  BY DEF StartupInv, LateInv, Late, Credentials, CredentialsChosen
<1> QED BY <1>1, StartupInvariant, PTL

\* https is used if and only if the command line asks for it.
THEOREM SchemesAreChosen == Spec => []SchemeChosen
<1>1. StartupInv => SchemeChosen
  BY DEF StartupInv, BaseInv, SchemeChosen
<1> QED BY <1>1, StartupInvariant, PTL

\* The start-up crashes for no other reason than the four known ones.
THEOREM CrashesHaveCauses == Spec => []CrashCauses
<1>1. StartupInv => CrashCauses
  BY DEF StartupInv
<1> QED BY <1>1, StartupInvariant, PTL

\* use_lock is lost to nothing but a later proxytunnel.
THEOREM LocksAreKept == Spec => []UseLockKept
<1>1. ASSUME StartupInv PROVE UseLockKept
  <2> SUFFICES ASSUME pc = "serving", Given({"use_lock"}) # {}, ~opt.flags["use_lock"]
               PROVE  \E q \in Given({"proxytunnel"}) : \A p \in Given({"use_lock"}) : Before(p, q)
    BY DEF UseLockKept
  <2>1. next = Len(argv) + 1 /\ TypedArgv
    BY <1>1 DEF StartupInv, LateInv, Late, Shape
  <2>2. \A names : Done(names) = Given(names)
    BY <2>1, DoneAll
  <2> QED BY <1>1, <2>2 DEF StartupInv, LockInv
<1> QED BY <1>1, StartupInvariant, PTL

\* What ps shows keeps the length of every argument, masked or not.
THEOREM TypeCorrect == Spec => []TypeOK
<1>1. ASSUME StartupInv PROVE TypeOK
  <2>1. TypedArgv /\ shown \in {Plain, MaskedPlain}
    BY <1>1 DEF StartupInv, Shape, ShownInv
  <2>2. DOMAIN shown = DOMAIN argv
    BY <2>1 DEF Plain, MaskedPlain
  <2>3. ASSUME NEW i \in DOMAIN argv PROVE Len(shown[i]) = Len(Text(argv[i]))
    <3> DEFINE t == Text(argv[i])
    <3>1. argv[i] \in Args \cup {Mountpoint}
      BY <2>1 DEF TypedArgv
    <3>2. t \in Seq(Chars)
      BY <3>1, TextType
    <3>3. shown[i] \in {t, MaskGroup(t), MaskUrl(t)}
      BY <2>1 DEF Plain, MaskedPlain
    <3> HIDE DEF t
    <3>4. Len(MaskGroup(t)) = Len(t) /\ Len(MaskUrl(t)) = Len(t)
      BY <3>2, MaskType
    <3>5. Len(shown[i]) = Len(t)
      BY <3>3, <3>4
    <3> QED BY <3>5 DEF t
  <2> QED BY <1>1, <2>2, <2>3 DEF StartupInv, Shape, TypeOK
<1> QED BY <1>1, StartupInvariant, PTL

\* A text of safe characters shows no secret.
LEMMA SafeShown ==
  ASSUME NEW t \in Seq(Safe), NEW c \in Secrets
  PROVE  ~Contains(t, c)
<1>1. \A i \in 1..Len(t) : t[i] \in Safe
  BY ElementOfSeq
<1>2. c \notin Safe
  BY DEF Safe
<1> QED BY <1>1, <1>2 DEF Contains

\* A value that does not contain a character does not have it as an element.
LEMMA NotContained ==
  ASSUME NEW W, NEW s \in Seq(W), NEW c, ~Contains(s, c)
  PROVE  c \notin ToSet(s)
<1>1. DOMAIN s = 1..Len(s)
  BY LenProperties
<1> QED BY <1>1 DEF ToSet, Contains

\* The masks of replace_password, on arguments they can read, leave no secret.
LEMMA MaskedSafe ==
  ASSUME NEW a \in Args \cup {Mountpoint}
  PROVE  /\ a.kind = "arg" /\ ~Contains(a.password, ":") => MaskUrl(Text(a)) \in Seq(Safe)
         /\ /\ a.kind = "-o"
            /\ \A s \in ToSet(a.subs) : s.name = "password" => ~Contains(s.value, Comma)
            /\ \A m, n \in DOMAIN a.subs :
                 a.subs[m].name = "password" /\ a.subs[n].name = "password" => m = n
            => MaskGroup(Text(a)) \in Seq(Safe)
<1>1. "*" \in Safe
  BY SignsSafe DEF Signs
<1>2. \A t \in Seq(Safe) : MaskUrl(t) \in Seq(Safe) /\ MaskGroup(t) \in Seq(Safe)
  <2>1. Safe \cup {"*"} = Safe
    BY <1>1
  <2> QED BY <2>1, MaskType
<1>3. ASSUME a.kind = "arg", ~Contains(a.password, ":")
      PROVE  MaskUrl(Text(a)) \in Seq(Safe)
  <2>1. CASE a.password = <<>>
    BY <1>2, <1>3, <2>1, UrlChars
  <2>2. CASE a.password # <<>>
    <3>1. a.password \in Seq(Chars \ {"@"})
      BY <1>3, UrlParts
    <3>2. ":" \notin ToSet(a.password)
      BY <1>3, <3>1, NotContained
    <3> QED BY <1>3, <2>2, <3>2, UrlHidden
  <2> QED BY <2>1, <2>2
<1>4. ASSUME a.kind = "-o",
             \A s \in ToSet(a.subs) : s.name = "password" => ~Contains(s.value, Comma),
             \A m, n \in DOMAIN a.subs :
               a.subs[m].name = "password" /\ a.subs[n].name = "password" => m = n
      PROVE  MaskGroup(Text(a)) \in Seq(Safe)
  <2>1. CASE \A i \in DOMAIN a.subs : a.subs[i].name = "password" => a.subs[i].value = <<>>
    BY <1>2, <1>4, <2>1, GroupSafe
  <2>2. CASE \E i \in DOMAIN a.subs : a.subs[i].name = "password" /\ a.subs[i].value # <<>>
    <3>1. PICK k \in DOMAIN a.subs : a.subs[k].name = "password" /\ a.subs[k].value # <<>>
      BY <2>2
    <3>2. a.subs[k] \in ToSet(a.subs)
      BY DEF ToSet
    <3>3. a.subs[k].value \in Seq(Chars)
      BY <1>4, SubSafe
    <3>4. Comma \notin ToSet(a.subs[k].value)
      BY <1>4, <3>1, <3>2, <3>3, NotContained
    <3>5. \A i \in DOMAIN a.subs : i # k => a.subs[i].name # "password"
      BY <1>4, <3>1
    <3> QED BY <1>4, <3>1, <3>4, <3>5, GroupHidden
  <2> QED BY <2>1, <2>2
<1> QED BY <1>3, <1>4

\* An argument replace_password does not mask as a whole, or does not reach.
Unreadable(a) ==
  \/ a.kind = "--"
  \/ a.kind = "arg" /\ Contains(a.password, ":")
  \/ a.kind = "-o" /\ \E s \in ToSet(a.subs) : s.name = "password" /\ Contains(s.value, Comma)
  \/ a.kind = "-o" /\ \E m, n \in DOMAIN a.subs :
       m # n /\ a.subs[m].name = "password" /\ a.subs[n].name = "password"

\* hide_password was cleared by a later option.
HideLost ==
  \E p \in Given({"no_hide_password"} \cup Timeouts) :
    \A q \in Given({"hide_password"}) : Before(q, p)

\* With no password given at all, the command line itself has no secret.
LEMMA NoPassword ==
  ASSUME TypedArgv, NEW u \in DOMAIN argv, IsUrl(u), Credentials(u), opt.password = <<>>,
         "password" \notin met,
         NEW i \in DOMAIN argv, IsUrl(i) \/ argv[i].kind = "-o"
  PROVE  Text(argv[i]) \in Seq(Safe)
<1>0. argv[i] \in Args \cup {Mountpoint} /\ DOMAIN argv = 1..Len(argv) /\ Len(argv) \in Nat
  BY LenProperties DEF TypedArgv
<1>1. opt.password \in Settled({"password"}, argv[u].password)
  BY DEF Credentials, Copied
<1>2. Given({"password"}) = {} /\ argv[u].password = <<>>
  <2>1. {"password"} \subseteq StringOptions
    BY DEF StringOptions
  <2> DEFINE v == opt.password
             d == argv[u].password
  <2> HIDE DEF v, d
  <2>2. v \in Settled({"password"}, d) /\ v = <<>>
    BY <1>1 DEF v, d
  <2>3. Given({"password"}) = {} /\ v = d
    BY <2>1, <2>2, SettledValue
  <2> QED BY <2>2, <2>3 DEF d
<1>3. CASE IsUrl(i)
  <2>1. i = u
    BY <1>0, <1>3 DEF IsUrl
  <2>2. argv[i].kind = "arg"
    BY <1>3 DEF IsUrl
  <2> QED BY <1>0, <1>2, <2>1, <2>2, UrlChars
<1>4. CASE argv[i].kind = "-o"
  <2>1. ASSUME NEW k \in DOMAIN argv[i].subs, argv[i].subs[k].name = "password"
        PROVE  argv[i].subs[k].value = <<>>
    <3>1. DOMAIN argv[i].subs = 1..Len(argv[i].subs)
      <4>1. TypedSubs(argv[i])
        BY <1>0, <1>4, ArgFacts
      <4> QED BY <4>1, LenProperties DEF TypedSubs
    <3>2. <<i, k>> \in Positions
      BY <1>0, <1>4, <3>1, PositionFacts
    <3>3. OptionAt(<<i, k>>) = argv[i].subs[k]
      BY DEF OptionAt
    <3>4. ~Matches(argv[i].subs[k])
      BY <1>2, <2>1, <3>2, <3>3 DEF Given
    <3> QED BY <2>1, <3>4 DEF Matches, StringOptions
  <2> QED BY <1>0, <1>4, <2>1, GroupSafe
<1> QED BY <1>3, <1>4

\* A password on the command line is masked before the file system is mounted,
\* but for the exceptions of PasswordMasked.
THEOREM PasswordsAreMasked == Spec => []PasswordMasked
<1>1. ASSUME StartupInv, pc = "serving", Exposed, "password" \notin met,
             \A i \in DOMAIN argv : ~Unreadable(argv[i])
      PROVE  HideLost
  <2>1. TypedArgv /\ next = Len(argv) + 1
    BY <1>1 DEF StartupInv, Shape, LateInv, Late
  <2>2. PICK u \in DOMAIN argv : IsUrl(u) /\ Credentials(u)
    BY <1>1 DEF StartupInv, LateInv, Late
  <2>3. \/ shown = Plain /\ (~opt.flags["hide_password"] \/ opt.password = <<>>)
        \/ shown = MaskedPlain
    BY <1>1 DEF StartupInv, ShownInv, Late
  <2>4. PICK i \in DOMAIN argv, c \in Secrets :
          (IsUrl(i) \/ argv[i].kind = "-o") /\ Contains(shown[i], c)
    BY <1>1 DEF Exposed
  <2>5. shown[i] \notin Seq(Safe)
    BY <2>4, SafeShown
  <2>6. argv[i] \in Args \cup {Mountpoint} /\ DOMAIN argv = 1..Len(argv) /\ Len(argv) \in Nat
    BY <2>1, LenProperties DEF TypedArgv
  <2>7. CASE ~opt.flags["hide_password"]
    <3>1. \A names : Done(names) = Given(names)
      BY <2>1, DoneAll
    <3> QED BY <1>1, <2>7, <3>1 DEF StartupInv, HideInv, HideLost
  <2>8. CASE shown = Plain /\ opt.password = <<>>
    <3>1. Text(argv[i]) \in Seq(Safe)
      BY <1>1, <2>1, <2>2, <2>4, <2>8, NoPassword
    <3>2. shown[i] = Text(argv[i])
      BY <2>8 DEF Plain
    <3> QED BY <2>5, <3>1, <3>2
  <2>9. CASE shown = MaskedPlain
    <3>1. i \in Scanned
      <4>1. \A j \in 1..i : j \in DOMAIN argv
        BY <2>6
      <4> QED BY <1>1, <4>1 DEF Scanned, Unreadable
    <3>2. CASE argv[i].kind = "-o"
      <4>1. shown[i] = MaskGroup(Text(argv[i]))
        BY <2>9, <3>1, <3>2 DEF MaskedPlain, Plain
      <4>2. MaskGroup(Text(argv[i])) \in Seq(Safe)
        <5>1. ~Unreadable(argv[i])
          BY <1>1
        <5> DEFINE a == argv[i]
        <5>2. \A s \in ToSet(a.subs) : s.name = "password" => ~Contains(s.value, Comma)
          BY <3>2, <5>1 DEF Unreadable
        <5>3. \A m, n \in DOMAIN a.subs :
                 a.subs[m].name = "password" /\ a.subs[n].name = "password" => m = n
          BY <3>2, <5>1 DEF Unreadable
        <5>4. a \in Args \cup {Mountpoint} /\ a.kind = "-o"
          BY <2>6, <3>2
        <5> HIDE DEF a
        <5>5. MaskGroup(Text(a)) \in Seq(Safe)
          BY <5>2, <5>3, <5>4, MaskedSafe
        <5> QED BY <5>5 DEF a
      <4> QED BY <2>5, <4>1, <4>2
    <3>3. CASE IsUrl(i)
      <4>1. argv[i].kind = "arg"
        BY <3>3 DEF IsUrl
      <4>2. shown[i] = MaskUrl(Text(argv[i]))
        BY <2>9, <3>1, <3>3, <4>1 DEF MaskedPlain, Plain
      <4>3. ~Contains(argv[i].password, ":")
        BY <1>1, <4>1 DEF Unreadable
      <4>4. MaskUrl(Text(argv[i])) \in Seq(Safe)
        BY <2>6, <4>1, <4>3, MaskedSafe
      <4> QED BY <2>5, <4>2, <4>4
    <3> QED BY <2>4, <3>2, <3>3
  <2> QED BY <2>3, <2>7, <2>8, <2>9
<1>2. (pc = "serving" /\ Exposed => "password" \in met \/ HideLost \/ \E i \in DOMAIN argv : Unreadable(argv[i]))
        => PasswordMasked
  BY DEF PasswordMasked, HideLost, Unreadable, Comma
<1>3. StartupInv => PasswordMasked
  BY <1>1, <1>2
<1> QED BY <1>3, StartupInvariant, PTL
=============================================================================
