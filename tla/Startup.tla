------------------------------ MODULE Startup ------------------------------
(***************************************************************************)
(* From the command line to the mounted file system: main of networkfs.c   *)
(* with fuse_opt_parse, networkfs_opt_proc, combine_url and                *)
(* replace_password, the choice of the protocol in proto/proto.c,          *)
(* dav_getoper, and dav_init with dav_options, which asks the server what  *)
(* it can do.                                                              *)
(*                                                                         *)
(* fuse_opt stores the value of a flag option as an int at the offset of   *)
(* the option, and the flags are bools, of one byte: a store also sets the *)
(* three bytes behind the flag to 0 (on a little-endian machine).          *)
(*                                                                         *)
(* libfuse, libcurl, getopt and the server are external.                   *)
(***************************************************************************)
EXTENDS Integers, Sequences, SequencesExt

CONSTANTS
  Args,     \* the arguments a user may give
  MaxArgs,  \* how many of them at most, the mount point at the end apart
  Secrets,  \* what only passwords are made of
  Faults    \* "oom": an allocation fails

\* The bytes of the flags: three groups, apart from each other by more than an
\* int, in struct networkfs_opts (twice) and struct _networkfs_opts.
Offset ==
  [no_verify_hostname |-> 0, no_verify_peer |-> 1,
   proxytunnel |-> 8, use_lock |-> 9,
   proxyanyauth |-> 20, proxybasic |-> 21, proxydigest |-> 22, proxyntlm |-> 23,
   set_uid |-> 26, set_gid |-> 27, entry_timeout_set |-> 28,
   negative_timeout_set |-> 29, attr_timeout_set |-> 30, hide_password |-> 31,
   show_help |-> 32]

Flags == DOMAIN Offset

Timeouts == {"entry_timeout", "negative_timeout", "attr_timeout"}

\* The flag options: the field and the value stored.
OptionSpec ==
  [hide_password |-> <<"hide_password", TRUE>>, no_hide_password |-> <<"hide_password", FALSE>>,
   use_lock |-> <<"use_lock", TRUE>>, set_uid |-> <<"set_uid", TRUE>>,
   set_gid |-> <<"set_gid", TRUE>>, entry_timeout |-> <<"entry_timeout_set", TRUE>>,
   negative_timeout |-> <<"negative_timeout_set", TRUE>>,
   attr_timeout |-> <<"attr_timeout_set", TRUE>>, proxytunnel |-> <<"proxytunnel", TRUE>>,
   proxy_anyauth |-> <<"proxyanyauth", TRUE>>, proxy_basic |-> <<"proxybasic", TRUE>>,
   proxy_digest |-> <<"proxydigest", TRUE>>, proxy_ntlm |-> <<"proxyntlm", TRUE>>,
   no_verify_hostname |-> <<"no_verify_hostname", TRUE>>,
   no_verify_peer |-> <<"no_verify_peer", TRUE>>]

\* The options with a string, and those that set use_ssl.
StringOptions == {"scheme", "port", "user", "username", "password"}
SslOptions    == {"ssl", "ssl_control", "ssl_try"}

\* Arguments: a URL (or the mount point), a group of options after -o, -h, -V
\* and --. Names and the parts of a password are tokens.
Url(scheme, user, password) ==
  [kind |-> "arg", scheme |-> scheme, user |-> user, password |-> password]
Mountpoint == Url("", <<>>, <<>>)
Group(subs) == [kind |-> "-o", subs |-> subs]
Sub(name, value) == [name |-> name, value |-> value]

\* An option has a value, which is not empty, or is a name alone. The URL parser
\* ends the user and the password at the first '@'. Secrets occur in passwords
\* only, and names of options not in values.
ASSUME ArgsAssumption ==
  \A a \in Args :
    \/ a \in [kind : {"-h", "-V", "--"}]
    \/ /\ a \in [kind : {"arg"}, scheme : STRING, user : Seq(STRING), password : Seq(STRING)]
       /\ "@" \notin {a.scheme} \cup ToSet(a.user) \cup ToSet(a.password)
       /\ Secrets \cap ({a.scheme} \cup ToSet(a.user)) = {}
    \/ /\ a \in [kind : {"-o"}, subs : Seq([name : STRING, value : Seq(STRING)])]
       /\ a.subs # <<>>
       /\ \A s \in ToSet(a.subs) :
            /\ s.name \notin Secrets /\ ToSet(s.value) \cap {"", "password"} = {}
            /\ s.name # "password" => ToSet(s.value) \cap Secrets = {}

ASSUME SecretsAssumption ==
  Secrets \cap {"", ":", "//", "@", "host", "=", ",", "*", "password", "-h", "-V", "--"} = {}

\* The characters of an argument, as ps shows them.
SubText(s) == <<s.name>> \o (IF s.value = <<>> THEN <<>> ELSE <<"=">>) \o s.value \o <<",">>

Text(a) ==
  IF a.kind = "arg"
  THEN (IF a.scheme = "" THEN <<>> ELSE <<a.scheme, ":", "//">>) \o a.user
         \o (IF a.password = <<>> THEN <<>> ELSE <<":">> \o a.password)
         \o (IF a.user \o a.password = <<>> THEN <<>> ELSE <<"@">>) \o <<"host">>
  ELSE IF a.kind = "-o" THEN FlattenSeq([i \in DOMAIN a.subs |-> SubText(a.subs[i])])
  ELSE <<a.kind>>

VARIABLES
  argv,   \* the command line
  next,   \* the argument fuse_opt_parse looks at
  sub,    \* how many options of that argument it has done
  opt,    \* struct _networkfs_opts
  url,    \* options.baseurl: its scheme, user and password, or None
  fargs,  \* the options and arguments handed on to fuse_main
  shown,  \* the text of each argument in the memory ps reads
  base,   \* server.baseuh: its scheme, or "none"
  redir,  \* the server has redirected the first request
  meths,  \* the methods in server: those of its Allow header
  met,    \* history: the copies combine_url found no memory for, and "server" for
          \* a Server line without a version
  pc, ret

vars == <<argv, next, sub, opt, url, fargs, shown, base, redir, meths, met, pc, ret>>

None == [scheme |-> "", user |-> <<>>, password |-> <<>>]

TypeOK ==
  /\ next \in 1..Len(argv) + 1
  /\ sub > 0 => next <= Len(argv) /\ argv[next].kind = "-o" /\ sub < Len(argv[next].subs)
  /\ opt.flags \in [Flags -> BOOLEAN]
  /\ DOMAIN shown = DOMAIN argv
  /\ \A i \in DOMAIN argv : Len(shown[i]) = Len(Text(argv[i]))
  /\ base \in {"none", "http", "https"}
  /\ met \subseteq {"scheme", "user", "password", "server"}
  /\ pc \in {"parse", "combine", "hide", "scheme", "proto", "addargs", "fuse", "probe",
             "options", "serving", "cleanup", "exit", "crash"}
  /\ ret \in 0..1

\* Behind -- there are no options.
CommandLines ==
  {s \in BoundedSeq(Args, MaxArgs) :
     \A i \in DOMAIN s : s[i].kind = "--" => \A j \in i + 1 .. Len(s) : s[j].kind = "arg"}

Init ==
  /\ argv \in CommandLines \cup {Append(s, Mountpoint) : s \in CommandLines}
  /\ next = 1 /\ sub = 0
  /\ opt = [flags |-> [f \in Flags |-> f = "hide_password"], scheme |-> "", port |-> "",
            user |-> <<>>, password |-> <<>>, ssl |-> FALSE, auth |-> {}]
  /\ url = None /\ fargs = {}
  /\ shown = [i \in DOMAIN argv |-> Text(argv[i])]
  /\ base = "none" /\ redir = FALSE /\ meths = {} /\ met = {}
  /\ pc = "parse" /\ ret = 0

-----------------------------------------------------------------------------
Goto(s) == pc' = s /\ UNCHANGED <<argv, met, ret>>

\* The same after something went wrong unnoticed.
Note(s, wrong) == pc' = s /\ met' = met \cup wrong /\ UNCHANGED <<argv, ret>>

\* main goes to its end with the result r; after an exception that is 1.
Exit(r) == pc' = "cleanup" /\ ret' = r /\ UNCHANGED <<argv, met>>

-----------------------------------------------------------------------------
(* fuse_opt_parse (external) and networkfs_opt_proc.                       *)

\* Mutant of Store: the flags share one word, which is assigned.
StoreWord(flags, f, v) == [g \in Flags |-> g = f /\ v]

Store(flags, f, v) ==
  [g \in Flags |-> IF g = f THEN v
                   ELSE IF Offset[g] \in Offset[f] + 1 .. Offset[f] + 3 THEN FALSE
                   ELSE flags[g]]

\* Whether an option matches a template: the flags are names alone, the strings
\* and the timeouts have a value.
Matches(s) ==
  IF s.value = <<>> THEN s.name \in (DOMAIN OptionSpec \ Timeouts) \cup SslOptions
  ELSE s.name \in StringOptions \cup Timeouts

\* One option. The template of a timeout ends in '=': its flag is stored and the
\* option itself is dropped.
SetOption(o, s) ==
  IF ~Matches(s) THEN o
  ELSE [o EXCEPT
    !.flags = IF s.name \in DOMAIN OptionSpec
              THEN Store(@, OptionSpec[s.name][1], OptionSpec[s.name][2]) ELSE @,
    !.scheme = IF s.name = "scheme" THEN s.value[1] ELSE @,
    !.port = IF s.name = "port" THEN s.value[1] ELSE @,
    !.user = IF s.name \in {"user", "username"} THEN s.value ELSE @,
    !.password = IF s.name = "password" THEN s.value ELSE @,
    !.ssl = @ \/ s.name \in SslOptions]

\* An option that matches no template is handed on.
Unknown(s) == IF Matches(s) THEN {} ELSE {<<"-o", s.name>> \o s.value}

\* curl_url_set, which guesses https where there is no scheme. The name "bad"
\* stands for what it does not accept.
ParsedUrl(a) ==
  [scheme |-> IF a.scheme = "" THEN "https" ELSE a.scheme, user |-> a.user,
   password |-> a.password]

ParseOption ==
  /\ argv[next].kind = "-o"
  /\ LET s == argv[next].subs[sub + 1]
     IN  opt' = SetOption(opt, s) /\ fargs' = fargs \cup Unknown(s)
  /\ IF sub + 1 < Len(argv[next].subs) THEN sub' = sub + 1 /\ UNCHANGED next
     ELSE sub' = 0 /\ next' = next + 1
  /\ Goto("parse")
  /\ UNCHANGED url

\* KEY_VERSION exits at once; -h is a flag; -- is handed on.
ParseSwitch ==
  /\ \/ argv[next].kind = "-V" /\ Goto("exit") /\ UNCHANGED opt
     \/ /\ argv[next].kind = "-h"
        /\ opt' = [opt EXCEPT !.flags = Store(@, "show_help", TRUE)]
        /\ Goto("parse")
     \/ argv[next].kind = "--" /\ Goto("parse") /\ UNCHANGED opt
  /\ next' = next + 1
  /\ UNCHANGED <<sub, url, fargs>>

\* FUSE_OPT_KEY_NONOPT: the first one is the URL, the others are handed on.
ParseArg ==
  /\ argv[next].kind = "arg"
  /\ next' = next + 1
  /\ \/ /\ url = None
        /\ \/ (argv[next].scheme = "bad" \/ "oom" \in Faults) /\ Exit(1) /\ UNCHANGED url
           \/ argv[next].scheme # "bad" /\ url' = ParsedUrl(argv[next]) /\ Goto("parse")
        /\ UNCHANGED fargs
     \/ url # None /\ fargs' = fargs \cup {<<"arg">>} /\ Goto("parse") /\ UNCHANGED url
  /\ UNCHANGED <<sub, opt>>

Parse ==
  /\ pc = "parse" /\ next <= Len(argv)
  /\ ParseOption \/ ParseSwitch \/ ParseArg
  /\ UNCHANGED <<shown, base, redir, meths>>

\* -h goes straight to fuse_main, without operations.
Parsed ==
  /\ pc = "parse" /\ next > Len(argv)
  /\ \/ opt.flags["show_help"] /\ fargs' = fargs \cup {<<"-h">>} /\ Goto("fuse")
     \/ opt.flags["show_help"] /\ "oom" \in Faults /\ Exit(1) /\ UNCHANGED fargs
     \/ ~opt.flags["show_help"] /\ url = None /\ Exit(1) /\ UNCHANGED fargs
     \/ ~opt.flags["show_help"] /\ url # None /\ Goto("combine") /\ UNCHANGED fargs
  /\ UNCHANGED <<next, sub, opt, url, shown, base, redir, meths>>

-----------------------------------------------------------------------------
(* combine_url, replace_password and the rest of main.                     *)

\* The schemes libcurl can speak, which is what it accepts here.
CurlSchemes == {"http", "https", "ftp"}

\* Mutant of Chosen: the URL has the last word.
ChosenUrl(given, part) == IF part # <<>> THEN part ELSE given

\* An option wins over the same part of the URL.
Chosen(given, part) == IF given # <<>> THEN given ELSE part

\* Mutant of SchemeLeft: the scheme of the URL is not copied.
SchemeLeftNull == ""

\* options->scheme afterwards: a copy of the URL's, or the erased option.
SchemeLeft == IF opt.scheme = "" THEN url.scheme ELSE ""

\* The parts of the URL that strdup copies, whose result is not checked.
Copies == (IF opt.scheme = "" THEN {"scheme"} ELSE {})
            \cup (IF opt.user = <<>> /\ url.user # <<>> THEN {"user"} ELSE {})
            \cup (IF opt.password = <<>> /\ url.password # <<>> THEN {"password"} ELSE {})

\* The scheme option, once put into the URL, is erased and read no more from it. A
\* copy there is no memory for is NULL, and the part is removed from the URL as well.
CombineUrl ==
  /\ pc = "combine"
  /\ \/ /\ opt.scheme \notin CurlSchemes \cup {""} \/ opt.port = "bad" \/ "oom" \in Faults
        /\ Exit(1) /\ UNCHANGED <<opt, url>>
     \/ /\ opt.scheme \in CurlSchemes \cup {""} /\ opt.port # "bad"
        /\ url' = [scheme |-> IF opt.scheme = "" THEN url.scheme ELSE opt.scheme,
                   user |-> IF opt.user = <<>> THEN <<>> ELSE url.user,
                   password |-> IF opt.password = <<>> THEN <<>> ELSE url.password]
        /\ \E lost \in SUBSET (IF "oom" \in Faults THEN Copies ELSE {}) :
             /\ opt' = [opt EXCEPT
                  !.scheme = IF "scheme" \in lost THEN "" ELSE SchemeLeft, !.port = "",
                  !.user = IF "user" \in lost THEN <<>> ELSE Chosen(@, url.user),
                  !.password = IF "password" \in lost THEN <<>> ELSE Chosen(@, url.password)]
             /\ Note("hide", lost)
  /\ UNCHANGED <<next, sub, fargs, shown, base, redir, meths>>

\* Mutant of MaskBetween: the masked text becomes shorter.
MaskBetweenCut(t, a, b) == SubSeq(t, 1, a) \o SubSeq(t, b, Len(t))

MaskBetween(t, a, b) == [i \in DOMAIN t |-> IF a < i /\ i < b THEN "*" ELSE t[i]]

\* From the last ':' before the first '@' up to it.
MaskUrl(t) ==
  LET at    == SelectInSeq(t, LAMBDA c : c = "@")
      colon == SelectLastInSeq(SubSeq(t, 1, at), LAMBDA c : c = ":")
  IN  IF at = 0 \/ colon = 0 THEN t ELSE MaskBetween(t, colon, at)

\* Mutant of MaskGroup: the value is masked without its first character.
MaskGroupLate(t) ==
  LET name == SelectInSeq(t, LAMBDA c : c = "password")
  IN  IF name = 0 THEN t ELSE MaskBetween(t, name + 2, Len(t))

\* getsubopt: the value of the first password, up to the next comma.
MaskGroup(t) ==
  LET name  == SelectInSeq(t, LAMBDA c : c = "password")
      comma == SelectInSeq(SubSeq(t, name + 1, Len(t)), LAMBDA c : c = ",")
  IN  IF name = 0 THEN t ELSE MaskBetween(t, name + 1, name + comma)

\* getopt stops at --; only its first plain argument counts as the URL.
Scanned == {i \in DOMAIN argv : \A j \in 1..i : argv[j].kind # "--"}

IsUrl(i) == argv[i].kind = "arg" /\ \A j \in 1..i - 1 : argv[j].kind # "arg"

Masked ==
  [i \in DOMAIN argv |->
     IF i \in Scanned /\ argv[i].kind = "-o" THEN MaskGroup(shown[i])
     ELSE IF i \in Scanned /\ IsUrl(i) THEN MaskUrl(shown[i]) ELSE shown[i]]

\* A password option without a value gives getsubopt nothing to point to, if
\* it is the first one in its group.
NullValue(a) ==
  a.kind = "-o" /\ \E k \in DOMAIN a.subs :
                     /\ a.subs[k].name = "password" /\ a.subs[k].value = <<>>
                     /\ \A j \in 1..k - 1 : a.subs[j].name # "password"

ReplacePassword ==
  /\ pc = "hide"
  /\ IF ~opt.flags["hide_password"] \/ opt.password = <<>> THEN Goto("scheme") /\ UNCHANGED shown
     ELSE IF \E i \in Scanned : NullValue(argv[i]) THEN Goto("crash") /\ UNCHANGED shown
     ELSE shown' = Masked /\ Goto("scheme")
  /\ UNCHANGED <<next, sub, opt, url, fargs, base, redir, meths>>

\* The authentication of the proxy, then the s at the end of the scheme, read
\* through a null pointer when the scheme was an option or its copy failed.
Secures == [davs |-> "dav", https |-> "http", dummys |-> "dummy"]

\* Mutant of MainScheme: the s is cut off and means nothing.
MainSchemePlain ==
  /\ pc = "scheme"
  /\ IF opt.scheme = "" THEN Goto("crash") /\ UNCHANGED opt
     ELSE /\ opt' = IF opt.scheme \in DOMAIN Secures
                    THEN [opt EXCEPT !.scheme = Secures[opt.scheme]] ELSE opt
          /\ Goto("proto")
  /\ UNCHANGED <<next, sub, url, fargs, shown, base, redir, meths>>

MainScheme ==
  /\ pc = "scheme"
  /\ IF opt.scheme = "" THEN Goto("crash") /\ UNCHANGED opt
     ELSE /\ opt' = [opt EXCEPT
               !.auth = IF opt.flags["proxyanyauth"] THEN {"any"}
                        ELSE {f \in {"proxybasic", "proxydigest", "proxyntlm"} : opt.flags[f]},
               !.ssl = @ \/ opt.scheme \in DOMAIN Secures,
               !.scheme = IF @ \in DOMAIN Secures THEN Secures[@] ELSE @]
          /\ Goto("proto")
  /\ UNCHANGED <<next, sub, url, fargs, shown, base, redir, meths>>

\* get_proto_oper and dav_getoper, which copies the URL under its real scheme.
GetProtoOper ==
  /\ pc = "proto"
  /\ \/ /\ opt.scheme = "dav"
        /\ base' = (IF opt.ssl THEN "https" ELSE "http") /\ Goto("addargs")
     \/ opt.scheme = "dav" /\ "oom" \in Faults /\ Exit(1) /\ UNCHANGED base
     \/ opt.scheme = "dummy" /\ Goto("addargs") /\ UNCHANGED base
     \/ opt.scheme \notin {"dav", "dummy"} /\ Exit(1) /\ UNCHANGED base
  /\ UNCHANGED <<next, sub, opt, url, fargs, shown, redir, meths>>

\* -ouid and -ogid, and the defaults of the timeouts whose flag is not set.
AddArgs ==
  /\ pc = "addargs"
  /\ \/ /\ fargs' = fargs
             \cup {<<"-o", f>> : f \in {f \in {"set_uid", "set_gid"} : opt.flags[f]}}
             \cup {<<"-o", t, "default">> : t \in {t \in Timeouts : ~opt.flags[OptionSpec[t][1]]}}
        /\ Goto("fuse")
     \/ "oom" \in Faults /\ Exit(1) /\ UNCHANGED fargs
  /\ UNCHANGED <<next, sub, opt, url, shown, base, redir, meths>>

\* fuse_main needs a mount point, unless it only shows its help. It calls the
\* init operation, which the dummy protocol does not have.
FuseMain ==
  /\ pc = "fuse"
  /\ IF <<"-h">> \in fargs THEN Exit(0)
     ELSE IF <<"arg">> \notin fargs THEN Exit(1)
     ELSE Goto(IF base = "none" THEN "serving" ELSE "probe")
  /\ UNCHANGED <<next, sub, opt, url, fargs, shown, base, redir, meths>>

\* dav_destroy, when the file system is unmounted and when dav_init gives up.
\* fuse_main returns 0 either way.
FuseEnds == base' = "none" /\ Exit(0) /\ UNCHANGED <<redir, meths>>

-----------------------------------------------------------------------------
(* dav_init: dav_options.                                                  *)

\* The first request does not follow a redirection; its target becomes the URL
\* of the server, unless it cannot be parsed.
Probe ==
  /\ pc = "probe"
  /\ \/ Goto("options") /\ UNCHANGED <<base, redir, meths>>
     \/ base' \in {"http", "https"} /\ redir' = TRUE /\ Goto("options") /\ UNCHANGED meths
     \/ FuseEnds
  /\ UNCHANGED <<next, sub, opt, url, fargs, shown>>

\* The headers of OPTIONS: the methods of Allow, and a Server line, if any, which
\* __dav_options_callback cuts at its '/' without looking whether there is one.
Options ==
  /\ pc = "options"
  /\ \/ \E allow \in SUBSET {"LOCK", "UNLOCK"}, line \in {"none", "name", "name/version"} :
          IF line # "name"
          THEN /\ meths' = (IF allow = {"LOCK", "UNLOCK"} THEN allow ELSE {})
               /\ Goto("serving") /\ UNCHANGED <<base, redir>>
          ELSE Note("crash", {"server"}) /\ UNCHANGED <<base, redir, meths>>
     \/ FuseEnds
  /\ UNCHANGED <<next, sub, opt, url, fargs, shown>>

Unmount == pc = "serving" /\ FuseEnds /\ UNCHANGED <<next, sub, opt, url, fargs, shown>>

\* The end of main: what was allocated is freed.
Cleanup ==
  /\ pc = "cleanup"
  /\ opt' = [opt EXCEPT !.scheme = "", !.port = "", !.user = <<>>, !.password = <<>>]
  /\ url' = None
  /\ Goto("exit")
  /\ UNCHANGED <<next, sub, fargs, shown, base, redir, meths>>

Ended == pc \in {"exit", "crash"} /\ UNCHANGED vars

Next ==
  \/ Parse \/ Parsed \/ CombineUrl \/ ReplacePassword \/ MainScheme \/ GetProtoOper
  \/ AddArgs \/ FuseMain \/ Probe \/ Options \/ Unmount \/ Cleanup \/ Ended

Spec == Init /\ [][Next]_vars

-----------------------------------------------------------------------------
(* Properties. They compare the mounted file system with the command line. *)

\* Where the options are, and those among them that match a template.
Positions == UNION {{i} \X DOMAIN argv[i].subs : i \in {i \in DOMAIN argv : argv[i].kind = "-o"}}

OptionAt(p) == argv[p[1]].subs[p[2]]

Before(p, q) == p[1] < q[1] \/ (p[1] = q[1] /\ p[2] < q[2])

Given(names) == {p \in Positions : Matches(OptionAt(p)) /\ OptionAt(p).name \in names}

\* The value of the last option with one of these names, else the default.
Settled(names, default) ==
  IF Given(names) = {} THEN {default}
  ELSE {OptionAt(p).value : p \in {p \in Given(names) : \A q \in Given(names) : ~Before(p, q)}}

\* Whether ps shows any of the passwords.
Exposed == \E i \in DOMAIN argv : /\ IsUrl(i) \/ argv[i].kind = "-o"
                                  /\ \E c \in Secrets : Contains(shown[i], c)

\* A password given on the command line is masked once the file system is
\* mounted, unless the user asked otherwise. The only exceptions: a timeout
\* option given after the last word on hide_password (its store clears that
\* flag), a password that contains the separator replace_password looks for,
\* two passwords in one -o, a URL behind --, and one there was no memory to copy.
PasswordMasked ==
  pc = "serving" /\ Exposed =>
    \/ "password" \in met
    \/ \E p \in Given({"no_hide_password"} \cup Timeouts) :
         \A q \in Given({"hide_password"}) : Before(q, p)
    \/ \E i \in DOMAIN argv :
         \/ argv[i].kind = "--"
         \/ argv[i].kind = "arg" /\ Contains(argv[i].password, ":")
         \/ argv[i].kind = "-o" /\ \E s \in ToSet(argv[i].subs) :
              s.name = "password" /\ Contains(s.value, ",")
         \/ argv[i].kind = "-o" /\ \E m, n \in DOMAIN argv[i].subs :
              m # n /\ argv[i].subs[m].name = "password" /\ argv[i].subs[n].name = "password"

\* A part of the URL as far as combine_url had the memory to copy it.
Copied(part, value) == IF part \in met THEN <<>> ELSE value

\* Requests are made with the user and the password of the last options that
\* give them, else with those of the URL, from which they are then removed; an
\* allocation of combine_url that fails loses those of the URL, and nothing else.
CredentialsChosen ==
  pc \in {"probe", "options", "serving"} =>
    \E u \in DOMAIN argv :
      /\ IsUrl(u)
      /\ opt.user \in Settled({"user", "username"}, Copied("user", argv[u].user))
      /\ opt.password \in Settled({"password"}, Copied("password", argv[u].password))
      /\ Given({"user", "username"}) = {} => url.user = <<>>
      /\ Given({"password"}) = {} => url.password = <<>>

\* The server is asked over https if and only if the URL says davs or an option
\* says ssl, until it redirects; no scheme but dav and davs gets there.
SchemeChosen ==
  pc \in {"probe", "options"} /\ ~redir =>
    \E u \in DOMAIN argv :
      /\ IsUrl(u) /\ argv[u].scheme \in {"dav", "davs"}
      /\ base = IF argv[u].scheme = "davs" \/ Given(SslOptions) # {} THEN "https" ELSE "http"

\* The start-up stops in the middle for four reasons only: the scheme option, no
\* memory to copy the scheme of the URL, a password option without a value, and
\* a Server line without a version.
CrashCauses ==
  pc = "crash" =>
    \/ \E v \in Settled({"scheme"}, <<"">>) : v[1] \in CurlSchemes
    \/ \E p \in Positions : OptionAt(p).name = "password" /\ OptionAt(p).value = <<>>
    \/ met \cap {"scheme", "server"} # {}

\* use_lock, on which the lock table depends, is only lost to a proxytunnel
\* option given after it.
UseLockKept ==
  pc = "serving" /\ Given({"use_lock"}) # {} /\ ~opt.flags["use_lock"] =>
    \E q \in Given({"proxytunnel"}) : \A p \in Given({"use_lock"}) : Before(p, q)

\* A timeout the user gives is the one the file system is mounted with.
TimeoutsHonoured ==
  pc = "serving" =>
    \A t \in Timeouts : Given({t}) # {} =>
      \E v \in Settled({t}, <<>>) : <<"-o", t>> \o v \in fargs
=============================================================================
