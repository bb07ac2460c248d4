----------------------------- MODULE MCStartup -----------------------------
(* Command lines for TLC.                                                 *)
EXTENDS Startup

Urls == {Url("dav", <<>>, <<>>), Url("davs", <<"u">>, <<"secret">>),
         Url("davs", <<"u">>, <<"secret", ":", "tail">>), Url("dummys", <<"u">>, <<>>),
         Url("bad", <<>>, <<>>)}

Passwords == {<<"secret">>, <<"other">>, <<"secret", ",", "tail">>}

Options1 == {Sub("password", p) : p \in Passwords \cup {<<>>}}
  \cup {Sub("user", <<"v">>), Sub("username", <<"w">>), Sub("scheme", <<"https">>), Sub("scheme", <<"dav">>),
        Sub("port", <<"bad">>), Sub("allow_other", <<>>), Sub("ssl_try", <<>>)}
  \cup {Sub(t, <<"5">>) : t \in Timeouts}
  \cup {Sub(f, <<>>) : f \in DOMAIN OptionSpec \ Timeouts}

\* Groups of one option, and those whose order matters.
Groups == {Group(<<s>>) : s \in Options1}
  \cup {Group(<<Sub("password", <<"other">>), Sub("password", <<"secret">>)>>),
        Group(<<Sub("attr_timeout", <<"5">>), Sub("hide_password", <<>>)>>),
        Group(<<Sub("use_lock", <<>>), Sub("password", <<"secret">>)>>)}

Switches == {[kind |-> k] : k \in {"-h", "-V", "--"}}

MCSecrets == {"secret", "tail", "other"}

MCArgs == {Mountpoint} \cup Urls \cup Groups \cup Switches
=============================================================================
