----------------------------- MODULE MCAnswers -----------------------------
(* Requests and answers for TLC.                                          *)
EXTENDS Answers

MCRequests ==
  [kind : {"get"}, off : 0..MaxLen, size : 1..4, stale : BOOLEAN]
    \cup [kind : {"put"}, off : 0..MaxLen, size : 1..4]
    \cup [kind : {"head", "lock", "readdir", "getattr"}]

\* Header lines, in the spelling the code knows and in lower case.
Lengths == [name : {"Content-Length", "content-length"}, value : {<<n>> : n \in 1..3}]
TokenLines == [name : {"Lock-Token", "lock-token"}, value : {<<"<", "token", ">">>, <<"token">>}]

Responses == [href : {"self", "child", "foreign", "empty", "none"},
              stats : BoundedSeq({"200", "404", "nostatus", "empty"}, 2)]

Bodies == LET rs == BoundedSeq(Responses, 2)
          IN  {<<>>} \cup {Append(s, End) : s \in rs}
                \cup {<<r, Broken, End>> : r \in Responses}

MCReplies ==
  [get     |-> [len : 0..MaxLen, ranges : {"honoured", "none"}, invalid : {"ignored", "416"}],
   put     |-> [again : BOOLEAN],
   head    |-> [body : BoundedSeq(Lengths, 2)],
   lock    |-> [body : BoundedSeq(TokenLines, 2), href : {<<"token">>, <<"token", "more">>, <<"another">>},
                xml : {"absent", "broken", "nodiscovery", "unexpected", "emptyhref", "href"}],
   readdir |-> [code : {200, 207}, slash : BOOLEAN, body : Bodies],
   getattr |-> [code : {200, 207}, slash : BOOLEAN, body : Bodies]]
=============================================================================
