--------------------------- MODULE MCSinkRouting ---------------------------
(* Constants of SinkRouting for model checking.                            *)
EXTENDS SinkRouting

\* A level on each side of warn, and off.
MCSinkLevels == {2, 4, kOff}

\* Every channel, one that is named, and the one of records without a channel.
MCChannelSets == {{}, {<<"x">>}, {kDefaultChannel}}

\* Plain records: every level and channel with a message that is empty, plain, has a
\* separator, an unfinished envelope, a prefix in the middle that a second separator
\* follows, and an envelope with a second separator.  One channel holds the separator.
MCMessages == {<<>>, <<"a">>, <<"a", Separator, "b">>, <<Prefix, "x">>,
               <<"a", Prefix, "x", Separator>>, <<Prefix, "x", Separator, "b", Separator>>}
PlainCalls ==
    [level : {2, 3, 4}, channel : {<<>>, <<"x">>, <<"y">>, <<"x", Separator, "y">>}, format : MCMessages,
     args : {<<>>}, file : {<<"a">>}]

\* Records with arguments: fields only, behind one and two format arguments, with a key
\* that comes twice, marks in a value, and values of every type.  A format of fields
\* only keeps its braces.
Value(type, text) == [type |-> type, text |-> text]
Number(type, text, cast) == [type |-> type, text |-> text, cast |-> cast]
One == Number("int", <<"1">>, <<"1">>)
Text == Value("string", <<"t", Separator>>)
ArgumentCalls == {
    [format |-> <<Prefix, EscapedBrace>>, args |-> <<kv("k", Text)>>],
    [format |-> <<"a">>, args |-> <<kv("k", Text), kv("k", Value("nullptr", <<>>)), kv("m", Text)>>],
    [format |-> <<Hole, EscapedBrace, "b">>, args |-> <<Text, kv("k", Value("null char*", <<>>))>>],
    [format |-> <<Hole, "b", Hole>>, args |-> <<Text, One>>],
    [format |-> <<Hole, "b">>,
     args |-> <<Number("char", <<"c">>, <<"99">>), kv("k", Number("char", <<"c">>, <<"99">>)),
                kv("m", Number("float", <<"0.1">>, <<"0.10000000149011612">>)),
                kv("m", Number("long double", <<"1e4000">>, <<NotFinite>>))>>],
    [format |-> <<Hole, "b", Hole>>,
     args |-> <<One, Text, kv("k", Value("bool", <<"true">>)),
                kv("m", Number("double", <<NotFinite>>, <<NotFinite>>)),
                kv("k", Number("unsigned", <<"2">>, <<"2">>))>>]}

\* Paths with separators of both kinds, and one that ends in a separator.
MCFiles == {<<"a">>, <<"d", "/", "e", "\\", "a">>, <<"d", "\\", "e", "/", "a">>, <<"d", "/">>}

MCCalls ==
    PlainCalls \cup
    {[level |-> l, channel |-> n, format |-> c.format, args |-> c.args, file |-> <<"a">>] :
        l \in {3, 5}, n \in {<<>>, <<"x">>}, c \in ArgumentCalls} \cup
    {[level |-> 5, channel |-> <<>>, format |-> <<"a">>, args |-> <<>>, file |-> f] : f \in MCFiles}
=============================================================================
