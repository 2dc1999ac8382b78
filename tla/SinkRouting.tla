---------------------------- MODULE SinkRouting ----------------------------
(***************************************************************************)
(* Which sink writes a record, and what it writes (src/logger.cpp).        *)
(*                                                                         *)
(* Configure derives the level filter of the whole logger from the sinks,  *)
(* and builds State::sinks, in which a sink's position depends on which    *)
(* sinks are enabled.  A record carries its channel to the sinks inside    *)
(* its payload, in an envelope that every ChannelFilterSink opens.         *)
(*                                                                         *)
(* Rendering makes the payload.  Threads are left to the other modules.    *)
(***************************************************************************)
EXTENDS Rendering

CONSTANTS
    SinkLevels,  \* levels a sink is configured with
    ChannelSets, \* SinkConfig::channels
    Calls        \* calls [level, channel, format, args, file]; no channel is <<>>

kWarn == 3
SinkName == {"file", "console"}
SinkConfig == [enabled : BOOLEAN, level : SinkLevels, channels : ChannelSets]
Configuration == [file : SinkConfig, console : SinkConfig, output_format : {"text", "json"}]

TextPayload(c) == BuildTextMessage(FormattedMessage(c.format, c.args), BuildFields(c.args))

(***************************************************************************)
(* A call compiles: its fields come last and every hole of its format has  *)
(* an argument.  Texts and channels hold what they like, the marks of the  *)
(* envelope too: the code checks neither.                                  *)
(***************************************************************************)
ASSUME RoutingAssumption ==
    /\ SinkLevels \subseteq 0 .. kOff
    /\ \A c \in Calls :
        /\ c.level \in 0 .. kOff - 1
        /\ IsText(c.channel) /\ IsText(c.format) /\ IsText(c.file) /\ IsText(c.args)
        /\ \A i \in DOMAIN c.args :
            IF kIsFieldArg(c.args[i]) THEN IsFieldValue(c.args[i].value)
            ELSE IsText(c.args[i].text)
        /\ FieldsAreTrailing(c.args)
        /\ kFormatArgCount(c.args) # 0 =>
            HolesUpTo(c.format, Len(c.format)) <= kFormatArgCount(c.args)

VARIABLES
    configuration, \* the configuration in force, or the empty record
    sinks,         \* State::sinks
    level,         \* the effective level: published_level and the logger's level
    call,          \* the last record that was logged, or the empty record
    output         \* what each sink wrote of it, by the position of the writer in sinks

vars == <<configuration, sinks, level, call, output>>

NoOutput == [s \in SinkName |-> <<>>]

-----------------------------------------------------------------------------
(* Configure.                                                              *)

\* Mutant: the second sink's level wins.
MostVerboseLevel_Last(left, right) == right

MostVerboseLevel(left, right) == IF left <= right THEN left ELSE right

ComputeEffectiveLevel(c) ==
    CASE c.file.enabled /\ c.console.enabled  -> MostVerboseLevel(c.file.level, c.console.level)
      [] c.file.enabled /\ ~c.console.enabled -> c.file.level
      [] ~c.file.enabled /\ c.console.enabled -> c.console.level
      [] OTHER                                -> kOff

\* The file sink comes first; only the console lets warn and above through whatever
\* its channels are.
EnabledSinks(c) ==
    (IF c.file.enabled THEN <<"file">> ELSE <<>>)
    \o (IF c.console.enabled THEN <<"console">> ELSE <<>>)
MakeConfiguredSink(s, c) ==
    [inner |-> s, level |-> c[s].level, channels |-> c[s].channels, bypass |-> s = "console"]

\* Mutant: the index does not move on.
ConfigureSinkFormatters_SameIndex(c) ==
    [i \in DOMAIN EnabledSinks(c) |->
        IF c.output_format = "json" THEN "%v"
        ELSE IF i = 1 THEN EnabledSinks(c)[Len(EnabledSinks(c))] ELSE "default"]

\* The formatters are set by position.  A sink's text pattern is named after it.
ConfigureSinkFormatters(c) ==
    [i \in DOMAIN EnabledSinks(c) |->
        IF c.output_format = "json" THEN "%v"
        ELSE IF c.file.enabled /\ i = 1 THEN "file" ELSE "console"]

ConfiguredSinks(c) ==
    [i \in DOMAIN EnabledSinks(c) |-> [sink |-> MakeConfiguredSink(EnabledSinks(c)[i], c),
                                       formatter |-> ConfigureSinkFormatters(c)[i]]]

Configure(c) ==
    /\ sinks = <<>>
    /\ c.file.enabled \/ c.console.enabled    \* ValidateConfiguration
    /\ configuration' = c
    /\ sinks' = ConfiguredSinks(c)
    /\ level' = ComputeEffectiveLevel(c)
    /\ call' = <<>> /\ output' = NoOutput

-----------------------------------------------------------------------------
(* Log.                                                                    *)

IsLevelEnabled(requested, effective) == effective # kOff /\ requested >= effective

EncodeChannelPayload(channel, payload) ==
    <<Prefix>> \o NormalizeChannel(channel) \o <<Separator>> \o payload

\* LogMessage renders, EmitPayload puts the envelope around it.
Rendered(c) ==
    IF configuration.output_format = "json"
    THEN BuildJsonMessage(c.level, c.channel, FormattedMessage(c.format, c.args),
                          BuildFields(c.args), c.file)
    ELSE TextPayload(c)
Payload(c) ==
    IF c.channel = <<>> THEN Rendered(c) ELSE EncodeChannelPayload(c.channel, Rendered(c))

LooksLikeEnvelope(text) == text # <<>> /\ Head(text) = Prefix /\ Contains(text, Separator)

\* Mutant: the envelope ends at the last separator.
DecodeChannelPayload_Last(payload) ==
    IF LooksLikeEnvelope(payload)
    THEN LET i == SelectLastInSeq(payload, LAMBDA x : x = Separator)
         IN  [channel |-> NormalizeChannel(SubSeq(payload, 2, i - 1)),
              message |-> SubSeq(payload, i + 1, Len(payload))]
    ELSE [channel |-> kDefaultChannel, message |-> payload]

DecodeChannelPayload(payload) ==
    IF LooksLikeEnvelope(payload)
    THEN LET i == SelectInSeq(payload, LAMBDA x : x = Separator)
         IN  [channel |-> NormalizeChannel(SubSeq(payload, 2, i - 1)),
              message |-> SubSeq(payload, i + 1, Len(payload))]
    ELSE [channel |-> kDefaultChannel, message |-> payload]

ChannelFilter(sink, lvl, channel) ==
    \/ sink.channels = {}
    \/ sink.bypass /\ lvl >= kWarn
    \/ channel \in sink.channels

\* spdlog asks should_log of each sink, and ChannelFilterSink filters by channel.
Writers(c, s) ==
    {i \in DOMAIN sinks : /\ sinks[i].sink.inner = s
                          /\ c.level >= sinks[i].sink.level
                          /\ ChannelFilter(sinks[i].sink, c.level,
                                           DecodeChannelPayload(Payload(c)).channel)}
Written(c, s) ==
    [i \in Writers(c, s) |-> [text |-> DecodeChannelPayload(Payload(c)).message,
                              formatter |-> sinks[i].formatter,
                              file |-> Basename(c.file)]]

Output(c) ==
    IF IsLevelEnabled(c.level, level) THEN [s \in SinkName |-> Written(c, s)] ELSE NoOutput

Log(c) ==
    /\ call' = c
    /\ output' = Output(c)
    /\ UNCHANGED <<configuration, sinks, level>>

Shutdown ==
    /\ configuration' = <<>>
    /\ sinks' = <<>>
    /\ level' = kOff
    /\ call' = <<>>
    /\ output' = NoOutput

Init ==
    /\ configuration = <<>>
    /\ sinks = <<>>
    /\ level = kOff
    /\ call = <<>>
    /\ output = NoOutput

Next ==
    \/ \E c \in Configuration : Configure(c)
    \/ \E c \in Calls : call = <<>> /\ Log(c)
    \/ Shutdown

Spec == Init /\ [][Next]_vars

-----------------------------------------------------------------------------
(* Properties.  Logged: a record has gone through the logger in force.      *)

TypeOK ==
    /\ configuration \in Configuration \cup {<<>>}
    /\ level \in 0 .. kOff
    /\ call \in Calls \cup {<<>>}
    /\ \A i \in DOMAIN sinks :
        /\ sinks[i].sink.inner \in SinkName
        /\ sinks[i].formatter \in SinkName \cup {"%v"}
    /\ DOMAIN output = SinkName

Logged == call # <<>> /\ sinks # <<>> /\ configuration # <<>>

\* The records whose payload ChannelFilterSink does not take apart where EmitPayload put
\* it together: one without a channel that looks like an envelope, and one whose channel
\* holds the separator.
Misread(c) ==
    IF c.channel = <<>> THEN LooksLikeEnvelope(Rendered(c)) ELSE Contains(c.channel, Separator)

\* README.md: each sink has a level and channels of its own, an empty list of
\* channels receives all, and the console gets warn and above anyway.
Wants(s) ==
    LET c == configuration[s] IN
    /\ c.enabled
    /\ call.level >= c.level
    /\ \/ c.channels = {}
       \/ (IF call.channel = <<>> THEN kDefaultChannel ELSE call.channel) \in c.channels
       \/ s = "console" /\ call.level >= kWarn

\* A sink writes a record exactly when its own configuration asks for it, and once:
\* the filter of the whole logger, the sink's level, the envelope and the channel
\* filter together never hide it or let another one through.  A record that is misread
\* goes by the channel that is read, but it is written at most once and never below the
\* level of the sink.
RoutesByLevelAndChannel ==
    Logged => \A s \in SinkName :
        IF Misread(call)
        THEN /\ Cardinality(DOMAIN output[s]) <= 1
             /\ DOMAIN output[s] # {} =>
                 configuration[s].enabled /\ call.level >= configuration[s].level
        ELSE Cardinality(DOMAIN output[s]) = IF Wants(s) THEN 1 ELSE 0

\* What a sink writes is the text or the JSON object of the record: nothing of the
\* envelope is left and nothing of the record is lost, whatever marks are in the text of a
\* record with a channel.  The exceptions are the records that are misread: without a
\* channel, the record loses its front; with one, the rest of the channel stands before it.
EndsWith(text, part) == \E n \in 0 .. Len(text) : SubSeq(text, n + 1, Len(text)) = part
KeepsTheMessage ==
    Logged => \A s \in SinkName : \A i \in DOMAIN output[s] :
        LET text == output[s][i].text IN
        CASE ~Misread(call)                        -> text = Rendered(call)
          [] Misread(call) /\ call.channel = <<>>  -> EndsWith(Rendered(call), text)
          [] Misread(call) /\ call.channel # <<>>  -> EndsWith(text, Rendered(call))

\* Every argument of the call is in what a sink writes, when the record is not misread (see
\* KeepsTheMessage for one that is).  The message has the format
\* arguments in their places; each field is there with its key and its value, which
\* reads the same in both formats.  JSON keeps only the last value of a key.
HasPart(text, part) ==
    \E i \in 0 .. Len(text) - Len(part) : SubSeq(text, i + 1, i + Len(part)) = part
GivenMessage(c) ==
    IF \A i \in DOMAIN c.args : kIsFieldArg(c.args[i]) THEN c.format
    ELSE FormatTupleArgs(c.format, c.args)
RecordHoldsEveryArgument ==
    Logged /\ ~Misread(call) => \A s \in SinkName : \A i \in DOMAIN output[s] :
        LET text == output[s][i].text
            json == configuration.output_format = "json"
            message == GivenMessage(call)
        IN  /\ IF json THEN HasPart(text, Quote(message)) ELSE IsPrefix(message, text)
            /\ \A n \in DOMAIN call.args :
                LET field == call.args[n] IN
                kIsFieldArg(field) =>
                    IF json
                    THEN (\A k \in n + 1 .. Len(call.args) : call.args[k].key # field.key)
                            => HasPart(text, JsonPart(field.key, field.value))
                    ELSE HasPart(text, <<field.key, "=">> \o Dump(field.value))

\* The source file of a record is the last part of its path, with the separators of
\* either system.
IsFileName(name, path) ==
    LET before == Len(path) - Len(name) IN
    /\ before >= 0 /\ name = SubSeq(path, before + 1, Len(path))
    /\ \A x \in ToSet(name) : x \notin {"/", "\\"}
    /\ before # 0 => path[before] \in {"/", "\\"}
SourceIsTheFileName ==
    Logged => \A s \in SinkName : \A i \in DOMAIN output[s] :
        IsFileName(output[s][i].file, call.file)

\* The level in a sink's pattern is as wide as the pattern says, when the name is longer
\* only if it may not be cut; only padding that is asked for is written, and a centred
\* name is at most one blank off the middle.
LevelFlagFillsItsWidth ==
    Logged => \A padinfo \in PaddingInfo :
        LET flag == UppercaseLevelFormatter(call.level, padinfo)
            width == flag.left + flag.kept + flag.right
            size == ToPatternLevelNameSize(call.level)
        IN  /\ width = IF ~padinfo.enabled \/ (padinfo.width < size /\ ~padinfo.truncate)
                       THEN size ELSE padinfo.width
            /\ flag.kept < size => flag.left = 0 /\ flag.right = 0
            /\ padinfo.side = "left" => flag.right = 0
            /\ padinfo.side = "right" => flag.left = 0
            /\ padinfo.side = "center" => flag.right \in {flag.left, flag.left + 1}

\* A sink uses its own pattern, also when the other sink is disabled, and the plain
\* one for JSON.
UsesItsOwnPattern ==
    Logged => \A s \in SinkName : \A i \in DOMAIN output[s] :
        output[s][i].formatter = IF configuration.output_format = "json" THEN "%v" ELSE s
=============================================================================
