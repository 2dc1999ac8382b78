------------------------------ MODULE Rendering ------------------------------
(***************************************************************************)
(* From the arguments of a log call to the payload that goes to the sinks  *)
(* (include/platform_logging/logging.h, field.h, src/logger.cpp).          *)
(*                                                                         *)
(* A text is a sequence of tokens.  Some tokens mean something to the      *)
(* code: the two marks of the channel envelope, the braces of a format     *)
(* string, the separators of a path, the number that is not finite.        *)
(* Timestamps, process and thread ids and the line number are left out.    *)
(***************************************************************************)
EXTENDS Naturals, Sequences, SequencesExt

Prefix == "prefix"        \* kChannelEnvelopePrefix
Separator == "separator"  \* kChannelEnvelopeSeparator
Hole == "{}"
EscapedBrace == "{{"
NotFinite == "nan"
kDefaultChannel == <<"default">>

IsText(x) == x \in Seq(ToSet(x))

kOff == 6
LevelName(level) == <<"trace", "debug", "info", "warn", "error", "critical">>[level + 1]

-----------------------------------------------------------------------------
(* kv, and the split of the arguments of LogFormatKv.  An argument is a     *)
(* C++ value, or what kv makes of a key and one.  A value has a type, the   *)
(* text that fmt writes of it, and, when it is a number or a letter, cast:  *)
(* the digits that kv's static_cast leaves of it.                           *)

Field == "Field"
Signed == {"char", "int", "int64"}
Unsigned == {"unsigned", "uint64"}
Floating == {"float", "double", "long double"}

\* A letter becomes its code, a float shows the digits of a double, and a long double
\* that no double can hold is not finite.
FieldValue(value) ==
    CASE value.type = "nullptr"             -> [type |-> "null", text |-> <<"null">>]
      [] value.type = "bool"                -> [type |-> "bool", text |-> value.text]
      [] value.type \in Signed              -> [type |-> "int64", text |-> value.cast]
      [] value.type \in Unsigned            -> [type |-> "uint64", text |-> value.cast]
      [] value.type \in Floating            -> [type |-> "double", text |-> value.cast]
      [] value.type = "null char*"          -> [type |-> "string", text |-> <<>>]
      [] value.type \in {"char*", "string"} -> [type |-> "string", text |-> value.text]

kv(key, value) == [type |-> Field, key |-> key, value |-> FieldValue(value)]

IsFieldValue(value) == IsText(value.text) /\ (value.type = "null" => value.text = <<"null">>)

kIsFieldArg(arg) == arg.type = Field

\* The static_assert of LogFormatKv.
FieldsAreTrailing(args) ==
    \A i, j \in DOMAIN args : i < j /\ kIsFieldArg(args[i]) => kIsFieldArg(args[j])

\* Counted from the back, up to the first argument that is no field.
CountTrailingFieldArgs(args) ==
    Cardinality({i \in DOMAIN args : \A j \in i .. Len(args) : kIsFieldArg(args[j])})

kFormatArgCount(args) == Len(args) - CountTrailingFieldArgs(args)

BuildFields(args) ==
    [i \in 1 .. CountTrailingFieldArgs(args) |->
        LET field == args[kFormatArgCount(args) + i]
        IN  [key |-> field.key, value |-> field.value]]

HolesUpTo(format, i) == Cardinality({j \in 1 .. i : format[j] = Hole})

\* fmt::vformat: the n-th hole is the n-th argument, a double brace is one brace.
FormattedPart(format, args, i) ==
    CASE format[i] = Hole         -> args[HolesUpTo(format, i)].text
      [] format[i] = EscapedBrace -> <<"{">>
      [] OTHER                    -> <<format[i]>>
FormatTupleArgs(format, args) ==
    FlattenSeq([i \in DOMAIN format |-> FormattedPart(format, args, i)])

\* Without format arguments the format string is the message as it stands.
FormattedMessage(format, args) ==
    IF kFormatArgCount(args) = 0 THEN format ELSE FormatTupleArgs(format, args)

-----------------------------------------------------------------------------
(* Text and JSON.                                                           *)

\* Mutant: only the separator of POSIX.
Basename_ForwardOnly(path) ==
    LET last == SelectLastInSeq(path, LAMBDA x : x = "/")
    IN  SubSeq(path, last + 1, Len(path))

\* What follows the last separator of either kind; 0 when there is none.
Basename(path) ==
    LET last == SelectLastInSeq(path, LAMBDA x : x \in {"/", "\\"})
    IN  SubSeq(path, last + 1, Len(path))

NormalizeChannel(channel) == IF channel = <<>> THEN kDefaultChannel ELSE channel

\* A JSON string has neither mark of the envelope in it, they are escaped.
Quote(text) ==
    <<"quote">>
    \o [i \in DOMAIN text |-> IF text[i] \in {Prefix, Separator} THEN "escaped" ELSE text[i]]
    \o <<"quote">>

\* json(value).dump(): strings are quoted, a number that is not finite is null.
Dump(value) ==
    CASE value.type = "string"                                  -> Quote(value.text)
      [] value.type = "double" /\ value.text = <<NotFinite>>    -> <<"null">>
      [] OTHER                                                  -> value.text

FieldValueToJson(value) == value

\* null and bool have branches of their own, everything else is dumped as JSON.
FieldValueToText(value) ==
    CASE value.type = "null" -> <<"null">>
      [] value.type = "bool" -> value.text
      [] OTHER               -> Dump(value)

TextPart(field) == <<field.key, "=">> \o FieldValueToText(field.value)
BuildTextMessage(message, fields) ==
    IF fields = <<>> THEN message
    ELSE message \o <<"|">> \o FlattenSeq([i \in DOMAIN fields |-> TextPart(fields[i])])

ByKey(fields, key) == {i \in DOMAIN fields : fields[i].key = key}
Keys(fields) == {fields[i].key : i \in DOMAIN fields}

\* Mutant: emplace, which keeps the first value of a key.
FieldObject_KeepsFirst(fields) ==
    [key \in Keys(fields) |-> FieldValueToJson(fields[Min(ByKey(fields, key))].value)]

\* The fields are assigned one after the other, so the last value of a key stays.
FieldObject(fields) ==
    [key \in Keys(fields) |-> FieldValueToJson(fields[Max(ByKey(fields, key))].value)]

JsonPart(key, value) == Quote(<<key>>) \o <<":">> \o Dump(value)
BuildJsonMessage(level, channel, message, fields, file) ==
    LET object == FieldObject(fields)
        keys == SetToSeq(DOMAIN object)
        entries == [i \in DOMAIN keys |-> JsonPart(keys[i], object[keys[i]])]
    IN  <<"{", LevelName(level)>> \o Quote(NormalizeChannel(channel)) \o Quote(message)
        \o Quote(Basename(file)) \o <<"{">> \o FlattenSeq(entries) \o <<"}", "}">>

-----------------------------------------------------------------------------
(* The flag %l of the sinks' patterns: how many letters of the level's name *)
(* are written, and how many blanks on each side.                           *)

ToPatternLevelNameSize(level) == <<5, 5, 4, 4, 5, 8, 3>>[level + 1]

\* spdlog's padding_info, of %l and of %-8l, %8!l, %=8l and the like; spdlog cuts a
\* width down to 64.
NoPadding == [enabled |-> FALSE, side |-> "left", truncate |-> FALSE, width |-> 0]
PaddingInfo == {NoPadding} \cup [enabled : {TRUE}, side : {"left", "right", "center"},
                                 truncate : BOOLEAN, width : 0 .. 64]

LettersKept(level, padinfo) ==
    LET size == ToPatternLevelNameSize(level)
    IN  IF padinfo.truncate /\ padinfo.width < size THEN padinfo.width ELSE size

Padding(level, padinfo) ==
    LET size == LettersKept(level, padinfo)
    IN  IF padinfo.enabled /\ padinfo.width > size THEN padinfo.width - size ELSE 0

\* Mutant: both halves of the padding of a centred name are rounded down.
UppercaseLevelFormatter_TwoHalves(level, padinfo) ==
    LET padding == Padding(level, padinfo)
        half == padding \div 2
    IN  [left |-> CASE padinfo.side = "left" -> padding [] padinfo.side = "center" -> half [] OTHER -> 0,
         kept |-> LettersKept(level, padinfo),
         right |-> CASE padinfo.side = "right" -> padding [] padinfo.side = "center" -> half [] OTHER -> 0]

UppercaseLevelFormatter(level, padinfo) ==
    LET padding == Padding(level, padinfo)
        left == CASE padinfo.side = "left"   -> padding
                  [] padinfo.side = "center" -> padding \div 2
                  [] OTHER                   -> 0
    IN  [left |-> left, kept |-> LettersKept(level, padinfo), right |-> padding - left]
=============================================================================
