---------------------------- MODULE ConfigLoading ----------------------------
(***************************************************************************)
(* LoadConfiguration (src/config.cpp) and ValidateConfiguration            *)
(* (src/logger.cpp): how a document becomes a Configuration, field by      *)
(* field, and which configurations Configure accepts.                      *)
(*                                                                         *)
(* A document is a function from the fields it has to their JSON values,   *)
(* each a pair <<JSON type, value>>.  A field of a sink goes by its path,  *)
(* as in the messages of the library: "file.level".  A document has the    *)
(* field "file" or "console" itself only when that is not an object.       *)
(* An error message is reduced to the field it names.                      *)
(***************************************************************************)
EXTENDS Integers, Sequences, SequencesExt

CONSTANTS
    Documents,         \* what config_path may hold
    Unreadable,        \* in place of one: no such file, no JSON, or not an object
    BaseDirs,          \* the argument base_dir
    OwnConfigurations, \* what a caller may fill in without a document
    Strings,           \* the values of a std::string, but for paths
    CurrentDirs,       \* where the process may be when a path is used
    SizeMax,           \* the largest std::size_t
    None

\* A file system path: absolute or not, and the sequence of its parts.
Rel(parts) == [absolute |-> FALSE, parts |-> parts]
Abs(parts) == [absolute |-> TRUE, parts |-> parts]
EmptyPath == Rel(<<>>)
IsPath(path) == path \in [absolute : BOOLEAN, parts : Seq(ToSet(path.parts))]

Level == 0 .. 6
TryParseLevel ==
    [trace |-> 0, debug |-> 1, info |-> 2, warn |-> 3, warning |-> 3,
     error |-> 4, err |-> 4, critical |-> 5, off |-> 6]

Uint16Max == 65535   \* std::numeric_limits<std::uint16_t>::max()
IntMax == 2147483647 \* of the numbers of FileSinkConfig

\* The fields in the order in which LoadConfiguration looks at them.
Field(path, kind) == [path |-> path, kind |-> kind, max |-> 0]
Integer(path, max) == [path |-> path, kind |-> "integer", max |-> max]
SinkFields(enabled, level, pattern, channels) ==
    <<Field(enabled, "boolean"), Field(level, "level"),
      Field(pattern, "string"), Field(channels, "channels")>>
Schema ==
    <<Field("level", "unsupported"), Field("pattern", "unsupported"),
      Field("console_color", "unsupported"), Field("console_pattern", "unsupported"),
      Field("file_pattern", "unsupported"),
      Field("logger_name", "string"), Field("async", "boolean"),
      Integer("queue_size", SizeMax), Integer("async_worker_count", SizeMax),
      Field("flush_level", "level"), Field("output_format", "format"),
      Field("console", "object")>>
    \o SinkFields("console.enabled", "console.level", "console.pattern", "console.channels")
    \o <<Field("console.console_color", "boolean"), Field("file", "object")>>
    \o SinkFields("file.enabled", "file.level", "file.pattern", "file.channels")
    \o <<Field("file.path", "path"), Integer("file.rotation_hour", 23),
         Integer("file.rotation_minute", 59), Integer("file.max_files", Uint16Max),
         Field("file.retention_days", "unsupported")>>

Fields == {Schema[i] : i \in DOMAIN Schema}
FieldNames == {f.path : f \in {g \in Fields : g.kind \notin {"unsupported", "object"}}}
FieldOf(path) == CHOOSE f \in Fields : f.path = path

\* The fields of a default-constructed Configuration.
DefaultValue(path) ==
    CASE path = "logger_name"                       -> "platform_logging"
      [] path = "async"                             -> FALSE
      [] path = "queue_size"                        -> 8192
      [] path = "async_worker_count"                -> 1
      [] path = "flush_level"                       -> 3
      [] path = "output_format"                     -> "text"
      [] path \in {"console.enabled", "file.enabled", "console.console_color"} -> TRUE
      [] path \in {"console.level", "file.level"}   -> 2
      [] path \in {"console.pattern", "file.pattern"} -> "kDefaultTextPattern"
      [] path \in {"console.channels", "file.channels"} -> <<>>
      [] path = "file.path"                         -> Rel(<<"logs", "platform_logging.log">>)
      [] path \in {"file.rotation_hour", "file.rotation_minute"} -> 0
      [] path = "file.max_files"                    -> 30
DefaultConfiguration == [path \in FieldNames |-> DefaultValue(path)]

\* The C++ type of a field of Configuration, and its enumerators.
HasType(field, x) ==
    /\ field.kind = "string" => x \in Strings
    /\ field.kind = "boolean" => x \in BOOLEAN
    /\ field.kind = "level" => x \in Level
    /\ field.kind = "format" => x \in {"text", "json"}
    /\ field.kind = "channels" => x \in Seq(Strings)
    /\ field.kind = "path" => IsPath(x)
    /\ field.kind = "integer" =>
        x \in IF field.path \in {"queue_size", "async_worker_count"} THEN 0 .. SizeMax
              ELSE -IntMax - 1 .. IntMax
IsConfiguration(c) == DOMAIN c = FieldNames /\ \A f \in Fields : HasType(f, c[f.path])

\* A JSON value of a field; the string of file.path is given as a path.
IsJson(path, v) ==
    /\ v[1] = "integer" => v[2] \in Int
    /\ v[1] = "boolean" => v[2] \in BOOLEAN
    /\ v[1] = "string" => IF path = "file.path" THEN IsPath(v[2]) ELSE v[2] \in Strings
    /\ v[1] = "array" => /\ v[2] \in Seq(ToSet(v[2]))
                         /\ \A i \in DOMAIN v[2] : v[2][i][1] = "string" => v[2][i][2] \in Strings

ASSUME LoadingAssumption ==
    /\ SizeMax \in Nat /\ SizeMax >= Uint16Max
    /\ None \notin {Schema[i].path : i \in DOMAIN Schema} \cup {"document", "sinks", "configuration"}
    /\ {"platform_logging", "kDefaultTextPattern"} \subseteq Strings
    /\ Unreadable \notin Documents
    /\ \A d \in Documents : \A p \in DOMAIN d : IsJson(p, d[p])
    /\ \A b \in BaseDirs : IsPath(b)
    /\ \A c \in OwnConfigurations : IsConfiguration(c)
    /\ \A dir \in CurrentDirs : dir \in Seq(ToSet(dir))

-----------------------------------------------------------------------------
(* One field.                                                              *)

\* Mutant: the upper limit is off by one.
InRange_OffByOne(n, max) == n >= 0 /\ n <= max + 1

InRange(n, max) == n >= 0 /\ n <= max

\* Whether the reader of the field takes the value.
Accepts(field, value) ==
    \/ field.kind \in {"string", "path"} /\ value[1] = "string"
    \/ field.kind = "boolean" /\ value[1] = "boolean"
    \/ field.kind = "integer" /\ value[1] = "integer" /\ InRange(value[2], field.max)
    \/ field.kind = "level" /\ value[1] = "string" /\ value[2] \in DOMAIN TryParseLevel
    \/ field.kind = "format" /\ value[1] = "string" /\ value[2] \in {"text", "json"}
    \/ /\ field.kind = "channels" /\ value[1] = "array"
       /\ \A i \in DOMAIN value[2] : value[2][i][1] = "string" /\ value[2][i][2] # ""

Decode(field, value) ==
    CASE field.kind = "level"    -> TryParseLevel[value[2]]
      [] field.kind = "channels" -> [i \in DOMAIN value[2] |-> value[2][i][2]]
      [] OTHER                   -> value[2]

\* Whether ".." takes the last of these parts away.
Leaves(done) == done # <<>> /\ Last(done) # ".."

\* std::filesystem's lexically_normal: one part after those that are done.
Push(absolute, done, part) ==
    CASE part = "."                    -> done
      [] part \notin {".", ".."}       -> Append(done, part)
      [] part = ".." /\ Leaves(done)   -> Front(done)
      [] part = ".." /\ ~Leaves(done)  -> IF absolute THEN done ELSE Append(done, part)
NormalParts(path) ==
    FoldLeft(LAMBDA done, part : Push(path.absolute, done, part), <<>>, path.parts)
LexicallyNormal(path) ==
    IF NormalParts(path) = <<>> /\ ~path.absolute THEN Rel(<<".">>)
    ELSE [path EXCEPT !.parts = NormalParts(path)]

\* Mutant: the base directory only matters for a path that starts with a name.
ResolvePathFromBase_NoBase(path, base) ==
    IF path = EmptyPath THEN path
    ELSE IF path.absolute \/ path.parts[1] = ".." THEN LexicallyNormal(path)
    ELSE LexicallyNormal([base EXCEPT !.parts = @ \o path.parts])

\* An empty base directory is the current one.
ResolvePathFromBase(path, base) ==
    IF path = EmptyPath THEN path
    ELSE IF path.absolute THEN LexicallyNormal(path)
    ELSE LexicallyNormal([base EXCEPT !.parts = @ \o path.parts])

-----------------------------------------------------------------------------
(* ValidateConfiguration.                                                  *)

\* Its checks in their order, by the field that a check names.
Checks == <<"logger_name", "sinks", "queue_size", "async_worker_count", "file.path",
            "file.rotation_hour", "file.rotation_minute", "file.max_files",
            "console.channels", "file.channels">>
Holds(check, c) ==
    /\ check = "logger_name" => c["logger_name"] # ""
    /\ check = "sinks" => c["console.enabled"] \/ c["file.enabled"]
    /\ check = "queue_size" /\ c["async"] => c["queue_size"] # 0
    /\ check = "async_worker_count" /\ c["async"] => c["async_worker_count"] \in 1 .. 1000
    /\ check = "file.path" /\ c["file.enabled"] => c["file.path"] # EmptyPath
    /\ check = "file.rotation_hour" => c["file.rotation_hour"] \in 0 .. 23
    /\ check = "file.rotation_minute" => c["file.rotation_minute"] \in 0 .. 59
    /\ check = "file.max_files" => c["file.max_files"] \in 0 .. Uint16Max
    /\ check \in {"console.channels", "file.channels"} =>
        \A i \in DOMAIN c[check] : c[check][i] # ""

\* The field named by the first check that fails.
ValidateConfiguration(c) ==
    LET failed == {i \in DOMAIN Checks : ~Holds(Checks[i], c)}
    IN  IF failed = {} THEN None ELSE Checks[Min(failed)]

-----------------------------------------------------------------------------
(* The calls.                                                              *)

VARIABLES
    configuration, \* the Configuration the caller hands in
    loaded,        \* whether it comes from LoadConfiguration
    document,      \* the document being loaded
    base,          \* its base_dir
    at,            \* the next field of Schema to look at, 0 outside LoadConfiguration
    parsed,        \* LoadConfiguration's local Configuration
    result,        \* what the last call returned
    error          \* *error_message

input == <<document, base>>
vars == <<configuration, loaded, input, at, parsed, result, error>>

\* The caller's configuration and the local one have values of their fields' types, and
\* no number of the local one is out of its reader's limits.
TypeOK ==
    /\ IsConfiguration(configuration) /\ IsConfiguration(parsed)
    /\ \A f \in Fields : f.kind = "integer" => parsed[f.path] \in 0 .. f.max
    /\ at \in 0 .. Len(Schema) + 1 /\ (at # 0 <=> document # Unreadable)
    /\ document \in Documents \cup {Unreadable} /\ base \in BaseDirs \cup {EmptyPath}
    /\ loaded \in BOOLEAN /\ result \in BOOLEAN
    /\ error \in {f.path : f \in Fields} \cup {"document", "sinks", "configuration", None}

Init ==
    /\ configuration = DefaultConfiguration /\ loaded = FALSE
    /\ document = Unreadable /\ base = EmptyPath
    /\ at = 0 /\ parsed = DefaultConfiguration
    /\ result = TRUE /\ error = None

\* LoadConfiguration returns, and its locals are gone.
Return(names) ==
    /\ result' = (names = None) /\ error' = names
    /\ at' = 0 /\ parsed' = DefaultConfiguration
    /\ document' = Unreadable /\ base' = EmptyPath

\* The caller passes no Configuration to write to.
NoOutput ==
    /\ at = 0
    /\ Return("configuration")
    /\ UNCHANGED <<configuration, loaded>>

OpenFails ==
    /\ at = 0
    /\ Return("document")
    /\ UNCHANGED <<configuration, loaded>>

\* Mutant: parsing starts from the caller's configuration.
Begin_FromCaller(d, b) ==
    /\ at = 0
    /\ document' = d /\ base' = b
    /\ parsed' = configuration /\ at' = 1
    /\ UNCHANGED <<configuration, loaded, result, error>>

Begin(d, b) ==
    /\ at = 0
    /\ document' = d /\ base' = b
    /\ parsed' = DefaultConfiguration /\ at' = 1
    /\ UNCHANGED <<configuration, loaded, result, error>>

\* The fields that are still to be read.
Left == {i \in at .. Len(Schema) : Schema[i].path \in DOMAIN document}

\* The next field that the document has.
ReadField ==
    /\ at # 0 /\ Left # {}
    /\ LET field == Schema[Min(Left)]
           value == document[field.path]
       IN \/ /\ Accepts(field, value)
             /\ parsed' = [parsed EXCEPT ![field.path] = Decode(field, value)]
             /\ at' = Min(Left) + 1
             /\ UNCHANGED <<input, result, error>>
          \/ /\ ~Accepts(field, value)
             /\ Return(field.path)
    /\ UNCHANGED <<configuration, loaded>>

\* Mutant: the message of an earlier failure stays.
Finish_StaleError ==
    /\ at # 0 /\ Left = {}
    /\ configuration' = [parsed EXCEPT !["file.path"] = ResolvePathFromBase(@, base)]
    /\ loaded' = TRUE
    /\ result' = TRUE /\ error' = error
    /\ at' = 0 /\ parsed' = DefaultConfiguration
    /\ document' = Unreadable /\ base' = EmptyPath

Finish ==
    /\ at # 0 /\ Left = {}
    /\ configuration' = [parsed EXCEPT !["file.path"] = ResolvePathFromBase(@, base)]
    /\ loaded' = TRUE
    /\ Return(None)

\* The caller sets the fields itself.
FillIn(c) ==
    /\ at = 0
    /\ configuration' = c /\ loaded' = FALSE
    /\ UNCHANGED <<input, at, parsed, result, error>>

\* Configure on an unconfigured library, without what it does after validating.
Validate ==
    /\ at = 0
    /\ result' = (ValidateConfiguration(configuration) = None)
    /\ error' = ValidateConfiguration(configuration)
    /\ UNCHANGED <<configuration, loaded, input, at, parsed>>

Next ==
    \/ \E d \in Documents, b \in BaseDirs : Begin(d, b)
    \/ NoOutput \/ OpenFails \/ ReadField \/ Finish
    \/ \E c \in OwnConfigurations : FillIn(c)
    \/ Validate

Spec == Init /\ [][Next]_vars

-----------------------------------------------------------------------------
(* Properties.                                                             *)

\* What a document means, whatever was loaded before.
Meaning(d, b) ==
    LET raw == [p \in FieldNames |->
                   IF p \in DOMAIN d
                   THEN Decode(FieldOf(p), d[p])
                   ELSE DefaultConfiguration[p]]
    IN  [raw EXCEPT !["file.path"] = ResolvePathFromBase(@, b)]

\* LoadConfiguration leaves the caller's configuration alone until it succeeds, and
\* then gives it the document's fields and defaults for the others, with nothing
\* left of an earlier load or of the caller's own values.
LoadIsAllOrNothing ==
    [][at # 0 => configuration' = IF at' = 0 /\ result' THEN Meaning(document, base)
                                  ELSE configuration]_vars

\* The fields that the document has and their readers refuse.
RefusedFields ==
    {i \in DOMAIN Schema : /\ Schema[i].path \in DOMAIN document
                           /\ ~Accepts(Schema[i], document[Schema[i].path])}

\* After a call *error_message belongs to that call: it is empty if and only if the
\* call succeeded, and after a failure of LoadConfiguration on a JSON object it names
\* the first field that the document has and the reader refuses.
ErrorTellsTheLastCall ==
    [][/\ result' <=> error' = None
       /\ at # 0 /\ at' = 0 =>
              error' = IF RefusedFields = {} THEN None ELSE Schema[Min(RefusedFields)].path]_vars

\* What Configure still asks of a loaded configuration, after all that the readers have
\* checked, is these five: a name, a sink, a path for the file sink, and, for an
\* asynchronous logger, a queue and 1 to 1000 workers, which the loader does not look at
\* (it takes every number that fits).  No time of rotation, number of files or channel that
\* was loaded is refused.
OnlyFiveChecksRemain ==
    loaded =>
        LET c == configuration IN
        ValidateConfiguration(c) = None <=>
            /\ c["logger_name"] # ""
            /\ c["console.enabled"] \/ c["file.enabled"]
            /\ c["file.enabled"] => c["file.path"] # EmptyPath
            /\ c["async"] => c["queue_size"] # 0
            /\ c["async"] => c["async_worker_count"] \in 1 .. 1000

\* Going down the directories of path from dir, in a file system without links.
Enter(dir, part) ==
    CASE part = "."               -> dir
      [] part \notin {".", ".."}  -> Append(dir, part)
      [] part = ".."              -> IF dir = <<>> THEN dir ELSE Front(dir)
Start(dir, path) == IF path.absolute THEN <<>> ELSE dir
Walk(dir, path) == FoldLeft(Enter, Start(dir, path), path.parts)

\* The resolved file path leads to where the document's path leads from base_dir,
\* from any current directory, and normalising it again changes nothing.
PathLeadsFromBase ==
    [][at # 0 /\ at' = 0 /\ result' /\ parsed["file.path"] # EmptyPath =>
         LET path == configuration'["file.path"] IN
         /\ \A cwd \in CurrentDirs :
                Walk(cwd, path) = Walk(Walk(cwd, base), parsed["file.path"])
         /\ path # EmptyPath /\ LexicallyNormal(path) = path]_vars

-----------------------------------------------------------------------------
(* Why they hold: an inductive invariant.  ConfigLoadingProofs has the      *)
(* proofs.                                                                 *)

\* The values that a reader has let through, or defaults: no number is out of its
\* field's range, no channel is empty and the path is one.
Readable(c) ==
    /\ IsPath(c["file.path"])
    /\ \A f \in Fields : f.kind = "integer" => c[f.path] \in 0 .. f.max
    /\ \A f \in Fields : f.kind = "channels" => \A i \in DOMAIN c[f.path] : c[f.path][i] # ""

\* The reader has accepted the document's fields before position i, and parsed holds
\* them, with defaults for everything else.
Read(path, i) == path \in DOMAIN document /\ \E j \in 1 .. i - 1 : Schema[j].path = path
ParsedInv ==
    at # 0 =>
        /\ parsed = [p \in FieldNames |-> IF Read(p, at) THEN Decode(FieldOf(p), document[p])
                                          ELSE DefaultConfiguration[p]]
        /\ \A j \in 1 .. at - 1 :
            Schema[j].path \in DOMAIN document => Accepts(Schema[j], document[Schema[j].path])

\* In the middle of LoadConfiguration its local configuration is the document up to the
\* field it has come to; a configuration it has returned is within the readers' limits.
IInv ==
    /\ TypeOK /\ ParsedInv
    /\ Readable(parsed) /\ (loaded => Readable(configuration))
    /\ result <=> error = None
=============================================================================
