------------------------- MODULE ConfigLoadingProofs -------------------------
(***************************************************************************)
(* Proofs about ConfigLoading, for every set of documents, base directories *)
(* and configurations a caller may fill in.  What a document means does not *)
(* depend on what was loaded before, and a load that fails changes nothing. *)
(***************************************************************************)
EXTENDS PathProofs

-----------------------------------------------------------------------------
(* The schema.                                                             *)

\* The fields in their order.
LEMMA SchemaEntries ==
    /\ Schema[1] = Field("level", "unsupported")
    /\ Schema[2] = Field("pattern", "unsupported")
    /\ Schema[3] = Field("console_color", "unsupported")
    /\ Schema[4] = Field("console_pattern", "unsupported")
    /\ Schema[5] = Field("file_pattern", "unsupported")
    /\ Schema[6] = Field("logger_name", "string")
    /\ Schema[7] = Field("async", "boolean")
    /\ Schema[8] = Integer("queue_size", SizeMax)
    /\ Schema[9] = Integer("async_worker_count", SizeMax)
    /\ Schema[10] = Field("flush_level", "level")
    /\ Schema[11] = Field("output_format", "format")
    /\ Schema[12] = Field("console", "object")
    /\ Schema[13] = Field("console.enabled", "boolean")
    /\ Schema[14] = Field("console.level", "level")
    /\ Schema[15] = Field("console.pattern", "string")
    /\ Schema[16] = Field("console.channels", "channels")
    /\ Schema[17] = Field("console.console_color", "boolean")
    /\ Schema[18] = Field("file", "object")
    /\ Schema[19] = Field("file.enabled", "boolean")
    /\ Schema[20] = Field("file.level", "level")
    /\ Schema[21] = Field("file.pattern", "string")
    /\ Schema[22] = Field("file.channels", "channels")
    /\ Schema[23] = Field("file.path", "path")
    /\ Schema[24] = Integer("file.rotation_hour", 23)
    /\ Schema[25] = Integer("file.rotation_minute", 59)
    /\ Schema[26] = Integer("file.max_files", Uint16Max)
    /\ Schema[27] = Field("file.retention_days", "unsupported")
BY DEF Schema, SinkFields

LEMMA SchemaLength == DOMAIN Schema = 1 .. 27 /\ Len(Schema) = 27
BY DEF Schema, SinkFields, Field, Integer

\* No field comes twice.
LEMMA PathsDiffer == \A i, j \in DOMAIN Schema : Schema[i].path = Schema[j].path => i = j
BY SchemaEntries, SchemaLength DEF Field, Integer

\* A path belongs to one field.
LEMMA FieldOfPath ==
    \A i \in DOMAIN Schema : Schema[i] \in Fields /\ FieldOf(Schema[i].path) = Schema[i]
BY PathsDiffer DEF Fields, FieldOf

\* The fields of Configuration are those of the schema that have a reader.
LEMMA NamesAre ==
    \A p : p \in FieldNames <=>
        \E i \in DOMAIN Schema :
            Schema[i].path = p /\ Schema[i].kind \notin {"unsupported", "object"}
BY DEF FieldNames, Fields

\* A field of Configuration has its place in the schema.
LEMMA FieldHasPlace == \A p \in FieldNames : \E i \in DOMAIN Schema : Schema[i].path = p
BY NamesAre

\* A field that a reader accepts is a field of Configuration.
LEMMA AcceptedIsName ==
    \A i \in DOMAIN Schema : \A v : Accepts(Schema[i], v) => Schema[i].path \in FieldNames
<1>1. \A i \in DOMAIN Schema : \A v :
        Accepts(Schema[i], v) => Schema[i].kind \notin {"unsupported", "object"}
  BY DEF Accepts
<1> QED
  BY <1>1, NamesAre

\* The limits are no smaller than the defaults.
LEMMA LimitsAreLarge ==
    SizeMax \in Nat /\ SizeMax >= 8192 /\ Uint16Max \in Nat /\ Uint16Max >= 30
BY LoadingAssumption DEF Uint16Max

\* The defaults of the fields but for the switches, the format and the path.
LEMMA DefaultValues ==
    /\ DefaultConfiguration["logger_name"] = "platform_logging"
    /\ DefaultConfiguration["console.pattern"] = "kDefaultTextPattern"
    /\ DefaultConfiguration["file.pattern"] = "kDefaultTextPattern"
    /\ DefaultConfiguration["queue_size"] = 8192
    /\ DefaultConfiguration["async_worker_count"] = 1
    /\ DefaultConfiguration["flush_level"] = 3
    /\ DefaultConfiguration["console.level"] = 2
    /\ DefaultConfiguration["file.level"] = 2
    /\ DefaultConfiguration["console.channels"] = <<>>
    /\ DefaultConfiguration["file.channels"] = <<>>
    /\ DefaultConfiguration["file.rotation_hour"] = 0
    /\ DefaultConfiguration["file.rotation_minute"] = 0
    /\ DefaultConfiguration["file.max_files"] = 30
<1>1. {"queue_size", "async_worker_count", "flush_level", "console.level", "file.level",
       "console.channels", "file.channels", "file.rotation_hour", "file.rotation_minute",
       "file.max_files", "logger_name", "console.pattern", "file.pattern"} \subseteq FieldNames
  BY NamesAre, SchemaEntries, SchemaLength DEF Field, Integer
<1> QED
  BY <1>1 DEF DefaultConfiguration, DefaultValue

\* The default path is one, and so is the empty one.
LEMMA DefaultPath ==
    /\ "file.path" \in FieldNames
    /\ IsPath(EmptyPath) /\ IsPath(DefaultConfiguration["file.path"])
<1>1. "file.path" \in FieldNames
  <2>1. 23 \in DOMAIN Schema /\ Schema[23].path = "file.path" /\ Schema[23].kind = "path"
    BY SchemaEntries, SchemaLength DEF Field
  <2> QED
    BY <2>1, NamesAre
<1>2. DefaultConfiguration["file.path"] = Rel(<<"logs", "platform_logging.log">>)
  BY <1>1 DEF DefaultConfiguration, DefaultValue
<1>3. \A S, t : t \in Seq(S) => IsPath(Rel(t))
  BY PartsMakeAPath DEF Rel
<1>4. <<>> \in Seq({}) /\ <<"logs", "platform_logging.log">> \in Seq({"logs", "platform_logging.log"})
  OBVIOUS
<1> QED
  BY <1>1, <1>2, <1>3, <1>4 DEF EmptyPath

\* No number of the defaults is out of the limits of its reader.
LEMMA DefaultNumbers ==
    /\ DefaultConfiguration["queue_size"] \in 0 .. SizeMax
    /\ DefaultConfiguration["async_worker_count"] \in 0 .. SizeMax
    /\ DefaultConfiguration["file.rotation_hour"] \in 0 .. 23
    /\ DefaultConfiguration["file.rotation_minute"] \in 0 .. 59
    /\ DefaultConfiguration["file.max_files"] \in 0 .. Uint16Max
BY DefaultValues, LimitsAreLarge

\* The defaults are within the readers' limits.
LEMMA DefaultsAreReadable ==
    \A i \in DOMAIN Schema :
        /\ Schema[i].kind = "integer" => DefaultConfiguration[Schema[i].path] \in 0 .. Schema[i].max
        /\ Schema[i].kind = "channels" => DefaultConfiguration[Schema[i].path] = <<>>
        /\ Schema[i].kind = "level" => DefaultConfiguration[Schema[i].path] \in Level
<1> TAKE i \in DOMAIN Schema
<1>1. CASE Schema[i].kind = "integer"
  <2>1. i \in {8, 9, 24, 25, 26}
    BY <1>1, SchemaEntries, SchemaLength DEF Field, Integer
  <2>2. \/ Schema[i].path = "queue_size" /\ Schema[i].max = SizeMax
        \/ Schema[i].path = "async_worker_count" /\ Schema[i].max = SizeMax
        \/ Schema[i].path = "file.rotation_hour" /\ Schema[i].max = 23
        \/ Schema[i].path = "file.rotation_minute" /\ Schema[i].max = 59
        \/ Schema[i].path = "file.max_files" /\ Schema[i].max = Uint16Max
    BY <2>1, SchemaEntries DEF Integer
  <2>3. DefaultConfiguration[Schema[i].path] \in 0 .. Schema[i].max
    BY <2>2, DefaultNumbers
  <2> QED
    BY <1>1, <2>3
<1>2. CASE Schema[i].kind = "channels"
  <2>1. i \in {16, 22}
    BY <1>2, SchemaEntries, SchemaLength DEF Field, Integer
  <2>2. Schema[i].path \in {"console.channels", "file.channels"}
    BY <2>1, SchemaEntries DEF Field
  <2> QED
    BY <1>2, <2>2, DefaultValues
<1>3. CASE Schema[i].kind = "level"
  <2>1. i \in {10, 14, 20}
    BY <1>3, SchemaEntries, SchemaLength DEF Field, Integer
  <2>2. Schema[i].path \in {"flush_level", "console.level", "file.level"}
    BY <2>1, SchemaEntries DEF Field
  <2>3. DefaultConfiguration[Schema[i].path] \in {2, 3}
    BY <2>2, DefaultValues
  <2> QED
    BY <1>3, <2>3 DEF Level
<1> QED
  BY <1>1, <1>2, <1>3

\* A field with values of a type stands at one of these places.
LEMMA KindsStand ==
    \A i \in DOMAIN Schema :
        /\ Schema[i].kind = "string" => i \in {6, 15, 21}
        /\ Schema[i].kind = "boolean" => i \in {7, 13, 17, 19}
        /\ Schema[i].kind = "integer" => i \in {8, 9, 24, 25, 26}
        /\ Schema[i].kind = "level" => i \in {10, 14, 20}
        /\ Schema[i].kind = "format" => i = 11
        /\ Schema[i].kind = "channels" => i \in {16, 22}
        /\ Schema[i].kind = "path" <=> i = 23
BY SchemaEntries, SchemaLength DEF Field, Integer

\* The path of the file sink is the field that holds one, and its limit is that of a
\* number's type or smaller.
LEMMA KindsOfPaths ==
    \A f \in Fields :
        /\ f.kind = "path" <=> f.path = "file.path"
        /\ f.kind = "integer" =>
            \/ f.path \in {"queue_size", "async_worker_count"} /\ f.max = SizeMax
            \/ /\ f.path \notin {"queue_size", "async_worker_count"}
               /\ f.max \in {23, 59, Uint16Max}
<1>1. \A i \in DOMAIN Schema : Schema[i].kind = "path" <=> Schema[i].path = "file.path"
  <2>1. 23 \in DOMAIN Schema /\ Schema[23].path = "file.path" /\ Schema[23].kind = "path"
    BY SchemaEntries, SchemaLength DEF Field
  <2> QED
    BY <2>1, KindsStand, PathsDiffer
<1>2. \A i \in DOMAIN Schema : Schema[i].kind = "integer" =>
            \/ Schema[i].path \in {"queue_size", "async_worker_count"} /\ Schema[i].max = SizeMax
            \/ /\ Schema[i].path \notin {"queue_size", "async_worker_count"}
               /\ Schema[i].max \in {23, 59, Uint16Max}
  <2> TAKE i \in DOMAIN Schema
  <2> SUFFICES ASSUME i \in {8, 9, 24, 25, 26}
               PROVE  \/ /\ Schema[i].path \in {"queue_size", "async_worker_count"}
                         /\ Schema[i].max = SizeMax
                      \/ /\ Schema[i].path \notin {"queue_size", "async_worker_count"}
                         /\ Schema[i].max \in {23, 59, Uint16Max}
    BY KindsStand
  <2> QED
    BY SchemaEntries DEF Integer
<1> QED
  BY <1>1, <1>2 DEF Fields

\* A number within its reader's limit is one of its type.
LEMMA LimitsFit ==
    ASSUME NEW f \in Fields, f.kind = "integer", NEW x \in 0 .. f.max
    PROVE  x \in IF f.path \in {"queue_size", "async_worker_count"} THEN 0 .. SizeMax
                ELSE -IntMax - 1 .. IntMax
<1>1. CASE f.path \in {"queue_size", "async_worker_count"}
  BY <1>1, KindsOfPaths
<1>2. CASE f.path \notin {"queue_size", "async_worker_count"}
  <2>1. f.max \in {23, 59, 65535}
    BY <1>2, KindsOfPaths DEF Uint16Max
  <2> DEFINE m == f.max
  <2>2. x \in 0 .. m /\ m \in {23, 59, 65535}
    BY <2>1
  <2> HIDE DEF m
  <2>3. x \in Nat /\ x <= 65535
    <3>1. m \in Nat /\ m <= 65535
      BY <2>2
    <3> QED
      BY <2>2, <3>1
  <2>4. x \in -IntMax - 1 .. IntMax
    <3>1. IntMax \in Int /\ 65535 <= IntMax /\ -IntMax - 1 <= 0
      BY DEF IntMax
    <3> QED
      BY <2>3, <3>1
  <2> QED
    BY <1>2, <2>4
<1> QED
  BY <1>1, <1>2

\* The defaults are of their fields' types.
LEMMA DefaultsHaveTypes ==
    \A i \in DOMAIN Schema : HasType(Schema[i], DefaultConfiguration[Schema[i].path])
<1> TAKE i \in DOMAIN Schema
<1> DEFINE x == DefaultConfiguration[Schema[i].path]
<1>1. Schema[i].kind = "string" => x \in Strings
  <2> SUFFICES ASSUME Schema[i].kind = "string" PROVE x \in Strings
    OBVIOUS
  <2>1. i \in {6, 15, 21}
    BY KindsStand
  <2>2. Schema[i].path \in {"logger_name", "console.pattern", "file.pattern"}
    BY <2>1, SchemaEntries DEF Field
  <2>3. x = "platform_logging" \/ x = "kDefaultTextPattern"
    BY <2>2, DefaultValues
  <2> HIDE DEF x
  <2> QED
    BY <2>3, LoadingAssumption
<1>2. Schema[i].kind = "boolean" => x \in BOOLEAN
  <2> SUFFICES ASSUME Schema[i].kind = "boolean" PROVE x \in BOOLEAN
    OBVIOUS
  <2>1. i \in {7, 13, 17, 19}
    BY KindsStand
  <2>2. Schema[i].path \in {"async", "console.enabled", "console.console_color", "file.enabled"}
    BY <2>1, SchemaEntries DEF Field
  <2>3. \A p \in {"async", "console.enabled", "console.console_color", "file.enabled"} :
            DefaultConfiguration[p] \in BOOLEAN
    <3>1. \A p \in FieldNames : DefaultConfiguration[p] = DefaultValue(p)
      BY DEF DefaultConfiguration
    <3>2. {"async", "console.enabled", "console.console_color", "file.enabled"}
          \subseteq FieldNames
      BY NamesAre, SchemaEntries, SchemaLength DEF Field, Integer
    <3>3. \A p \in {"async", "console.enabled", "console.console_color", "file.enabled"} :
              DefaultValue(p) \in BOOLEAN
      <4>1. DefaultValue("async") \in BOOLEAN
        BY DEF DefaultValue
      <4>2. /\ DefaultValue("console.enabled") \in BOOLEAN
            /\ DefaultValue("console.console_color") \in BOOLEAN
            /\ DefaultValue("file.enabled") \in BOOLEAN
        BY DEF DefaultValue
      <4> QED
        BY <4>1, <4>2, Zenon
    <3> QED
      BY <3>1, <3>2, <3>3, Zenon
  <2> QED
    BY <2>2, <2>3, Zenon
<1>3. Schema[i].kind = "format" => x \in {"text", "json"}
  <2> SUFFICES ASSUME Schema[i].kind = "format" PROVE x \in {"text", "json"}
    OBVIOUS
  <2>1. i = 11 /\ Schema[i].path \in FieldNames
    BY KindsStand, NamesAre
  <2>2. Schema[i].path = "output_format"
    BY <2>1, SchemaEntries DEF Field
  <2>3. x = DefaultValue(Schema[i].path)
    BY <2>1 DEF DefaultConfiguration
  <2> QED
    BY <2>2, <2>3 DEF DefaultValue
<1>4. Schema[i].kind = "level" => x \in Level
  BY DefaultsAreReadable
<1>5. Schema[i].kind = "channels" => x \in Seq(Strings)
  <2>1. Schema[i].kind = "channels" => x = <<>>
    BY DefaultsAreReadable
  <2> HIDE DEF x
  <2> QED
    BY <2>1
<1>6. Schema[i].kind = "path" => IsPath(x)
  BY DefaultPath, KindsOfPaths DEF Fields
<1>7. Schema[i].kind = "integer" =>
        x \in IF Schema[i].path \in {"queue_size", "async_worker_count"} THEN 0 .. SizeMax
              ELSE -IntMax - 1 .. IntMax
  BY DefaultsAreReadable, LimitsFit DEF Fields
<1> HIDE DEF x
<1>8. HasType(Schema[i], x)
  BY <1>1, <1>2, <1>3, <1>4, <1>5, <1>6, <1>7 DEF HasType
<1> QED
  BY <1>8 DEF x

-----------------------------------------------------------------------------
(* The steps keep IInv.                                                     *)

\* What a caller finds after LoadConfiguration has returned.
LEMMA ReturnKeeps ==
    ASSUME NEW names \in {Schema[i].path : i \in DOMAIN Schema} \cup {"document", "configuration", None},
           Return(names)
    PROVE  /\ at' = 0 /\ parsed' = DefaultConfiguration
           /\ document' = Unreadable /\ base' = EmptyPath
           /\ result' \in BOOLEAN /\ (result' <=> error' = None)
           /\ error' \in {f.path : f \in Fields} \cup {"document", "sinks", "configuration", None}
BY DEF Return, Fields

\* LoadConfiguration starts from values that every reader would have let through.
LEMMA DefaultIsWellTyped ==
    /\ IsConfiguration(DefaultConfiguration)
    /\ \A f \in Fields : f.kind = "integer" => DefaultConfiguration[f.path] \in 0 .. f.max
    /\ Readable(DefaultConfiguration)
<1>1. IsConfiguration(DefaultConfiguration)
  <2>1. DOMAIN DefaultConfiguration = FieldNames
    BY DEF DefaultConfiguration
  <2> QED
    BY <2>1, DefaultsHaveTypes DEF IsConfiguration, Fields
<1>2. \A f \in Fields : \E i \in DOMAIN Schema : f = Schema[i]
  BY DEF Fields
<1>3. \A f \in Fields : f.kind = "integer" => DefaultConfiguration[f.path] \in 0 .. f.max
  BY <1>2, DefaultsAreReadable
<1>5. \A f \in Fields : f.kind = "channels" => DefaultConfiguration[f.path] = <<>>
  BY <1>2, DefaultsAreReadable
<1>6. \A f \in Fields : f.kind = "channels" => DOMAIN DefaultConfiguration[f.path] = {}
  BY <1>5
<1> QED
  BY <1>1, <1>3, <1>6, DefaultPath DEF Readable

\* What a reader accepts it decodes to a value of the field's type, within its limits.
LEMMA DecodeIsWellTyped ==
    ASSUME NEW f \in Fields, NEW v, Accepts(f, v), IsJson(f.path, v)
    PROVE  /\ HasType(f, Decode(f, v))
           /\ f.kind = "integer" => Decode(f, v) \in 0 .. f.max
           /\ f.kind = "channels" => \A i \in DOMAIN Decode(f, v) : Decode(f, v)[i] # ""
<1> DEFINE x == Decode(f, v)
<1>1. f.kind = "integer" => x \in 0 .. f.max
  BY DEF Accepts, Decode, InRange, IsJson
<1>2. f.kind = "level" => x \in Level
  <2>1. \A y \in DOMAIN TryParseLevel : TryParseLevel[y] \in Level
    BY DEF TryParseLevel, Level
  <2> QED
    BY <2>1 DEF Accepts, Decode
<1>3. f.kind = "channels" => \A i \in DOMAIN x : x[i] # ""
  BY DEF Accepts, Decode
<1>4. f.kind = "boolean" => x \in BOOLEAN
  <2> SUFFICES ASSUME f.kind = "boolean" PROVE x \in BOOLEAN
    OBVIOUS
  <2>1. v[1] = "boolean"
    BY DEF Accepts
  <2>2. x = v[2]
    BY DEF Decode
  <2> QED
    BY <2>1, <2>2 DEF IsJson
<1>5. f.kind = "format" => x \in {"text", "json"}
  BY DEF Accepts, Decode
<1>6. f.kind = "string" => x \in Strings
  <2> SUFFICES ASSUME f.kind = "string" PROVE x \in Strings
    OBVIOUS
  <2>1. v[1] = "string" /\ f.path # "file.path"
    BY KindsOfPaths DEF Accepts
  <2>2. x = v[2]
    BY DEF Decode
  <2> QED
    BY <2>1, <2>2 DEF IsJson
<1>7. f.kind = "path" => IsPath(x)
  <2> SUFFICES ASSUME f.kind = "path" PROVE IsPath(x)
    OBVIOUS
  <2>1. v[1] = "string" /\ f.path = "file.path"
    BY KindsOfPaths DEF Accepts
  <2>2. x = v[2]
    BY DEF Decode
  <2> QED
    BY <2>1, <2>2 DEF IsJson
<1>8. f.kind = "channels" => x \in Seq(Strings)
  <2> SUFFICES ASSUME f.kind = "channels" PROVE x \in Seq(Strings)
    OBVIOUS
  <2> DEFINE t == v[2]
  <2>1. v[1] = "array" /\ \A i \in DOMAIN t : t[i][1] = "string"
    BY DEF Accepts
  <2>2. t \in Seq(ToSet(t)) /\ \A i \in DOMAIN t : t[i][2] \in Strings
    BY <2>1 DEF IsJson
  <2>3. x = [i \in DOMAIN t |-> t[i][2]]
    BY DEF Decode
  <2> HIDE DEF t, x
  <2>4. Len(t) \in Nat /\ DOMAIN t = 1 .. Len(t)
    BY <2>2
  <2>5. x \in [1 .. Len(t) -> Strings]
    BY <2>2, <2>3, <2>4
  <2> QED
    BY <2>4, <2>5, SeqDef
<1>9. f.kind = "integer" =>
        x \in IF f.path \in {"queue_size", "async_worker_count"} THEN 0 .. SizeMax
              ELSE -IntMax - 1 .. IntMax
  BY <1>1, LimitsFit
<1> HIDE DEF x
<1>10. HasType(f, x)
  BY <1>2, <1>4, <1>5, <1>6, <1>7, <1>8, <1>9 DEF HasType
<1> QED
  BY <1>1, <1>3, <1>10 DEF x

\* Min(Left) is the first field at or after at that the document has.
LEMMA NextField ==
    ASSUME TypeOK, at # 0, Left # {}
    PROVE  /\ Min(Left) \in DOMAIN Schema /\ Min(Left) >= at
           /\ Schema[Min(Left)] \in Fields
           /\ Schema[Min(Left)].path \in DOMAIN document
           /\ \A k \in at .. Min(Left) - 1 : Schema[k].path \notin DOMAIN document
<1>1. at \in Nat /\ at >= 1
  BY SchemaLength DEF TypeOK
<1>2. Left \subseteq Nat
  BY <1>1, SchemaLength DEF Left
<1>3. Min(Left) \in Left /\ \A k \in Left : Min(Left) <= k
  BY <1>2, MinIsLeast
<1>4. Min(Left) \in at .. 27 /\ Schema[Min(Left)].path \in DOMAIN document
  BY <1>3, SchemaLength DEF Left
<1>5. \A k \in at .. Min(Left) - 1 : Schema[k].path \notin DOMAIN document
  <2> TAKE k \in at .. Min(Left) - 1
  <2>1. k \notin Left
    BY <1>1, <1>3, <1>4
  <2> QED
    BY <1>1, <1>4, <2>1, SchemaLength DEF Left
<1> QED
  BY <1>1, <1>4, <1>5, SchemaLength, FieldOfPath

\* A document that is being read is one that may be passed in.
LEMMA DocumentIsWellTyped ==
    ASSUME TypeOK, at # 0
    PROVE  \A p \in DOMAIN document : IsJson(p, document[p])
BY LoadingAssumption DEF TypeOK

\* So are the paths in it, and the base directory.
LEMMA PathsAreWellTyped ==
    ASSUME TypeOK, at # 0
    PROVE  /\ IsPath(base)
           /\ \A j \in DOMAIN Schema :
                 /\ Schema[j].path = "file.path" /\ "file.path" \in DOMAIN document
                 /\ Accepts(Schema[j], document["file.path"])
                 => IsPath(Decode(Schema[j], document["file.path"]))
<1>1. IsPath(base)
  BY LoadingAssumption, DefaultPath DEF TypeOK
<1>2. ASSUME NEW j \in DOMAIN Schema, Schema[j].path = "file.path",
             "file.path" \in DOMAIN document, Accepts(Schema[j], document["file.path"])
      PROVE  IsPath(Decode(Schema[j], document["file.path"]))
  <2>1. Schema[j].kind = "path"
    <3>1. 23 \in DOMAIN Schema /\ Schema[23].path = "file.path" /\ Schema[23].kind = "path"
      BY SchemaEntries, SchemaLength DEF Field
    <3>2. j = 23
      BY <1>2, <3>1, PathsDiffer
    <3> QED
      BY <3>1, <3>2
  <2> DEFINE v == document["file.path"]
  <2>2. v[1] = "string" => IsPath(v[2])
    BY <1>2, DocumentIsWellTyped DEF IsJson
  <2> HIDE DEF v
  <2>3. v[1] = "string" /\ Decode(Schema[j], v) = v[2]
    <3>1. Accepts(Schema[j], v)
      BY <1>2 DEF v
    <3> QED
      BY <2>1, <3>1 DEF Accepts, Decode
  <2> QED
    BY <2>2, <2>3 DEF v
<1> QED
  BY <1>1, <1>2

\* The start keeps IInv.
LEMMA InitIInv == Init => IInv
<1> SUFFICES ASSUME Init PROVE IInv
  OBVIOUS
<1>1. TypeOK
  <2>1. at = 0 /\ 0 \in 0 .. Len(Schema) + 1 /\ document = Unreadable
    BY SchemaLength DEF Init
  <2> QED
    BY <2>1, DefaultIsWellTyped DEF Init, TypeOK
<1>2. ParsedInv /\ (result <=> error = None)
  BY DEF Init, ParsedInv
<1> QED
  BY <1>1, <1>2, DefaultIsWellTyped DEF Init, IInv

\* A call of LoadConfiguration that returns keeps IInv, if the configuration it leaves is
\* readable.
LEMMA ReturnKeepsIInv ==
    ASSUME IInv, NEW names \in {Schema[i].path : i \in DOMAIN Schema} \cup {"document", "configuration", None},
           Return(names), IsConfiguration(configuration'), loaded' \in BOOLEAN,
           loaded' => Readable(configuration')
    PROVE  IInv'
<1>0. IsConfiguration(configuration)' /\ IsConfiguration(parsed)'
  BY ReturnKeeps, DefaultIsWellTyped DEF IsConfiguration
<1>1. TypeOK'
  BY <1>0, ReturnKeeps, DefaultIsWellTyped, SchemaLength DEF TypeOK
<1>2. ParsedInv'
  BY ReturnKeeps DEF ParsedInv
<1>3. Readable(parsed)'
  BY ReturnKeeps, DefaultIsWellTyped DEF Readable
<1>4. (loaded => Readable(configuration))'
  BY DEF Readable
<1> QED
  BY <1>1, <1>2, <1>3, <1>4, ReturnKeeps DEF IInv

\* A field that is accepted is decoded into parsed.
LEMMA ReadFieldKeepsIInv ==
    ASSUME IInv, at # 0, Left # {}, NEW j, j = Min(Left),
           Accepts(Schema[j], document[Schema[j].path]),
           parsed' = [parsed EXCEPT ![Schema[j].path]
                          = Decode(Schema[j], document[Schema[j].path])],
           at' = j + 1,
           UNCHANGED <<input, result, error, configuration, loaded>>
    PROVE  IInv'
<1> DEFINE path == Schema[j].path
           value == Decode(Schema[j], document[path])
<1>1. /\ j \in DOMAIN Schema /\ j >= at /\ Schema[j] \in Fields /\ path \in DOMAIN document
      /\ \A k \in at .. j - 1 : Schema[k].path \notin DOMAIN document
  BY NextField DEF IInv
<1>2. path \in FieldNames /\ FieldOf(path) = Schema[j]
  BY <1>1, AcceptedIsName, FieldOfPath
<1>3. DOMAIN parsed = FieldNames /\ at \in Nat /\ at >= 1 /\ j \in 1 .. 27
  BY <1>1, SchemaLength DEF IInv, TypeOK, IsConfiguration
<1>4. /\ DOMAIN parsed' = FieldNames
      /\ \A p \in FieldNames : parsed'[p] = IF p = path THEN value ELSE parsed[p]
  BY <1>2, <1>3
<1>5. /\ HasType(Schema[j], value)
      /\ Schema[j].kind = "integer" => value \in 0 .. Schema[j].max
      /\ Schema[j].kind = "channels" => \A i \in DOMAIN value : value[i] # ""
  BY <1>1, DocumentIsWellTyped, DecodeIsWellTyped DEF IInv
<1>6. \A f \in Fields : f.path = path => f = Schema[j]
  BY <1>1, PathsDiffer DEF Fields
<1> HIDE DEF path, value
<1>7. \A f \in Fields : f.kind \in {"integer", "level", "channels"} => f.path \in FieldNames
  BY NamesAre DEF Fields
<1>8. \A f \in Fields : f.kind \in {"integer", "level", "channels"} =>
        parsed'[f.path] = IF f = Schema[j] THEN value ELSE parsed[f.path]
  BY <1>4, <1>6, <1>7 DEF path
<1>9. TypeOK'
  <2>1. \A f \in Fields : f.kind = "integer" => parsed'[f.path] \in 0 .. f.max
    BY <1>5, <1>8 DEF IInv, TypeOK
  <2>2. IsConfiguration(parsed)'
    <3> SUFFICES ASSUME NEW f \in Fields PROVE HasType(f, parsed'[f.path])
      BY <1>4 DEF IsConfiguration
    <3>1. CASE f = Schema[j]
      <4>1. parsed'[f.path] = value
        BY <1>2, <1>4, <3>1 DEF path
      <4> QED
        BY <1>5, <3>1, <4>1
    <3>2. CASE f # Schema[j] /\ f.path \in FieldNames
      <4>1. parsed'[f.path] = parsed[f.path]
        BY <1>4, <1>6, <3>2
      <4> QED
        BY <4>1 DEF IInv, TypeOK, IsConfiguration
    <3>3. CASE f.path \notin FieldNames
      <4>1. f.kind \in {"unsupported", "object"}
        BY <3>3, NamesAre DEF Fields
      <4> QED
        BY <4>1 DEF HasType
    <3> QED
      BY <3>1, <3>2, <3>3
  <2>4. IsConfiguration(configuration)'
    BY DEF IInv, TypeOK, IsConfiguration
  <2>3. at' \in 0 .. Len(Schema) + 1 /\ at' # 0
    BY <1>3, SchemaLength
  <2> QED
    BY <2>1, <2>2, <2>3, <2>4 DEF IInv, TypeOK, input
<1>10. Readable(parsed)'
  <2>1. \A f \in Fields : f.kind = "integer" => parsed'[f.path] \in 0 .. f.max
    BY <1>9 DEF TypeOK
  <2>2. \A f \in Fields : f.kind = "channels" =>
            \A i \in DOMAIN parsed'[f.path] : parsed'[f.path][i] # ""
    <3> SUFFICES ASSUME NEW f \in Fields, f.kind = "channels", NEW i \in DOMAIN parsed'[f.path]
                 PROVE  parsed'[f.path][i] # ""
      OBVIOUS
    <3>1. CASE f = Schema[j]
      BY <1>5, <1>8, <3>1
    <3>2. CASE f # Schema[j]
      BY <1>8, <3>2, ZenonT(30) DEF IInv, Readable
    <3> QED
      BY <3>1, <3>2
  <2>3. IsPath(parsed'["file.path"])
    <3>1. CASE path = "file.path"
      <4>1. IsPath(value)
        BY <1>1, <3>1, PathsAreWellTyped DEF IInv, path, value
      <4> QED
        BY <1>4, <3>1, <4>1, DefaultPath
    <3>2. CASE path # "file.path"
      <4>1. parsed'["file.path"] = parsed["file.path"]
        BY <1>4, <3>2, DefaultPath
      <4> QED
        BY <4>1 DEF IInv, Readable
    <3> QED
      BY <3>1, <3>2
  <2> QED
    BY <2>1, <2>2, <2>3 DEF Readable
<1>11. ParsedInv'
  <2>1. \A k \in 1 .. j : k < at \/ k \in at .. j - 1 \/ k = j
    BY <1>3
  <2>2. \A p \in FieldNames : Read(p, j + 1) <=> Read(p, at) \/ p = path
    <3> TAKE p \in FieldNames
    <3>1. Read(p, at) \/ p = path => Read(p, j + 1)
      BY <1>1, <1>3 DEF Read, path
    <3>2. ASSUME Read(p, j + 1) PROVE Read(p, at) \/ p = path
      <4>1. PICK k \in 1 .. j : Schema[k].path = p /\ p \in DOMAIN document
        BY <1>3, <3>2 DEF Read
      <4>2. k \notin at .. j - 1
        BY <1>1, <4>1
      <4>3. CASE k = j
        BY <4>1, <4>3 DEF path
      <4>4. CASE k < at
        BY <1>3, <4>1, <4>4 DEF Read
      <4> QED
        BY <2>1, <4>2, <4>3, <4>4
    <3> QED
      BY <3>1, <3>2
  <2>3. parsed = [p \in FieldNames |-> IF Read(p, at) THEN Decode(FieldOf(p), document[p])
                                       ELSE DefaultConfiguration[p]]
    BY DEF IInv, ParsedInv
  <2>4. parsed' = [p \in FieldNames |->
                    IF p = path THEN value
                    ELSE IF Read(p, at) THEN Decode(FieldOf(p), document[p])
                         ELSE DefaultConfiguration[p]]
    BY <2>3, <1>2 DEF path, value
  <2>5. parsed' = [p \in FieldNames |-> IF Read(p, j + 1) THEN Decode(FieldOf(p), document[p])
                                        ELSE DefaultConfiguration[p]]
    BY <2>2, <2>4, <1>2 DEF path, value
  <2>6. \A k \in 1 .. j :
            Schema[k].path \in DOMAIN document => Accepts(Schema[k], document[Schema[k].path])
    BY <1>1, <1>3, <2>1 DEF IInv, ParsedInv
  <2>7. \A p : Read(p, at)' <=> Read(p, j + 1)
    BY DEF Read, input
  <2>8. at' - 1 = j
    BY <1>3
  <2> QED
    BY <2>5, <2>6, <2>7, <2>8 DEF ParsedInv, input
<1> QED
  BY <1>9, <1>10, <1>11 DEF IInv, Readable

\* The path that a load ends with.
LEMMA FinishedPath ==
    ASSUME IInv, Finish
    PROVE  /\ configuration'["file.path"] = ResolvePathFromBase(parsed["file.path"], base)
           /\ IsPath(parsed["file.path"]) /\ IsPath(base)
           /\ IsPath(configuration'["file.path"])
<1> DEFINE p == parsed["file.path"]
           n == ResolvePathFromBase(p, base)
<1>1. configuration'["file.path"] = n
  BY DefaultPath DEF Finish, IInv, TypeOK, IsConfiguration
<1>2. IsPath(p) /\ IsPath(base)
  BY PathsAreWellTyped DEF Finish, IInv, Readable
<1> HIDE DEF p
<1>3. CASE p = EmptyPath
  BY <1>1, <1>2, <1>3 DEF ResolvePathFromBase, p
<1>4. CASE p # EmptyPath
  <2>1. IsSeq(<<>>)
    BY TuplesAreSeqs
  <2> HIDE DEF n
  <2>2. IsPath(n)
    BY <1>2, <1>4, <2>1, ResolvedLeads DEF n
  <2> QED
    BY <1>1, <1>2, <2>2 DEF p, n
<1> QED
  BY <1>3, <1>4

\* A configuration that is refused is refused for the first check that fails.
LEMMA RefusedFor ==
    ASSUME NEW c, ValidateConfiguration(c) # None
    PROVE  \E i \in DOMAIN Checks : ~Holds(Checks[i], c) /\ ValidateConfiguration(c) = Checks[i]
<1> DEFINE failed == {i \in DOMAIN Checks : ~Holds(Checks[i], c)}
<1>1. failed # {} /\ ValidateConfiguration(c) = Checks[Min(failed)]
  BY DEF ValidateConfiguration
<1>2. failed \subseteq Nat
  <2>1. DOMAIN Checks = 1 .. 10
    BY DEF Checks
  <2> QED
    BY <2>1
<1>3. Min(failed) \in failed
  BY <1>1, <1>2, MinIsLeast
<1> QED
  BY <1>1, <1>3

\* The names of the checks.
LEMMA CheckNames ==
    {Checks[i] : i \in DOMAIN Checks} =
        {"logger_name", "sinks", "queue_size", "async_worker_count", "file.path",
         "file.rotation_hour", "file.rotation_minute", "file.max_files",
         "console.channels", "file.channels"}
<1>1. DOMAIN Checks = 1 .. 10
  BY DEF Checks
<1>2. 1 .. 10 = {1, 2, 3, 4, 5, 6, 7, 8, 9, 10}
  OBVIOUS
<1> QED
  BY <1>1, <1>2 DEF Checks

\* A configuration that fails a check is refused.
LEMMA SomeCheckFails ==
    ASSUME NEW c, \E i \in DOMAIN Checks : ~Holds(Checks[i], c)
    PROVE  ValidateConfiguration(c) # None
<1> DEFINE failed == {i \in DOMAIN Checks : ~Holds(Checks[i], c)}
<1>1. failed # {} /\ ValidateConfiguration(c) = Checks[Min(failed)]
  BY DEF ValidateConfiguration
<1>2. failed \subseteq Nat
  <2>1. DOMAIN Checks = 1 .. 10
    BY DEF Checks
  <2> QED
    BY <2>1
<1>3. Min(failed) \in DOMAIN Checks
  <2>1. Min(failed) \in failed
    BY <1>1, <1>2, MinIsLeast
  <2> QED
    BY <2>1
<1>4. \A i \in DOMAIN Checks : Checks[i] \in {Schema[k].path : k \in DOMAIN Schema} \cup {"sinks"}
  <2>1. {"logger_name", "queue_size", "async_worker_count", "file.path", "file.rotation_hour",
         "file.rotation_minute", "file.max_files", "console.channels", "file.channels"}
        \subseteq {Schema[k].path : k \in DOMAIN Schema}
    BY SchemaEntries, SchemaLength DEF Field, Integer
  <2> QED
    BY <2>1, CheckNames
<1> QED
  BY <1>1, <1>3, <1>4, LoadingAssumption

\* What ValidateConfiguration names is a field, or the sinks together.
LEMMA ValidateNames ==
    ASSUME NEW c
    PROVE  ValidateConfiguration(c) \in {f.path : f \in Fields} \cup {"sinks", None}
<1>1. {"logger_name", "queue_size", "async_worker_count", "file.path", "file.rotation_hour",
       "file.rotation_minute", "file.max_files", "console.channels", "file.channels"}
      \subseteq {f.path : f \in Fields}
  <2>1. {"logger_name", "queue_size", "async_worker_count", "file.path", "file.rotation_hour",
         "file.rotation_minute", "file.max_files", "console.channels", "file.channels"}
        \subseteq FieldNames
    BY NamesAre, SchemaEntries, SchemaLength DEF Field, Integer
  <2> QED
    BY <2>1 DEF FieldNames
<1>2. CASE ValidateConfiguration(c) # None
  <2>1. PICK i \in DOMAIN Checks : ValidateConfiguration(c) = Checks[i]
    BY <1>2, RefusedFor
  <2>2. Checks[i] \in
            {"logger_name", "sinks", "queue_size", "async_worker_count", "file.path",
             "file.rotation_hour", "file.rotation_minute", "file.max_files",
             "console.channels", "file.channels"}
    BY DEF Checks
  <2> QED
    BY <1>1, <2>1, <2>2
<1> QED
  BY <1>2

\* Every step keeps IInv.
LEMMA NextIInv == IInv /\ [Next]_vars => IInv'
<1> SUFFICES ASSUME IInv, [Next]_vars PROVE IInv'
  OBVIOUS
<1>1. ASSUME NEW d \in Documents, NEW b \in BaseDirs, Begin(d, b) PROVE IInv'
  <2>1. /\ document' = d /\ base' = b /\ parsed' = DefaultConfiguration /\ at' = 1
        /\ UNCHANGED <<configuration, loaded, result, error>>
    BY <1>1 DEF Begin
  <2>2. 1 \in 0 .. Len(Schema) + 1 /\ d # Unreadable
    BY SchemaLength, LoadingAssumption
  <2>8. IsConfiguration(configuration)' /\ IsConfiguration(parsed)'
    BY <2>1, DefaultIsWellTyped DEF IInv, TypeOK, IsConfiguration
  <2>3. TypeOK'
    BY <2>1, <2>2, <2>8, DefaultIsWellTyped DEF IInv, TypeOK
  <2>4. 1 .. at' - 1 = {}
    BY <2>1
  <2>5. \A p : ~Read(p, at)'
    BY <2>4 DEF Read
  <2>6. parsed' = [p \in FieldNames |-> DefaultConfiguration[p]]
    BY <2>1 DEF DefaultConfiguration
  <2>7. ParsedInv'
    BY <2>4, <2>5, <2>6 DEF ParsedInv
  <2> QED
    BY <2>1, <2>3, <2>7, DefaultIsWellTyped DEF IInv, Readable
<1>0. CASE NoOutput
  BY <1>0, ReturnKeepsIInv DEF NoOutput, IInv, TypeOK
<1>2. CASE OpenFails
  BY <1>2, ReturnKeepsIInv DEF OpenFails, IInv, TypeOK
<1>3. CASE ReadField
  <2> DEFINE j == Min(Left)
  <2>1. at # 0 /\ Left # {} /\ UNCHANGED <<configuration, loaded>>
    BY <1>3 DEF ReadField
  <2>2. CASE Accepts(Schema[j], document[Schema[j].path])
    BY <1>3, <2>1, <2>2, ReadFieldKeepsIInv DEF ReadField
  <2>3. CASE ~Accepts(Schema[j], document[Schema[j].path])
    <3>1. Return(Schema[j].path)
      BY <1>3, <2>3 DEF ReadField
    <3>2. j \in DOMAIN Schema
      BY <2>1, NextField DEF IInv
    <3> QED
      BY <2>1, <3>1, <3>2, ReturnKeepsIInv DEF IInv, TypeOK
  <2> QED
    BY <2>2, <2>3
<1>4. CASE Finish
  <2>1. Return(None) /\ loaded' = TRUE
        /\ configuration' = [parsed EXCEPT !["file.path"] = ResolvePathFromBase(@, base)]
    BY <1>4 DEF Finish
  <2>2. DOMAIN configuration' = FieldNames /\ \A p \in FieldNames :
            p # "file.path" => configuration'[p] = parsed[p]
    BY <2>1 DEF IInv, TypeOK, IsConfiguration
  <2>3. \A f \in Fields : f.kind \in {"integer", "channels"} =>
            f.path \in FieldNames /\ f.path # "file.path"
    <3>1. 23 \in DOMAIN Schema /\ Schema[23].path = "file.path" /\ Schema[23].kind = "path"
      BY SchemaEntries, SchemaLength DEF Field
    <3>2. ASSUME NEW i \in DOMAIN Schema, Schema[i].kind \in {"integer", "channels"}
          PROVE  Schema[i].path \in FieldNames /\ Schema[i].path # "file.path"
      <4>1. i # 23
        BY <3>1, <3>2
      <4>2. Schema[i].path # "file.path"
        BY <3>1, <4>1, PathsDiffer
      <4> QED
        BY <3>2, <4>2, NamesAre
    <3> QED
      BY <3>2 DEF Fields
  <2>4. Readable(configuration')
    <3>1. /\ \A f \in Fields : f.kind = "integer" => configuration'[f.path] \in 0 .. f.max
          /\ \A f \in Fields : f.kind = "channels" =>
                \A i \in DOMAIN configuration'[f.path] : configuration'[f.path][i] # ""
      BY <2>2, <2>3 DEF IInv, Readable
    <3>2. IsPath(configuration'["file.path"])
      BY <1>4, <2>1, FinishedPath DEF Finish
    <3> QED
      BY <3>1, <3>2 DEF Readable
  <2>5. IsConfiguration(configuration')
    <3> SUFFICES ASSUME NEW f \in Fields PROVE HasType(f, configuration'[f.path])
      BY <2>2 DEF IsConfiguration
    <3>1. CASE f.path = "file.path"
      <4>1. f.kind = "path"
        BY <3>1, KindsOfPaths
      <4>2. IsPath(configuration'[f.path])
        BY <2>4, <3>1 DEF Readable
      <4> QED
        BY <4>1, <4>2 DEF HasType
    <3>2. CASE f.path # "file.path" /\ f.path \in FieldNames
      <4>1. configuration'[f.path] = parsed[f.path]
        BY <2>2, <3>2
      <4> QED
        BY <4>1 DEF IInv, TypeOK, IsConfiguration
    <3>3. CASE f.path \notin FieldNames
      <4>1. f.kind \in {"unsupported", "object"}
        BY <3>3, NamesAre DEF Fields
      <4> QED
        BY <4>1 DEF HasType
    <3> QED
      BY <3>1, <3>2, <3>3
  <2> QED
    BY <2>1, <2>4, <2>5, ReturnKeepsIInv DEF IInv
<1>5. ASSUME NEW c \in OwnConfigurations, FillIn(c) PROVE IInv'
  <2>1. IsConfiguration(configuration)' /\ IsConfiguration(parsed)'
    BY <1>5, LoadingAssumption DEF FillIn, IInv, TypeOK, IsConfiguration
  <2> QED
    BY <1>5, <2>1 DEF FillIn, input, IInv, TypeOK, ParsedInv, Read, Readable
<1>6. CASE Validate
  <2>1. IsConfiguration(configuration)' /\ IsConfiguration(parsed)'
    BY <1>6 DEF Validate, IInv, TypeOK, IsConfiguration
  <2> QED
    BY <1>6, <2>1, ValidateNames DEF Validate, input, IInv, TypeOK, ParsedInv, Read, Readable
<1>7. CASE UNCHANGED vars
  <2>1. IsConfiguration(configuration)' /\ IsConfiguration(parsed)'
    BY <1>7 DEF vars, IInv, TypeOK, IsConfiguration
  <2> QED
    BY <1>7, <2>1 DEF vars, input, IInv, TypeOK, ParsedInv, Read, Readable
<1> QED
  BY <1>0, <1>1, <1>2, <1>3, <1>4, <1>5, <1>6, <1>7 DEF Next

-----------------------------------------------------------------------------
(* Theorems.                                                               *)

\* In the middle of a load its local configuration is the document up to the field it
\* has come to, whatever was loaded before.
THEOREM Invariance == Spec => []IInv
<1>1. Init => IInv
  BY InitIInv
<1>2. IInv /\ [Next]_vars => IInv'
  BY NextIInv
<1> QED
  BY <1>1, <1>2, PTL DEF Spec

\* The configuration a caller holds and the one LoadConfiguration fills in have values of
\* their fields' types, and LoadConfiguration stores no number out of its reader's limits.
THEOREM TypeCorrect == Spec => []TypeOK
<1>1. IInv => TypeOK
  BY DEF IInv
<1> QED
  BY <1>1, Invariance, PTL

\* Of a loaded configuration, Configure still asks five things; it refuses none for the
\* time of rotation, the number of files or a channel.
THEOREM FiveChecksRemain == Spec => []OnlyFiveChecksRemain
<1>1. ASSUME IInv PROVE OnlyFiveChecksRemain
  <2> DEFINE c == configuration
             Five == /\ c["logger_name"] # ""
                     /\ c["console.enabled"] \/ c["file.enabled"]
                     /\ c["file.enabled"] => c["file.path"] # EmptyPath
                     /\ c["async"] => c["queue_size"] # 0
                     /\ c["async"] => c["async_worker_count"] \in 1 .. 1000
  <2>1. SUFFICES ASSUME loaded PROVE ValidateConfiguration(c) = None <=> Five
    BY DEF OnlyFiveChecksRemain
  <2>3. {Schema[24], Schema[25], Schema[26], Schema[16], Schema[22]} \subseteq Fields
    BY FieldOfPath, SchemaLength
  <2>4. Readable(configuration)
    BY <1>1, <2>1 DEF IInv
  <2>5. /\ configuration["file.rotation_hour"] \in 0 .. 23
        /\ configuration["file.rotation_minute"] \in 0 .. 59
        /\ configuration["file.max_files"] \in 0 .. Uint16Max
    <3>1. \A f \in Fields : f.kind = "integer" => configuration[f.path] \in 0 .. f.max
      BY <2>4 DEF Readable
    <3>2. \A path, max : /\ Integer(path, max).path = path
                         /\ Integer(path, max).kind = "integer"
                         /\ Integer(path, max).max = max
      BY DEF Integer
    <3>3. {Integer("file.rotation_hour", 23), Integer("file.rotation_minute", 59),
           Integer("file.max_files", Uint16Max)} \subseteq Fields
      BY <2>3, SchemaEntries
    <3> QED
      BY <3>1, <3>2, <3>3
  <2>6. /\ \A k \in DOMAIN configuration["console.channels"] :
                configuration["console.channels"][k] # ""
        /\ \A k \in DOMAIN configuration["file.channels"] :
                configuration["file.channels"][k] # ""
    <3>1. \A p : (\E f \in Fields : f.kind = "channels" /\ f.path = p) =>
              \A k \in DOMAIN configuration[p] : configuration[p][k] # ""
      BY <2>4 DEF Readable
    <3>2. \A p : Field(p, "channels").path = p /\ Field(p, "channels").kind = "channels"
      BY DEF Field
    <3>3. /\ Field("console.channels", "channels") \in Fields
          /\ Field("file.channels", "channels") \in Fields
      BY <2>3, SchemaEntries
    <3>4. /\ \E f \in Fields : f.kind = "channels" /\ f.path = "console.channels"
          /\ \E f \in Fields : f.kind = "channels" /\ f.path = "file.channels"
      BY <3>2, <3>3
    <3> QED
      BY <3>1, <3>4
  <2>7. /\ Holds("file.rotation_hour", c) /\ Holds("file.rotation_minute", c)
        /\ Holds("file.max_files", c)
        /\ Holds("console.channels", c) /\ Holds("file.channels", c)
    <3>1. Holds("file.rotation_hour", c)
      BY <2>5 DEF Holds
    <3>2. Holds("file.rotation_minute", c)
      BY <2>5 DEF Holds
    <3>3. Holds("file.max_files", c)
      BY <2>5 DEF Holds
    <3>4. Holds("console.channels", c)
      BY <2>6 DEF Holds
    <3>5. Holds("file.channels", c)
      BY <2>6 DEF Holds
    <3> QED
      BY <3>1, <3>2, <3>3, <3>4, <3>5
  <2>8. Five <=> /\ Holds("logger_name", c) /\ Holds("sinks", c) /\ Holds("queue_size", c)
                 /\ Holds("async_worker_count", c) /\ Holds("file.path", c)
    <3> DEFINE Named == c["logger_name"] # ""
               HasSink == c["console.enabled"] \/ c["file.enabled"]
               HasPath == c["file.enabled"] => c["file.path"] # EmptyPath
               HasQueue == c["async"] => c["queue_size"] # 0
               HasWorkers == c["async"] => c["async_worker_count"] \in 1 .. 1000
    <3>1. Holds("logger_name", c) <=> Named
      BY DEF Holds
    <3>2. Holds("sinks", c) <=> HasSink
      BY DEF Holds
    <3>3. Holds("queue_size", c) <=> HasQueue
      BY DEF Holds
    <3>4. Holds("async_worker_count", c) <=> HasWorkers
      BY DEF Holds
    <3>5. Holds("file.path", c) <=> HasPath
      BY DEF Holds
    <3>6. Five <=> Named /\ HasSink /\ HasPath /\ HasQueue /\ HasWorkers
      OBVIOUS
    <3> HIDE DEF Named, HasSink, HasPath, HasQueue, HasWorkers, Five
    <3> QED
      BY <3>1, <3>2, <3>3, <3>4, <3>5, <3>6
  <2> HIDE DEF c, Five
  <2>9. ValidateConfiguration(c) = None <=> \A i \in DOMAIN Checks : Holds(Checks[i], c)
    <3>1. ValidateConfiguration(c) # None => \E i \in DOMAIN Checks : ~Holds(Checks[i], c)
      BY RefusedFor
    <3>2. (\E i \in DOMAIN Checks : ~Holds(Checks[i], c)) => ValidateConfiguration(c) # None
      BY SomeCheckFails
    <3> QED
      BY <3>1, <3>2
  <2>10. (\A i \in DOMAIN Checks : Holds(Checks[i], c)) <=>
            \A check \in {"logger_name", "sinks", "queue_size", "async_worker_count", "file.path",
                          "file.rotation_hour", "file.rotation_minute", "file.max_files",
                          "console.channels", "file.channels"} : Holds(check, c)
    BY CheckNames
  <2> QED
    BY <2>7, <2>8, <2>9, <2>10
<1> QED
  BY <1>1, Invariance, PTL

\* A load that ends gives the caller exactly the meaning of the document, and one that
\* fails, or is not over, nothing.
THEOREM AllOrNothing == Spec => LoadIsAllOrNothing
<1>1. ASSUME IInv, [Next]_vars, at # 0
      PROVE  configuration' = IF at' = 0 /\ result' THEN Meaning(document, base)
                              ELSE configuration
  <2>1. CASE Finish
    <3>1. /\ at' = 0 /\ result' = TRUE
          /\ configuration' = [parsed EXCEPT !["file.path"] = ResolvePathFromBase(@, base)]
      BY <2>1 DEF Finish, Return
    <3>2. \A k \in 1 .. 27 : Schema[k].path \in DOMAIN document => k \in 1 .. at - 1
      BY <1>1, <2>1, SchemaLength DEF Finish, Left, IInv, TypeOK
    <3>3. \A p \in FieldNames : Read(p, at) <=> p \in DOMAIN document
      BY <3>2, FieldHasPlace, SchemaLength DEF Read
    <3>4. parsed = [p \in FieldNames |-> IF p \in DOMAIN document
                                         THEN Decode(FieldOf(p), document[p])
                                         ELSE DefaultConfiguration[p]]
      BY <1>1, <3>3 DEF IInv, ParsedInv
    <3> QED
      BY <3>1, <3>4 DEF Meaning
  <2>2. CASE ReadField
    <3>1. UNCHANGED configuration
      BY <2>2 DEF ReadField
    <3>2. Min(Left) \in DOMAIN Schema /\ Min(Left) >= at /\ at \in Nat
      BY <1>1, <2>2, NextField DEF ReadField, IInv, TypeOK
    <3>3. at' = Min(Left) + 1 \/ Return(Schema[Min(Left)].path)
      BY <2>2 DEF ReadField
    <3>4. CASE at' = Min(Left) + 1
      <4>1. at' # 0
        BY <3>2, <3>4, SchemaLength
      <4> QED
        BY <3>1, <4>1
    <3>5. CASE Return(Schema[Min(Left)].path)
      BY <3>1, <3>2, <3>5, LoadingAssumption DEF Return
    <3> QED
      BY <3>3, <3>4, <3>5
  <2>3. CASE UNCHANGED vars
    BY <1>1, <2>3 DEF vars, input
  <2> QED
    BY <1>1, <2>1, <2>2, <2>3 DEF Next, Begin, NoOutput, OpenFails, FillIn, Validate
<1>2. IInv /\ [Next]_vars =>
        [at # 0 => configuration' = IF at' = 0 /\ result' THEN Meaning(document, base)
                                    ELSE configuration]_vars
  BY <1>1
<1> QED
  BY <1>2, Invariance, PTL DEF Spec, LoadIsAllOrNothing

\* The message of a call belongs to that call, and names the first field of the document
\* that its reader refuses.
THEOREM ErrorsAreCurrent == Spec => ErrorTellsTheLastCall
<1>1. ASSUME IInv, [Next]_vars, at # 0, at' = 0
      PROVE  error' = IF RefusedFields = {} THEN None ELSE Schema[Min(RefusedFields)].path
  <2>1. at \in Nat /\ at >= 1
    BY <1>1, SchemaLength DEF IInv, TypeOK
  <2>2. \A k \in RefusedFields : k \in 1 .. 27 /\ k \notin 1 .. at - 1 /\ Schema[k].path \in DOMAIN document
    BY <1>1, SchemaLength DEF IInv, ParsedInv, RefusedFields
  <2>3. CASE Finish
    <3>1. \A k \in at .. 27 : Schema[k].path \notin DOMAIN document
      BY <2>3, SchemaLength DEF Finish, Left
    <3>2. RefusedFields = {}
      BY <2>1, <2>2, <3>1
    <3> QED
      BY <2>3, <3>2 DEF Finish, Return
  <2>4. CASE ReadField
    <3> DEFINE j == Min(Left)
    <3>1. /\ j \in DOMAIN Schema /\ j >= at /\ Schema[j].path \in DOMAIN document
          /\ \A k \in at .. j - 1 : Schema[k].path \notin DOMAIN document
      BY <1>1, <2>4, NextField DEF ReadField, IInv
    <3>2. j + 1 # 0
      BY <3>1, SchemaLength
    <3>3. ~Accepts(Schema[j], document[Schema[j].path]) /\ Return(Schema[j].path)
      BY <1>1, <2>4, <3>2 DEF ReadField
    <3>4. j \in RefusedFields
      BY <3>1, <3>3 DEF RefusedFields
    <3> HIDE DEF j
    <3>5. \A k \in RefusedFields : j <= k
      <4> TAKE k \in RefusedFields
      <4>1. k \in 1 .. 27 /\ k \notin 1 .. at - 1 /\ k \notin at .. j - 1
        BY <2>2, <3>1
      <4> QED
        BY <2>1, <3>1, <4>1, SchemaLength
    <3>6. Min(RefusedFields) \in RefusedFields /\ \A k \in RefusedFields : Min(RefusedFields) <= k
      <4>1. RefusedFields \subseteq Nat
        BY <2>2
      <4> QED
        BY <3>4, <4>1, MinIsLeast
    <3>7. Min(RefusedFields) = j
      <4>1. Min(RefusedFields) <= j /\ j <= Min(RefusedFields)
        BY <3>4, <3>5, <3>6
      <4> QED
        BY <2>2, <3>4, <3>6, <4>1
    <3> QED
      BY <3>3, <3>4, <3>7 DEF Return
  <2>5. CASE UNCHANGED vars
    BY <1>1, <2>5 DEF vars
  <2> QED
    BY <1>1, <2>3, <2>4, <2>5 DEF Next, Begin, NoOutput, OpenFails, FillIn, Validate
<1>2. IInv /\ [Next]_vars => (result' <=> error' = None)
  BY NextIInv DEF IInv
<1>3. IInv /\ [Next]_vars =>
        [/\ result' <=> error' = None
         /\ at # 0 /\ at' = 0 =>
                error' = IF RefusedFields = {} THEN None ELSE Schema[Min(RefusedFields)].path]_vars
  BY <1>1, <1>2
<1> QED
  BY <1>3, Invariance, PTL DEF Spec, ErrorTellsTheLastCall

\* The path that a load returns leads where the document's path leads from base_dir, from
\* every current directory, and there is nothing left in it to normalise.
THEOREM PathsLead == Spec => PathLeadsFromBase
<1>1. ASSUME IInv, [Next]_vars, at # 0, at' = 0, result', parsed["file.path"] # EmptyPath,
             NEW path, path = configuration'["file.path"]
      PROVE  /\ \A cwd \in CurrentDirs :
                    Walk(cwd, path) = Walk(Walk(cwd, base), parsed["file.path"])
             /\ path # EmptyPath /\ LexicallyNormal(path) = path
  <2>1. Finish
    <3>1. CASE ReadField
      <4>1. Min(Left) \in DOMAIN Schema
        BY <1>1, <3>1, NextField DEF ReadField, IInv
      <4>2. Min(Left) + 1 # 0
        BY <4>1, SchemaLength
      <4>3. Return(Schema[Min(Left)].path)
        BY <1>1, <3>1, <4>2 DEF ReadField
      <4> QED
        BY <1>1, <4>1, <4>3, LoadingAssumption DEF Return
    <3>2. CASE UNCHANGED vars
      BY <1>1, <3>2 DEF vars
    <3> QED
      BY <1>1, <3>1, <3>2 DEF Next, Begin, NoOutput, OpenFails, FillIn, Validate
  <2> DEFINE p == parsed["file.path"]
  <2>2. IsPath(p) /\ IsPath(base) /\ p # EmptyPath /\ path = ResolvePathFromBase(p, base)
    BY <1>1, <2>1, FinishedPath
  <2> HIDE DEF p
  <2>3. ASSUME NEW cwd, IsSeq(cwd)
        PROVE  /\ path # EmptyPath /\ LexicallyNormal(path) = path
               /\ Walk(cwd, path) = Walk(Walk(cwd, base), p)
    BY <2>2, <2>3, ResolvedLeads
  <2>4. IsSeq(<<>>) /\ \A cwd \in CurrentDirs : IsSeq(cwd)
    BY LoadingAssumption, TuplesAreSeqs DEF IsSeq
  <2> QED
    BY <2>3, <2>4 DEF p
<1>2. IInv /\ [Next]_vars =>
        [at # 0 /\ at' = 0 /\ result' /\ parsed["file.path"] # EmptyPath =>
             LET path == configuration'["file.path"] IN
             /\ \A cwd \in CurrentDirs :
                    Walk(cwd, path) = Walk(Walk(cwd, base), parsed["file.path"])
             /\ path # EmptyPath /\ LexicallyNormal(path) = path]_vars
  BY <1>1
<1> QED
  BY <1>2, Invariance, PTL DEF Spec, PathLeadsFromBase
=============================================================================
