--------------------------- MODULE MCConfigLoading ---------------------------
(* Constants of ConfigLoading for model checking.                          *)
EXTENDS ConfigLoading

Str(s) == <<"string", s>>
Num(n) == <<"integer", n>>

Accepted == {
    <<"logger_name", Str("")>>, <<"async", <<"boolean", TRUE>>>>,
    <<"queue_size", Num(0)>>, <<"async_worker_count", Num(0)>>,
    <<"async_worker_count", Num(1001)>>, <<"flush_level", Str("warning")>>,
    <<"output_format", Str("json")>>, <<"console.enabled", <<"boolean", FALSE>>>>,
    <<"console.level", Str("off")>>, <<"console.channels", <<"array", <<Str("a")>>>>>>,
    <<"file.enabled", <<"boolean", FALSE>>>>, <<"file.level", Str("err")>>,
    <<"file.path", Str(EmptyPath)>>, <<"file.path", Str(Abs(<<"var", "..", "..", "log">>))>>,
    <<"file.path", Str(Rel(<<"..", "..", "log">>))>>, <<"file.path", Str(Rel(<<"..">>))>>,
    <<"file.rotation_hour", Num(23)>>, <<"file.rotation_minute", Num(59)>>,
    <<"file.max_files", Num(0)>>, <<"file.max_files", Num(65535)>>}
Refused == {
    <<"level", Str("info")>>, <<"file_pattern", Str("%v")>>, <<"logger_name", Num(1)>>,
    <<"async", Str("yes")>>, <<"queue_size", Num(-1)>>, <<"queue_size", <<"float", "1.5">>>>,
    <<"flush_level", Str("loud")>>, <<"output_format", Str("xml")>>,
    <<"console", Num(42)>>, <<"console.channels", <<"array", <<Str("a"), Str("")>>>>>>,
    <<"console.console_color", Str("yes")>>, <<"file", Num(42)>>,
    <<"file.channels", <<"array", <<Str("a"), Num(1)>>>>>>, <<"file.path", Num(1)>>,
    <<"file.rotation_hour", Num(24)>>, <<"file.rotation_minute", Num(60)>>,
    <<"file.max_files", Num(65536)>>, <<"file.retention_days", Num(7)>>}

Single(entry) == entry[1] :> entry[2]

\* Every field alone, fields that Configure refuses together only, and two faults.
MCDocuments ==
    {Single(e) : e \in Accepted \cup Refused}
    \cup {Single(e) @@ Single(<<"async", <<"boolean", TRUE>>>>) :
              e \in {a \in Accepted : a[1] \in {"queue_size", "async_worker_count"}}}
    \cup {Single(e) @@ Single(<<"file.enabled", <<"boolean", FALSE>>>>) :
              e \in {a \in Accepted : a[1] \in {"console.enabled", "file.path"}}}
    \cup {Single(e) @@ Single(<<"output_format", Str("xml")>>) : e \in {r \in Refused : r[1] \in {"file_pattern", "console", "file.max_files"}}}

MCBaseDirs == {EmptyPath, Abs(<<"opt", "app">>), Rel(<<"..">>)}

MCOwnConfigurations == {
    [DefaultConfiguration EXCEPT !["file.rotation_hour"] = 24],
    [DefaultConfiguration EXCEPT !["file.max_files"] = -1],
    [DefaultConfiguration EXCEPT !["console.channels"] = <<"">>]}

MCStrings == STRING

\* Shallower and deeper than the steps up in the documents' paths and base directories.
MCCurrentDirs == {<<>>, <<"home">>, <<"home", "user">>, <<"home", "user", "run", "now">>}
=============================================================================
