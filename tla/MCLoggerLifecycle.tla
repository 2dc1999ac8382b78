------------------------- MODULE MCLoggerLifecycle -------------------------
(* Constants of LoggerLifecycle for model checking.                        *)
EXTENDS LoggerLifecycle

\* Two configurations that differ in level and format, and one that
\* ValidateConfiguration refuses.
MCRequests == {
    [level |-> 2, format |-> "json", valid |-> TRUE],
    [level |-> 4, format |-> "text", valid |-> TRUE],
    [level |-> 2, format |-> "text", valid |-> FALSE]}

\* Records below, between and above the two levels are not all needed: info is
\* enabled by the first configuration only, error by both.
MCCallLevels == {2, 4}
=============================================================================
