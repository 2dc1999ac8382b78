-------------------------- MODULE MCPublicationTSO --------------------------
(* Constants of PublicationTSO for model checking.                         *)
EXTENDS PublicationTSO

\* One configuration whose level and format differ from the default, and one that
\* differs from it.
MCRequests == {
    [level |-> 3, format |-> "json", valid |-> TRUE],
    [level |-> 4, format |-> "text", valid |-> TRUE]}
MCCallLevels == {3, 4}
=============================================================================
