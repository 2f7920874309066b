----------------------------- MODULE MCPlayback -----------------------------
EXTENDS Playback
\* A guest of the page's host with another one paired, a host with another one
\* paired, and a page on its own.
Guest == [embedded |-> FALSE, served |-> TRUE, remote |-> "other", token |-> TRUE]
Alone == [embedded |-> FALSE, served |-> FALSE, remote |-> "none", token |-> FALSE]
Desk  == [embedded |-> TRUE, served |-> FALSE, remote |-> "other", token |-> TRUE]
MCConfigs == {Guest, Desk, Alone}
=============================================================================
