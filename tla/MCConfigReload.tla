--------------------------- MODULE MCConfigReload ---------------------------
EXTENDS ConfigReload

\* The version 1 is the one at the start; 2 has other providers, 3 other agents.
SomeContent ==
    [s \in 0 .. 3 |-> CASE s = 0 -> None
                        [] s = 1 -> [providers |-> "p", agents |-> "a"]
                        [] s = 2 -> [providers |-> "q", agents |-> "a"]
                        [] s = 3 -> [providers |-> "q", agents |-> "b"]]
=============================================================================
