------------------------------ MODULE MCTerminal ------------------------------
EXTENDS Terminal, TLC

CONSTANTS c1, c2

\* One connection and the clean-up thread; a connection that takes over the
\* terminal of another; one that closes it.
MCScenarios ==
    {c1 :> {"login", "open", "data", "write"} @@ c2 :> {} @@ Cleaner :> {"idle"},
     c1 :> {"login", "open"} @@ c2 :> {"login", "open"} @@ Cleaner :> {},
     c1 :> {"login", "open"} @@ c2 :> {"login", "close"} @@ Cleaner :> {}}

=============================================================================
