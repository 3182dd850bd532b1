--------------------------- MODULE MCFileTransfer ---------------------------
(* The scenarios of the runs of FileTransfer. *)
EXTENDS FileTransfer

Scenario(files, upload, old, n) ==
    [files |-> files, upload |-> upload, old |-> old, stale |-> {},
     undated |-> {}, od |-> TRUE, breaks |-> n, faults |-> FALSE,
     cancel |-> FALSE]

\* One job, of two files that may be there already, interrupted up to twice.
Interrupted(u, n) ==
    {Scenario(<<<<2, 1>>>>, <<u>>, old, n) :
        old \in {{}, {<<1, 1>>}, {<<1, 2>>}, {<<1, 1>>, <<1, 2>>}}}

\* The same, and the user may cancel it; an empty directory comes first, or
\* after a file.
Cancelled(u) ==
    {[Scenario(<<files>>, <<u>>, {<<1, 2>>}, 0) EXCEPT !.cancel = TRUE] :
        files \in {<<2, 1>>, <<Dir, 1, 0>>}}
    \cup {[Scenario(<<<<1, Dir, 1>>>>, <<u>>, {<<1, 1>>}, 1)
              EXCEPT !.cancel = TRUE]}

\* Looking at a file, opening, reading or writing it may fail, with blocks of
\* the same and of other files after it; a file has no date.
Failing(u) ==
    {[Scenario(<<<<2, 2>>>>, <<u>>, {<<1, 2>>}, 0) EXCEPT !.faults = TRUE],
     [Scenario(<<<<1, Dir, 2>>>>, <<u>>, {}, 0) EXCEPT !.faults = TRUE],
     [Scenario(<<<<2>>>>, <<u>>, {}, 1) EXCEPT !.faults = TRUE],
     [Scenario(<<<<1, 2>>>>, <<u>>, {}, 0)
          EXCEPT !.faults = TRUE, !.stale = {<<1, 2>>}],
     [Scenario(<<<<1, 1>>>>, <<u>>, {}, 0) EXCEPT !.undated = {<<1, 2>>}]}

\* One file only; a peer without overwrite detection; a job that fails and may
\* be cancelled.
Single(u) == {Scenario(<<<<1>>>>, <<u>>, {<<1, 1>>}, 1),
               [Scenario(<<<<1, 2>>>>, <<u>>, {}, 0) EXCEPT !.od = FALSE],
               [Scenario(<<<<1, 1>>>>, <<u>>, {<<1, 2>>}, 0)
                    EXCEPT !.faults = TRUE, !.cancel = TRUE]}

\* Outside Sane: a part of an earlier transfer is there, or the peer does not
\* ask and the connection is lost.
Leftovers(u) ==
    {[Scenario(<<<<2, 1>>>>, <<u>>, {<<1, 1>>}, 1) EXCEPT !.stale = {<<1, 1>>}],
     [Scenario(<<<<2, 1>>>>, <<u>>, {}, 1) EXCEPT !.od = FALSE]}

\* Two jobs, in the same direction or in both.
Two(ups) == {Scenario(<<<<1>>, <<1>>>>, ups, {<<1, 1>>, <<2, 1>>}, 1)}

MCScenarios ==
    UNION {Interrupted(u, 2) \cup Cancelled(u) \cup Single(u) \cup Leftovers(u)
           \cup Failing(u) :
               u \in BOOLEAN}
    \cup UNION {Two(ups) : ups \in [1 .. 2 -> BOOLEAN]}
=============================================================================
