---------------------------- MODULE MCDelegation ----------------------------
(* Delegation with children of every kind for TLC. *)
EXTENDS Delegation, TLC

CONSTANTS c1, c2, c3

\* A child that does its work and forgets to report.
Plain == [provider |-> "acp", reports |-> FALSE, unnamed |-> FALSE,
          untasked |-> FALSE, endUpdate |-> FALSE, unreliable |-> FALSE, afterAll |-> TRUE]

\* A child with a report file watcher that reports, by the file or by the tool.
Writer == [Plain EXCEPT !.provider = "claude", !.reports = TRUE]

\* Pairs of children that end in different ways: a child that reports and ends its
\* session, one whose prompt fails or times out, one that reports by a file which
\* another child's watcher reads too, one with lifecycle events.
Setup(first, second) == (c1 :> first) @@ (c2 :> second)
MixedSetups ==
  {Setup([Plain EXCEPT !.reports = TRUE, !.endUpdate = TRUE], [Plain EXCEPT !.unreliable = TRUE]),
   Setup(Writer, [Writer EXCEPT !.reports = FALSE, !.afterAll = FALSE]),
   Setup(Plain, [Plain EXCEPT !.provider = "sdk", !.reports = TRUE, !.unreliable = TRUE])}

\* Two children that report by file, in one directory; and the same when the first leaves
\* its task out of its file.
FileSetups == {Setup(Writer, Writer)}
SiblingSetups == {Setup([Writer EXCEPT !.untasked = TRUE], Writer)}

\* Children that only end.
PlainSetups == {[c \in Child |-> Plain]}
=============================================================================
