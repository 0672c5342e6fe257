---------------------------- MODULE MCScheduling -----------------------------
(* An instance of the schedule driven by the config file for TLC. *)
EXTENDS Scheduling

CONSTANTS image, chart, replicas, x1, x2

T(k, x, i) == [key |-> k, expr |-> x, interval |-> i]

\* image and chart are fields of one glob, replicas is tracked in another.
GlobOf == [k \in Keys |-> IF k = replicas THEN 2 ELSE 1]

\* A file, and two edits of it: one removes a tracker and adds one of another
\* glob, the other has nothing but that tracker again, with another extractor
\* and interval.
Files ==
  {<<T(image, x1, 1), T(chart, x1, 2)>>,
   <<T(chart, x1, 2), T(replicas, x1, 1)>>,
   <<T(image, x2, 2)>>}

\* Before Load returns there are no trackers.
NoTrackers == <<>>
==============================================================================
