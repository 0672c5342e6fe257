---- MODULE MCPollCycle ----
(* Values of PollCycle's constants for model checking. *)
EXTENDS PollCycle, TLC

Content(v, m) == [val |-> v, malformed |-> m]

\* Every readable content.
AllReadable == {Content(v, {}) : v \in [Fields -> FieldValue]}

\* Contents whose keys come and go together.
AllOrNone ==
  {Content([d \in Fields |-> [k \in Keys |-> v]], {}) :
     v \in Values \cup {Absent}}

\* Contents that give all fields the same value, and contents that one field
\* cannot be extracted from and that have nothing for the others.
ReadableOrBroken ==
  {Content([d \in Fields |-> [k \in Keys |-> v]], {}) : v \in Values}
    \cup {Content([d \in Fields |-> Nothing], {e}) : e \in Fields}

NoWindows == [d \in Fields |-> Unbounded]

\* A window is the present unit of the clock: what was authored before it is out
\* of it, and when the clock moves on the window does too.
TodaysWindows == [d \in Fields |-> 0]

\* One field has a window, the others have none.
MixedWindows ==
  LET w == CHOOSE d \in Fields : TRUE
  IN [d \in Fields |-> IF d = w THEN 0 ELSE Unbounded]

\* Nothing tells one key from another.
AlikeKeys == Permutations(Keys)
====
