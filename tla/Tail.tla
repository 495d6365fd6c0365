-------------------------------- MODULE Tail ---------------------------------
(***************************************************************************)
(* The read-only view of a queue's log in queuetail.go.  A Tail has no     *)
(* state: Page turns a listing of msg/, a cursor and the clock into the    *)
(* next messages and the cursor after them.                                *)
(***************************************************************************)
EXTENDS Naturals, FiniteSets

CONSTANTS
  Ids,        \* message ids: numbers, whose order is the listing order
  Untimed,    \* those that embed no timestamp
  PerTick,    \* how many ids share one timestamp
  Lag,        \* the cursor lag, in clock units
  PageSize    \* how many messages one page surfaces

ASSUME TailAssumption ==
  /\ Ids \subseteq Nat \ {0} /\ Untimed \subseteq Ids
  /\ {PerTick, PageSize} \subseteq Nat \ {0}
  /\ Lag \in Nat

\* queueIDTime of a timed id.
Stamp(i) == i \div PerTick

\* Mutant of Gated: the window is one unit short.
GatedShort(i, now) == i \notin Untimed /\ now + 1 < Stamp(i) + Lag

\* Still inside the lag window.
Gated(i, now) == i \notin Untimed /\ now < Stamp(i) + Lag

\* Mutant of Visible: the ids up to the cursor are not skipped.
VisibleFromHead(listed, cursor, now) ==
  {i \in listed : \A j \in listed : j <= i => ~Gated(j, now)}

\* The scan skips ids up to the cursor and stops at the first gated one.
Visible(listed, cursor, now) ==
  {i \in listed : i > cursor /\ \A j \in listed : cursor < j /\ j <= i => ~Gated(j, now)}

\* The first PageSize of them.
Page(listed, cursor, now) ==
  LET visible == Visible(listed, cursor, now)
  IN  {i \in visible : Cardinality({j \in visible : j < i}) < PageSize}

\* Mutant of NextCursor: one past the last id of the page.
NextCursorPast(page, cursor) ==
  IF page = {} THEN cursor ELSE 1 + CHOOSE i \in page : \A j \in page : j <= i

\* The cursor to resume from: the last id of the page, or the old cursor.
NextCursor(page, cursor) ==
  IF page = {} THEN cursor ELSE CHOOSE i \in page : \A j \in page : j <= i
=============================================================================
