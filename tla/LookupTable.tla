---------------------------- MODULE LookupTable ----------------------------
(***************************************************************************)
(* A table of candidates with pages and a cursor, as engines use it        *)
(* (src/src/ibuslookuptable.c), and the part of it that they send to the   *)
(* panel (ibus_engine_update_lookup_table_fast, src/src/ibusengine.c).     *)
(*                                                                         *)
(* A candidate is its index.  Labels and orientation are left out.  As its *)
(* callers do (src/ui/gtk3/emojier.vala), the cursor is moved only in a    *)
(* table that has candidates: what the four moves do with an empty one is  *)
(* not modelled.                                                           *)
(***************************************************************************)
EXTENDS Integers

CONSTANTS
  MaxCandidates,  \* bound
  MaxPageSize

ASSUME LookupTableAssumption ==
  /\ MaxCandidates \in Nat
  /\ MaxPageSize \in Nat \ {0}

VARIABLE table

PageSizes == 1..MaxPageSize

LookupTableTypeOK ==
  table \in [len : 0..MaxCandidates, page_size : PageSizes, cursor_pos : Nat, round : BOOLEAN]

\* ibus_lookup_table_new, with the cursor at the first candidate
LookupTableInit ==
  table \in [len : {0}, page_size : PageSizes, cursor_pos : {0}, round : BOOLEAN]

-----------------------------------------------------------------------------
(* Pages *)

Page(t) == t.cursor_pos \div t.page_size
CursorInPage(t) == t.cursor_pos % t.page_size
PageCount(t) == (t.len + t.page_size - 1) \div t.page_size

\* A position, or the last one if the table ends before it
Clamped(t, pos) == IF pos > t.len - 1 THEN t.len - 1 ELSE pos

MoveTo(pos) == table' = [table EXCEPT !.cursor_pos = pos]

-----------------------------------------------------------------------------
(* The operations of an engine *)

AppendCandidate ==
  /\ table.len < MaxCandidates
  /\ table' = [table EXCEPT !.len = @ + 1]

Clear == table' = [table EXCEPT !.len = 0, !.cursor_pos = 0]

SetCursorPos(pos) == pos < table.len /\ MoveTo(pos)

SetPageSize(size) == table' = [table EXCEPT !.page_size = size]

SetRound(round) == table' = [table EXCEPT !.round = round]

\* MUTANT: the last page is taken to be complete.
PageUpUnclamped ==
  /\ table.len > 0
  /\ IF table.cursor_pos < table.page_size
     THEN /\ table.round
          /\ MoveTo((PageCount(table) - 1) * table.page_size + CursorInPage(table))
     ELSE MoveTo(table.cursor_pos - table.page_size)

PageUp ==
  /\ table.len > 0
  /\ IF table.cursor_pos < table.page_size
     THEN /\ table.round
          /\ MoveTo(Clamped(table, PageCount(table) * table.page_size + CursorInPage(table)))
     ELSE MoveTo(table.cursor_pos - table.page_size)

PageDown ==
  /\ table.len > 0
  /\ IF Page(table) = PageCount(table) - 1
     THEN table.round /\ MoveTo(CursorInPage(table))
     ELSE MoveTo(Clamped(table, table.cursor_pos + table.page_size))

CursorUp ==
  /\ table.len > 0
  /\ IF table.cursor_pos = 0
     THEN table.round /\ MoveTo(table.len - 1)
     ELSE MoveTo(table.cursor_pos - 1)

CursorDown ==
  /\ table.len > 0
  /\ IF table.cursor_pos = table.len - 1
     THEN table.round /\ MoveTo(0)
     ELSE MoveTo(table.cursor_pos + 1)

LookupTableNext ==
  \/ AppendCandidate
  \/ Clear
  \/ \E pos \in 0..(MaxCandidates - 1) : SetCursorPos(pos)
  \/ \E size \in PageSizes : SetPageSize(size)
  \/ \E round \in BOOLEAN : SetRound(round)
  \/ PageUp
  \/ PageDown
  \/ CursorUp
  \/ CursorDown

LookupTableSpec == LookupTableInit /\ [][LookupTableNext]_table

-----------------------------------------------------------------------------
(* What the panel gets: the candidates from first on, and its own cursor   *)

Whole(t) == [first |-> 0, len |-> t.len, cursor_pos |-> t.cursor_pos]

\* The previous, the current and the next page
ThreePages(t) ==
  LET before == IF t.cursor_pos >= t.page_size THEN t.page_size ELSE 0
      begin  == Page(t) * t.page_size - before
      end    == begin + 3 * t.page_size
  IN [first |-> begin, len |-> (IF end < t.len THEN end ELSE t.len) - begin,
      cursor_pos |-> CursorInPage(t) + before]

\* ibus_engine_update_lookup_table_fast
Sent(t) == IF t.len < 4 * t.page_size THEN Whole(t) ELSE ThreePages(t)

-----------------------------------------------------------------------------
(* Properties *)

\* ibus_lookup_table_set_cursor_pos asserts it, the moves must keep it: the
\* cursor is at a candidate, whatever was appended, cleared or resized before.
CursorInTable == IF table.len = 0 THEN table.cursor_pos = 0 ELSE table.cursor_pos < table.len

\* What a panel shows of a table that it pages itself, by the same size: the
\* candidates of the page, the one at the cursor, and which arrows it shows
Shown(s, size) ==
  LET begin == (s.cursor_pos \div size) * size
  IN [first  |-> s.first + begin,
      last   |-> s.first + (IF begin + size < s.len THEN begin + size ELSE s.len),
      cursor |-> s.first + s.cursor_pos,
      up     |-> begin > 0,
      down   |-> begin + size < s.len]

\* ibus_engine_update_lookup_table_fast, "gnome shell needs the previous page
\* and next page to correctly show the page up/down arrows": from the pages it
\* is sent the panel shows what it would of the whole table.
ShownAlike ==
  table.len > 0 => Shown(Sent(table), table.page_size) = Shown(Whole(table), table.page_size)

\* The cursor that is at a candidate is shown at that candidate.
PanelSeesCursor == CursorInTable /\ ShownAlike
=============================================================================
