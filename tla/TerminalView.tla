---------------------------- MODULE TerminalView ----------------------------
(***************************************************************************)
(* What is shown of a terminal besides its text: search results and the    *)
(* step from one to the next (terminal-core search.rs, ui/commands.rs),    *)
(* selection and cursor in the window (adapter.rs, snapshot.rs), and the   *)
(* limits on history and titles (policy.rs).  A row is a sequence of       *)
(* cells; a line is counted from the top of the live screen, history is    *)
(* negative.  Columns count from 0, as in the code.                        *)
(***************************************************************************)
EXTENDS Integers, SequencesExt

Clamped(n, limit) == IF n < limit THEN n ELSE limit - 1

(***************************************************************************)
(* Search                                                                  *)
(***************************************************************************)
Spacer == "spacer"  \* WIDE_CHAR_SPACER, LEADING_WIDE_CHAR_SPACER

(* to_lowercase may give more than one character.                          *)
ToLowercase(c) == CASE c = "A" -> <<"a">> [] c = "I." -> <<"i", ".">> [] OTHER -> <<c>>
Lowered(chars) == FlattenSeq([i \in DOMAIN chars |-> ToLowercase(chars[i])])

RowTextPacked(row) ==
  LET kept == SelectSeq(row, LAMBDA c : c # Spacer)
  IN FlattenSeq([i \in DOMAIN kept |->
       LET lower == ToLowercase(kept[i])
       IN [k \in DOMAIN lower |-> [char |-> lower[k], col |-> i - 1]]])

(* row_text: the characters to search, each with the column it starts in.  *)
CellText(cell) == IF cell = Spacer THEN <<>> ELSE ToLowercase(cell)
CellAt(cell, col) ==
  [k \in DOMAIN CellText(cell) |-> [char |-> CellText(cell)[k], col |-> col]]
RowText(row) == FlattenSeq([i \in DOMAIN row |-> CellAt(row[i], i - 1)])

(* find_all: where the needle is found, never one over another.            *)
OccursAt(haystack, needle, i) ==
  i + Len(needle) - 1 <= Len(haystack) /\ SubSeq(haystack, i, i + Len(needle) - 1) = needle
FindAll(haystack, needle) ==
  LET scan[i \in 0..Len(haystack)] ==
        IF i = 0 THEN [found |-> <<>>, index |-> 1]
        ELSE IF i >= scan[i - 1].index /\ OccursAt(haystack, needle, i)
               THEN [found |-> Append(scan[i - 1].found, i), index |-> i + Len(needle)]
               ELSE scan[i - 1]
  IN scan[Len(haystack)].found

MatchesIn(row, line, needle) ==
  LET text == RowText(row)
      found == FindAll([k \in DOMAIN text |-> text[k].char], needle)
  IN [k \in DOMAIN found |->
        [line |-> line, start_col |-> text[found[k]].col,
         end_col |-> text[found[k] + Len(needle) - 1].col]]

(* `rows` are the history, the oldest first, and then the screen.          *)
SearchLiteral(rows, history, query, cap) ==
  LET needle == Lowered(query)
      all == IF needle = <<>> THEN <<>>
             ELSE FlattenSeq([i \in DOMAIN rows |->
                                MatchesIn(rows[i], i - 1 - history, needle)])
  IN [matches |-> SubSeq(all, 1, IF Len(all) < cap THEN Len(all) ELSE cap),
      truncated |-> Len(all) > cap]

(* search_step                                                             *)
Stepped(index, forward, len) ==
  IF forward THEN (index + 1) % len ELSE (index + len - 1) % len
LineAt(result, index) == result.matches[Len(result.matches) - index].line

(* scroll_to_line: the engine scrolls no further than it has to.           *)
ScrollToLine(line, offset, screen) ==
  IF line < -offset THEN -line
  ELSE IF line >= screen - offset THEN screen - 1 - line ELSE offset

IsSearchHit(result, offset, row, col) ==
  \E i \in DOMAIN result.matches :
    LET found == result.matches[i]
    IN found.line = row - offset /\ col \in found.start_col..found.end_col

(***************************************************************************)
(* Selection and cursor                                                    *)
(***************************************************************************)
TermSize(columns, rows) ==
  [columns |-> IF columns > 2 THEN columns ELSE 2, rows |-> IF rows > 1 THEN rows ELSE 1]

ToEnginePoint(at, offset, size) ==
  [line |-> Clamped(at.row, size.rows) - offset, column |-> Clamped(at.col, size.columns)]

NoSpan == [is |-> FALSE]
ClipSelection(start, end, block, offset, size) ==
  LET first == start.line + offset
      last == end.line + offset
  IN IF last < 0 \/ first >= size.rows THEN NoSpan
     ELSE [is |-> TRUE, block |-> block,
           start |-> IF first < 0 THEN <<0, IF block THEN start.column ELSE 0>>
                     ELSE <<first, start.column>>,
           end |-> IF last >= size.rows
                   THEN <<size.rows - 1, IF block THEN end.column ELSE size.columns - 1>>
                   ELSE <<last, end.column>>]

(* SelectionSpan::contains                                                 *)
SpanContains(span, row, col) ==
  /\ row \in span.start[1]..span.end[1]
  /\ IF span.block
       THEN col \in span.start[2]..span.end[2] \/ col \in span.end[2]..span.start[2]
       ELSE /\ row > span.start[1] \/ col >= span.start[2]
            /\ row < span.end[1] \/ col <= span.end[2]

Hidden == [is |-> FALSE]
ConvertCursor(hidden, point, offset, rows) ==
  IF hidden \/ point.line + offset \notin 0..(rows - 1) THEN Hidden
  ELSE [is |-> TRUE, row |-> point.line + offset, col |-> point.column]

(***************************************************************************)
(* Limits                                                                  *)
(***************************************************************************)
BytesPerCell == 32

EffectiveScrollback(limits, columns) ==
  LET byBytes == limits.history_bytes \div ((IF columns > 1 THEN columns ELSE 1) * BytesPerCell)
  IN IF byBytes < limits.scrollback_lines THEN byBytes ELSE limits.scrollback_lines

(* sanitize_title: a character is its bytes and whether it is left out.    *)
Bytes(chars) ==
  LET total[n \in 0..Len(chars)] == IF n = 0 THEN 0 ELSE total[n - 1] + chars[n].bytes
  IN total[Len(chars)]
Push(out, c, max) ==
  IF out.full \/ c.control THEN out
  ELSE IF Bytes(out.title) + c.bytes > max THEN [out EXCEPT !.full = TRUE]
  ELSE [out EXCEPT !.title = Append(out.title, c)]
SanitizeTitle(raw, max) ==
  LET out[n \in 0..Len(raw)] ==
        IF n = 0 THEN [title |-> <<>>, full |-> FALSE] ELSE Push(out[n - 1], raw[n], max)
  IN out[Len(raw)].title
=============================================================================
