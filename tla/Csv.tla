--------------------------------- MODULE Csv ---------------------------------
(***************************************************************************)
(* The reader of net/csv.cpp, a character at a time.  next_column takes    *)
(* the quotes out of a column in place: a character is moved back over the *)
(* `bytes` quotes dropped before it, and a 0 ends the column there.  Cells *)
(* are where columns begin, read as strings once the parse is over.        *)
(***************************************************************************)
EXTENDS Naturals, Sequences

LOCAL INSTANCE SequencesExt

CONSTANTS
    Rows,           \* tables whose encoding is parsed
    Texts           \* other texts

NUL == "0"
QUOTE == "\""
CR == "\r"
LF == "\n"

VARIABLES
    rows, text,     \* ghosts: the table, if it is one, and its text
    str,            \* the buffer, with a 0 at its end
    parse_ptr,      \* 0 is NULL
    need_nextline,
    ptr, with_quote, bytes, out,    \* locals of next_column
    lines,          \* the line_nodes: sequences of positions in str
    pc

csv_vars == <<rows, text, str, parse_ptr, need_nextline, ptr, with_quote, bytes, out, lines, pc>>

(* What a writer of such files does: quotes where they are needed, doubled *)
(* inside, and CR LF after every line.                                     *)
Special(cell) == \E k \in DOMAIN cell : cell[k] \in {QUOTE, ",", CR, LF}
Quoted(cell) == <<QUOTE>> \o FlattenSeq([k \in DOMAIN cell |->
                    IF cell[k] = QUOTE THEN <<QUOTE, QUOTE>> ELSE <<cell[k]>>]) \o <<QUOTE>>
Encode(table) == FlattenSeq([l \in DOMAIN table |->
                    FlattenSeq([r \in DOMAIN table[l] |->
                        (IF r > 1 THEN <<",">> ELSE <<>>)
                        \o (IF Special(table[l][r]) THEN Quoted(table[l][r]) ELSE table[l][r])])
                    \o <<CR, LF>>])

Init ==
    /\ \/ rows \in Rows /\ text = Append(Encode(rows), NUL)
       \/ rows = <<>> /\ text \in {Append(t, NUL) : t \in Texts}
    /\ str = text
    /\ parse_ptr = 1 /\ need_nextline = FALSE
    /\ ptr = 0 /\ with_quote = FALSE /\ bytes = 0 /\ out = 0
    /\ lines = <<>>
    /\ pc = "next_line"

(* The line loop of csv::parse. *)
next_line ==
    /\ pc = "next_line"
    /\ need_nextline' = FALSE
    /\ IF parse_ptr # 0 /\ str[parse_ptr] # NUL
       THEN pc' = "next_column" /\ lines' = Append(lines, <<>>)
       ELSE pc' = "done" /\ UNCHANGED lines
    /\ UNCHANGED <<str, parse_ptr, ptr, with_quote, bytes, out>>

(* The column loop: NULL ends the line. *)
next_column ==
    /\ pc = "next_column"
    /\ IF parse_ptr = 0 \/ need_nextline
       THEN pc' = "next_line" /\ UNCHANGED <<ptr, with_quote, bytes, out>>
       ELSE /\ with_quote' = (str[parse_ptr] = QUOTE)
            /\ ptr' = IF with_quote' THEN parse_ptr + 1 ELSE parse_ptr
            /\ out' = ptr'
            /\ bytes' = 0
            /\ pc' = "loop"
    /\ UNCHANGED <<str, parse_ptr, need_nextline, lines>>

Column(next, eol) ==
    /\ lines' = [lines EXCEPT ![Len(lines)] = Append(@, out)]
    /\ parse_ptr' = next
    /\ need_nextline' = eol
    /\ pc' = "next_column"
    /\ UNCHANGED <<ptr, with_quote, bytes, out>>

(* SET_CHAR(ptr, bytes, 0), and the column is complete. *)
EndColumn(next, eol) == str' = [str EXCEPT ![ptr - bytes] = NUL] /\ Column(next, eol)

(* MV_CHAR, and on to the character n further. *)
Move(n, dropped) ==
    /\ str' = [str EXCEPT ![ptr - bytes] = str[ptr]]
    /\ bytes' = bytes + dropped
    /\ ptr' = ptr + n
    /\ UNCHANGED <<parse_ptr, need_nextline, with_quote, out, lines, pc>>

parse_error ==
    /\ pc' = "error"
    /\ UNCHANGED <<str, parse_ptr, need_nextline, ptr, with_quote, bytes, out, lines>>

(* A quote: by what comes next. *)
on_quote(next, eol) ==
    CASE next = QUOTE -> Move(2, 1)
      [] next = "," /\ with_quote -> EndColumn(ptr + 2, FALSE)
      [] eol /\ with_quote -> EndColumn(ptr + 3, TRUE)
      [] OTHER -> parse_error

(* Bug: a comma ends a column with quotes, too. *)
Bug_on_char(c, eol) ==
    CASE c = CR /\ ~with_quote /\ eol -> EndColumn(ptr + 2, TRUE)
      [] c = "," -> EndColumn(ptr + 1, FALSE)
      [] OTHER -> Move(1, 0)

on_char(c, eol) ==
    CASE c = CR /\ ~with_quote /\ eol -> EndColumn(ptr + 2, TRUE)
      [] c = "," /\ ~with_quote -> EndColumn(ptr + 1, FALSE)
      [] OTHER -> Move(1, 0)

(* One turn of the switch.  At the end of the text no 0 is set. *)
loop ==
    /\ pc = "loop"
    /\ LET c == str[ptr]
           At(n) == IF ptr + n <= Len(str) THEN str[ptr + n] ELSE NUL IN
        CASE c = NUL -> Column(0, need_nextline) /\ UNCHANGED str
          [] c = QUOTE -> on_quote(At(1), At(1) = CR /\ At(2) = LF)
          [] OTHER -> on_char(c, At(1) = LF)

Done == pc \in {"done", "error"} /\ UNCHANGED csv_vars

Next ==
    \/ (next_line \/ next_column \/ loop) /\ UNCHANGED <<rows, text>>
    \/ Done

-------------------------------------------------------------------------------
(* The string at position i. *)
CString(i) == LET n == CHOOSE n \in i .. Len(str) :
                        str[n] = NUL /\ \A k \in i .. n - 1 : str[k] # NUL
              IN  SubSeq(str, i, n - 1)

col_cnt == FoldLeft(LAMBDA n, l : IF Len(l) > n THEN Len(l) ELSE n, 0, lines)

(* csv::value of line l and column r, counted from 1: the lines are padded *)
(* with empty strings.                                                     *)
value(l, r, def) ==
    IF l > Len(lines) \/ r > col_cnt THEN def
    ELSE IF r <= Len(lines[l]) THEN CString(lines[l][r]) ELSE <<>>

(* A table that was written comes back cell by cell, and nothing besides.  *)
RoundTrip ==
    rows # <<>> /\ pc \in {"done", "error"} =>
        /\ pc = "done" /\ Len(lines) = Len(rows)
        /\ \A l \in DOMAIN rows : Len(lines[l]) = Len(rows[l])
        /\ \A l \in 1 .. Len(rows) + 1, r \in 1 .. col_cnt + 1 :
            value(l, r, "def") = IF l > Len(rows) \/ r > col_cnt THEN "def"
                                 ELSE IF r <= Len(rows[l]) THEN rows[l][r] ELSE <<>>

(* next_column moves characters back in the text it is still reading: for  *)
(* any text, it never changes what is ahead of it, nor leaves the text.    *)
AheadIntact ==
    /\ pc = "loop" => ptr \in DOMAIN str /\ bytes < ptr
                      /\ \A k \in ptr .. Len(str) : str[k] = text[k]
    /\ pc \in {"next_column", "next_line"} /\ parse_ptr # 0 =>
            parse_ptr \in DOMAIN str /\ \A k \in parse_ptr .. Len(str) : str[k] = text[k]
===============================================================================
