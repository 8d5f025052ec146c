------------------------------- MODULE MCTables -------------------------------
(***************************************************************************)
(* The tables, queues and readers for TLC, one per behaviour: `part` says  *)
(* which.  CoreLogic has variables of its own and stays as it begins in    *)
(* the behaviours of the others; these share s1 .. s11, and those a part   *)
(* does not use are "off".                                                 *)
(***************************************************************************)
EXTENDS MCCoreLogic, Sequences

VARIABLES part, s1, s2, s3, s4, s5, s6, s7, s8, s9, s10, s11

all == <<vars, part, s1, s2, s3, s4, s5, s6, s7, s8, s9, s10, s11>>

(* Sequences of elements of S with at most n elements. *)
Upto(S, n) == UNION {[1 .. k -> S] : k \in 0 .. n}

-------------------------------------------------------------------------------
(* csv: tables of one line with cells of up to two characters, of two      *)
(* lines with shorter ones; and all texts of up to five characters.        *)
Chars == {"a", "\"", ",", "\r", "\n"}
Cells == Upto(Chars, 2)
CsvRows == {<< <<c>> >> : c \in Cells} \cup {<< <<c, d>> >> : c, d \in Cells}
           \cup {<< <<c>>, <<d, e>> >> : c, d, e \in Upto({"a", "\""}, 1)}

csv == INSTANCE Csv WITH Rows <- CsvRows, Texts <- Upto(Chars, 5),
    rows <- s1, text <- s2, str <- s3, parse_ptr <- s4, need_nextline <- s5, ptr <- s6,
    with_quote <- s7, bytes <- s8, out <- s9, lines <- s10, pc <- s11

(* ini: files of up to two lines of any kind, of up to three good ones,    *)
(* and of two sections with an assignment each.                            *)
HeadLines == {<<" ", "[", " ", "a", "]">>, <<"[", "b", "]", "a">>}
SetLines == {<<"a", "=", "b">>, <<"a", " ", "=", " ", "c", "\r">>}
GoodLines == HeadLines \cup SetLines
TwoSections == {<<h, k, g, l>> : h, g \in HeadLines, k, l \in SetLines}
Lines == GoodLines \cup
    {<<"a", "=", ";", "b">>, <<"b", "=", "a", "=", "b">>, <<";", "a">>, <<"[", "a">>,
     <<"=", "a">>, <<"[", " ", "]">>, <<"b">>}

ini == INSTANCE Ini WITH Files <- Upto(Lines, 2) \cup Upto(GoodLines, 3) \cup TwoSections,
    Names <- {<<>>, <<"a">>, <<"b">>},
    file <- s1, at <- s2, base <- s3, cache <- s4, next <- s5, asked <- s6, status <- s7

arr == INSTANCE SortedArray WITH Keys <- 1 .. 4, slot_def <- 2, MaxInserts <- 5,
    slot <- s1, slot_sz <- s2, added <- s3, got <- s4

err == INSTANCE ErrMsg WITH Errs <- 1 .. 3, SysErrs <- {3}, Defs <- {"m"}, MaxCalls <- 4,
    node_next <- s1, node_err <- s2, node_msg <- s3, lock <- s4, th <- s5, told <- s6,
    made <- s7

ring == INSTANCE RingBuffer WITH W <- 8, Sizes <- {1, 2, 3, 5}, MaxBytes <- 10,
    size <- s1, in <- s2, out <- s3, buffer <- s4, wrote <- s5, took <- s6, got <- s7,
    strayed <- s8

bufs == INSTANCE BufferQueue WITH Buffers <- {"a", "b", "c", "d"},
    head <- s1, tail <- s2, bnext <- s3, fresh <- s4, popped <- s5, queue <- s6

store_ == INSTANCE LogicStore WITH Logics <- {"a", "b", "c", "d", "e"}, FirstSize <- 2,
    MaxBuilding <- 2,
    slot <- s1, slot_size <- s2, index <- s3, handle <- s4, logic_id <- s5, torn <- s6

-------------------------------------------------------------------------------
Off9 == s9 = "off" /\ s10 = "off" /\ s11 = "off"
Off8 == s8 = "off" /\ Off9
Off6 == s6 = "off" /\ s7 = "off" /\ Off8

TInit ==
    /\ Init
    /\ \/ part = "logic" /\ s1 = "off" /\ s2 = "off" /\ s3 = "off" /\ s4 = "off" /\ s5 = "off" /\ Off6
       \/ part = "csv" /\ csv!Init
       \/ part = "ini" /\ ini!Init /\ Off8
       \/ part = "arr" /\ arr!Init /\ s5 = "off" /\ Off6
       \/ part = "err" /\ err!Init /\ Off8
       \/ part = "ring" /\ ring!Init /\ Off9
       \/ part = "bufs" /\ bufs!Init /\ s7 = "off" /\ Off8
       \/ part = "store" /\ store_!Init /\ s7 = "off" /\ Off8

rest9 == <<s9, s10, s11>>
rest8 == <<s8, rest9>>
rest6 == <<s6, s7, rest8>>

TNext ==
    /\ UNCHANGED part
    /\ \/ part = "logic" /\ Next /\ UNCHANGED <<s1, s2, s3, s4, s5, rest6>>
       \/ part = "csv" /\ csv!Next /\ UNCHANGED vars
       \/ part = "ini" /\ ini!Next /\ UNCHANGED <<vars, rest8>>
       \/ part = "arr" /\ arr!Next /\ UNCHANGED <<vars, s5, rest6>>
       \/ part = "err" /\ err!Next /\ UNCHANGED <<vars, rest8>>
       \/ part = "ring" /\ ring!Next /\ UNCHANGED <<vars, rest9>>
       \/ part = "bufs" /\ bufs!Next /\ UNCHANGED <<vars, s7, rest8>>
       \/ part = "store" /\ store_!Next /\ UNCHANGED <<vars, s7, rest8>>

TSpec == TInit /\ [][TNext]_all

-------------------------------------------------------------------------------
(* csv.cpp: a table that was written is read back cell by cell, and the    *)
(* reader never changes the text ahead of it nor leaves it.                *)
CsvRoundTrip == part = "csv" => csv!RoundTrip /\ csv!AheadIntact

(* ini.cpp: value answers from the file whatever the cache holds, by the   *)
(* name of a section or as next_section visits one after the other.        *)
IniAnswersFromFile == part = "ini" => ini!AnswersFromFile /\ ini!SectionsWalked

(* binary_arry.h: insert keeps the handlers in order, and find gives one   *)
(* that was inserted with the key.                                         *)
ArrayFoundIsInserted == part = "arr" => arr!InOrder /\ arr!FoundIsInserted

(* errmsg.cpp: the bucket keeps every node once and in order, and all      *)
(* threads are told the same text of an error.                             *)
ErrOneTextPerError == part = "err" => err!BucketSorted /\ err!OneTextPerError

(* ring_buffer.cpp: bytes come out as they went in, and the places given   *)
(* to the system hold no, respectively only, bytes still to be read.       *)
RingBytesInOrder == part = "ring" => ring!BytesInOrder /\ ring!PlacesRight

(* buffer.cpp: the linked list is the queue, in every order of pushing at  *)
(* either end, popping and cleaning.                                       *)
ListIsQueue == part = "bufs" => bufs!ListIsQueue

(* logic_store.cpp: a constructed logic is found under its id, however the *)
(* table has grown, and no id is given twice.                              *)
LogicsAreFound == part = "store" => store_!LogicsAreFound
===============================================================================
