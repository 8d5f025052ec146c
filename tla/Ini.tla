--------------------------------- MODULE Ini ---------------------------------
(***************************************************************************)
(* The reader of net/ini.cpp: parse, a line at a time, then any number of  *)
(* value(sec, key) with its cache, and of next_section with value(key),    *)
(* here value_next.                                                        *)
(* A line is a sequence of characters.  Sections and keys are pushed at    *)
(* the front of their lists, so lists are in the reverse of the file.      *)
(***************************************************************************)
EXTENDS Naturals, Sequences

LOCAL INSTANCE FiniteSetsExt
LOCAL INSTANCE FiniteSets

CONSTANTS
    Files,          \* the files to be read: sequences of lines
    Names           \* sections and keys that are asked for

Space == {" ", "\r"}
def == "def"

VARIABLES
    file, at,       \* the lines, and how many of them are parsed
    base,           \* the sections: [name, kv], kv of [key, val]
    cache, next,    \* positions in base; 0 is NULL
    asked,          \* what was last asked for, how, and the answer
    status

ini_vars == <<file, at, base, cache, next, asked, status>>

(* parse starts with clear, and a section without a name. *)
Init ==
    /\ file \in Files /\ at = 0
    /\ base = <<[name |-> <<>>, kv |-> <<>>]>>
    /\ cache = 0 /\ next = 0
    /\ asked = [how |-> "name", sec |-> <<>>, key |-> <<>>, val |-> def]
    /\ status = "parse"

-------------------------------------------------------------------------------
(* strchr: where c is first in str, or 0. *)
strchr(str, c) == IF c \notin {str[k] : k \in DOMAIN str} THEN 0
                  ELSE CHOOSE k \in DOMAIN str : str[k] = c /\ \A j \in 1 .. k - 1 : str[j] # c

(* What is before, and after, the character at k. *)
Before(str, k) == IF k = 0 THEN str ELSE SubSeq(str, 1, k - 1)
After(str, k) == SubSeq(str, k + 1, Len(str))

(* trim: ltrim and rtrim. *)
Words(str) == {k \in DOMAIN str : str[k] \notin Space}
trim(str) == IF Words(str) = {} THEN <<>>
             ELSE SubSeq(str, Min(Words(str)), Max(Words(str)))

parse_section(line) ==
    LET end == strchr(line, "]")
        name == trim(SubSeq(line, 2, end - 1)) IN
    IF end = 0 \/ name = <<>> THEN status' = "error" /\ UNCHANGED base
    ELSE base' = <<[name |-> name, kv |-> <<>>]>> \o base /\ UNCHANGED status

(* A value of no characters is NULL. *)
parse_keyval(line) ==
    LET eq == strchr(line, "=")
        key == trim(Before(line, eq)) IN
    IF eq = 0 \/ key = <<>> THEN status' = "error" /\ UNCHANGED base
    ELSE /\ base' = [base EXCEPT ![1].kv =
                        <<[key |-> key, val |-> trim(After(line, eq))]>> \o @]
         /\ UNCHANGED status

(* One turn of the loop of parse: the comment is cut off, then the line is *)
(* trimmed and looked at.                                                  *)
parse ==
    /\ status = "parse" /\ at < Len(file)
    /\ at' = at + 1
    /\ LET line == trim(Before(file[at'], strchr(file[at'], ";"))) IN
        IF line = <<>> THEN UNCHANGED <<base, status>>
        ELSE IF line[1] = "[" THEN parse_section(line) ELSE parse_keyval(line)
    /\ UNCHANGED <<file, cache, next, asked>>

parse_end ==
    /\ status = "parse" /\ at = Len(file)
    /\ status' = "parsed"
    /\ UNCHANGED <<file, at, base, cache, next, asked>>

-------------------------------------------------------------------------------
(* The first entry of a key decides; NULL is the default. *)
Lookup(node, key) ==
    LET hits == IF node = 0 THEN {}
                ELSE {k \in DOMAIN base[node].kv : base[node].kv[k].key = key} IN
    IF hits = {} \/ base[node].kv[Min(hits)].val = <<>> THEN def
    ELSE base[node].kv[Min(hits)].val

(* The loop over the sections does not stop at a hit. *)
find_section(sec) ==
    LET hits == {k \in DOMAIN base : base[k].name = sec} IN
    IF hits = {} THEN 0 ELSE Max(hits)

(* Bug: the cache is used whatever its name. *)
Bug_value(sec, key) ==
    /\ status = "parsed"
    /\ LET node == IF cache # 0 THEN cache ELSE find_section(sec) IN
        /\ cache' = IF node # 0 THEN node ELSE cache
        /\ asked' = [how |-> "name", sec |-> sec, key |-> key, val |-> Lookup(node, key)]
    /\ UNCHANGED <<file, at, base, next, status>>

value(sec, key) ==
    /\ status = "parsed"
    /\ LET node == IF cache # 0 /\ base[cache].name = sec THEN cache ELSE find_section(sec) IN
        /\ cache' = IF node # 0 THEN node ELSE cache
        /\ asked' = [how |-> "name", sec |-> sec, key |-> key, val |-> Lookup(node, key)]
    /\ UNCHANGED <<file, at, base, next, status>>

(* After the last section it is NULL, and then the first again. *)
next_section ==
    /\ status = "parsed"
    /\ next' = IF next = Len(base) THEN 0 ELSE next + 1
    /\ UNCHANGED <<file, at, base, cache, asked, status>>

(* value(key), of the section next_section has come to; `sec` is its place. *)
value_next(key) ==
    /\ status = "parsed"
    /\ asked' = [how |-> "next", sec |-> next, key |-> key, val |-> Lookup(next, key)]
    /\ UNCHANGED <<file, at, base, cache, next, status>>

(* A file that does not parse is cleared by load. *)
Done == status = "error" /\ UNCHANGED ini_vars

Next ==
    \/ parse \/ parse_end \/ next_section \/ Done
    \/ \E sec, key \in Names : value(sec, key)
    \/ \E key \in Names : value_next(key)

-------------------------------------------------------------------------------
(* The lines of the file, read as a whole: what each line says ...         *)
Line(n) == trim(Before(file[n], strchr(file[n], ";")))
IsHead(n) == Line(n) # <<>> /\ Line(n)[1] = "["
Heads == {n \in DOMAIN file : IsHead(n)}
HeadName(n) == IF n = 0 THEN <<>> ELSE trim(SubSeq(Line(n), 2, strchr(Line(n), "]") - 1))
(* ... the head of section k, counted from the end of the file ...         *)
HeadAt(k) == CHOOSE n \in Heads \cup {0} : Cardinality({m \in Heads : m > n}) = k - 1
(* ... and what the last assignment to `key` in the sections that begin at *)
(* the lines of `heads`, none or one, gives.                               *)
Says(heads, key) ==
    LET lines == {k \in DOMAIN file :
                    /\ Line(k) # <<>>
                    /\ \E n \in heads : n < k /\ \A j \in n + 1 .. k : ~IsHead(j)
                    /\ trim(Before(Line(k), strchr(Line(k), "="))) = key}
        val == trim(After(Line(Max(lines)), strchr(Line(Max(lines)), "="))) IN
    IF lines = {} \/ val = <<>> THEN def ELSE val

(* value(sec, key) answers with the last assignment to the key in the      *)
(* first section of that name in the file, whatever was asked before: the  *)
(* cache does not show.  A section written twice is read as far as its     *)
(* second head only.                                                       *)
AnswersFromFile ==
    LET named == {n \in Heads \cup {0} : HeadName(n) = asked.sec} IN
    status = "parsed" /\ asked.how = "name" =>
        asked.val = Says(IF named = {} THEN {} ELSE {Min(named)}, asked.key)

(* next_section comes to each section in turn, from the last in the file   *)
(* to the one without a name, and value(key) answers from that one, also   *)
(* when another section has its name; before the first and after the last  *)
(* there is no answer.                                                     *)
SectionsWalked ==
    status = "parsed" =>
        /\ Len(base) = Cardinality(Heads) + 1
        /\ next # 0 => base[next].name = HeadName(HeadAt(next))
        /\ asked.how = "next" =>
            asked.val = Says(IF asked.sec = 0 THEN {} ELSE {HeadAt(asked.sec)}, asked.key)
===============================================================================
