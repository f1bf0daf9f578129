-------------------------------- MODULE Text --------------------------------
(***************************************************************************)
(* How the assembler and the loader read text: src/class/src/shell.cpp,    *)
(* ustrop.h, ustrop.cpp, primitives.h and primitives.cpp.  Both programs   *)
(* split their lines with chop_string and read every number with           *)
(* numeric_interpret.                                                      *)
(*                                                                         *)
(* A string is a TLA+ string; Chars gives its characters.  An operator     *)
(* that may throw returns a record whose err is the exception, "" if none. *)
(***************************************************************************)
EXTENDS Integers, Sequences, FiniteSetsExt

Chars(s) == [i \in 1 .. Len(s) |-> SubSeq(s, i, i)]
Join(cs) ==
  LET join[i \in 0 .. Len(cs)] == IF i = 0 THEN "" ELSE join[i - 1] \o cs[i]
  IN  join[Len(cs)]

(* The elements of some lists, one list behind the other.                  *)
Concat(lists) ==
  LET all[i \in 0 .. Len(lists)] == IF i = 0 THEN <<>> ELSE all[i - 1] \o lists[i]
  IN  all[Len(lists)]

Throw(e)  == [err |-> e, val |-> 0]
Return(v) == [err |-> "", val |-> v]
Returned(result) == result.err = ""

----------------------------------------------------------------------------
(* Words of a line                                                         *)

Quotes     == {"\"", "'"}
Delimiters == {",", " ", "\t", "\n", "\r"}

(* The comment starts at the first semicolon, quoted or not.               *)
Comment(cs) == {i \in DOMAIN cs : cs[i] = ";"}
Commentless(cs) == IF Comment(cs) = {} THEN cs ELSE SubSeq(cs, 1, Min(Comment(cs)) - 1)

PushWord(st) ==
  IF st.built = "" THEN st ELSE [st EXCEPT !.words = Append(@, st.built), !.built = ""]

ChopChar(st, c) ==
  IF ~st.has_escaped /\ c = "\\" THEN [st EXCEPT !.has_escaped = TRUE]
  ELSE IF ~st.has_escaped /\ c \in Quotes THEN [st EXCEPT !.in_quotes = ~@]
  ELSE IF ~st.has_escaped /\ ~st.in_quotes /\ c \in Delimiters THEN PushWord(st)
  ELSE [st EXCEPT !.built = @ \o c, !.has_escaped = FALSE]

chop_string(input) ==
  LET cs == Commentless(Chars(input))
      scan[i \in 0 .. Len(cs)] ==
        IF i = 0
        THEN [words |-> <<>>, built |-> "", has_escaped |-> FALSE, in_quotes |-> FALSE]
        ELSE ChopChar(scan[i - 1], cs[i])
      end == scan[Len(cs)]
  IN IF end.has_escaped \/ end.in_quotes
     THEN Throw("bad_escape")
     ELSE Return(PushWord(end).words)

(* Mutant: everything through the last colon goes.                         *)
trim_labels(s) ==
  LET colons == {i \in 1 .. Len(s) : SubSeq(s, i, i) = ":"}
  IN IF colons = {} THEN "" ELSE SubSeq(s, Max(colons) + 1, Len(s))

(* Everything through the first colon goes, whichever word it belongs to.  *)
trim_label(s) ==
  LET colons == {i \in 1 .. Len(s) : SubSeq(s, i, i) = ":"}
  IN IF colons = {} THEN "" ELSE SubSeq(s, Min(colons) + 1, Len(s))

pop_back(s) == SubSeq(s, 1, Len(s) - 1)

(* A typed line: a backslash outside quotes is dropped and keeps the next  *)
(* character from ending the line; quotes are kept.  (A quote that was     *)
(* escaped here still opens a quotation here.)                             *)
ReadChar(st, c) ==
  IF st.ended THEN st
  ELSE IF c = "\\" /\ ~st.quotes /\ ~st.escaped THEN [st EXCEPT !.escaped = TRUE]
  ELSE LET q == IF c = "\"" THEN ~st.quotes ELSE st.quotes
       IN [text |-> st.text \o c, quotes |-> q, escaped |-> FALSE,
           ended |-> c \in {"\n", "\r"} /\ ~st.escaped /\ ~q]

ReadFromInput(typed) ==
  LET scan[i \in 0 .. Len(typed)] ==
        IF i = 0
        THEN [text |-> "", quotes |-> FALSE, escaped |-> FALSE, ended |-> FALSE]
        ELSE ReadChar(scan[i - 1], SubSeq(typed, i, i))
  IN  scan[Len(typed)].text

----------------------------------------------------------------------------
(* Numbers                                                                 *)

HexDigits == <<"0", "1", "2", "3", "4", "5", "6", "7", "8", "9", "a", "b", "c", "d", "e", "f">>
UpperHex  == <<"A", "B", "C", "D", "E", "F">>

(* The literals of this module are strings, and this long: to the provers  *)
(* a literal is a name.                                                    *)
ASSUME LiteralsAssumption ==
  /\ {"", "0x", "o", "\n"} \subseteq STRING
  /\ Len("") = 0 /\ Len("0x") = 2 /\ Len("\n") = 1
  /\ \A i \in 1 .. 16 : HexDigits[i] \in STRING /\ Len(HexDigits[i]) = 1

(* The value of a digit does not depend on the base it is read in.         *)
IsDigit(c) == c \in {HexDigits[i] : i \in 1 .. 16} \cup {UpperHex[i] : i \in 1 .. 6}
get_digit_value(c) ==
  (CHOOSE i \in 1 .. 16 : HexDigits[i] = c \/ (i > 10 /\ UpperHex[i - 10] = c)) - 1

(* What follows the prefix; "" if nothing does.                            *)
has_prefix(s, p) ==
  IF Len(p) < Len(s) /\ SubSeq(s, 1, Len(p)) = p THEN SubSeq(s, Len(p) + 1, Len(s)) ELSE ""

(* The digits of a number, with a minus sign or none before them.          *)
Negative(text) == Len(text) > 0 /\ SubSeq(text, 1, 1) = "-"
Digits(text)   == Chars(IF Negative(text) THEN SubSeq(text, 2, Len(text)) ELSE text)

Value(digits, radix) ==
  IF \E i \in DOMAIN digits : ~IsDigit(digits[i])
  THEN Throw("bad_imm")
  ELSE Return(LET value[i \in 0 .. Len(digits)] ==
                    IF i = 0 THEN 0 ELSE value[i - 1] * radix + get_digit_value(digits[i])
              IN  value[Len(digits)])
Negated(number) == [number EXCEPT !.val = -@]

Interpret(text, radix) ==
  IF text = "" THEN Throw("bad_imm")
  ELSE IF Negative(text) THEN Negated(Value(Digits(text), radix))
  ELSE Value(Digits(text), radix)

numeric_interpret(in) ==
  IF has_prefix(in, "0x") # "" THEN Interpret(has_prefix(in, "0x"), 16)
  ELSE IF has_prefix(in, "o") # "" THEN Interpret(has_prefix(in, "o"), 8)
  ELSE Interpret(in, 10)

DecDigits == {SubSeq("0123456789", i, i) : i \in 1 .. 10}

(* begin, begin:end or begin:end:step, both ends included: the first value *)
(* of the range, how many there are and how far apart.                     *)
SplitChar(st, c) ==
  IF c = ":" THEN [list |-> Append(st.list, st.imm), imm |-> ""] ELSE [st EXCEPT !.imm = @ \o c]

Limits(specifier) ==
  LET split[i \in 0 .. Len(specifier)] ==
        IF i = 0 THEN [list |-> <<>>, imm |-> ""]
        ELSE SplitChar(split[i - 1], SubSeq(specifier, i, i))
      end == split[Len(specifier)]
  IN  IF end.imm = "" THEN end.list ELSE Append(end.list, end.imm)

range(specifier) ==
  LET list  == Limits(specifier)
      v(i)  == numeric_interpret(list[i])
      first == v(1).val
      end   == IF Len(list) > 1 THEN v(2).val ELSE first
      step  == IF Len(list) > 2 THEN v(3).val ELSE 1
      bound == IF step > 0 THEN (end - first) \div step + 1 ELSE (first - end) \div (-step) + 1
  IN IF Len(list) \notin 1 .. 3 THEN Throw("invalid_range")
     ELSE IF \E i \in DOMAIN list : ~Returned(v(i)) THEN Throw("bad_imm")
     ELSE IF step = 0 \/ (end > first /\ step < 0) \/ (end < first /\ step > 0)
     THEN Throw("invalid_range")
     ELSE Return([first |-> first, step |-> step, bound |-> bound])

(* Bytes, first in memory first, as hexadecimal with the last one leading. *)
dynamicHexBuilder(bytes) ==
  LET hex[i \in 0 .. Len(bytes)] ==
        IF i = 0 THEN ""
        ELSE HexDigits[(bytes[i] \div 16) + 1] \o HexDigits[(bytes[i] % 16) + 1] \o hex[i - 1]
  IN  hex[Len(bytes)]
=============================================================================
