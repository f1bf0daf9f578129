--------------------------------- MODULE X2b ---------------------------------
(***************************************************************************)
(* The converter x2b, src/class/src/x2b.cpp: a text of hexadecimal bytes   *)
(* into the bytes, every one put in front of those read before it.         *)
(***************************************************************************)
EXTENDS Integers, Sequences, Text

isHex(c) == c \in {HexDigits[i] : i \in 1 .. 16}

Whitespace == {"\n", "\r", " ", "\t"}

(* Mutant: the bytes are put behind those read before.                     *)
TakeDigitBack(st, c) ==
  IF st.status # 0 \/ c \in Whitespace THEN st
  ELSE IF ~isHex(c) THEN [st EXCEPT !.status = -2]
  ELSE IF st.val = "" THEN [st EXCEPT !.val = c]
  ELSE [st EXCEPT !.val = "", !.b_list = Append(@, numeric_interpret("0x" \o st.val \o c).val)]

(* val holds the first digit of a pair until the second one comes.         *)
TakeDigit(st, c) ==
  IF st.status # 0 \/ c \in Whitespace THEN st
  ELSE IF ~isHex(c) THEN [st EXCEPT !.status = -2]
  ELSE IF st.val = "" THEN [st EXCEPT !.val = c]
  ELSE [st EXCEPT !.val = "", !.b_list = <<numeric_interpret("0x" \o st.val \o c).val>> \o @]

(* The exit status, and the bytes of the output file.                      *)
x2b(text) ==
  LET read[i \in 0 .. Len(text)] ==
        IF i = 0 THEN [status |-> 0, val |-> "", b_list |-> <<>>]
        ELSE TakeDigit(read[i - 1], SubSeq(text, i, i))
      end == read[Len(text)]
  IN IF end.status # 0 THEN [status |-> end.status, bytes |-> <<>>]
     ELSE IF end.val # "" THEN [status |-> -1, bytes |-> <<>>]
     ELSE [status |-> 0, bytes |-> end.b_list]
=============================================================================
