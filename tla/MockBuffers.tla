------------------------------ MODULE MockBuffers ------------------------------
(***************************************************************************)
(* How the mock driver hands a text to an application's buffer, and the    *)
(* protocol built on it: call once, with a buffer of some size or none,    *)
(* read the length that is reported, call again with a buffer made for it. *)
(*                                                                         *)
(* Texts are UTF-8 inside the driver.  A narrow function copies bytes; a W *)
(* function fetches the text from its narrow counterpart and converts it   *)
(* to UTF-16, one character per step here as in the loop of utf8_to_utf16  *)
(* (the portable implementation).  Texts are shorter than the temporary    *)
(* arrays of the W functions (256 to 4096 bytes) and than SQLSMALLINT.     *)
(***************************************************************************)
EXTENDS Integers, Sequences, FiniteSets

CONSTANTS Char,     \* characters
          Pair,     \* those that take a surrogate pair in UTF-16
          Bytes(_), \* length of a text in UTF-8
          Text,     \* texts the driver is asked for
          Size      \* bound: buffer sizes of a first call; 0 is no buffer

ASSUME BuffersAssumption == /\ Pair \subseteq Char
                            /\ Text \subseteq Seq(Char)
                            /\ \A t \in Text : Bytes(t) \in Nat
                            /\ Size \subseteq Nat
                            /\ {"torn", "torn pair"} \cap Char = {}

\* Narrow functions that return SQL_SUCCESS_WITH_INFO for a truncated text,
\* and those that do not.  SQLFetch stands for its bound columns; SQLGetData
\* for a string cell as SQL_C_CHAR, and its second name for a number.
NarrowLoud   == {"SQLGetInfo", "SQLGetDiagRec", "SQLGetDiagField", "SQLNativeSql", "SQLGetData"}
NarrowSilent == {"SQLGetCursorName", "SQLDescribeCol", "SQLColAttribute", "SQLDriverConnect",
                 "SQLGetConnectAttr", "SQLFetch", "SQLGetData(number)"}

\* W functions that count their buffer in bytes, and those that count it in
\* characters; of the latter some drop what the conversion returns.
WideBytes  == {"SQLGetInfoW", "SQLColAttributeW", "SQLGetDiagFieldW", "SQLGetConnectAttrW",
               "SQLGetData(SQL_C_WCHAR)"}
WideLoud   == {"SQLDescribeColW", "SQLGetDiagRecW"}
WideSilent == {"SQLGetCursorNameW", "SQLNativeSqlW", "SQLDriverConnectW"}

Narrow == NarrowLoud \cup NarrowSilent
Wide   == WideBytes \cup WideLoud \cup WideSilent
Fn     == Narrow \cup Wide
Loud   == NarrowLoud \cup WideBytes \cup WideLoud

\* The UTF-16 units of the first k characters of s: one each, and one more
\* for a surrogate pair.
PairsUpTo(s, k) == {i \in 1..k : s[i] \in Pair \cup {"torn pair"}}
UnitsUpTo(s, k) == k + Cardinality(PairsUpTo(s, k))

\* UTF-8: the beginning of a text takes no more bytes than the text, and no
\* character takes fewer bytes than it takes units in UTF-16.
ASSUME Utf8Assumption ==
  \A t \in Text : /\ \A k \in 0..Len(t) : Bytes(SubSeq(t, 1, k)) \in 0..Bytes(t)
                  /\ UnitsUpTo(t, Len(t)) <= Bytes(t)

VARIABLES call,   \* the application's call: function, text, buffer, size before
          pc,     \* where the call is
          source, \* what the narrow function gave the W function
          pos,    \* p: characters of it read
          out,    \* target: the characters written
          used,   \* out_idx: units written
          total,  \* total_chars: units the text needs
          reply   \* what the caller sees

vars == <<call, pc, source, pos, out, used, total, reply>>

Letter == Char \cup {"torn", "torn pair"}

\* One UTF-16 unit, or a surrogate pair.
Units(c) == IF c \in Pair \cup {"torn pair"} THEN 2 ELSE 1

TypeOK ==
  /\ call \in [fn : Fn, text : Text, size : Nat, before : Nat, turn : 1..2]
  /\ pc \in {"idle", "narrow", "convert", "done"}
  /\ source \in Seq(Letter) /\ out \in Seq(Letter)
  /\ pos \in 0..Len(source) /\ used \in Nat /\ total \in Nat
  /\ reply \in [rc : {"SUCCESS", "INFO"}, length : Nat, whole : BOOLEAN]

Nothing == [rc |-> "SUCCESS", length |-> 0, whole |-> TRUE]

Init ==
  /\ \E fn \in Fn, t \in Text, n \in Size :
       /\ fn = "SQLGetData(number)" => Bytes(t) = Len(t)  \* digits
       /\ call = [fn |-> fn, text |-> t, size |-> n, before |-> 0, turn |-> 1]
  /\ pc = "narrow" /\ source = <<>> /\ out = <<>> /\ pos = 0 /\ used = 0 /\ total = 0
  /\ reply = Nothing

-----------------------------------------------------------------------------
(* Narrow functions                                                        *)

\* The characters of a text that are wholly in its first n bytes.
Whole(t, n) == {k \in 0..Len(t) : /\ Bytes(SubSeq(t, 1, k)) <= n
                                  /\ k < Len(t) => Bytes(SubSeq(t, 1, k + 1)) > n}

\* What a character cut in two is decoded as: of four bytes the first alone
\* makes one unit or two, depending on the character.
Torn(c, rest) == IF c \notin Pair THEN {"torn"}
                 ELSE IF rest > 1 THEN {"torn pair"} ELSE {"torn", "torn pair"}

\* These characters, with what is left of the next one.
Cut(t, k, n) ==
  LET rest == n - Bytes(SubSeq(t, 1, k)) IN
    IF k = Len(t) \/ rest = 0 THEN {SubSeq(t, 1, k)}
    ELSE {Append(SubSeq(t, 1, k), c) : c \in Torn(t[k + 1], rest)}

\* Faulty: a text that leaves no room for the terminator passes as whole.
CopyCodeLate(fn, need, size) ==
  IF fn \in NarrowLoud /\ size > 0 /\ need > size THEN "INFO" ELSE "SUCCESS"

\* copy_string_to_buffer; SQLGetData and SQLNativeSql do the same by hand, but
\* for a number SQLGetData cuts without a word.
\* Only SQLGetData reports truncation to somebody without a buffer.
CopyCode(fn, need, size) ==
  IF \/ fn \in NarrowLoud /\ size > 0 /\ need >= size
     \/ fn = "SQLGetData" /\ size = 0 THEN "INFO" ELSE "SUCCESS"

Copy ==
  /\ pc = "narrow" /\ call.fn \in Narrow
  /\ LET need == Bytes(call.text) IN
       reply' = [rc |-> CopyCode(call.fn, need, call.size), length |-> need,
                 whole |-> need < call.size]
  /\ pc' = "done"
  /\ UNCHANGED <<call, source, pos, out, used, total>>

-----------------------------------------------------------------------------
(* W functions                                                             *)

\* With no buffer a function that counts characters reports the bytes.
Unconverted ==
  /\ pc = "narrow" /\ call.fn \in WideLoud \cup WideSilent /\ call.size = 0
  /\ reply' = [rc |-> "SUCCESS", length |-> Bytes(call.text), whole |-> FALSE]
  /\ pc' = "done"
  /\ UNCHANGED <<call, source, pos, out, used, total>>

\* SQLDriverConnectW has room for as many bytes as the caller for characters.
Widen ==
  /\ pc = "narrow" /\ call.fn \in Wide
  /\ call.fn \notin WideBytes => call.size > 0
  /\ IF call.fn = "SQLDriverConnectW"
     THEN \E k \in Whole(call.text, call.size - 1) : source' \in Cut(call.text, k, call.size - 1)
     ELSE source' = call.text
  /\ pos' = 0 /\ out' = <<>> /\ used' = 0 /\ total' = 0
  /\ pc' = "convert"
  /\ UNCHANGED <<call, reply>>

\* max_chars
Capacity == IF call.fn \in WideBytes THEN call.size \div 2 ELSE call.size

\* Faulty: no unit is kept for the terminator.
FitsExactly(c) == used + Units(c) <= Capacity

\* Faulty: a pair asks for one unit more than it takes.
FitsLoosely(c) == used + Units(c) < Capacity - (Units(c) - 1)

Fits(c) == used + Units(c) < Capacity

\* Faulty: a character that does not fit is not consumed.
ConvertStuck ==
  /\ pc = "convert" /\ pos < Len(source)
  /\ LET c == source[pos + 1] IN
       IF Fits(c) THEN /\ pos' = pos + 1
                       /\ total' = total + Units(c)
                       /\ out' = Append(out, c) /\ used' = used + Units(c)
                  ELSE UNCHANGED <<pos, total, out, used>>
  /\ UNCHANGED <<call, pc, source, reply>>

\* The next character; one that does not fit is counted and left out.
Convert ==
  /\ pc = "convert" /\ pos < Len(source)
  /\ LET c == source[pos + 1] IN
       /\ pos' = pos + 1
       /\ total' = total + Units(c)
       /\ IF Fits(c) THEN out' = Append(out, c) /\ used' = used + Units(c)
                     ELSE UNCHANGED <<out, used>>
  /\ UNCHANGED <<call, pc, source, reply>>

\* copy_string_to_wbuffer compares bytes with bytes.
ConvertCode ==
  IF /\ call.fn \notin WideSilent /\ Capacity > 0
     /\ IF call.fn \in WideBytes THEN 2 * total >= call.size ELSE total >= call.size
  THEN "INFO" ELSE "SUCCESS"

\* Faulty: the length of what was written is reported.
ConvertLengthWritten == IF call.fn \in WideBytes THEN 2 * used ELSE used

ConvertLength == IF call.fn \in WideBytes THEN 2 * total ELSE total

Converted ==
  /\ pc = "convert" /\ pos = Len(source)
  /\ reply' = [rc |-> ConvertCode, length |-> ConvertLength,
               whole |-> Capacity > 0 /\ out = call.text]
  /\ pc' = "done"
  /\ UNCHANGED <<call, source, pos, out, used, total>>

-----------------------------------------------------------------------------
(* The application                                                         *)

Terminator == IF call.fn \in WideBytes THEN 2 ELSE 1

\* The second call, with a buffer for the reported length.
Again ==
  /\ pc = "done" /\ call.turn = 1
  /\ call' = [fn |-> call.fn, text |-> call.text, size |-> reply.length + Terminator,
               before |-> call.size, turn |-> 2]
  /\ pc' = "narrow" /\ reply' = Nothing
  /\ source' = <<>> /\ out' = <<>> /\ pos' = 0 /\ used' = 0 /\ total' = 0

Done == pc = "done" /\ call.turn = 2 /\ UNCHANGED vars

Driver == Copy \/ Unconverted \/ Widen \/ Convert \/ Converted

Next == Driver \/ Again \/ Done

\* A call that was made runs.
Spec == Init /\ [][Next]_vars /\ WF_vars(Driver)

-----------------------------------------------------------------------------
(* Properties                                                              *)

\* The units written leave room for the terminator, also where pairs and
\* odd sizes make the end of the buffer uneven (string_utils.cpp:182-199).
NeverOverruns == used = 0 \/ used < Capacity

\* A function that reports truncation reports all of it and nothing else,
\* given a buffer of whole units (string_utils.cpp:37 and 242).  SQLGetData
\* does so for a string cell; a number it cuts in silence (statement_api.cpp:706).
WholeUnits == call.size > 0 /\ (call.fn \in WideBytes => call.size % 2 = 0)

TruncationIsReported ==
  pc = "done" /\ call.fn \in Loud /\ WholeUnits => (reply.rc = "INFO" <=> ~reply.whole)

\* The reported length is enough: the second call delivers the whole text
\* and says so.  Only SQLDriverConnectW, which reports the length of what
\* it had already cut, may need a first call without a buffer.
LengthSuffices ==
  pc = "done" /\ call.turn = 2 /\ (call.fn = "SQLDriverConnectW" => call.before = 0)
    => reply.whole /\ reply.rc = "SUCCESS"

\* What was written is the beginning of the text but for its last
\* character, which may come from behind a pair that did not fit.
PrefixButLast == \A i \in 1..Len(out) - 1 : out[i] = source[i]

\* Every call returns.
CallsReturn == pc \in {"narrow", "convert"} ~> pc = "done"

=============================================================================
