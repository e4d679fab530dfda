--------------------------- MODULE MockBuffersProofs ---------------------------
(***************************************************************************)
(* Proofs about MockBuffers: the conversion loop stays inside the buffer   *)
(* and tells the truth about what it left out, for every text, every       *)
(* buffer and every set of characters.                                     *)
(***************************************************************************)
EXTENDS MockBuffers, FiniteSetTheorems, TLAPS

\* What is written so far is what was read so far.
Complete == out = SubSeq(source, 1, pos) /\ used = total

\* Something was left out: the text needs more than there is, and at most
\* one more unit can be written, behind a beginning of the text.
Truncated ==
  /\ Len(out) < pos
  /\ total >= Capacity /\ used >= Capacity - 2
  /\ used + 1 < Capacity => \A i \in 1..Len(out) : out[i] = source[i]
  /\ PrefixButLast

LoopInv == NeverOverruns /\ used <= total /\ (Complete \/ Truncated)

\* A function that reports truncation converts the whole text.
SourceInv == pc = "convert" /\ call.fn \in Loud => source = call.text

IInv == TypeOK /\ LoopInv /\ SourceInv /\ TruncationIsReported

Frame == <<call, source, pos, out, used, total>>

-----------------------------------------------------------------------------
LEMMA InitIInv == Init => IInv
<1> SUFFICES ASSUME Init PROVE IInv
  OBVIOUS
<1> USE DEF Init
<1>1. TypeOK
  <2>1. PICK fn \in Fn, t \in Text, n \in Size :
               call = [fn |-> fn, text |-> t, size |-> n, before |-> 0, turn |-> 1]
    OBVIOUS
  <2>2. n \in Nat
    BY BuffersAssumption
  <2>3. call \in [fn : Fn, text : Text, size : Nat, before : Nat, turn : 1..2]
    BY <2>1, <2>2
  <2>4. reply \in [rc : {"SUCCESS", "INFO"}, length : Nat, whole : BOOLEAN]
    BY DEF Nothing
  <2>5. source \in Seq(Letter) /\ out \in Seq(Letter) /\ pos \in 0..Len(source)
    OBVIOUS
  <2> QED BY <2>3, <2>4, <2>5 DEF TypeOK
<1>2. NeverOverruns /\ used <= total
  BY DEF NeverOverruns
<1>3. Complete
  BY DEF Complete
<1>4. SourceInv /\ TruncationIsReported
  BY DEF SourceInv, TruncationIsReported
<1> QED BY <1>1, <1>2, <1>3, <1>4 DEF IInv, LoopInv

\* A step that leaves the call and the loop alone.
LEMMA Unchanged ==
  ASSUME LoopInv, UNCHANGED Frame
  PROVE  LoopInv'
  BY DEF LoopInv, NeverOverruns, Complete, Truncated, PrefixButLast, Capacity, Frame

\* A step that starts over with nothing written.
LEMMA Restarted ==
  ASSUME pos' = 0, out' = <<>>, used' = 0, total' = 0, source' \in Seq(Letter)
  PROVE  LoopInv'
  BY DEF LoopInv, NeverOverruns, Complete

-----------------------------------------------------------------------------
LEMMA CopyStep == IInv /\ Copy => IInv'
<1> SUFFICES ASSUME IInv, Copy PROVE IInv'
  OBVIOUS
<1> USE DEF IInv, Copy
<1>1. call.text \in Text /\ call.fn \in Narrow /\ call.size \in Nat
  BY DEF TypeOK
<1>2. Bytes(call.text) \in Nat
  BY <1>1, BuffersAssumption
<1>3. reply' = [rc |-> CopyCode(call.fn, Bytes(call.text), call.size),
                length |-> Bytes(call.text), whole |-> Bytes(call.text) < call.size]
  OBVIOUS
<1>4. TypeOK'
  BY <1>2, <1>3 DEF TypeOK, CopyCode
<1>5. LoopInv'
  BY Unchanged DEF Frame
<1>6. SourceInv'
  BY DEF SourceInv
<1>7. call.fn \notin WideBytes
  BY <1>1 DEF Narrow, NarrowLoud, NarrowSilent, WideBytes
<1>8. ASSUME call.fn \in Loud, call.size > 0
      PROVE  reply'.rc = "INFO" <=> ~reply'.whole
  <2>1. call.fn \in NarrowLoud
    BY <1>1, <1>8 DEF Narrow, Loud, NarrowLoud, NarrowSilent, WideBytes, WideLoud
  <2>2. CopyCode(call.fn, Bytes(call.text), call.size) = "INFO"
          <=> ~(Bytes(call.text) < call.size)
    BY <1>1, <1>2, <1>8, <2>1 DEF CopyCode
  <2>3. reply'.rc = CopyCode(call.fn, Bytes(call.text), call.size)
    BY <1>3
  <2>4. reply'.whole <=> Bytes(call.text) < call.size
    <3> DEFINE fits == Bytes(call.text) < call.size
    <3>1. reply' = [rc |-> CopyCode(call.fn, Bytes(call.text), call.size),
                    length |-> Bytes(call.text), whole |-> fits]
      BY <1>3
    <3> HIDE DEF fits
    <3>2. reply'.whole = fits
      BY <3>1
    <3> QED BY <3>2, Zenon DEF fits
  <2> QED BY <2>2, <2>3, <2>4, Zenon
<1>9. TruncationIsReported'
  BY <1>8 DEF TruncationIsReported, WholeUnits
<1> QED BY <1>4, <1>5, <1>6, <1>9

LEMMA UnconvertedStep == IInv /\ Unconverted => IInv'
<1> SUFFICES ASSUME IInv, Unconverted PROVE IInv'
  OBVIOUS
<1> USE DEF IInv, Unconverted
<1>1. Bytes(call.text) \in Nat
  BY BuffersAssumption DEF TypeOK
<1>2. TypeOK'
  BY <1>1 DEF TypeOK
<1>3. LoopInv'
  BY Unchanged DEF Frame
<1>4. SourceInv' /\ TruncationIsReported'
  BY DEF SourceInv, TruncationIsReported, WholeUnits
<1> QED BY <1>2, <1>3, <1>4

LEMMA WidenStep == IInv /\ Widen => IInv'
<1> SUFFICES ASSUME IInv, Widen PROVE IInv'
  OBVIOUS
<1> USE DEF IInv, Widen
<1>1. call.text \in Seq(Char)
  BY BuffersAssumption DEF TypeOK
<1>2. call.text \in Seq(Letter)
  <2>1. Char \subseteq Letter
    BY DEF Letter
  <2> HIDE DEF Letter
  <2> QED BY <1>1, <2>1
<1>3. ASSUME NEW n, NEW k \in 0..Len(call.text)
      PROVE  Cut(call.text, k, n) \subseteq Seq(Letter)
  <2>1. SubSeq(call.text, 1, k) \in Seq(Letter)
    BY <1>2
  <2>2. "torn" \in Letter /\ "torn pair" \in Letter
    BY DEF Letter
  <2>3. \A x \in Letter : Append(SubSeq(call.text, 1, k), x) \in Seq(Letter)
    BY <2>1
  <2>4. ASSUME NEW c, NEW rest PROVE Torn(c, rest) \subseteq Letter
    <3>1. Torn(c, rest) \subseteq {"torn", "torn pair"}
      BY DEF Torn
    <3> QED BY <2>2, <3>1
  <2> QED BY <2>1, <2>3, <2>4, Zenon DEF Cut
<1>4. source' \in Seq(Letter)
  <2>1. CASE call.fn = "SQLDriverConnectW"
    <3>1. PICK k \in Whole(call.text, call.size - 1) :
            source' \in Cut(call.text, k, call.size - 1)
      BY <2>1
    <3>2. k \in 0..Len(call.text)
      BY <3>1 DEF Whole
    <3> QED BY <1>3, <3>1, <3>2
  <2> QED BY <1>2, <2>1
<1>5. TypeOK'
  BY <1>4 DEF TypeOK
<1>6. LoopInv'
  BY <1>4, Restarted
<1>7. SourceInv'
  BY DEF SourceInv, Loud, NarrowLoud, WideBytes, WideLoud
<1>8. TruncationIsReported'
  BY DEF TruncationIsReported
<1> QED BY <1>5, <1>6, <1>7, <1>8

-----------------------------------------------------------------------------
LEMMA ConvertStep == IInv /\ Convert => IInv'
<1> SUFFICES ASSUME IInv, Convert PROVE IInv'
  OBVIOUS
<1> DEFINE c == source[pos + 1]
<1>1. /\ pc = "convert" /\ pos < Len(source)
      /\ pos' = pos + 1 /\ total' = total + Units(c)
      /\ UNCHANGED <<call, pc, source, reply>>
  BY DEF Convert
<1>2. /\ source \in Seq(Letter) /\ out \in Seq(Letter)
      /\ pos \in 0..Len(source) /\ used \in Nat /\ total \in Nat /\ call.size \in Nat
  BY DEF IInv, TypeOK
<1>3. c \in Letter /\ Units(c) \in {1, 2}
  <2>1. pos + 1 \in 1..Len(source)
    BY <1>1, <1>2
  <2>2. c \in Letter
    BY <1>2, <2>1
  <2> QED BY <2>2 DEF Units
<1>4. Capacity \in Nat /\ Capacity' = Capacity
  BY <1>1, <1>2 DEF Capacity
<1>5. \/ Fits(c) /\ out' = Append(out, c) /\ used' = used + Units(c)
      \/ ~Fits(c) /\ out' = out /\ used' = used
  BY DEF Convert
<1> HIDE DEF c
<1>6. TypeOK'
  <2>1. out' \in Seq(Letter) /\ used' \in Nat
    BY <1>2, <1>3, <1>5
  <2>2. pos' \in 0..Len(source) /\ total' \in Nat
    BY <1>1, <1>2, <1>3
  <2> QED BY <1>1, <2>1, <2>2 DEF IInv, TypeOK
<1>7. NeverOverruns'
  BY <1>2, <1>3, <1>4, <1>5 DEF IInv, LoopInv, NeverOverruns, Fits
<1>8. used' <= total'
  BY <1>1, <1>2, <1>3, <1>5 DEF IInv, LoopInv
<1>9. Complete' \/ Truncated'
  <2>1. CASE Complete /\ Fits(c)
    <3>1. SubSeq(source, 1, pos + 1) = Append(SubSeq(source, 1, pos), c)
      BY <1>1, <1>2 DEF c
    <3> QED BY <1>1, <1>2, <1>3, <1>5, <2>1, <3>1 DEF Complete
  <2>2. CASE Complete /\ ~Fits(c)
    <3>1. Len(out) = pos /\ \A i \in 1..Len(out) : out[i] = source[i]
      BY <1>1, <1>2, <2>2 DEF Complete
    <3>2. total' >= Capacity /\ used >= Capacity - 2
      BY <1>1, <1>2, <1>3, <1>4, <2>2 DEF Complete, Fits
    <3> QED BY <1>1, <1>2, <1>4, <1>5, <2>2, <3>1, <3>2 DEF Truncated, PrefixButLast
  <2>3. CASE Truncated /\ Fits(c)
    <3>1. \A i \in 1..Len(out) : out[i] = source[i]
      BY <1>2, <1>3, <1>4, <2>3 DEF Truncated, Fits
    <3>2. out' = Append(out, c) /\ Len(out') = Len(out) + 1
      BY <1>2, <1>3, <1>5, <2>3
    <3>3. \A i \in 1..Len(out) : out'[i] = out[i]
      BY <1>2, <1>3, <3>2
    <3>4. used' + 1 >= Capacity
      BY <1>2, <1>3, <1>4, <1>5, <2>3 DEF Truncated
    <3>5. PrefixButLast'
      BY <1>1, <1>2, <3>1, <3>2, <3>3 DEF PrefixButLast
    <3>6. total' >= Capacity /\ used' >= Capacity - 2
      BY <1>1, <1>2, <1>3, <1>4, <1>5, <2>3 DEF Truncated
    <3>7. Len(out') < pos'
      BY <1>1, <1>2, <3>2, <2>3 DEF Truncated
    <3>8. ~(used' + 1 < Capacity')
      BY <1>2, <1>3, <1>4, <1>5, <2>3, <3>4
    <3> QED BY <1>4, <3>5, <3>6, <3>7, <3>8 DEF Truncated
  <2>4. CASE Truncated /\ ~Fits(c)
    BY <1>1, <1>2, <1>3, <1>4, <1>5, <2>4 DEF Truncated, PrefixButLast
  <2> QED BY <2>1, <2>2, <2>3, <2>4 DEF IInv, LoopInv
<1>10. SourceInv' /\ TruncationIsReported'
  BY <1>1 DEF IInv, SourceInv, TruncationIsReported
<1> QED BY <1>6, <1>7, <1>8, <1>9, <1>10 DEF IInv, LoopInv

LEMMA ConvertedStep == IInv /\ Converted => IInv'
<1> SUFFICES ASSUME IInv, Converted PROVE IInv'
  OBVIOUS
<1>1. /\ pc = "convert" /\ pos = Len(source) /\ pc' = "done"
      /\ UNCHANGED Frame
      /\ reply' = [rc |-> ConvertCode, length |-> ConvertLength,
                   whole |-> Capacity > 0 /\ out = call.text]
  BY DEF Converted, Frame
<1>2. /\ source \in Seq(Letter) /\ out \in Seq(Letter) /\ pos \in Nat
      /\ used \in Nat /\ total \in Nat /\ call.size \in Nat
  BY DEF IInv, TypeOK
<1>3. ConvertLength \in Nat /\ ConvertCode \in {"SUCCESS", "INFO"}
  BY <1>2 DEF ConvertLength, ConvertCode
<1>4. reply' \in [rc : {"SUCCESS", "INFO"}, length : Nat, whole : BOOLEAN]
  BY <1>1, <1>3
<1>5. TypeOK'
  BY <1>1, <1>4 DEF IInv, TypeOK, Frame
<1>6. LoopInv'
  BY <1>1, Unchanged DEF IInv
<1>7. SourceInv'
  BY <1>1 DEF SourceInv
<1>8. ASSUME call.fn \in Loud, WholeUnits
      PROVE  (ConvertCode = "INFO") <=> ~(Capacity > 0 /\ out = call.text)
  <2>1. source = call.text
    BY <1>1, <1>8 DEF IInv, SourceInv
  <2>2. call.fn \notin WideSilent
    BY <1>8 DEF Loud, NarrowLoud, WideBytes, WideLoud, WideSilent
  <2>3. Capacity > 0 /\ Capacity \in Nat
    BY <1>2, <1>8 DEF WholeUnits, Capacity
  <2>4. call.size = IF call.fn \in WideBytes THEN 2 * Capacity ELSE Capacity
    BY <1>2, <1>8 DEF WholeUnits, Capacity
  <2>5. ConvertCode = IF total >= Capacity THEN "INFO" ELSE "SUCCESS"
    BY <1>2, <2>2, <2>3, <2>4 DEF ConvertCode
  <2>6. CASE Complete
    <3>1. out = call.text
      BY <1>1, <1>2, <2>1, <2>6 DEF Complete
    <3>2. total < Capacity
      BY <1>2, <2>3, <2>6 DEF IInv, LoopInv, NeverOverruns, Complete
    <3> QED BY <1>2, <2>3, <2>5, <3>1, <3>2
  <2>7. CASE Truncated
    BY <1>1, <1>2, <2>1, <2>5, <2>7 DEF Truncated
  <2> QED BY <2>6, <2>7 DEF IInv, LoopInv
<1>9. TruncationIsReported'
  BY <1>1, <1>8 DEF TruncationIsReported, WholeUnits, Frame
<1> QED BY <1>5, <1>6, <1>7, <1>9 DEF IInv

LEMMA AgainStep == IInv /\ Again => IInv'
<1> SUFFICES ASSUME IInv, Again PROVE IInv'
  OBVIOUS
<1> USE DEF IInv, Again
<1>1. reply.length + Terminator \in Nat
  BY DEF TypeOK, Terminator
<1>2. call' \in [fn : Fn, text : Text, size : Nat, before : Nat, turn : 1..2]
  BY <1>1 DEF TypeOK
<1>3. TypeOK'
  BY <1>2 DEF TypeOK, Nothing
<1>4. LoopInv'
  BY Restarted
<1>5. SourceInv' /\ TruncationIsReported'
  BY DEF SourceInv, TruncationIsReported
<1> QED BY <1>3, <1>4, <1>5

LEMMA StutterStep == IInv /\ UNCHANGED vars => IInv'
  BY DEF vars, IInv, TypeOK, LoopInv, NeverOverruns, Complete, Truncated, PrefixButLast,
         Capacity, SourceInv, TruncationIsReported, WholeUnits

THEOREM Invariance == Spec => []IInv
<1>1. IInv /\ [Next]_vars => IInv'
  BY CopyStep, UnconvertedStep, WidenStep, ConvertStep, ConvertedStep, AgainStep, StutterStep
     DEF Next, Driver, Done
<1> QED BY InitIInv, <1>1, PTL DEF Spec

\* Types, for every text and buffer.
THEOREM TypeCorrect == Spec => []TypeOK
<1>1. IInv => TypeOK
  BY DEF IInv
<1> QED BY Invariance, <1>1, PTL

\* No conversion writes past the end of its buffer (string_utils.cpp:182-199).
THEOREM BufferRespected == Spec => []NeverOverruns
<1>1. IInv => NeverOverruns
  BY DEF IInv, LoopInv
<1> QED BY Invariance, <1>1, PTL

\* The functions that report truncation report all of it and nothing else
\* (string_utils.cpp:37 and 242); numbers, of which SQLGetData says nothing when it
\* cuts them (statement_api.cpp:706-715), are not among them.
THEOREM TruncationReported == Spec => []TruncationIsReported
<1>1. IInv => TruncationIsReported
  BY DEF IInv
<1> QED BY Invariance, <1>1, PTL

\* Only the last character of a truncated text can be out of its place
\* (string_utils.cpp:180-192).
THEOREM OrderKept == Spec => []PrefixButLast
<1>1. IInv => PrefixButLast
  BY DEF IInv, TypeOK, LoopInv, Complete, Truncated, PrefixButLast
<1> QED BY Invariance, <1>1, PTL

-----------------------------------------------------------------------------
(* The two calls together: the length that the first one reports is enough *)
(* for the second one.                                                     *)

\* A buffer in which a function delivers a text whole.
Suits(fn, t, n) ==
  IF fn \in WideBytes THEN n >= 2 * UnitsUpTo(t, Len(t)) + 2
  ELSE IF fn \in Narrow \cup {"SQLDriverConnectW"} THEN n > Bytes(t)
  ELSE n > UnitsUpTo(t, Len(t))

\* The calls LengthSuffices is about, seen from either of the two.
Regular == call.fn = "SQLDriverConnectW" =>
             IF call.turn = 1 THEN call.size = 0 ELSE call.before = 0

SecondFits == call.turn = 2 /\ Regular => Suits(call.fn, call.text, call.size)

FirstTells == pc = "done" /\ call.turn = 1 /\ Regular
                => Suits(call.fn, call.text, reply.length + Terminator)

\* What the loop has counted.
Counted == pc = "convert" => /\ total = UnitsUpTo(source, pos)
                             /\ call.fn \in Wide
                             /\ call.fn \in WideBytes \/ call.size > 0
                             /\ Regular => source = call.text

LInv == SecondFits /\ FirstTells /\ Counted /\ LengthSuffices

LEMMA PairsFinite ==
  ASSUME NEW q, NEW k \in Nat
  PROVE  IsFiniteSet(PairsUpTo(q, k)) /\ Cardinality(PairsUpTo(q, k)) \in Nat
<1>1. IsFiniteSet(1..k)
  BY FS_Interval
<1>2. PairsUpTo(q, k) \in SUBSET (1..k)
  BY DEF PairsUpTo
<1>3. IsFiniteSet(PairsUpTo(q, k))
  BY <1>1, <1>2, FS_Subset
<1> QED BY <1>3, FS_CardinalityType

LEMMA UnitsType ==
  ASSUME NEW q, NEW k \in Nat
  PROVE  UnitsUpTo(q, k) \in Nat
  BY PairsFinite DEF UnitsUpTo

LEMMA UnitsOfNothing == ASSUME NEW q PROVE UnitsUpTo(q, 0) = 0
<1>1. PairsUpTo(q, 0) = {}
  BY DEF PairsUpTo
<1>2. Cardinality(PairsUpTo(q, 0)) = 0
  BY <1>1, FS_EmptySet
<1> QED BY <1>2 DEF UnitsUpTo

LEMMA UnitsOfOneMore ==
  ASSUME NEW q, NEW k \in Nat
  PROVE  UnitsUpTo(q, k + 1) = UnitsUpTo(q, k) + Units(q[k + 1])
<1>0. 1..k + 1 = 1..k \cup {k + 1} /\ k + 1 \notin 1..k
  OBVIOUS
<1>1. CASE q[k + 1] \in Pair \cup {"torn pair"}
  <2>1. PairsUpTo(q, k + 1) = PairsUpTo(q, k) \cup {k + 1} /\ k + 1 \notin PairsUpTo(q, k)
    BY <1>0, <1>1, Zenon DEF PairsUpTo
  <2>2. Cardinality(PairsUpTo(q, k) \cup {k + 1}) = Cardinality(PairsUpTo(q, k)) + 1
    BY <2>1, PairsFinite, FS_AddElement
  <2>3. Units(q[k + 1]) = 2
    BY <1>1, Zenon DEF Units
  <2> QED BY <2>1, <2>2, <2>3, PairsFinite DEF UnitsUpTo
<1>2. CASE q[k + 1] \notin Pair \cup {"torn pair"}
  <2>1. PairsUpTo(q, k + 1) = PairsUpTo(q, k)
    BY <1>0, <1>2, Zenon DEF PairsUpTo
  <2>2. Units(q[k + 1]) = 1
    BY <1>2, Zenon DEF Units
  <2> QED BY <2>1, <2>2, PairsFinite DEF UnitsUpTo
<1> QED BY <1>1, <1>2

\* What the assumptions say of the text of a call.
LEMMA TextFacts ==
  ASSUME IInv
  PROVE  /\ call.text \in Seq(Char) /\ call.size \in Nat /\ call.before \in Nat
         /\ call.fn \in Fn /\ call.turn \in 1..2
         /\ Bytes(call.text) \in Nat
         /\ UnitsUpTo(call.text, Len(call.text)) \in Nat
         /\ UnitsUpTo(call.text, Len(call.text)) <= Bytes(call.text)
<1>1. /\ call.text \in Text /\ call.size \in Nat /\ call.before \in Nat
      /\ call.fn \in Fn /\ call.turn \in 1..2
  BY DEF IInv, TypeOK
<1>2. call.text \in Seq(Char) /\ Bytes(call.text) \in Nat
  BY <1>1, BuffersAssumption
<1>3. Len(call.text) \in Nat
  BY <1>2
<1> QED BY <1>1, <1>2, <1>3, UnitsType, Utf8Assumption

\* The four families of functions are different.
LEMMA Families ==
  /\ Narrow \cap Wide = {} /\ Fn = Narrow \cup Wide
  /\ WideBytes \subseteq Wide /\ "SQLDriverConnectW" \in Wide \cap WideSilent
  /\ WideBytes \cap (WideLoud \cup WideSilent) = {}
  BY DEF Narrow, NarrowLoud, NarrowSilent, Wide, WideBytes, WideLoud, WideSilent, Fn

LEMMA CopyTells == IInv /\ LInv /\ Copy => LInv'
<1> SUFFICES ASSUME IInv, LInv, Copy PROVE LInv'
  OBVIOUS
<1>1. /\ pc' = "done" /\ call' = call /\ call.fn \in Narrow
      /\ reply' = [rc |-> CopyCode(call.fn, Bytes(call.text), call.size),
                   length |-> Bytes(call.text), whole |-> Bytes(call.text) < call.size]
  BY DEF Copy
<1>2. call.fn \notin WideBytes
  BY <1>1, Families
<1>3. SecondFits' /\ Counted'
  BY <1>1 DEF LInv, SecondFits, Counted, Regular, Suits
<1>4. FirstTells'
  <2>1. Terminator' = 1 /\ reply'.length = Bytes(call.text)
    BY <1>1, <1>2 DEF Terminator
  <2>2. Suits(call.fn, call.text, Bytes(call.text) + 1)
    BY <1>1, <1>2, TextFacts DEF Suits
  <2> QED BY <1>1, <2>1, <2>2 DEF FirstTells
<1>5. ASSUME call.turn = 2
      PROVE  reply'.whole /\ reply'.rc = "SUCCESS"
  <2>1. Regular
    BY <1>1, Families DEF Regular
  <2>2. call.size > Bytes(call.text)
    BY <1>1, <1>2, <1>5, <2>1 DEF LInv, SecondFits, Suits
  <2>3. CopyCode(call.fn, Bytes(call.text), call.size) = "SUCCESS"
    BY <2>2, TextFacts DEF CopyCode
  <2> QED BY <1>1, <2>2, <2>3
<1> QED BY <1>1, <1>3, <1>4, <1>5 DEF LInv, LengthSuffices

LEMMA UnconvertedTells == IInv /\ LInv /\ Unconverted => LInv'
<1> SUFFICES ASSUME IInv, LInv, Unconverted PROVE LInv'
  OBVIOUS
<1>1. /\ pc' = "done" /\ call' = call /\ call.size = 0
      /\ call.fn \in WideLoud \cup WideSilent
      /\ reply'.length = Bytes(call.text)
  BY DEF Unconverted
<1>2. call.fn \notin WideBytes
  BY <1>1, Families
<1>3. SecondFits' /\ Counted'
  BY <1>1 DEF LInv, SecondFits, Counted, Regular, Suits
<1>4. Terminator' = 1
  BY <1>1, <1>2 DEF Terminator
<1>5. Suits(call.fn, call.text, Bytes(call.text) + 1)
  BY <1>2, TextFacts DEF Suits
<1>6. FirstTells'
  BY <1>1, <1>4, <1>5 DEF FirstTells
\* A buffer that suits is not empty.
<1>7. ~(call.turn = 2 /\ Regular)
  BY <1>1, <1>2, TextFacts DEF LInv, SecondFits, Suits
<1>8. LengthSuffices'
  BY <1>1, <1>7 DEF LengthSuffices, Regular
<1> QED BY <1>3, <1>6, <1>8 DEF LInv

LEMMA WidenTells == IInv /\ LInv /\ Widen => LInv'
<1> SUFFICES ASSUME IInv, LInv, Widen PROVE LInv'
  OBVIOUS
<1>1. /\ pc' = "convert" /\ pos' = 0 /\ total' = 0 /\ call' = call
      /\ call.fn \in Wide
      /\ call.fn \in WideBytes \/ call.size > 0
  BY DEF Widen
<1>2. SecondFits' /\ FirstTells' /\ LengthSuffices'
  BY <1>1 DEF LInv, SecondFits, FirstTells, LengthSuffices, Regular, Suits
<1>3. ASSUME Regular PROVE source' = call.text
  <2>1. CASE call.fn # "SQLDriverConnectW"
    BY <2>1 DEF Widen
  <2>2. CASE call.fn = "SQLDriverConnectW"
    <3> DEFINE n == call.size - 1
    <3>1. call.size > Bytes(call.text)
      <4>1. call.turn = 2
        BY <1>1, <1>3, <2>2, Families, TextFacts DEF Regular
      <4> QED BY <1>3, <2>2, <4>1, Families DEF LInv, SecondFits, Suits
    <3>2. PICK k \in Whole(call.text, n) : source' \in Cut(call.text, k, n)
      BY <2>2 DEF Widen
    <3>3. k = Len(call.text)
      <4>1. k \in 0..Len(call.text)
        BY <3>2 DEF Whole
      <4>2. ASSUME k < Len(call.text) PROVE FALSE
        <5>1. Bytes(SubSeq(call.text, 1, k + 1)) > n
          BY <3>2, <4>2 DEF Whole
        <5>2. k + 1 \in 0..Len(call.text)
          BY <4>1, <4>2, TextFacts
        <5>3. Bytes(SubSeq(call.text, 1, k + 1)) \in 0..Bytes(call.text)
          BY <5>2, Utf8Assumption DEF IInv, TypeOK
        <5> QED BY <3>1, <5>1, <5>3, TextFacts
      <4> QED BY <4>1, <4>2, TextFacts
    <3>4. SubSeq(call.text, 1, k) = call.text
      BY <3>3, TextFacts
    <3>5. Cut(call.text, k, n) = {SubSeq(call.text, 1, k)}
      BY <3>3 DEF Cut
    <3> QED BY <3>2, <3>4, <3>5
  <2> QED BY <2>1, <2>2
<1>4. total' = UnitsUpTo(source', pos')
  BY <1>1, UnitsOfNothing
<1>5. Counted'
  BY <1>1, <1>3, <1>4 DEF Counted, Regular
<1> QED BY <1>2, <1>5 DEF LInv

LEMMA ConvertTells == IInv /\ LInv /\ Convert => LInv'
<1> SUFFICES ASSUME IInv, LInv, Convert PROVE LInv'
  OBVIOUS
<1>1. /\ pc = "convert" /\ pc' = "convert" /\ pos' = pos + 1
      /\ total' = total + Units(source[pos + 1])
      /\ call' = call /\ source' = source /\ pos \in Nat
  BY DEF Convert, IInv, TypeOK
<1>2. SecondFits' /\ FirstTells' /\ LengthSuffices'
  BY <1>1 DEF LInv, SecondFits, FirstTells, LengthSuffices, Regular, Suits
<1>3. Counted'
  BY <1>1, UnitsOfOneMore DEF LInv, Counted, Regular
<1> QED BY <1>2, <1>3 DEF LInv

LEMMA ConvertedTells == IInv /\ LInv /\ Converted => LInv'
<1> SUFFICES ASSUME IInv, LInv, Converted PROVE LInv'
  OBVIOUS
<1> DEFINE need == UnitsUpTo(call.text, Len(call.text))
<1>1. /\ pc = "convert" /\ pos = Len(source) /\ pc' = "done" /\ call' = call
      /\ reply' = [rc |-> ConvertCode, length |-> ConvertLength,
                   whole |-> Capacity > 0 /\ out = call.text]
  BY DEF Converted
<1>2. SecondFits' /\ Counted'
  BY <1>1 DEF LInv, SecondFits, Counted, Regular, Suits
<1>3. ASSUME Regular
      PROVE  /\ source = call.text /\ total = need
             /\ call.fn = "SQLDriverConnectW" => call.turn = 2
  BY <1>1, <1>3, TextFacts, Families DEF LInv, Counted, Regular
<1>4. FirstTells'
  <2> SUFFICES ASSUME call.turn = 1, Regular
               PROVE  Suits(call.fn, call.text, ConvertLength + Terminator)
    BY <1>1 DEF FirstTells, Regular, Suits, Terminator
  <2>1. call.fn \notin Narrow \cup {"SQLDriverConnectW"} /\ total = need
    BY <1>1, <1>3, Families DEF LInv, Counted
  <2> QED BY <2>1, TextFacts DEF Suits, ConvertLength, Terminator
<1>5. ASSUME call.turn = 2, Regular
      PROVE  Capacity > 0 /\ out = call.text /\ ConvertCode = "SUCCESS"
  <2>1. source = call.text /\ total = need
    BY <1>3, <1>5
  <2>2. Suits(call.fn, call.text, call.size)
    BY <1>5 DEF LInv, SecondFits
  <2>3. /\ call.fn \in WideBytes => call.size >= 2 * need + 2
        /\ call.fn \notin WideBytes => call.size > need
    BY <2>2, TextFacts DEF Suits
  <2>4. Capacity \in Nat /\ Capacity > need
    BY <2>3, TextFacts DEF Capacity
  <2>5. ConvertCode = "SUCCESS"
    BY <2>1, <2>3, TextFacts DEF ConvertCode
  <2>6. Complete
    BY <2>1, <2>4, TextFacts DEF IInv, LoopInv, Truncated
  <2>7. out = call.text
    BY <1>1, <2>1, <2>6, TextFacts DEF Complete
  <2> QED BY <2>4, <2>5, <2>7, TextFacts
<1>6. reply'.whole <=> Capacity > 0 /\ out = call.text
  <2> DEFINE all == Capacity > 0 /\ out = call.text
  <2>1. reply' = [rc |-> ConvertCode, length |-> ConvertLength, whole |-> all]
    BY <1>1
  <2> HIDE DEF all
  <2>2. reply'.whole = all
    BY <2>1
  <2> QED BY <2>2, Zenon DEF all
<1>7. reply'.rc = ConvertCode
  BY <1>1
<1>8. LengthSuffices'
  BY <1>1, <1>5, <1>6, <1>7 DEF LengthSuffices, Regular
<1> QED BY <1>2, <1>4, <1>8 DEF LInv

LEMMA AgainTells == IInv /\ LInv /\ Again => LInv'
<1> SUFFICES ASSUME IInv, LInv, Again PROVE LInv'
  OBVIOUS
<1>1. /\ pc = "done" /\ call.turn = 1 /\ pc' = "narrow"
      /\ call' = [fn |-> call.fn, text |-> call.text, size |-> reply.length + Terminator,
                  before |-> call.size, turn |-> 2]
  BY DEF Again
<1>2. SecondFits'
  BY <1>1 DEF LInv, FirstTells, SecondFits, Regular
<1> QED BY <1>1, <1>2 DEF LInv, FirstTells, Counted, LengthSuffices

LEMMA StutterTells == LInv /\ UNCHANGED vars => LInv'
  BY DEF vars, LInv, SecondFits, FirstTells, Counted, LengthSuffices, Regular, Suits, Terminator

\* The length that the first call reports is enough: the second call delivers
\* the whole text and says so (string_utils.cpp:150-215, unicode_wrappers.cpp).
THEOREM SecondCallDelivers == Spec => []LengthSuffices
<1>1. Init => LInv
  BY DEF Init, LInv, SecondFits, FirstTells, Counted, LengthSuffices
<1>2. IInv /\ LInv /\ [Next]_vars => LInv'
  BY CopyTells, UnconvertedTells, WidenTells, ConvertTells, ConvertedTells, AgainTells,
     StutterTells DEF Next, Driver, Done
<1>3. LInv => LengthSuffices
  BY DEF LInv
<1> QED BY Invariance, <1>1, <1>2, <1>3, PTL DEF Spec

=============================================================================
