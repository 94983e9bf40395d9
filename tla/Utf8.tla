--------------------------------- MODULE Utf8 ---------------------------------
(***************************************************************************)
(* The text codecs of the library as operators: one step of decodeUtf8 and *)
(* isScalarValue (src/common/Keyboard.cpp), the UTF-16 encoding the        *)
(* Windows and macOS backends share, and, to judge them by, the Unicode    *)
(* standard's own definition of UTF-8.  Text is a sequence of bytes, of    *)
(* code points or of UTF-16 units.                                         *)
(***************************************************************************)
EXTENDS Naturals, Sequences, SequencesExt

(* isScalarValue: a code point that is not half of a surrogate pair.       *)
Scalar(cp) == cp <= \h10FFFF /\ cp \notin \hD800..\hDFFF

(* The four lead byte patterns, with the bytes that follow and the least   *)
(* value that needs the length.                                            *)
LeadKinds == {[from |->   0, to |-> 127, extra |-> 0, min |-> 0],
              [from |-> 192, to |-> 223, extra |-> 1, min |-> \h80],
              [from |-> 224, to |-> 239, extra |-> 2, min |-> \h800],
              [from |-> 240, to |-> 247, extra |-> 3, min |-> \h10000]}

(* The payload of the lead byte, then six bits of each byte that follows.  *)
Value(bytes, i, kind) ==
  LET cp[k \in 0..kind.extra] ==
        IF k = 0 THEN bytes[i] - kind.from ELSE cp[k - 1] * 64 + (bytes[i + k] % 64)
  IN cp[kind.extra]

(* decodeUtf8 takes the character at i: known lead, not truncated, proper  *)
(* continuation bytes, not overlong, a scalar value.                       *)
(* Mutant: the overlong test is off by one.                                *)
AcceptsAbove(bytes, i, kind) ==
  /\ bytes[i] \in kind.from..kind.to
  /\ i + kind.extra <= Len(bytes)
  /\ \A k \in 1..kind.extra : bytes[i + k] \in 128..191
  /\ kind.min < Value(bytes, i, kind)
  /\ Scalar(Value(bytes, i, kind))
Accepts(bytes, i, kind) ==
  /\ bytes[i] \in kind.from..kind.to
  /\ i + kind.extra <= Len(bytes)
  /\ \A k \in 1..kind.extra : bytes[i + k] \in 128..191
  /\ kind.min <= Value(bytes, i, kind)
  /\ Scalar(Value(bytes, i, kind))

(* One or two UTF-16 units.                                                *)
(* Mutant: the offset is not taken off.                                    *)
Utf16NoOffset(cp) ==
  IF cp <= \hFFFF
  THEN <<cp>>
  ELSE <<\hD800 + (cp \div 1024), \hDC00 + (cp % 1024)>>
Utf16(cp) ==
  IF cp <= \hFFFF
  THEN <<cp>>
  ELSE <<\hD800 + ((cp - \h10000) \div 1024), \hDC00 + ((cp - \h10000) % 1024)>>

-----------------------------------------------------------------------------
(* What the codecs are judged by: the tables of the Unicode standard, 3-7  *)
(* with the well-formed byte sequences, 3-6 and 3-5 with the bits of UTF-8 *)
(* and of UTF-16.                                                          *)
Trail == 128..191

Table37 == {<<0..127>>,
            <<194..223, Trail>>,
            <<{224}, 160..191, Trail>>,
            <<225..236 \union {238, 239}, Trail, Trail>>,
            <<{237}, 128..159, Trail>>,
            <<{240}, 144..191, Trail, Trail>>,
            <<241..243, Trail, Trail, Trail>>,
            <<{244}, 128..143, Trail, Trail>>}

WellFormedAt(bytes, i) ==
  \E row \in Table37 :
    /\ i + Len(row) - 1 <= Len(bytes)
    /\ \A k \in 1..Len(row) : bytes[i + k - 1] \in row[k]

Encode(cp) ==
  IF cp < \h80 THEN <<cp>>
  ELSE IF cp < \h800 THEN <<192 + (cp \div 64), 128 + (cp % 64)>>
  ELSE IF cp < \h10000
  THEN <<224 + (cp \div 4096), 128 + ((cp \div 64) % 64), 128 + (cp % 64)>>
  ELSE <<240 + (cp \div 262144), 128 + ((cp \div 4096) % 64),
         128 + ((cp \div 64) % 64), 128 + (cp % 64)>>

Units16(cp) ==
  IF cp < \h10000
  THEN <<cp>>
  ELSE LET wwww == (cp \div \h10000) - 1
       IN <<\hD800 + wwww * 64 + ((cp % \h10000) \div 1024), \hDC00 + (cp % 1024)>>

(* The bytes and the units of a whole text.                                *)
EncodeAll(cps) == FlattenSeq([k \in 1..Len(cps) |-> Encode(cps[k])])
Units16All(cps) == FlattenSeq([k \in 1..Len(cps) |-> Units16(cps[k])])
==============================================================================
