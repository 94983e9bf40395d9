----------------------------- MODULE TypingProofs -----------------------------
(***************************************************************************)
(* Proofs about Typing, for every set of sessions and every text.  First   *)
(* the codecs: decodeUtf8 and the UTF-16 encoding are the Unicode          *)
(* standard's (DecoderExact, Utf16IsUnits16).  Then what each call keeps,  *)
(* record by record (CallInv): a text goes out whole or not at all.  Then  *)
(* the units that are down, each owed by a call (UnitsOwed).  Last, one    *)
(* session at a time, what has arrived and what is on its way at each step *)
(* (OneAtATime): what was reported as typed is shown, and the keyboard is  *)
(* left as it was found.                                                   *)
(***************************************************************************)
EXTENDS Typing, SequenceTheorems, WellFoundedInduction, TLAPS

(* A set of naturals has a least: induction without an operator parameter. *)
LEMMA LeastNat ==
  ASSUME NEW T \in SUBSET Nat, T # {}
  PROVE  \E x \in T : \A y \in T : x <= y
<1> DEFINE R == {ss \in Nat \X Nat : ss[1] < ss[2]}
<1>1. IsWellFoundedOn(R, Nat)
  BY NatLessThanWellFounded DEF OpToRel
<1> HIDE DEF R
<1>2. \E x \in T : \A y \in T : ~(<<y, x>> \in R)
  BY <1>1, WFMin
<1>3. \A x, y \in Nat : ~(<<y, x>> \in R) => x <= y
  BY DEF R
<1> QED BY <1>2, <1>3

(* The recursive function inside FlattenSeq, on the first n sequences. *)
Flattens(f, s, n) ==
  f = [i \in 1..n |-> IF i = 1 THEN s[i] ELSE f[i - 1] \o s[i]]

(* Its value at one place. *)
LEMMA FlattensAt ==
  ASSUME NEW s, NEW n, NEW f, Flattens(f, s, n), NEW i \in 1..n
  PROVE  f[i] = IF i = 1 THEN s[i] ELSE f[i - 1] \o s[i]
<1> DEFINE F == [j \in 1..n |-> IF j = 1 THEN s[j] ELSE f[j - 1] \o s[j]]
<1>1. f = F
  BY Zenon DEF Flattens
<1>2. F[i] = IF i = 1 THEN s[i] ELSE f[i - 1] \o s[i]
  OBVIOUS
<1> HIDE DEF F
<1> QED BY <1>1, <1>2

(* There is one: the least n without it would follow one with it. *)
LEMMA FlattensExists ==
  ASSUME NEW s, NEW n \in Nat
  PROVE  \E f : Flattens(f, s, n)
<1> DEFINE T == {m \in Nat : ~ \E f : Flattens(f, s, m)}
<1> SUFFICES ASSUME T # {} PROVE FALSE
  OBVIOUS
<1>1. PICK m \in T : \A k \in T : m <= k
  <2> HIDE DEF T
  <2>1. T \in SUBSET Nat BY DEF T
  <2> QED BY <2>1, LeastNat
<1>2. CASE m = 0
  <2>1. Flattens([i \in 1..0 |-> 0], s, 0)
    BY DEF Flattens
  <2> QED BY <1>2, <2>1
<1>3. CASE m # 0
  <2>1. m - 1 \in Nat /\ m - 1 \notin T
    BY <1>1, <1>3
  <2>2. PICK f : Flattens(f, s, m - 1)
    BY <2>1
  <2> DEFINE g == [i \in 1..m |-> IF i = 1 THEN s[i] ELSE f[i - 1] \o s[i]]
  <2>3. \A i \in 1..(m - 1) : f[i] = IF i = 1 THEN s[i] ELSE f[i - 1] \o s[i]
    BY <2>2, FlattensAt
  <2>4. \A i \in 1..(m - 1) : g[i] = f[i]
    BY <2>3, <1>3
  <2>5. \A i \in 1..m : i # 1 => i - 1 \in 1..(m - 1)
    BY <1>1
  <2>6. g = [i \in 1..m |-> IF i = 1 THEN s[i] ELSE g[i - 1] \o s[i]]
    BY <2>4, <2>5
  <2>7. Flattens(g, s, m)
    BY <2>6 DEF Flattens
  <2> QED BY <2>7
<1> QED BY <1>2, <1>3

AgreeTo(s, t, n) == \A i \in 1..n : s[i] = t[i]

(* Its values do not depend on how far it goes. *)
LEMMA FlattensAgree ==
  ASSUME NEW s, NEW t, NEW n \in Nat, NEW m \in Nat, n <= m,
         AgreeTo(s, t, n),
         NEW f, Flattens(f, s, n), NEW g, Flattens(g, t, m),
         NEW k \in 1..n
  PROVE  f[k] = g[k]
<1> DEFINE T == {i \in 1..n : f[i] # g[i]}
<1> SUFFICES ASSUME T # {} PROVE FALSE
  OBVIOUS
<1>1. PICK i \in T : \A j \in T : i <= j
  <2> HIDE DEF T
  <2>1. T \in SUBSET Nat BY DEF T
  <2> QED BY <2>1, LeastNat
<1>2. /\ f[i] = IF i = 1 THEN s[i] ELSE f[i - 1] \o s[i]
      /\ g[i] = IF i = 1 THEN t[i] ELSE g[i - 1] \o t[i]
  BY <1>1, FlattensAt
<1>3. i # 1 => f[i - 1] = g[i - 1]
  BY <1>1
<1>4. s[i] = t[i]
  BY DEF AgreeTo
<1> QED BY <1>1, <1>2, <1>3, <1>4

(* And they are sequences of what the sequences hold. *)
LEMMA FlattensSeq ==
  ASSUME NEW S, NEW s \in Seq(Seq(S)), NEW f, Flattens(f, s, Len(s)), NEW k \in 1..Len(s)
  PROVE  f[k] \in Seq(S)
<1> DEFINE T == {i \in 1..Len(s) : f[i] \notin Seq(S)}
<1> SUFFICES ASSUME T # {} PROVE FALSE
  OBVIOUS
<1>1. PICK i \in T : \A j \in T : i <= j
  <2> HIDE DEF T
  <2>1. T \in SUBSET Nat BY DEF T
  <2> QED BY <2>1, LeastNat
<1>2. f[i] = IF i = 1 THEN s[i] ELSE f[i - 1] \o s[i]
  BY <1>1, FlattensAt
<1>3. i # 1 => f[i - 1] \in Seq(S)
  BY <1>1
<1>4. s[i] \in Seq(S)
  BY <1>1
<1>5. i # 1 => f[i - 1] \o s[i] \in Seq(S)
  BY <1>3, <1>4, ConcatProperties
<1> QED BY <1>1, <1>2, <1>4, <1>5

(* FlattenSeq is its last value. *)
LEMMA FlattenIs ==
  ASSUME NEW S, NEW s \in Seq(Seq(S)), Len(s) # 0
  PROVE  \E f : Flattens(f, s, Len(s)) /\ FlattenSeq(s) = f[Len(s)]
<1> DEFINE c == CHOOSE f : f = [i \in 1..Len(s) |-> IF i = 1 THEN s[i] ELSE f[i - 1] \o s[i]]
<1>1. FlattenSeq(s) = c[Len(s)]
  BY DEF FlattenSeq
<1>2. \E f : f = [i \in 1..Len(s) |-> IF i = 1 THEN s[i] ELSE f[i - 1] \o s[i]]
  <2>1. PICK f : Flattens(f, s, Len(s))
    BY FlattensExists, LenProperties
  <2> QED BY Zenon, <2>1 DEF Flattens
<1>3. Flattens(c, s, Len(s))
  BY <1>2 DEF Flattens
<1> HIDE DEF c
<1> QED BY <1>1, <1>3

(* Nothing flattens to nothing. *)
LEMMA FlattenEmpty == FlattenSeq(<<>>) = <<>>
BY DEF FlattenSeq

(* Flattened sequences hold what the sequences hold. *)
LEMMA FlattenType ==
  ASSUME NEW S, NEW s \in Seq(Seq(S))
  PROVE  FlattenSeq(s) \in Seq(S)
<1>1. CASE Len(s) = 0
  BY <1>1, EmptySeq DEF FlattenSeq
<1>2. CASE Len(s) # 0
  <2>1. PICK f : Flattens(f, s, Len(s)) /\ FlattenSeq(s) = f[Len(s)]
    BY <1>2, FlattenIs
  <2>2. Len(s) \in 1..Len(s)
    BY <1>2
  <2> QED BY <2>1, <2>2, FlattensSeq
<1> QED BY <1>1, <1>2

(* One sequence more is appended. *)
LEMMA FlattenAppend ==
  ASSUME NEW S, NEW s \in Seq(Seq(S)), NEW x \in Seq(S)
  PROVE  FlattenSeq(Append(s, x)) = FlattenSeq(s) \o x
<1> DEFINE t == Append(s, x)
<1>1. t \in Seq(Seq(S)) /\ Len(t) = Len(s) + 1 /\ t[Len(t)] = x
      /\ \A i \in 1..Len(s) : s[i] = t[i]
  BY AppendProperties
<1> HIDE DEF t
<1>2. PICK g : Flattens(g, t, Len(t)) /\ FlattenSeq(t) = g[Len(t)]
  BY <1>1, FlattenIs
<1>3. g[Len(t)] = IF Len(t) = 1 THEN x ELSE g[Len(t) - 1] \o x
  <2>1. Len(t) \in 1..Len(t)
    BY <1>1
  <2> QED BY <1>1, <1>2, <2>1, FlattensAt
<1>4. CASE Len(s) = 0
  <2>1. FlattenSeq(s) = <<>>
    BY <1>4, EmptySeq DEF FlattenSeq
  <2> QED BY <2>1, <1>1, <1>2, <1>3, <1>4, ConcatEmptySeq DEF t
<1>5. CASE Len(s) # 0
  <2>1. PICK f : Flattens(f, s, Len(s)) /\ FlattenSeq(s) = f[Len(s)]
    BY <1>5, FlattenIs
  <2>2. Len(s) \in 1..Len(s) /\ Len(s) \in Nat /\ Len(t) \in Nat /\ Len(s) <= Len(t)
    BY <1>5, <1>1
  <2>3. f[Len(s)] = g[Len(s)]
    <3> DEFINE n == Len(s)
               m == Len(t)
    <3>1. Flattens(f, s, n) /\ Flattens(g, t, m)
      BY <2>1, <1>2
    <3>2. AgreeTo(s, t, n)
      BY <1>1 DEF AgreeTo
    <3>3. n \in 1..n /\ n \in Nat /\ m \in Nat /\ n <= m
      BY <2>2
    <3> HIDE DEF n, m
    <3>4. f[n] = g[n]
      BY <3>1, <3>2, <3>3, FlattensAgree
    <3> QED BY <3>4 DEF n
  <2> QED BY <2>1, <2>3, <1>1, <1>2, <1>3, <1>5 DEF t
<1> QED BY <1>4, <1>5

-----------------------------------------------------------------------------
Reads(f, bytes, i, kind) ==
  f = [k \in 0..kind.extra |->
         IF k = 0 THEN bytes[i] - kind.from ELSE f[k - 1] * 64 + (bytes[i + k] % 64)]

(* There is one: at most three bytes follow. *)
LEMMA ReadsExists ==
  ASSUME NEW bytes, NEW i, NEW kind, kind.extra \in 0..3
  PROVE  \E f : Reads(f, bytes, i, kind)
<1> DEFINE n == kind.extra
           v0 == bytes[i] - kind.from
           v1 == v0 * 64 + (bytes[i + 1] % 64)
           v2 == v1 * 64 + (bytes[i + 2] % 64)
           v3 == v2 * 64 + (bytes[i + 3] % 64)
           f == [k \in 0..n |->
                   IF k = 0 THEN v0 ELSE IF k = 1 THEN v1 ELSE IF k = 2 THEN v2 ELSE v3]
           g == [k \in 0..n |->
                   IF k = 0 THEN v0 ELSE f[k - 1] * 64 + (bytes[i + k] % 64)]
<1>1. \A k \in 0..n : f[k] = g[k]
  <2> TAKE k \in 0..n
  <2>1. k \in 0..3 /\ (k # 0 => k - 1 \in 0..n)
    OBVIOUS
  <2> HIDE DEF v0, v1, v2, v3
  <2>2. CASE k = 0
    BY <2>2
  <2>3. CASE k = 1
    BY <2>1, <2>3 DEF v1
  <2>4. CASE k = 2
    BY <2>1, <2>4 DEF v2
  <2>5. CASE k = 3
    BY <2>1, <2>5 DEF v3
  <2> QED BY <2>1, <2>2, <2>3, <2>4, <2>5
<1>2. f = g
  <2> HIDE DEF v0, v1, v2, v3
  <2> HIDE DEF n
  <2> QED BY <1>1
<1>3. Reads(f, bytes, i, kind)
  <2> HIDE DEF f
  <2> QED BY <1>2 DEF Reads
<1> QED BY <1>3

(* Its values, unrolled. *)
LEMMA ReadsAt ==
  ASSUME NEW bytes, NEW i, NEW kind, NEW f, Reads(f, bytes, i, kind),
         NEW k \in 0..kind.extra
  PROVE  f[k] = IF k = 0 THEN bytes[i] - kind.from
                ELSE f[k - 1] * 64 + (bytes[i + k] % 64)
<1> DEFINE F == [j \in 0..kind.extra |->
                   IF j = 0 THEN bytes[i] - kind.from
                   ELSE f[j - 1] * 64 + (bytes[i + j] % 64)]
<1>1. f = F
  BY Zenon DEF Reads
<1>2. F[k] = IF k = 0 THEN bytes[i] - kind.from
             ELSE f[k - 1] * 64 + (bytes[i + k] % 64)
  BY Zenon
<1> HIDE DEF F
<1> QED BY <1>1, <1>2

(* Value is its last value. *)
LEMMA ValueIs ==
  ASSUME NEW bytes, NEW i, NEW kind, kind.extra \in 0..3
  PROVE  \E f : Reads(f, bytes, i, kind) /\ Value(bytes, i, kind) = f[kind.extra]
<1> DEFINE c == CHOOSE f : f = [k \in 0..kind.extra |->
                  IF k = 0 THEN bytes[i] - kind.from
                  ELSE f[k - 1] * 64 + (bytes[i + k] % 64)]
<1>1. Value(bytes, i, kind) = c[kind.extra]
  BY DEF Value
<1>2. \E f : Reads(f, bytes, i, kind)
  BY ReadsExists
<1>3. Reads(c, bytes, i, kind)
  BY Zenon, <1>2 DEF Reads
<1> HIDE DEF c
<1> QED BY <1>1, <1>3

(* Value, unrolled for each length. *)
LEMMA ValueBy ==
  ASSUME NEW bytes, NEW i, NEW kind
  PROVE  LET v0 == bytes[i] - kind.from
             v1 == v0 * 64 + (bytes[i + 1] % 64)
             v2 == v1 * 64 + (bytes[i + 2] % 64)
             v3 == v2 * 64 + (bytes[i + 3] % 64)
         IN /\ kind.extra = 0 => Value(bytes, i, kind) = v0
            /\ kind.extra = 1 => Value(bytes, i, kind) = v1
            /\ kind.extra = 2 => Value(bytes, i, kind) = v2
            /\ kind.extra = 3 => Value(bytes, i, kind) = v3
<1>1. CASE kind.extra \in 0..3
  <2>1. PICK f : Reads(f, bytes, i, kind) /\ Value(bytes, i, kind) = f[kind.extra]
    BY <1>1, ValueIs
  <2>2. \A k \in 0..kind.extra :
           f[k] = IF k = 0 THEN bytes[i] - kind.from
                  ELSE f[k - 1] * 64 + (bytes[i + k] % 64)
    BY <2>1, ReadsAt
  <2>3. f[0] = bytes[i] - kind.from
    BY <1>1, <2>2
  <2>4. kind.extra >= 1 => f[1] = f[0] * 64 + (bytes[i + 1] % 64)
    BY <1>1, <2>2
  <2>5. kind.extra >= 2 => f[2] = f[1] * 64 + (bytes[i + 2] % 64)
    BY <1>1, <2>2
  <2>6. kind.extra >= 3 => f[3] = f[2] * 64 + (bytes[i + 3] % 64)
    BY <1>1, <2>2
  <2> QED BY <2>1, <2>3, <2>4, <2>5, <2>6
<1>2. CASE kind.extra \notin 0..3
  BY <1>2
<1> QED BY <1>1, <1>2

(* The four kinds of character and, of each, the lead bytes of its pattern, *)
(* its value, and what the standard asks of its lead and second byte.       *)
Kind1 == [from |->   0, to |-> 127, extra |-> 0, min |-> 0]
Kind2 == [from |-> 192, to |-> 223, extra |-> 1, min |-> \h80]
Kind3 == [from |-> 224, to |-> 239, extra |-> 2, min |-> \h800]
Kind4 == [from |-> 240, to |-> 247, extra |-> 3, min |-> \h10000]

Lead1 == 0..127
Lead2 == 192..223
Lead3 == 224..239
Lead4 == 240..247

Joined1(b0) == b0 - 0
Joined2(b0, b1) == (b0 - 192) * 64 + (b1 % 64)
Joined3(b0, b1, b2) == ((b0 - 224) * 64 + (b1 % 64)) * 64 + (b2 % 64)
Joined4(b0, b1, b2, b3) ==
  (((b0 - 240) * 64 + (b1 % 64)) * 64 + (b2 % 64)) * 64 + (b3 % 64)

Proper1(b0) == b0 \in 0..127
Proper2(b0, b1) == b0 \in 194..223 /\ b1 \in Trail
Proper3(b0, b1) ==
  \/ b0 \in {224} /\ b1 \in 160..191
  \/ b0 \in 225..236 \union {238, 239} /\ b1 \in Trail
  \/ b0 \in {237} /\ b1 \in 128..159
Proper4(b0, b1) ==
  \/ b0 \in {240} /\ b1 \in 144..191
  \/ b0 \in 241..243 /\ b1 \in Trail
  \/ b0 \in {244} /\ b1 \in 128..143

(* The encoding of a character of one byte. *)
LEMMA Encode1 ==
  ASSUME NEW cp \in Nat, cp < 128
  PROVE  Encode(cp) = <<cp>>
BY SMT DEF Encode

(* The encoding of a character of two bytes. *)
LEMMA Encode2 ==
  ASSUME NEW cp \in Nat, 128 <= cp, cp < 2048
  PROVE  Encode(cp) = <<192 + (cp \div 64), 128 + (cp % 64)>>
BY SMT DEF Encode

(* The encoding of a character of three bytes. *)
LEMMA Encode3 ==
  ASSUME NEW cp \in Nat, 2048 <= cp, cp < 65536
  PROVE  Encode(cp) = <<224 + (cp \div 4096), 128 + ((cp \div 64) % 64), 128 + (cp % 64)>>
BY SMT DEF Encode

(* The encoding of a character of four bytes. *)
LEMMA Encode4 ==
  ASSUME NEW cp \in Nat, 65536 <= cp
  PROVE  Encode(cp) = <<240 + (cp \div 262144), 128 + ((cp \div 4096) % 64),
                     128 + ((cp \div 64) % 64), 128 + (cp % 64)>>
BY SMT DEF Encode

(* The bytes of a one-byte character have the value that is encoded by them, *)
(* when it needs so many; the standard's limits say just when it does and is *)
(* a scalar value.                                                           *)
LEMMA OneByte ==
  ASSUME NEW b0 \in Lead1
  PROVE  /\ Joined1(b0) \in Nat
         /\ Kind1.min <= Joined1(b0) => Encode(Joined1(b0)) = <<b0>>
         /\ Kind1.min <= Joined1(b0) /\ Scalar(Joined1(b0)) <=> Proper1(b0)
<1> DEFINE v == Joined1(b0)
<1>1. b0 \in Nat /\ 0 <= b0 /\ b0 <= 127
  BY SMT DEF Lead1
<1>2. v \in Nat /\ v = b0
  BY <1>1, SMT DEF Joined1
<1> HIDE DEF v
<1>3. Kind1.min <= v <=> 0 <= v
  BY DEF Kind1
<1>4. Kind1.min <= v => Encode(v) = <<b0>>
  BY <1>1, <1>2, <1>3, Encode1
<1>5. Scalar(v) <=> v <= 1114111 /\ ~(55296 <= v /\ v <= 57343)
  BY <1>2, SMT DEF Scalar
<1>6. 0 <= v /\ v <= 1114111 /\ ~(55296 <= v /\ v <= 57343) <=> Proper1(b0)
  BY <1>1, <1>2, SMT DEF Proper1
<1> QED BY <1>2, <1>3, <1>4, <1>5, <1>6 DEF v

(* The bytes of a two-byte character have the value that is encoded by them, *)
(* when it needs so many; the standard's limits say just when it does and is *)
(* a scalar value.                                                           *)
LEMMA TwoByte ==
  ASSUME NEW b0 \in Lead2, NEW b1 \in Trail
  PROVE  /\ Joined2(b0, b1) \in Nat
         /\ Kind2.min <= Joined2(b0, b1) => Encode(Joined2(b0, b1)) = <<b0, b1>>
         /\ Kind2.min <= Joined2(b0, b1) /\ Scalar(Joined2(b0, b1)) <=> Proper2(b0, b1)
<1> DEFINE v == Joined2(b0, b1)
<1>1. b0 \in Nat /\ 192 <= b0 /\ b0 <= 223
  BY SMT DEF Lead2
<1>2. b1 \in Nat /\ 128 <= b1 /\ b1 <= 191
  BY SMT DEF Trail
<1>3. /\ v \in Nat /\ v < 2048
      /\ 192 + (v \div 64) = b0 /\ 128 + (v % 64) = b1
      /\ 128 <= v <=> 194 <= b0
  BY <1>1, <1>2, SMT DEF Joined2
<1> HIDE DEF v
<1>4. Kind2.min <= v <=> 128 <= v
  BY DEF Kind2
<1>5. Kind2.min <= v => Encode(v) = <<b0, b1>>
  BY <1>1, <1>3, <1>4, Encode2
<1>6. Scalar(v) <=> v <= 1114111 /\ ~(55296 <= v /\ v <= 57343)
  BY <1>3, SMT DEF Scalar
<1>7. 128 <= v /\ v <= 1114111 /\ ~(55296 <= v /\ v <= 57343) <=> Proper2(b0, b1)
  BY <1>1, <1>2, <1>3, SMT DEF Proper2, Trail
<1> QED BY <1>3, <1>4, <1>5, <1>6, <1>7 DEF v

(* The bytes of a three-byte character have the value that is encoded by them, *)
(* when it needs so many; the standard's limits say just when it does and is *)
(* a scalar value.                                                           *)
LEMMA ThreeByte ==
  ASSUME NEW b0 \in Lead3, NEW b1 \in Trail, NEW b2 \in Trail
  PROVE  /\ Joined3(b0, b1, b2) \in Nat
         /\ Kind3.min <= Joined3(b0, b1, b2) => Encode(Joined3(b0, b1, b2)) = <<b0, b1, b2>>
         /\ Kind3.min <= Joined3(b0, b1, b2) /\ Scalar(Joined3(b0, b1, b2)) <=> Proper3(b0, b1)
<1> DEFINE v == Joined3(b0, b1, b2)
<1>1. b0 \in Nat /\ 224 <= b0 /\ b0 <= 239
  BY SMT DEF Lead3
<1>2. b1 \in Nat /\ 128 <= b1 /\ b1 <= 191
  BY SMT DEF Trail
<1>3. b2 \in Nat /\ 128 <= b2 /\ b2 <= 191
  BY SMT DEF Trail
<1>4. /\ v \in Nat /\ v < 65536
      /\ 224 + (v \div 4096) = b0
      /\ 128 + ((v \div 64) % 64) = b1 /\ 128 + (v % 64) = b2
      /\ 2048 <= v <=> 225 <= b0 \/ 160 <= b1
      /\ 55296 <= v /\ v <= 57343 <=> b0 = 237 /\ 160 <= b1
  BY <1>1, <1>2, <1>3, SMT DEF Joined3
<1> HIDE DEF v
<1>5. Kind3.min <= v <=> 2048 <= v
  BY DEF Kind3
<1>6. Kind3.min <= v => Encode(v) = <<b0, b1, b2>>
  BY <1>1, <1>4, <1>5, Encode3
<1>7. Scalar(v) <=> v <= 1114111 /\ ~(55296 <= v /\ v <= 57343)
  BY <1>4, SMT DEF Scalar
<1>8. 2048 <= v /\ v <= 1114111 /\ ~(55296 <= v /\ v <= 57343) <=> Proper3(b0, b1)
  BY <1>1, <1>2, <1>3, <1>4, SMT DEF Proper3, Trail
<1> QED BY <1>4, <1>5, <1>6, <1>7, <1>8 DEF v

(* The bytes of a four-byte character have the value that is encoded by them, *)
(* when it needs so many; the standard's limits say just when it does and is *)
(* a scalar value.                                                           *)
LEMMA FourByte ==
  ASSUME NEW b0 \in Lead4, NEW b1 \in Trail, NEW b2 \in Trail, NEW b3 \in Trail
  PROVE  /\ Joined4(b0, b1, b2, b3) \in Nat
         /\ Kind4.min <= Joined4(b0, b1, b2, b3) =>
              Encode(Joined4(b0, b1, b2, b3)) = <<b0, b1, b2, b3>>
         /\ Kind4.min <= Joined4(b0, b1, b2, b3) /\ Scalar(Joined4(b0, b1, b2, b3)) <=>
              Proper4(b0, b1)
<1> DEFINE v == Joined4(b0, b1, b2, b3)
<1>1. b0 \in Nat /\ 240 <= b0 /\ b0 <= 247
  BY SMT DEF Lead4
<1>2. b1 \in Nat /\ 128 <= b1 /\ b1 <= 191
  BY SMT DEF Trail
<1>3. b2 \in Nat /\ 128 <= b2 /\ b2 <= 191
  BY SMT DEF Trail
<1>4. b3 \in Nat /\ 128 <= b3 /\ b3 <= 191
  BY SMT DEF Trail
<1>5. /\ v \in Nat
      /\ 240 + (v \div 262144) = b0 /\ 128 + ((v \div 4096) % 64) = b1
      /\ 128 + ((v \div 64) % 64) = b2 /\ 128 + (v % 64) = b3
      /\ 65536 <= v <=> 241 <= b0 \/ 144 <= b1
      /\ v <= 1114111 <=> b0 < 244 \/ (b0 = 244 /\ b1 <= 143)
  BY <1>1, <1>2, <1>3, <1>4, SMT DEF Joined4
<1> HIDE DEF v
<1>6. Kind4.min <= v <=> 65536 <= v
  BY DEF Kind4
<1>7. Kind4.min <= v => Encode(v) = <<b0, b1, b2, b3>>
  BY <1>1, <1>5, <1>6, Encode4
<1>8. Scalar(v) <=> v <= 1114111 /\ ~(55296 <= v /\ v <= 57343)
  BY <1>5, SMT DEF Scalar
<1>9. 65536 <= v /\ v <= 1114111 /\ ~(55296 <= v /\ v <= 57343) <=> Proper4(b0, b1)
  BY <1>1, <1>2, <1>3, <1>4, <1>5, SMT DEF Proper4, Trail
<1> QED BY <1>5, <1>6, <1>7, <1>8, <1>9 DEF v

(* One element of a sequence, one by one. *)
LEMMA Cut1 ==
  ASSUME NEW S, NEW s \in Seq(S), NEW i \in Nat, 1 <= i, i + 0 <= Len(s)
  PROVE  SubSeq(s, i, i + 0) = <<s[i]>>
<1> DEFINE t == SubSeq(s, i, i + 0)
<1>1. t \in Seq(S) /\ Len(t) = 1
  BY SMT
<1>2. t[1] = s[i]
  BY SMT
<1> HIDE DEF t
<1>3. t = <<t[1]>>
  BY <1>1, SMT
<1> QED BY <1>2, <1>3 DEF t

(* Two elements of a sequence, one by one. *)
LEMMA Cut2 ==
  ASSUME NEW S, NEW s \in Seq(S), NEW i \in Nat, 1 <= i, i + 1 <= Len(s)
  PROVE  SubSeq(s, i, i + 1) = <<s[i], s[i + 1]>>
<1> DEFINE t == SubSeq(s, i, i + 1)
<1>1. t \in Seq(S) /\ Len(t) = 2
  BY SMT
<1>2. t[1] = s[i] /\ t[2] = s[i + 1]
  BY SMT
<1> HIDE DEF t
<1>3. t = <<t[1], t[2]>>
  BY <1>1, SMT
<1> QED BY <1>2, <1>3 DEF t

(* Three elements of a sequence, one by one. *)
LEMMA Cut3 ==
  ASSUME NEW S, NEW s \in Seq(S), NEW i \in Nat, 1 <= i, i + 2 <= Len(s)
  PROVE  SubSeq(s, i, i + 2) = <<s[i], s[i + 1], s[i + 2]>>
<1> DEFINE t == SubSeq(s, i, i + 2)
<1>1. t \in Seq(S) /\ Len(t) = 3
  BY SMT
<1>2. t[1] = s[i] /\ t[2] = s[i + 1] /\ t[3] = s[i + 2]
  BY SMT
<1> HIDE DEF t
<1>3. t = <<t[1], t[2], t[3]>>
  BY <1>1, SMT
<1> QED BY <1>2, <1>3 DEF t

(* Four elements of a sequence, one by one. *)
LEMMA Cut4 ==
  ASSUME NEW S, NEW s \in Seq(S), NEW i \in Nat, 1 <= i, i + 3 <= Len(s)
  PROVE  SubSeq(s, i, i + 3) = <<s[i], s[i + 1], s[i + 2], s[i + 3]>>
<1> DEFINE t == SubSeq(s, i, i + 3)
<1>1. t \in Seq(S) /\ Len(t) = 4
  BY SMT
<1>2. t[1] = s[i] /\ t[2] = s[i + 1] /\ t[3] = s[i + 2] /\ t[4] = s[i + 3]
  BY SMT
<1> HIDE DEF t
<1>3. t = <<t[1], t[2], t[3], t[4]>>
  BY <1>1, SMT
<1> QED BY <1>2, <1>3 DEF t

(* What it means that the decoder was right to take a character. *)
TakenRight(bytes, i, kind) ==
  LET v == Value(bytes, i, kind)
  IN /\ v \in Nat /\ Scalar(v)
     /\ kind.extra \in 0..3 /\ i + kind.extra <= Len(bytes)
     /\ Encode(v) = SubSeq(bytes, i, i + kind.extra)

(* decodeUtf8 takes a character of one byte when there is one, and rightly. *)
LEMMA AcceptsOne ==
  ASSUME NEW S, NEW bytes \in Seq(S), NEW i \in Nat, 1 <= i, i <= Len(bytes)
  PROVE  /\ Accepts(bytes, i, Kind1) <=> 
                /\ i + 0 <= Len(bytes)
                /\ Proper1(bytes[i])
         /\ Accepts(bytes, i, Kind1) => TakenRight(bytes, i, Kind1)
<1> DEFINE v == Value(bytes, i, Kind1)
           shaped == i + 0 <= Len(bytes) /\ bytes[i] \in Lead1
<1>1. /\ Len(bytes) \in Nat /\ Kind1.extra = 0 /\ 0 \in 0..3
      /\ 1..Kind1.extra = {}
  BY LenProperties DEF Kind1
<1>2. v = Joined1(bytes[i])
  BY ValueBy DEF Joined1, Kind1
<1> HIDE DEF v
<1>3. Accepts(bytes, i, Kind1) <=> shaped /\ Kind1.min <= v /\ Scalar(v)
  <2>1. bytes[i] \in Kind1.from..Kind1.to <=> bytes[i] \in Lead1
    BY DEF Lead1, Kind1
  <2>2. (\A k \in 1..Kind1.extra : bytes[i + k] \in 128..191) <=> TRUE
    BY <1>1 DEF Trail
  <2> QED BY <1>1, <2>1, <2>2 DEF Accepts, v
<1>4. i + 0 <= Len(bytes) /\ Proper1(bytes[i]) => shaped
  BY SMT DEF Proper1, Lead1, Trail
<1>5. ASSUME shaped
      PROVE  /\ v \in Nat
             /\ Kind1.min <= v => Encode(v) = <<bytes[i]>>
             /\ Kind1.min <= v /\ Scalar(v) <=> Proper1(bytes[i])
  BY <1>2, <1>5, OneByte
<1>6. shaped => SubSeq(bytes, i, i + 0) = <<bytes[i]>>
  BY Cut1
<1> HIDE DEF shaped
<1>7. Accepts(bytes, i, Kind1) => TakenRight(bytes, i, Kind1)
  <2> SUFFICES ASSUME Accepts(bytes, i, Kind1)
               PROVE  TakenRight(bytes, i, Kind1)
    OBVIOUS
  <2>1. v \in Nat /\ Scalar(v) /\ Encode(v) = SubSeq(bytes, i, i + Kind1.extra)
    BY <1>1, <1>3, <1>5, <1>6
  <2>2. i + Kind1.extra <= Len(bytes)
    BY <1>1, <1>3 DEF shaped
  <2> QED BY <1>1, <2>1, <2>2 DEF TakenRight, v
<1> QED BY <1>3, <1>4, <1>5, <1>7 DEF shaped

(* decodeUtf8 takes a character of two bytes when there is one, and rightly. *)
LEMMA AcceptsTwo ==
  ASSUME NEW S, NEW bytes \in Seq(S), NEW i \in Nat, 1 <= i, i <= Len(bytes)
  PROVE  /\ Accepts(bytes, i, Kind2) <=> 
                /\ i + 1 <= Len(bytes)
                /\ Proper2(bytes[i], bytes[i + 1])
         /\ Accepts(bytes, i, Kind2) => TakenRight(bytes, i, Kind2)
<1> DEFINE v == Value(bytes, i, Kind2)
           shaped == i + 1 <= Len(bytes) /\ bytes[i] \in Lead2 /\ bytes[i + 1] \in Trail
<1>1. /\ Len(bytes) \in Nat /\ Kind2.extra = 1 /\ 1 \in 0..3
      /\ 1..Kind2.extra = {1}
  BY LenProperties DEF Kind2
<1>2. v = Joined2(bytes[i], bytes[i + 1])
  BY ValueBy DEF Joined2, Kind2
<1> HIDE DEF v
<1>3. Accepts(bytes, i, Kind2) <=> shaped /\ Kind2.min <= v /\ Scalar(v)
  <2>1. bytes[i] \in Kind2.from..Kind2.to <=> bytes[i] \in Lead2
    BY DEF Lead2, Kind2
  <2>2. (\A k \in 1..Kind2.extra : bytes[i + k] \in 128..191) <=>
          bytes[i + 1] \in Trail
    BY <1>1 DEF Trail
  <2> QED BY <1>1, <2>1, <2>2 DEF Accepts, v
<1>4. i + 1 <= Len(bytes) /\ Proper2(bytes[i], bytes[i + 1]) => shaped
  BY SMT DEF Proper2, Lead2, Trail
<1>5. ASSUME shaped
      PROVE  /\ v \in Nat
             /\ Kind2.min <= v => Encode(v) = <<bytes[i], bytes[i + 1]>>
             /\ Kind2.min <= v /\ Scalar(v) <=> Proper2(bytes[i], bytes[i + 1])
  BY <1>2, <1>5, TwoByte
<1>6. shaped => SubSeq(bytes, i, i + 1) = <<bytes[i], bytes[i + 1]>>
  BY Cut2
<1> HIDE DEF shaped
<1>7. Accepts(bytes, i, Kind2) => TakenRight(bytes, i, Kind2)
  <2> SUFFICES ASSUME Accepts(bytes, i, Kind2)
               PROVE  TakenRight(bytes, i, Kind2)
    OBVIOUS
  <2>1. v \in Nat /\ Scalar(v) /\ Encode(v) = SubSeq(bytes, i, i + Kind2.extra)
    BY <1>1, <1>3, <1>5, <1>6
  <2>2. i + Kind2.extra <= Len(bytes)
    BY <1>1, <1>3 DEF shaped
  <2> QED BY <1>1, <2>1, <2>2 DEF TakenRight, v
<1> QED BY <1>3, <1>4, <1>5, <1>7 DEF shaped

(* decodeUtf8 takes a character of three bytes when there is one, and rightly. *)
LEMMA AcceptsThree ==
  ASSUME NEW S, NEW bytes \in Seq(S), NEW i \in Nat, 1 <= i, i <= Len(bytes)
  PROVE  /\ Accepts(bytes, i, Kind3) <=> 
                /\ i + 2 <= Len(bytes)
                /\ Proper3(bytes[i], bytes[i + 1])
                /\ bytes[i + 2] \in Trail
         /\ Accepts(bytes, i, Kind3) => TakenRight(bytes, i, Kind3)
<1> DEFINE v == Value(bytes, i, Kind3)
           shaped == i + 2 <= Len(bytes) /\ bytes[i] \in Lead3
                     /\ bytes[i + 1] \in Trail /\ bytes[i + 2] \in Trail
<1>1. /\ Len(bytes) \in Nat /\ Kind3.extra = 2 /\ 2 \in 0..3
      /\ 1..Kind3.extra = {1, 2}
  BY LenProperties DEF Kind3
<1>2. v = Joined3(bytes[i], bytes[i + 1], bytes[i + 2])
  BY ValueBy DEF Joined3, Kind3
<1> HIDE DEF v
<1>3. Accepts(bytes, i, Kind3) <=> shaped /\ Kind3.min <= v /\ Scalar(v)
  <2>1. bytes[i] \in Kind3.from..Kind3.to <=> bytes[i] \in Lead3
    BY DEF Lead3, Kind3
  <2>2. (\A k \in 1..Kind3.extra : bytes[i + k] \in 128..191) <=>
          bytes[i + 1] \in Trail /\ bytes[i + 2] \in Trail
    BY <1>1 DEF Trail
  <2> QED BY <1>1, <2>1, <2>2 DEF Accepts, v
<1>4. i + 2 <= Len(bytes) /\ Proper3(bytes[i], bytes[i + 1]) /\ bytes[i + 2] \in Trail => shaped
  BY SMT DEF Proper3, Lead3, Trail
<1>5. ASSUME shaped
      PROVE  /\ v \in Nat
             /\ Kind3.min <= v => Encode(v) = <<bytes[i], bytes[i + 1], bytes[i + 2]>>
             /\ Kind3.min <= v /\ Scalar(v) <=> Proper3(bytes[i], bytes[i + 1])
  BY <1>2, <1>5, ThreeByte
<1>6. shaped => SubSeq(bytes, i, i + 2) = <<bytes[i], bytes[i + 1], bytes[i + 2]>>
  BY Cut3
<1> HIDE DEF shaped
<1>7. Accepts(bytes, i, Kind3) => TakenRight(bytes, i, Kind3)
  <2> SUFFICES ASSUME Accepts(bytes, i, Kind3)
               PROVE  TakenRight(bytes, i, Kind3)
    OBVIOUS
  <2>1. v \in Nat /\ Scalar(v) /\ Encode(v) = SubSeq(bytes, i, i + Kind3.extra)
    BY <1>1, <1>3, <1>5, <1>6
  <2>2. i + Kind3.extra <= Len(bytes)
    BY <1>1, <1>3 DEF shaped
  <2> QED BY <1>1, <2>1, <2>2 DEF TakenRight, v
<1> QED BY <1>3, <1>4, <1>5, <1>7 DEF shaped

(* decodeUtf8 takes a character of four bytes when there is one, and rightly. *)
LEMMA AcceptsFour ==
  ASSUME NEW S, NEW bytes \in Seq(S), NEW i \in Nat, 1 <= i, i <= Len(bytes)
  PROVE  /\ Accepts(bytes, i, Kind4) <=> 
                /\ i + 3 <= Len(bytes)
                /\ Proper4(bytes[i], bytes[i + 1])
                /\ bytes[i + 2] \in Trail
                /\ bytes[i + 3] \in Trail
         /\ Accepts(bytes, i, Kind4) => TakenRight(bytes, i, Kind4)
<1> DEFINE v == Value(bytes, i, Kind4)
           shaped == i + 3 <= Len(bytes) /\ bytes[i] \in Lead4 /\ bytes[i + 1] \in Trail
                     /\ bytes[i + 2] \in Trail /\ bytes[i + 3] \in Trail
<1>1. /\ Len(bytes) \in Nat /\ Kind4.extra = 3 /\ 3 \in 0..3
      /\ 1..Kind4.extra = {1, 2, 3}
  BY LenProperties DEF Kind4
<1>2. v = Joined4(bytes[i], bytes[i + 1], bytes[i + 2], bytes[i + 3])
  BY ValueBy DEF Joined4, Kind4
<1> HIDE DEF v
<1>3. Accepts(bytes, i, Kind4) <=> shaped /\ Kind4.min <= v /\ Scalar(v)
  <2>1. bytes[i] \in Kind4.from..Kind4.to <=> bytes[i] \in Lead4
    BY DEF Lead4, Kind4
  <2>2. (\A k \in 1..Kind4.extra : bytes[i + k] \in 128..191) <=>
          bytes[i + 1] \in Trail /\ bytes[i + 2] \in Trail /\ bytes[i + 3] \in Trail
    BY <1>1 DEF Trail
  <2> QED BY <1>1, <2>1, <2>2 DEF Accepts, v
<1>4. /\ i + 3 <= Len(bytes) /\ Proper4(bytes[i], bytes[i + 1])
      /\ bytes[i + 2] \in Trail /\ bytes[i + 3] \in Trail
      => shaped
  BY SMT DEF Proper4, Lead4, Trail
<1>5. ASSUME shaped
      PROVE  /\ v \in Nat
             /\ Kind4.min <= v => Encode(v) = <<bytes[i], bytes[i + 1], bytes[i + 2], bytes[i + 3]>>
             /\ Kind4.min <= v /\ Scalar(v) <=> Proper4(bytes[i], bytes[i + 1])
  BY <1>2, <1>5, FourByte
<1>6. shaped => SubSeq(bytes, i, i + 3) = <<bytes[i], bytes[i + 1], bytes[i + 2], bytes[i + 3]>>
  BY Cut4
<1> HIDE DEF shaped
<1>7. Accepts(bytes, i, Kind4) => TakenRight(bytes, i, Kind4)
  <2> SUFFICES ASSUME Accepts(bytes, i, Kind4)
               PROVE  TakenRight(bytes, i, Kind4)
    OBVIOUS
  <2>1. v \in Nat /\ Scalar(v) /\ Encode(v) = SubSeq(bytes, i, i + Kind4.extra)
    BY <1>1, <1>3, <1>5, <1>6
  <2>2. i + Kind4.extra <= Len(bytes)
    BY <1>1, <1>3 DEF shaped
  <2> QED BY <1>1, <2>1, <2>2 DEF TakenRight, v
<1> QED BY <1>3, <1>4, <1>5, <1>7 DEF shaped

(* What the standard calls well-formed, length by length. *)
RowAt(bytes, i, row) ==
  /\ i + Len(row) - 1 <= Len(bytes)
  /\ \A k \in 1..Len(row) : bytes[i + k - 1] \in row[k]

(* Rows of one byte ... *)
LEMMA Row1 ==
  ASSUME NEW bytes, NEW i \in Nat, Len(bytes) \in Nat, NEW A
  PROVE  RowAt(bytes, i, <<A>>) <=>
           /\ i <= Len(bytes)
           /\ bytes[i] \in A
<1>1. Len(<<A>>) = 1 /\ 1..1 = {1}
  OBVIOUS
<1>2. RowAt(bytes, i, <<A>>) <=>
        /\ i + 1 - 1 <= Len(bytes)
        /\ \A k \in {1} : bytes[i + k - 1] \in <<A>>[k]
  BY <1>1 DEF RowAt
<1>3. i + 1 - 1 = i
  OBVIOUS
<1> QED BY <1>2, <1>3

(* ... of two ... *)
LEMMA Row2 ==
  ASSUME NEW bytes, NEW i \in Nat, Len(bytes) \in Nat, NEW A, NEW B
  PROVE  RowAt(bytes, i, <<A, B>>) <=>
           /\ i + 1 <= Len(bytes)
           /\ bytes[i] \in A
           /\ bytes[i + 1] \in B
<1>1. Len(<<A, B>>) = 2 /\ 1..2 = {1, 2}
  OBVIOUS
<1>2. RowAt(bytes, i, <<A, B>>) <=>
        /\ i + 2 - 1 <= Len(bytes)
        /\ \A k \in {1, 2} : bytes[i + k - 1] \in <<A, B>>[k]
  BY <1>1 DEF RowAt
<1>3. i + 1 - 1 = i /\ i + 2 - 1 = i + 1
  OBVIOUS
<1> QED BY <1>2, <1>3

(* ... of three ... *)
LEMMA Row3 ==
  ASSUME NEW bytes, NEW i \in Nat, Len(bytes) \in Nat, NEW A, NEW B, NEW C
  PROVE  RowAt(bytes, i, <<A, B, C>>) <=>
           /\ i + 2 <= Len(bytes)
           /\ bytes[i] \in A
           /\ bytes[i + 1] \in B
           /\ bytes[i + 2] \in C
<1>1. Len(<<A, B, C>>) = 3 /\ 1..3 = {1, 2, 3}
  OBVIOUS
<1>2. RowAt(bytes, i, <<A, B, C>>) <=>
        /\ i + 3 - 1 <= Len(bytes)
        /\ \A k \in {1, 2, 3} : bytes[i + k - 1] \in <<A, B, C>>[k]
  BY <1>1 DEF RowAt
<1>3. i + 1 - 1 = i /\ i + 2 - 1 = i + 1 /\ i + 3 - 1 = i + 2
  OBVIOUS
<1> QED BY <1>2, <1>3

(* ... and of four. *)
LEMMA Row4 ==
  ASSUME NEW bytes, NEW i \in Nat, Len(bytes) \in Nat, NEW A, NEW B, NEW C, NEW D
  PROVE  RowAt(bytes, i, <<A, B, C, D>>) <=>
           /\ i + 3 <= Len(bytes)
           /\ bytes[i] \in A
           /\ bytes[i + 1] \in B
           /\ bytes[i + 2] \in C
           /\ bytes[i + 3] \in D
<1>1. Len(<<A, B, C, D>>) = 4 /\ 1..4 = {1, 2, 3, 4}
  OBVIOUS
<1>2. RowAt(bytes, i, <<A, B, C, D>>) <=>
        /\ i + 4 - 1 <= Len(bytes)
        /\ \A k \in {1, 2, 3, 4} : bytes[i + k - 1] \in <<A, B, C, D>>[k]
  BY <1>1 DEF RowAt
<1>3. i + 1 - 1 = i /\ i + 2 - 1 = i + 1 /\ i + 3 - 1 = i + 2 /\ i + 4 - 1 = i + 3
  OBVIOUS
<1> QED BY <1>2, <1>3

(* The standard's table as a condition on the bytes at i. *)
LEMMA WellFormedIs ==
  ASSUME NEW bytes, NEW i \in Nat, Len(bytes) \in Nat
  PROVE  WellFormedAt(bytes, i) <=>
           \/ i <= Len(bytes) /\ Proper1(bytes[i])
           \/ i + 1 <= Len(bytes) /\ Proper2(bytes[i], bytes[i + 1])
           \/ /\ i + 2 <= Len(bytes) /\ Proper3(bytes[i], bytes[i + 1])
              /\ bytes[i + 2] \in Trail
           \/ /\ i + 3 <= Len(bytes) /\ Proper4(bytes[i], bytes[i + 1])
              /\ bytes[i + 2] \in Trail /\ bytes[i + 3] \in Trail
<1> DEFINE a1 == 0..127
           a2 == 194..223
           a3 == {224}
           c3 == 160..191
           a4 == 225..236 \union {238, 239}
           a5 == {237}
           c5 == 128..159
           a6 == {240}
           c6 == 144..191
           a7 == 241..243
           a8 == {244}
           c8 == 128..143
           r1 == <<a1>>
           r2 == <<a2, Trail>>
           r3 == <<a3, c3, Trail>>
           r4 == <<a4, Trail, Trail>>
           r5 == <<a5, c5, Trail>>
           r6 == <<a6, c6, Trail, Trail>>
           r7 == <<a7, Trail, Trail, Trail>>
           r8 == <<a8, c8, Trail, Trail>>
<1>1. WellFormedAt(bytes, i) <=>
        \E row \in {r1, r2, r3, r4, r5, r6, r7, r8} : RowAt(bytes, i, row)
  BY DEF WellFormedAt, RowAt, Table37
<1> HIDE DEF a1, a2, a3, c3, a4, a5, c5, a6, c6, a7, a8, c8
<1>2. RowAt(bytes, i, r1) <=>
        /\ i <= Len(bytes)
        /\ bytes[i] \in a1
  BY Row1, Zenon
<1>3. RowAt(bytes, i, r2) <=>
        /\ i + 1 <= Len(bytes)
        /\ bytes[i] \in a2 /\ bytes[i + 1] \in Trail
  BY Row2, Zenon
<1>4. RowAt(bytes, i, r3) <=>
        /\ i + 2 <= Len(bytes)
        /\ bytes[i] \in a3 /\ bytes[i + 1] \in c3 /\ bytes[i + 2] \in Trail
  BY Row3, Zenon
<1>5. RowAt(bytes, i, r4) <=>
        /\ i + 2 <= Len(bytes)
        /\ bytes[i] \in a4 /\ bytes[i + 1] \in Trail /\ bytes[i + 2] \in Trail
  BY Row3, Zenon
<1>6. RowAt(bytes, i, r5) <=>
        /\ i + 2 <= Len(bytes)
        /\ bytes[i] \in a5 /\ bytes[i + 1] \in c5 /\ bytes[i + 2] \in Trail
  BY Row3, Zenon
<1>7. RowAt(bytes, i, r6) <=>
        /\ i + 3 <= Len(bytes)
        /\ bytes[i] \in a6 /\ bytes[i + 1] \in c6
        /\ bytes[i + 2] \in Trail /\ bytes[i + 3] \in Trail
  BY Row4, Zenon
<1>8. RowAt(bytes, i, r7) <=>
        /\ i + 3 <= Len(bytes)
        /\ bytes[i] \in a7 /\ bytes[i + 1] \in Trail
        /\ bytes[i + 2] \in Trail /\ bytes[i + 3] \in Trail
  BY Row4, Zenon
<1>9. RowAt(bytes, i, r8) <=>
        /\ i + 3 <= Len(bytes)
        /\ bytes[i] \in a8 /\ bytes[i + 1] \in c8
        /\ bytes[i + 2] \in Trail /\ bytes[i + 3] \in Trail
  BY Row4, Zenon
<1> HIDE DEF r1, r2, r3, r4, r5, r6, r7, r8
<1>10. WellFormedAt(bytes, i) <=>
         \/ RowAt(bytes, i, r1) \/ RowAt(bytes, i, r2)
         \/ RowAt(bytes, i, r3) \/ RowAt(bytes, i, r4) \/ RowAt(bytes, i, r5)
         \/ RowAt(bytes, i, r6) \/ RowAt(bytes, i, r7) \/ RowAt(bytes, i, r8)
  BY <1>1, Zenon
<1> QED BY <1>2, <1>3, <1>4, <1>5, <1>6, <1>7, <1>8, <1>9, <1>10
          DEF Proper1, Proper2, Proper3, Proper4, a1, a2, a3, c3, a4, a5,
              c5, a6, c6, a7, a8, c8

(* The same of a character that stands alone. *)
LEMMA WellFormedAlone ==
  ASSUME NEW t, Len(t) \in Nat
  PROVE  \/ 1 <= Len(t) /\ Proper1(t[1])
         \/ 2 <= Len(t) /\ Proper2(t[1], t[2])
         \/ 3 <= Len(t) /\ Proper3(t[1], t[2]) /\ t[3] \in Trail
         \/ 4 <= Len(t) /\ Proper4(t[1], t[2]) /\ t[3] \in Trail /\ t[4] \in Trail
         => WellFormedAt(t, 1)
<1>1. 1 \in Nat /\ 1 + 1 = 2 /\ 1 + 2 = 3 /\ 1 + 3 = 4
  OBVIOUS
<1>2. WellFormedAt(t, 1) <=>
           \/ 1 <= Len(t) /\ Proper1(t[1])
           \/ 1 + 1 <= Len(t) /\ Proper2(t[1], t[1 + 1])
           \/ /\ 1 + 2 <= Len(t) /\ Proper3(t[1], t[1 + 1])
              /\ t[1 + 2] \in Trail
           \/ /\ 1 + 3 <= Len(t) /\ Proper4(t[1], t[1 + 1])
              /\ t[1 + 2] \in Trail /\ t[1 + 3] \in Trail
  BY <1>1, WellFormedIs, Zenon
<1> QED BY <1>1, <1>2

(* What is accepted stays well-formed on its own. *)
LEMMA AcceptedWellFormed ==
  ASSUME NEW S, NEW bytes \in Seq(S), NEW i \in Nat, 1 <= i, i <= Len(bytes),
         NEW kind \in LeadKinds, Accepts(bytes, i, kind)
  PROVE  WellFormedAt(Encode(Value(bytes, i, kind)), 1)
<1>1. kind \in {Kind1, Kind2, Kind3, Kind4}
  BY DEF LeadKinds, Kind1, Kind2, Kind3, Kind4
<1>2. CASE kind = Kind1
  <2> DEFINE t == <<bytes[i]>>
  <2>1. Encode(Value(bytes, i, kind)) = SubSeq(bytes, i, i + 0)
    BY <1>2, AcceptsOne DEF TakenRight, Kind1
  <2>2. SubSeq(bytes, i, i + 0) = t
    BY <1>2, AcceptsOne, Cut1
  <2>3. Len(t) = 1 /\ Proper1(t[1])
    BY <1>2, AcceptsOne
  <2> HIDE DEF t
  <2>4. WellFormedAt(t, 1)
    BY <2>3, WellFormedAlone
  <2> QED BY <2>1, <2>2, <2>4
<1>3. CASE kind = Kind2
  <2> DEFINE t == <<bytes[i], bytes[i + 1]>>
  <2>1. Encode(Value(bytes, i, kind)) = SubSeq(bytes, i, i + 1)
    BY <1>3, AcceptsTwo DEF TakenRight, Kind2
  <2>2. SubSeq(bytes, i, i + 1) = t
    BY <1>3, AcceptsTwo, Cut2
  <2>3. Len(t) = 2 /\ Proper2(t[1], t[2])
    BY <1>3, AcceptsTwo
  <2> HIDE DEF t
  <2>4. WellFormedAt(t, 1)
    BY <2>3, WellFormedAlone
  <2> QED BY <2>1, <2>2, <2>4
<1>4. CASE kind = Kind3
  <2> DEFINE t == <<bytes[i], bytes[i + 1], bytes[i + 2]>>
  <2>1. Encode(Value(bytes, i, kind)) = SubSeq(bytes, i, i + 2)
    BY <1>4, AcceptsThree DEF TakenRight, Kind3
  <2>2. SubSeq(bytes, i, i + 2) = t
    BY <1>4, AcceptsThree, Cut3
  <2>3. Len(t) = 3 /\ Proper3(t[1], t[2]) /\ t[3] \in Trail
    BY <1>4, AcceptsThree
  <2> HIDE DEF t
  <2>4. WellFormedAt(t, 1)
    BY <2>3, WellFormedAlone
  <2> QED BY <2>1, <2>2, <2>4
<1>5. CASE kind = Kind4
  <2> DEFINE t == <<bytes[i], bytes[i + 1], bytes[i + 2], bytes[i + 3]>>
  <2>1. Encode(Value(bytes, i, kind)) = SubSeq(bytes, i, i + 3)
    BY <1>5, AcceptsFour DEF TakenRight, Kind4
  <2>2. SubSeq(bytes, i, i + 3) = t
    BY <1>5, AcceptsFour, Cut4
  <2>3. Len(t) = 4 /\ Proper4(t[1], t[2]) /\ t[3] \in Trail /\ t[4] \in Trail
    BY <1>5, AcceptsFour
  <2> HIDE DEF t
  <2>4. WellFormedAt(t, 1)
    BY <2>3, WellFormedAlone
  <2> QED BY <2>1, <2>2, <2>4
<1> QED BY <1>1, <1>2, <1>3, <1>4, <1>5

(* The decoder is the standard's: it accepts exactly where a well-formed     *)
(* character begins, and takes it for what it encodes.                       *)
LEMMA DecoderExact ==
  ASSUME NEW S, NEW bytes \in Seq(S), NEW i \in Nat, 1 <= i, i <= Len(bytes)
  PROVE  /\ (\E kind \in LeadKinds : Accepts(bytes, i, kind)) <=> WellFormedAt(bytes, i)
         /\ \A kind \in LeadKinds :
              Accepts(bytes, i, kind) =>
                /\ TakenRight(bytes, i, kind)
                /\ WellFormedAt(Encode(Value(bytes, i, kind)), 1)
<1>1. LeadKinds = {Kind1, Kind2, Kind3, Kind4}
  BY DEF LeadKinds, Kind1, Kind2, Kind3, Kind4
<1>2. (\E kind \in LeadKinds : Accepts(bytes, i, kind)) <=>
        \/ Accepts(bytes, i, Kind1) \/ Accepts(bytes, i, Kind2)
        \/ Accepts(bytes, i, Kind3) \/ Accepts(bytes, i, Kind4)
  BY <1>1
<1>3. i + 0 <= Len(bytes) <=> i <= Len(bytes)
  OBVIOUS
<1>4. Len(bytes) \in Nat
  BY LenProperties
<1>5. WellFormedAt(bytes, i) <=> \E kind \in LeadKinds : Accepts(bytes, i, kind)
  BY <1>2, <1>3, <1>4, WellFormedIs, AcceptsOne, AcceptsTwo, AcceptsThree, AcceptsFour
<1>6. ASSUME NEW kind \in LeadKinds, Accepts(bytes, i, kind)
      PROVE  TakenRight(bytes, i, kind)
  BY <1>1, <1>6, AcceptsOne, AcceptsTwo, AcceptsThree, AcceptsFour
<1> QED BY <1>5, <1>6, AcceptedWellFormed

-----------------------------------------------------------------------------
(* What the units and bytes of characters are made of. *)
ScalarValue == {cp \in Nat : Scalar(cp)}
Unit16 == {u \in Nat : u < 65536}

(* Code points end at U+10FFFF. *)
LEMMA ScalarBounds ==
  ASSUME NEW cp \in ScalarValue
  PROVE  cp \in Nat /\ cp <= 1114111
BY SMT DEF ScalarValue, Scalar

(* What a UTF-16 unit is. *)
LEMMA InUnit16 ==
  ASSUME NEW u \in Int, 0 <= u, u < 65536
  PROVE  u \in Unit16
BY SMT DEF Unit16

(* An encoding is some bytes. *)
LEMMA EncodeType ==
  ASSUME NEW cp \in Nat
  PROVE  Encode(cp) \in Seq(Nat)
<1>1. CASE cp < 128
  <2>1. Encode(cp) = <<cp>>
    BY <1>1, Encode1, SMT
  <2> QED BY <2>1, SMT
<1>2. CASE 128 <= cp /\ cp < 2048
  <2> DEFINE e1 == 192 + (cp \div 64)
             e2 == 128 + (cp % 64)
  <2>1. e1 \in Nat /\ e2 \in Nat
    BY SMT
  <2>2. Encode(cp) = <<e1, e2>>
    BY <1>2, Encode2, SMT
  <2> HIDE DEF e1, e2
  <2> QED BY <2>1, <2>2, SMT
<1>3. CASE 2048 <= cp /\ cp < 65536
  <2> DEFINE e1 == 224 + (cp \div 4096)
             e2 == 128 + ((cp \div 64) % 64)
             e3 == 128 + (cp % 64)
  <2>1. e1 \in Nat /\ e2 \in Nat /\ e3 \in Nat
    BY SMT
  <2>2. Encode(cp) = <<e1, e2, e3>>
    BY <1>3, Encode3, SMT
  <2> HIDE DEF e1, e2, e3
  <2> QED BY <2>1, <2>2, SMT
<1>4. CASE 65536 <= cp
  <2> DEFINE e1 == 240 + (cp \div 262144)
             e2 == 128 + ((cp \div 4096) % 64)
             e3 == 128 + ((cp \div 64) % 64)
             e4 == 128 + (cp % 64)
  <2>1. e1 \in Nat /\ e2 \in Nat /\ e3 \in Nat /\ e4 \in Nat
    BY SMT
  <2>2. Encode(cp) = <<e1, e2, e3, e4>>
    BY <1>4, Encode4, SMT
  <2> HIDE DEF e1, e2, e3, e4
  <2> QED BY <2>1, <2>2, SMT
<1>5. cp < 128 \/ (128 <= cp /\ cp < 2048) \/ (2048 <= cp /\ cp < 65536) \/ 65536 <= cp
  BY SMT
<1> QED BY <1>1, <1>2, <1>3, <1>4, <1>5, SMT

(* The backends' UTF-16 is the standard's. *)
LEMMA Utf16IsUnits16 ==
  ASSUME NEW cp \in ScalarValue
  PROVE  /\ Utf16(cp) = Units16(cp)
         /\ Units16(cp) \in Seq(Unit16)
         /\ Len(Units16(cp)) \in {1, 2}
<1>1. cp \in Nat /\ cp <= 1114111
  BY ScalarBounds
<1>2. CASE cp < 65536
  <2>1. cp <= 65535 /\ cp \in Unit16
    BY <1>1, <1>2, SMT DEF Unit16
  <2>2. Utf16(cp) = <<cp>> /\ Units16(cp) = <<cp>>
    BY <1>2, <2>1, SMT DEF Utf16, Units16
  <2> QED BY <2>1, <2>2
<1>3. CASE 65536 <= cp
  <2> DEFINE h == 55296 + ((cp - 65536) \div 1024)
             l == 56320 + ((cp - 65536) % 1024)
             g == 55296 + ((cp \div 65536) - 1) * 64 + ((cp % 65536) \div 1024)
             k == 56320 + (cp % 1024)
  <2>1. h = g /\ l = k
    BY <1>1, <1>3, SMT
  <2>2. h \in Unit16 /\ l \in Unit16
    <3>1. h \in Int /\ 0 <= h /\ h < 65536 /\ l \in Int /\ 0 <= l /\ l < 65536
      BY <1>1, <1>3, SMT
    <3> HIDE DEF h, l
    <3> QED BY <3>1, InUnit16
  <2>3. Utf16(cp) = <<h, l>>
    BY <1>1, <1>3, SMT DEF Utf16
  <2>4. Units16(cp) = <<g, k>>
    BY <1>1, <1>3, SMT DEF Units16
  <2> HIDE DEF h, l, g, k
  <2> QED BY <2>1, <2>2, <2>3, <2>4
<1>4. cp < 65536 \/ 65536 <= cp
  BY <1>1, SMT
<1> QED BY <1>2, <1>3, <1>4

(* The encodings of a longer text. *)
LEMMA EncodeAllAppend ==
  ASSUME NEW cps \in Seq(ScalarValue), NEW cp \in ScalarValue
  PROVE  /\ EncodeAll(<<>>) = <<>>
         /\ EncodeAll(Append(cps, cp)) = EncodeAll(cps) \o Encode(cp)
         /\ EncodeAll(cps) \in Seq(Nat)
<1> DEFINE e == [k \in 1..Len(cps) |-> Encode(cps[k])]
           f == [k \in 1..Len(Append(cps, cp)) |-> Encode(Append(cps, cp)[k])]
<1>1. ScalarValue \subseteq Nat
  BY DEF ScalarValue
<1>2. e \in Seq(Seq(Nat)) /\ Len(e) = Len(cps)
  <2>1. \A k \in 1..Len(cps) : Encode(cps[k]) \in Seq(Nat)
    BY <1>1, ElementOfSeq, EncodeType
  <2> QED BY <2>1, LenProperties, IsASeq
<1>3. Encode(cp) \in Seq(Nat)
  BY <1>1, EncodeType
<1>4. f = Append(e, Encode(cp))
  BY <1>2, AppendProperties
<1>5. EncodeAll(<<>>) = <<>>
  BY FlattenEmpty DEF EncodeAll
<1>6. EncodeAll(cps) = FlattenSeq(e) /\ EncodeAll(Append(cps, cp)) = FlattenSeq(f)
  BY DEF EncodeAll
<1> HIDE DEF e, f
<1> QED BY <1>2, <1>3, <1>4, <1>5, <1>6, FlattenAppend, FlattenType

(* The units of a longer text. *)
LEMMA Units16AllAppend ==
  ASSUME NEW cps \in Seq(ScalarValue), NEW cp \in ScalarValue
  PROVE  /\ Units16All(<<>>) = <<>>
         /\ Units16All(Append(cps, cp)) = Units16All(cps) \o Units16(cp)
         /\ Units16All(cps) \in Seq(Unit16)
<1> DEFINE e == [k \in 1..Len(cps) |-> Units16(cps[k])]
           f == [k \in 1..Len(Append(cps, cp)) |-> Units16(Append(cps, cp)[k])]
<1>2. e \in Seq(Seq(Unit16)) /\ Len(e) = Len(cps)
  <2>1. \A k \in 1..Len(cps) : Units16(cps[k]) \in Seq(Unit16)
    BY ElementOfSeq, Utf16IsUnits16
  <2> QED BY <2>1, LenProperties, IsASeq
<1>3. Units16(cp) \in Seq(Unit16)
  BY Utf16IsUnits16
<1>4. f = Append(e, Units16(cp))
  BY <1>2, AppendProperties
<1>5. Units16All(<<>>) = <<>>
  BY FlattenEmpty DEF Units16All
<1>6. Units16All(cps) = FlattenSeq(e) /\ Units16All(Append(cps, cp)) = FlattenSeq(f)
  BY DEF Units16All
<1> HIDE DEF e, f
<1> QED BY <1>2, <1>3, <1>4, <1>5, <1>6, FlattenAppend, FlattenType

-----------------------------------------------------------------------------
(* One call.  The records, and what holds of a call at each of its steps.   *)
Byte == 0..255
Pc == {"idle", "decode", "type", "sleep", "unitUp", "bind", "press", "restore"}
KeySyms == {Original} \union {KeySym(cp) : cp \in ScalarValue}

CallRecord ==
  [pc : Pc, human : BOOLEAN, bytes : Seq(Byte), i : Nat, out : Seq(ScalarValue),
   at : Nat, unit : Nat, saved : KeySyms, result : Error \union {"ok"}]

(* Where a call is: never past its bytes, its characters or their units. *)
InRange(c, p) ==
  /\ c.i \in 1..(Len(c.bytes) + 1)
  /\ c.at \in 1..(Len(c.out) + 1)
  /\ c.pc \in {"unitUp", "bind", "press", "restore"} => c.at <= Len(c.out)
  /\ c.pc = "decode" => c.at = 1
  /\ c.pc \in {"decode", "sleep"} \/ p # "windows" => c.unit = 1
  /\ c.pc \in {"type", "unitUp"} /\ c.at <= Len(c.out) =>
       c.unit \in 1..Len(Utf16(c.out[c.at]))

(* Only a call that has ended has an answer, and each platform its steps. *)
InOrder(c, p) ==
  /\ c.pc # "idle" => c.result = "ok"
  /\ c.pc = "unitUp" => p = "windows"
  /\ c.pc \in {"bind", "press", "restore"} => p = "x11"

(* Why the decoder is exact: what is decoded is encoded by the bytes that   *)
(* were read, each character well; later, by all of them; and where it gave *)
(* up no character begins.                                                  *)
DecodedSoFarIs(c) ==
  /\ c.pc = "decode" =>
       /\ EncodeAll(c.out) = SubSeq(c.bytes, 1, c.i - 1)
       /\ \A k \in 1..Len(c.out) : WellFormedAt(Encode(c.out[k]), 1)
  /\ c.pc \notin {"idle", "decode"} \/ c.at > 1 =>
       (c.bytes # <<>> => EncodeAll(c.out) = c.bytes)
  /\ c.result = "invalidArgument" /\ c.bytes # <<>> => ~WellFormedAt(c.bytes, c.i)

CallInv(c, p) == c \in CallRecord /\ InRange(c, p) /\ InOrder(c, p) /\ DecodedSoFarIs(c)

(* The units of one character of a text. *)
LEMMA UnitsOfChar ==
  ASSUME NEW out \in Seq(ScalarValue), NEW at \in Nat, 1 <= at, at <= Len(out)
  PROVE  /\ out[at] \in ScalarValue
         /\ Utf16(out[at]) = Units16(out[at])
         /\ Utf16(out[at]) \in Seq(Unit16)
         /\ Len(Utf16(out[at])) \in {1, 2}
         /\ 1 \in 1..Len(Utf16(out[at]))
<1>1. out[at] \in ScalarValue
  BY ElementOfSeq
<1>2. ASSUME NEW n \in {1, 2}
      PROVE  1 \in 1..n
  OBVIOUS
<1> QED BY <1>1, <1>2, Utf16IsUnits16

(* Where a call begins. *)
LEMMA IdleOK ==
  ASSUME NEW p
  PROVE  /\ Idle \in CallRecord /\ CallInv(Idle, p)
<1>1. Idle \in CallRecord
  <2>1. <<>> \in Seq(Byte) /\ <<>> \in Seq(ScalarValue) /\ Original \in KeySyms
    BY EmptySeq DEF KeySyms
  <2> QED BY <2>1 DEF Idle, CallRecord, Pc
<1>2. /\ Idle.pc = "idle" /\ Idle.bytes = <<>> /\ Idle.i = 1 /\ Idle.out = <<>>
      /\ Idle.at = 1 /\ Idle.unit = 1 /\ Idle.result = "ok"
  BY DEF Idle
<1>3. Len(<<>>) = 0 /\ 1 \in 1..(0 + 1)
  OBVIOUS
<1>4. InRange(Idle, p)
  BY <1>2, <1>3 DEF InRange
<1>5. InOrder(Idle, p) /\ DecodedSoFarIs(Idle)
  BY <1>2 DEF InOrder, DecodedSoFarIs
<1> QED BY <1>1, <1>4, <1>5 DEF CallInv

(* Where a text begins. *)
LEMMA TextOK ==
  ASSUME NEW p, NEW bytes \in Seq(Byte), NEW human \in BOOLEAN
  PROVE  CallInv([Idle EXCEPT !.pc = "decode", !.bytes = bytes, !.human = human], p)
<1> DEFINE c == [Idle EXCEPT !.pc = "decode", !.bytes = bytes, !.human = human]
<1>1. c \in CallRecord
  BY IdleOK DEF CallRecord, Pc
<1>2. /\ c.pc = "decode" /\ c.bytes = bytes /\ c.i = 1 /\ c.out = <<>>
      /\ c.at = 1 /\ c.unit = 1 /\ c.result = "ok"
  BY DEF Idle
<1> HIDE DEF c
<1>3. InRange(c, p)
  <2>1. Len(<<>>) = 0 /\ 1 \in 1..(0 + 1) /\ 1 \in 1..(Len(bytes) + 1)
    BY LenProperties
  <2> QED BY <1>2, <2>1 DEF InRange
<1>4. InOrder(c, p)
  BY <1>2 DEF InOrder
<1>5. EncodeAll(c.out) = SubSeq(c.bytes, 1, c.i - 1)
  <2>1. SubSeq(bytes, 1, 0) = <<>> /\ 1 - 1 = 0
    BY SubSeqEmpty
  <2>2. EncodeAll(<<>>) = <<>>
    BY FlattenEmpty DEF EncodeAll
  <2> QED BY <1>2, <2>1, <2>2
<1>6. \A k \in 1..Len(c.out) : FALSE
  BY <1>2
<1>7. DecodedSoFarIs(c)
  BY <1>2, <1>5, <1>6 DEF DecodedSoFarIs
<1> QED BY <1>1, <1>3, <1>4, <1>7 DEF CallInv, c

(* Where a single character begins, or is rejected. *)
LEMMA CharOK ==
  ASSUME NEW p, NEW cp \in Nat
  PROVE  CallInv(IF Scalar(cp) THEN [Idle EXCEPT !.pc = "type", !.out = <<cp>>]
                 ELSE [Idle EXCEPT !.result = "invalidArgument"], p)
<1>1. CASE Scalar(cp)
  <2> DEFINE c == [Idle EXCEPT !.pc = "type", !.out = <<cp>>]
  <2>1. cp \in ScalarValue
    BY <1>1 DEF ScalarValue
  <2>2. <<cp>> \in Seq(ScalarValue) /\ Len(<<cp>>) = 1 /\ <<cp>>[1] = cp
    BY <2>1
  <2>3. c \in CallRecord
    BY <2>2, IdleOK DEF CallRecord, Pc
  <2>4. /\ c.pc = "type" /\ c.bytes = <<>> /\ c.i = 1 /\ c.out = <<cp>>
        /\ c.at = 1 /\ c.unit = 1 /\ c.result = "ok"
    BY DEF Idle
  <2> HIDE DEF c
  <2>5. Len(Utf16(cp)) \in {1, 2}
    BY <2>1, Utf16IsUnits16
  <2>6. InRange(c, p)
    <3>1. Len(<<>>) = 0 /\ 1 \in 1..(0 + 1) /\ 1 \in 1..(1 + 1) /\ 1 \in 1..Len(Utf16(cp))
      BY <2>5
    <3> QED BY <2>2, <2>4, <3>1 DEF InRange
  <2>7. InOrder(c, p) /\ DecodedSoFarIs(c)
    BY <2>4 DEF InOrder, DecodedSoFarIs
  <2> QED BY <1>1, <2>3, <2>6, <2>7 DEF CallInv, c
<1>2. CASE ~Scalar(cp)
  <2> DEFINE c == [Idle EXCEPT !.result = "invalidArgument"]
  <2>1. c \in CallRecord
    BY IdleOK DEF CallRecord, Error
  <2>2. /\ c.pc = "idle" /\ c.bytes = <<>> /\ c.i = 1 /\ c.out = <<>>
        /\ c.at = 1 /\ c.unit = 1
    BY DEF Idle
  <2> HIDE DEF c
  <2>3. InRange(c, p)
    <3>1. Len(<<>>) = 0 /\ 1 \in 1..(0 + 1)
      OBVIOUS
    <3> QED BY <2>2, <3>1 DEF InRange
  <2>4. InOrder(c, p) /\ DecodedSoFarIs(c)
    BY <2>2 DEF InOrder, DecodedSoFarIs
  <2> QED BY <1>2, <2>1, <2>3, <2>4 DEF CallInv, c
<1> QED BY <1>1, <1>2

-----------------------------------------------------------------------------
(* What the steps of a call do to its record.  A call that ends keeps what  *)
(* it had done.                                                             *)
LEMMA AnsweredOK ==
  ASSUME NEW p, NEW c, CallInv(c, p), NEW answer \in {"ok", "unsupported", "platformError"}
  PROVE  CallInv([c EXCEPT !.pc = "idle", !.result = answer], p)
<1> DEFINE d == [c EXCEPT !.pc = "idle", !.result = answer]
<1>1. c \in CallRecord /\ InRange(c, p) /\ DecodedSoFarIs(c)
  BY DEF CallInv
<1>2. d \in CallRecord
  BY <1>1 DEF CallRecord, Pc, Error
<1>3. /\ d.pc = "idle" /\ d.bytes = c.bytes /\ d.i = c.i /\ d.out = c.out
      /\ d.at = c.at /\ d.unit = c.unit /\ d.result = answer
  BY <1>1 DEF CallRecord
<1> HIDE DEF d
<1>4. InRange(d, p)
  BY <1>1, <1>3 DEF InRange
<1>5. InOrder(d, p)
  BY <1>3 DEF InOrder
<1>6. DecodedSoFarIs(d)
  BY <1>1, <1>3 DEF DecodedSoFarIs
<1> QED BY <1>2, <1>4, <1>5, <1>6 DEF CallInv, d

(* A call whose text is malformed. *)
LEMMA RejectedOK ==
  ASSUME NEW p, NEW c, CallInv(c, p), c.pc = "decode", ~WellFormedAt(c.bytes, c.i)
  PROVE  CallInv([c EXCEPT !.pc = "idle", !.result = "invalidArgument"], p)
<1> DEFINE d == [c EXCEPT !.pc = "idle", !.result = "invalidArgument"]
<1>1. c \in CallRecord /\ InRange(c, p) /\ DecodedSoFarIs(c)
  BY DEF CallInv
<1>2. d \in CallRecord
  BY <1>1 DEF CallRecord, Pc, Error
<1>3. /\ d.pc = "idle" /\ d.bytes = c.bytes /\ d.i = c.i /\ d.out = c.out
      /\ d.at = c.at /\ d.unit = c.unit /\ d.result = "invalidArgument"
  BY <1>1 DEF CallRecord
<1> HIDE DEF d
<1>4. InRange(d, p) /\ d.at = 1
  BY <1>1, <1>3 DEF InRange
<1>5. InOrder(d, p)
  BY <1>3 DEF InOrder
<1>6. DecodedSoFarIs(d)
  BY <1>3, <1>4 DEF DecodedSoFarIs
<1> QED BY <1>2, <1>4, <1>5, <1>6 DEF CallInv, d

(* One more character decoded. *)
LEMMA DecodedOneOK ==
  ASSUME NEW p, NEW c, CallInv(c, p), c.pc = "decode", c.i <= Len(c.bytes),
         NEW kind \in LeadKinds, Accepts(c.bytes, c.i, kind)
  PROVE  CallInv([c EXCEPT !.out = Append(@, Value(c.bytes, c.i, kind)),
                           !.i = @ + kind.extra + 1], p)
<1> DEFINE v == Value(c.bytes, c.i, kind)
           d == [c EXCEPT !.out = Append(@, v), !.i = @ + kind.extra + 1]
<1>1. c \in CallRecord /\ InRange(c, p) /\ InOrder(c, p) /\ DecodedSoFarIs(c)
  BY DEF CallInv
<1>2. /\ c.bytes \in Seq(Byte) /\ c.i \in Nat /\ c.out \in Seq(ScalarValue)
      /\ c.at \in Nat /\ 1 <= c.i
  BY <1>1 DEF CallRecord, InRange
<1>3. TakenRight(c.bytes, c.i, kind) /\ WellFormedAt(Encode(v), 1)
  BY <1>2, DecoderExact
<1>4. /\ v \in ScalarValue
      /\ kind.extra \in 0..3 /\ c.i + kind.extra <= Len(c.bytes)
      /\ Encode(v) = SubSeq(c.bytes, c.i, c.i + kind.extra)
  BY <1>3 DEF TakenRight, ScalarValue
<1> HIDE DEF v
<1>5. d \in CallRecord
  <2>1. c.i + kind.extra + 1 \in Nat /\ Append(c.out, v) \in Seq(ScalarValue)
    BY <1>2, <1>4
  <2> QED BY <1>1, <2>1 DEF CallRecord
<1>6. /\ d.pc = "decode" /\ d.bytes = c.bytes /\ d.i = c.i + kind.extra + 1
      /\ d.out = Append(c.out, v) /\ d.at = c.at /\ d.unit = c.unit
      /\ d.result = c.result
  BY <1>1 DEF CallRecord
<1> HIDE DEF d
<1>7. InRange(d, p)
  <2>1. d.i \in 1..(Len(d.bytes) + 1)
    BY <1>2, <1>4, <1>6, LenProperties
  <2>2. c.at = 1 /\ c.unit = 1
    BY <1>1 DEF InRange
  <2>3. 1 \in 1..(Len(d.out) + 1)
    BY <1>5, LenProperties DEF CallRecord
  <2> QED BY <1>6, <2>1, <2>2, <2>3 DEF InRange
<1>8. InOrder(d, p)
  BY <1>1, <1>6 DEF InOrder
<1>9. EncodeAll(d.out) = SubSeq(d.bytes, 1, d.i - 1)
  <2> DEFINE k == c.i - 1
             n == c.i + kind.extra
  <2>1. EncodeAll(d.out) = EncodeAll(c.out) \o Encode(v)
    BY <1>2, <1>4, <1>6, EncodeAllAppend
  <2>2. EncodeAll(c.out) = SubSeq(c.bytes, 1, k)
    BY <1>1 DEF DecodedSoFarIs
  <2>3. Encode(v) = SubSeq(c.bytes, k + 1, n)
    <3>1. k + 1 = c.i
      BY <1>2
    <3> QED BY <1>4, <3>1, Zenon
  <2>4. 1 \in 1..Len(c.bytes) + 1 /\ k \in 1 - 1..Len(c.bytes) /\ n \in k..Len(c.bytes)
    BY <1>2, <1>4, LenProperties
  <2>5. SubSeq(c.bytes, 1, k) \o SubSeq(c.bytes, k + 1, n) = SubSeq(c.bytes, 1, n)
    <3> HIDE DEF k, n
    <3> QED BY <1>2, <2>4, ConcatAdjacentSubSeq
  <2>6. d.i - 1 = n
    BY <1>2, <1>4, <1>6
  <2> QED BY <1>6, <2>1, <2>2, <2>3, <2>5, <2>6
<1>10. ASSUME NEW k \in 1..Len(d.out)
       PROVE  WellFormedAt(Encode(d.out[k]), 1)
  <2>1. /\ Len(d.out) = Len(c.out) + 1
        /\ \A j \in 1..Len(c.out) : d.out[j] = c.out[j]
        /\ d.out[Len(c.out) + 1] = v
    BY <1>2, <1>4, <1>6, AppendProperties
  <2>2. k \in 1..Len(c.out) \/ k = Len(c.out) + 1
    BY <1>2, <2>1, LenProperties
  <2>3. \A j \in 1..Len(c.out) : WellFormedAt(Encode(c.out[j]), 1)
    BY <1>1 DEF DecodedSoFarIs
  <2> QED BY <1>3, <2>1, <2>2, <2>3
<1>11. DecodedSoFarIs(d)
  <2>1. c.result = "ok" /\ c.at = 1
    BY <1>1 DEF InOrder, InRange
  <2> QED BY <1>6, <1>9, <1>10, <2>1 DEF DecodedSoFarIs
<1> QED BY <1>5, <1>7, <1>8, <1>11 DEF CallInv, d, v

(* All decoded. *)
LEMMA DecodedOK ==
  ASSUME NEW p, NEW c, CallInv(c, p), c.pc = "decode", c.i > Len(c.bytes)
  PROVE  CallInv([c EXCEPT !.pc = "type"], p)
<1> DEFINE d == [c EXCEPT !.pc = "type"]
<1>1. c \in CallRecord /\ InRange(c, p) /\ InOrder(c, p) /\ DecodedSoFarIs(c)
  BY DEF CallInv
<1>2. d \in CallRecord
  BY <1>1 DEF CallRecord, Pc
<1>3. /\ d.pc = "type" /\ d.bytes = c.bytes /\ d.i = c.i /\ d.out = c.out
      /\ d.at = c.at /\ d.unit = c.unit /\ d.result = c.result
  BY <1>1 DEF CallRecord
<1>4. /\ c.bytes \in Seq(Byte) /\ c.i \in Nat /\ c.out \in Seq(ScalarValue)
      /\ c.at = 1 /\ c.unit = 1 /\ c.i \in 1..(Len(c.bytes) + 1)
  BY <1>1 DEF CallRecord, InRange
<1> HIDE DEF d
<1>5. InRange(d, p)
  <2>1. c.at \in Nat /\ (c.at <= Len(c.out) => 1 \in 1..Len(Utf16(c.out[c.at])))
    BY <1>4, UnitsOfChar
  <2> QED BY <1>1, <1>3, <1>4, <2>1 DEF InRange
<1>6. InOrder(d, p)
  BY <1>1, <1>3 DEF InOrder
<1>7. EncodeAll(d.out) = d.bytes
  <2>1. c.i - 1 = Len(c.bytes)
    BY <1>4, LenProperties
  <2>2. EncodeAll(c.out) = SubSeq(c.bytes, 1, Len(c.bytes))
    BY <1>1, <2>1 DEF DecodedSoFarIs
  <2> QED BY <1>3, <1>4, <2>2, SubSeqFull
<1>8. DecodedSoFarIs(d)
  BY <1>1, <1>3, <1>7 DEF DecodedSoFarIs, InOrder
<1> QED BY <1>2, <1>5, <1>6, <1>8 DEF CallInv, d

(* Past the decoder a call keeps its text, whatever else it does. *)
LEMMA TypingOnOK ==
  ASSUME NEW p, NEW c, CallInv(c, p), c.pc \notin {"idle", "decode"},
         NEW d \in CallRecord, InRange(d, p), d.pc \notin {"idle", "decode"},
         d.pc = "unitUp" => p = "windows",
         d.pc \in {"bind", "press", "restore"} => p = "x11",
         d.bytes = c.bytes, d.out = c.out, d.result = c.result
  PROVE  CallInv(d, p)
<1>1. InOrder(c, p) /\ DecodedSoFarIs(c)
  BY DEF CallInv
<1>2. InOrder(d, p)
  BY <1>1 DEF InOrder
<1>3. DecodedSoFarIs(d)
  BY <1>1 DEF DecodedSoFarIs, InOrder
<1> QED BY <1>2, <1>3 DEF CallInv

(* One more character typed. *)
LEMMA CharTypedOK ==
  ASSUME NEW p, NEW c, CallInv(c, p), c.pc \in {"type", "unitUp", "restore"},
         c.at <= Len(c.out)
  PROVE  CallInv([c EXCEPT !.pc = IF c.human THEN "sleep" ELSE "type",
                           !.at = @ + 1, !.unit = 1], p)
<1> DEFINE d == [c EXCEPT !.pc = IF c.human THEN "sleep" ELSE "type",
                          !.at = @ + 1, !.unit = 1]
<1>1. c \in CallRecord /\ InRange(c, p) /\ c.pc \notin {"idle", "decode"}
  BY DEF CallInv
<1>2. /\ c.out \in Seq(ScalarValue) /\ c.at \in Nat /\ c.at + 1 \in Nat
      /\ c.i \in 1..(Len(c.bytes) + 1)
  BY <1>1 DEF CallRecord, InRange
<1>3. d \in CallRecord
  BY <1>1, <1>2 DEF CallRecord, Pc
<1>4. /\ d.pc \in {"sleep", "type"} /\ d.bytes = c.bytes /\ d.i = c.i /\ d.out = c.out
      /\ d.at = c.at + 1 /\ d.unit = 1 /\ d.result = c.result
  BY <1>1 DEF CallRecord
<1> HIDE DEF d
<1>5. InRange(d, p)
  <2>1. d.at \in 1..(Len(d.out) + 1)
    BY <1>2, <1>4, LenProperties
  <2>2. d.at <= Len(d.out) => 1 \in 1..Len(Utf16(d.out[d.at]))
    BY <1>2, <1>4, <2>1, UnitsOfChar
  <2> QED BY <1>2, <1>4, <2>1, <2>2 DEF InRange
<1>6. CallInv(d, p)
  BY <1>1, <1>3, <1>4, <1>5, TypingOnOK
<1> QED BY <1>6 DEF d

(* The sleep over. *)
LEMMA WokenOK ==
  ASSUME NEW p, NEW c, CallInv(c, p), c.pc = "sleep"
  PROVE  CallInv([c EXCEPT !.pc = "type"], p)
<1> DEFINE d == [c EXCEPT !.pc = "type"]
<1>1. c \in CallRecord /\ InRange(c, p) /\ c.pc \notin {"idle", "decode"}
  BY DEF CallInv
<1>2. /\ c.out \in Seq(ScalarValue) /\ c.at \in Nat /\ 1 <= c.at /\ c.unit = 1
  BY <1>1 DEF CallRecord, InRange
<1>3. d \in CallRecord
  BY <1>1 DEF CallRecord, Pc
<1>4. /\ d.pc = "type" /\ d.bytes = c.bytes /\ d.i = c.i /\ d.out = c.out
      /\ d.at = c.at /\ d.unit = c.unit /\ d.result = c.result
  BY <1>1 DEF CallRecord
<1> HIDE DEF d
<1>5. d.at <= Len(d.out) => 1 \in 1..Len(Utf16(d.out[d.at]))
  BY <1>2, <1>4, UnitsOfChar
<1>6. InRange(d, p)
  BY <1>1, <1>2, <1>4, <1>5 DEF InRange
<1>7. CallInv(d, p)
  BY <1>1, <1>3, <1>4, <1>6, TypingOnOK
<1> QED BY <1>7 DEF d

(* Windows: the next unit down, or all down; the next unit up. *)
LEMMA UnitDownOK ==
  ASSUME NEW c, CallInv(c, "windows"), c.pc = "type", c.at <= Len(c.out)
  PROVE  LET n == Len(Utf16(c.out[c.at]))
         IN CallInv([c EXCEPT !.pc = IF c.unit < n THEN "type" ELSE "unitUp",
                              !.unit = IF @ < n THEN @ + 1 ELSE 1], "windows")
<1> DEFINE n == Len(Utf16(c.out[c.at]))
           d == [c EXCEPT !.pc = IF c.unit < n THEN "type" ELSE "unitUp",
                          !.unit = IF @ < n THEN @ + 1 ELSE 1]
<1>1. c \in CallRecord /\ InRange(c, "windows") /\ c.pc \notin {"idle", "decode"}
  BY DEF CallInv
<1>2. /\ c.out \in Seq(ScalarValue) /\ c.at \in Nat /\ 1 <= c.at
      /\ c.unit \in Nat /\ c.unit \in 1..n
  BY <1>1 DEF CallRecord, InRange
<1>3. n \in {1, 2}
  BY <1>2, UnitsOfChar
<1>4. c.unit + 1 \in Nat
  BY <1>2
<1>5. d \in CallRecord
  BY <1>1, <1>4 DEF CallRecord, Pc
<1>6. /\ d.pc = (IF c.unit < n THEN "type" ELSE "unitUp")
      /\ d.bytes = c.bytes /\ d.i = c.i /\ d.out = c.out /\ d.at = c.at
      /\ d.unit = (IF c.unit < n THEN c.unit + 1 ELSE 1) /\ d.result = c.result
  BY <1>1 DEF CallRecord
<1>7. n = Len(Utf16(d.out[d.at]))
  BY <1>6
<1> HIDE DEF d, n
<1>8. d.unit \in 1..n /\ d.pc \in {"type", "unitUp"}
  BY <1>2, <1>3, <1>6
<1>9. InRange(d, "windows")
  BY <1>1, <1>6, <1>7, <1>8 DEF InRange
<1>10. CallInv(d, "windows")
  BY <1>1, <1>5, <1>6, <1>8, <1>9, TypingOnOK
<1> QED BY <1>10 DEF d, n

(* The next unit up. *)
LEMMA UnitUpOK ==
  ASSUME NEW c, CallInv(c, "windows"), c.pc = "unitUp", c.unit # Len(Utf16(c.out[c.at]))
  PROVE  CallInv([c EXCEPT !.unit = @ + 1], "windows")
<1> DEFINE n == Len(Utf16(c.out[c.at]))
           d == [c EXCEPT !.unit = @ + 1]
<1>1. c \in CallRecord /\ InRange(c, "windows") /\ c.pc \notin {"idle", "decode"}
  BY DEF CallInv
<1>2. /\ c.out \in Seq(ScalarValue) /\ c.at \in Nat /\ 1 <= c.at /\ c.at <= Len(c.out)
      /\ c.unit \in Nat /\ c.unit \in 1..n
  BY <1>1 DEF CallRecord, InRange
<1>3. n \in {1, 2}
  BY <1>2, UnitsOfChar
<1>4. d \in CallRecord
  BY <1>1, <1>2 DEF CallRecord
<1>5. /\ d.pc = "unitUp" /\ d.bytes = c.bytes /\ d.i = c.i /\ d.out = c.out
      /\ d.at = c.at /\ d.unit = c.unit + 1 /\ d.result = c.result
  BY <1>1 DEF CallRecord
<1>6. n = Len(Utf16(d.out[d.at])) /\ c.unit # n
  BY <1>5
<1> HIDE DEF d, n
<1>7. d.unit \in 1..n
  BY <1>2, <1>3, <1>5, <1>6
<1>8. InRange(d, "windows")
  BY <1>1, <1>5, <1>6, <1>7 DEF InRange
<1>9. CallInv(d, "windows")
  BY <1>1, <1>4, <1>5, <1>8, TypingOnOK
<1> QED BY <1>9 DEF d

(* X11: the steps of one character. *)
LEMMA FetchedOK ==
  ASSUME NEW c, CallInv(c, "x11"), c.pc = "type", c.at <= Len(c.out), NEW ks \in KeySyms
  PROVE  CallInv([c EXCEPT !.pc = "bind", !.saved = ks], "x11")
<1> DEFINE d == [c EXCEPT !.pc = "bind", !.saved = ks]
<1>1. c \in CallRecord /\ InRange(c, "x11") /\ c.pc \notin {"idle", "decode"}
  BY DEF CallInv
<1>2. d \in CallRecord
  BY <1>1 DEF CallRecord, Pc
<1>3. /\ d.pc = "bind" /\ d.bytes = c.bytes /\ d.i = c.i /\ d.out = c.out
      /\ d.at = c.at /\ d.unit = c.unit /\ d.result = c.result
  BY <1>1 DEF CallRecord
<1> HIDE DEF d
<1>4. InRange(d, "x11")
  BY <1>1, <1>3 DEF InRange
<1>5. CallInv(d, "x11")
  BY <1>1, <1>2, <1>3, <1>4, TypingOnOK
<1> QED BY <1>5 DEF d

(* Bound, then pressed. *)
LEMMA AdvancedOK ==
  ASSUME NEW c, CallInv(c, "x11"), c.pc \in {"bind", "press"}, NEW pc \in {"press", "restore"}
  PROVE  CallInv([c EXCEPT !.pc = pc], "x11")
<1> DEFINE d == [c EXCEPT !.pc = pc]
<1>1. c \in CallRecord /\ InRange(c, "x11") /\ c.pc \notin {"idle", "decode"}
  BY DEF CallInv
<1>2. d \in CallRecord
  BY <1>1 DEF CallRecord, Pc
<1>3. /\ d.pc = pc /\ d.bytes = c.bytes /\ d.i = c.i /\ d.out = c.out
      /\ d.at = c.at /\ d.unit = c.unit /\ d.result = c.result
  BY <1>1 DEF CallRecord
<1> HIDE DEF d
<1>4. InRange(d, "x11")
  BY <1>1, <1>3 DEF InRange
<1>5. CallInv(d, "x11")
  BY <1>1, <1>2, <1>3, <1>4, TypingOnOK
<1> QED BY <1>5 DEF d

-----------------------------------------------------------------------------
(* All calls.  TypingInv1 is inductive: types, and CallInv of each call.    *)
Event == {"mapping", "press"}

CallsOK ==
  /\ call \in [Session -> CallRecord]
  /\ \A s \in Session : CallInv(call[s], platform)

DesktopTypes ==
  /\ shown \in Seq(Unit16)
  /\ scratch \in KeySyms /\ known \in KeySyms
  /\ queue \in Seq(Event)

HistoryTypes ==
  /\ begun \in Nat /\ asked \in Seq(ScalarValue)
  /\ refused \in BOOLEAN /\ overlapped \in BOOLEAN /\ late \in BOOLEAN

TypingTypes == platform \in Platform /\ CallsOK /\ DesktopTypes /\ HistoryTypes

(* One record replaced. *)
LEMMA CallsUpdated ==
  ASSUME CallsOK, UNCHANGED platform, NEW s \in Session, NEW d, CallInv(d, platform),
         call' = [call EXCEPT ![s] = d]
  PROVE  CallsOK'
<1>1. d \in CallRecord
  BY DEF CallInv
<1>2. call' \in [Session -> CallRecord]
  BY <1>1 DEF CallsOK
<1>3. ASSUME NEW t \in Session
      PROVE  CallInv(call'[t], platform)
  <2>1. call'[t] = IF t = s THEN d ELSE call[t]
    BY DEF CallsOK
  <2> QED BY <2>1 DEF CallsOK
<1> QED BY <1>2, <1>3 DEF CallsOK

(* Return, as a change of one record. *)
LEMMA ReturnIs ==
  ASSUME CallsOK, NEW s \in Session, NEW answer, Return(s, answer)
  PROVE  /\ call' = [call EXCEPT ![s] = [call[s] EXCEPT !.pc = "idle", !.result = answer]]
         /\ call'[s].pc = "idle"
<1>1. call \in [Session -> CallRecord] /\ call[s] \in CallRecord
  BY DEF CallsOK
<1>2. call' = [call EXCEPT ![s].pc = "idle", ![s].result = answer]
  BY DEF Return
<1> QED BY <1>1, <1>2 DEF CallRecord

(* CharTyped, likewise. *)
LEMMA CharTypedIs ==
  ASSUME CallsOK, NEW s \in Session, CharTyped(s)
  PROVE  /\ call' = [call EXCEPT ![s] = [call[s] EXCEPT
                       !.pc = IF call[s].human THEN "sleep" ELSE "type",
                       !.at = @ + 1, !.unit = 1]]
         /\ call'[s].pc \in {"sleep", "type"} /\ call'[s].unit = 1
<1>1. call \in [Session -> CallRecord] /\ call[s] \in CallRecord
  BY DEF CallsOK
<1>2. call' = [call EXCEPT ![s].pc = IF call[s].human THEN "sleep" ELSE "type",
                           ![s].at = @ + 1, ![s].unit = 1]
  BY DEF CharTyped
<1> QED BY <1>1, <1>2 DEF CallRecord

(* The character a call is at. *)
LEMMA CharIs ==
  ASSUME CallsOK, NEW s \in Session, call[s].at <= Len(call[s].out)
  PROVE  /\ Char(s) \in ScalarValue
         /\ Units(s) = Units16(Char(s))
         /\ Units(s) \in Seq(Unit16)
         /\ Len(Units(s)) \in {1, 2}
         /\ Units(s) = Utf16(call[s].out[call[s].at])
<1>1. /\ call[s].out \in Seq(ScalarValue) /\ call[s].at \in Nat
      /\ call[s].at \in 1..(Len(call[s].out) + 1)
  BY DEF CallsOK, CallRecord, CallInv, InRange
<1>2. 1 <= call[s].at
  BY <1>1
<1> QED BY <1>1, <1>2, UnitsOfChar DEF Char, Units

(* A character's keysym is one. *)
LEMMA KeySymType ==
  ASSUME NEW cp \in ScalarValue
  PROVE  KeySym(cp) \in KeySyms
BY DEF KeySyms

(* The keysym of a character is read back as that character.                *)
LEMMA KeySymReadBack ==
  ASSUME NEW cp \in ScalarValue
  PROVE  Character(KeySym(cp)) = cp
<1>1. cp \in Nat
  BY ScalarBounds
<1> QED BY <1>1, SMT DEF KeySym, Character

(* What a keysym shows are units, and NoSymbol shows none, ...              *)
LEMMA ShownKeySym ==
  ASSUME NEW ks \in KeySyms
  PROVE  Showing(ks) \in Seq(Unit16)
<1>1. CASE ks = Original
  <2>1. Control(Character(ks))
    BY <1>1, SMT DEF Original, Character, Control
  <2> QED BY <2>1 DEF Showing
<1>2. CASE ks # Original
  <2>1. PICK cp \in ScalarValue : ks = KeySym(cp)
    BY <1>2 DEF KeySyms
  <2>2. Unshifted(cp) \in ScalarValue
    <3>1. ASSUME cp \in DOMAIN Lower
          PROVE  Lower[cp] \in Nat /\ Scalar(Lower[cp])
      BY <3>1, TypingAssumption
    <3> QED BY <2>1, <3>1 DEF Unshifted, ScalarValue
  <2>3. Units16(Unshifted(cp)) \in Seq(Unit16)
    BY <2>2, Utf16IsUnits16
  <2>4. Character(ks) = cp
    BY <2>1, KeySymReadBack
  <2> QED BY <2>3, <2>4 DEF Showing
<1> QED BY <1>1, <1>2

(* ... and that of a plain character shows the character.                   *)
LEMMA ShownPlain ==
  ASSUME NEW cp \in ScalarValue, Plain(cp)
  PROVE  Showing(KeySym(cp)) = Units16(cp)
BY KeySymReadBack DEF Showing, Plain, Unshifted

(* A return with an answer other than a rejection. *)
LEMMA ReturnOK ==
  ASSUME CallsOK, UNCHANGED platform, NEW s \in Session,
         NEW answer \in {"ok", "unsupported", "platformError"}, Return(s, answer)
  PROVE  CallsOK'
<1>1. CallInv([call[s] EXCEPT !.pc = "idle", !.result = answer], platform)
  BY AnsweredOK DEF CallsOK
<1> QED BY <1>1, ReturnIs, CallsUpdated

(* A character is typed at one of three places. *)
LEMMA CharTypedCallsOK ==
  ASSUME CallsOK, UNCHANGED platform, NEW s \in Session, CharTyped(s),
         call[s].pc \in {"type", "unitUp", "restore"}, call[s].at <= Len(call[s].out)
  PROVE  CallsOK'
<1>1. CallInv([call[s] EXCEPT !.pc = IF call[s].human THEN "sleep" ELSE "type",
                              !.at = @ + 1, !.unit = 1], platform)
  BY CharTypedOK DEF CallsOK
<1> QED BY <1>1, CharTypedIs, CallsUpdated

(* The steps before any character goes out. *)
LEMMA DecodeCallsOK ==
  ASSUME CallsOK, NEW s \in Session, Decode(s)
  PROVE  CallsOK'
<1> DEFINE c == call[s]
           kinds == {kind \in LeadKinds : Accepts(c.bytes, c.i, kind)}
<1>1. /\ CallInv(c, platform) /\ c.bytes \in Seq(Byte) /\ c.i \in Nat /\ 1 <= c.i
      /\ call \in [Session -> CallRecord]
  BY DEF CallsOK, CallRecord, CallInv, InRange
<1>2. /\ c.pc = "decode" /\ c.i <= Len(c.bytes) /\ UNCHANGED platform
      /\ \/ \E kind \in kinds :
              call' = [call EXCEPT
                        ![s].out = Append(@, Value(c.bytes, c.i, kind)),
                        ![s].i = @ + kind.extra + 1]
         \/ kinds = {} /\ Return(s, "invalidArgument")
  BY DEF Decode
<1>3. ASSUME NEW kind \in kinds,
             call' = [call EXCEPT
                        ![s].out = Append(@, Value(c.bytes, c.i, kind)),
                        ![s].i = @ + kind.extra + 1]
      PROVE  CallsOK'
  <2> DEFINE d == [c EXCEPT !.out = Append(@, Value(c.bytes, c.i, kind)),
                            !.i = @ + kind.extra + 1]
  <2>1. call' = [call EXCEPT ![s] = d]
    BY <1>1, <1>3
  <2>2. CallInv(d, platform)
    BY <1>1, <1>2, <1>3, DecodedOneOK
  <2> HIDE DEF d
  <2> QED BY <1>2, <2>1, <2>2, CallsUpdated
<1>4. ASSUME kinds = {}, Return(s, "invalidArgument")
      PROVE  CallsOK'
  <2>1. ~WellFormedAt(c.bytes, c.i)
    BY <1>1, <1>2, <1>4, DecoderExact
  <2>2. CallInv([c EXCEPT !.pc = "idle", !.result = "invalidArgument"], platform)
    BY <1>1, <1>2, <2>1, RejectedOK
  <2> QED BY <1>2, <1>4, <2>2, ReturnIs, CallsUpdated
<1> QED BY <1>2, <1>3, <1>4

(* A step that only moves a call on. *)
LEMMA PcCallsOK ==
  ASSUME CallsOK, UNCHANGED platform, NEW s \in Session, NEW pc,
         CallInv([call[s] EXCEPT !.pc = pc], platform),
         call' = [call EXCEPT ![s].pc = pc]
  PROVE  CallsOK'
<1>1. call' = [call EXCEPT ![s] = [call[s] EXCEPT !.pc = pc]]
  BY DEF CallsOK
<1> QED BY <1>1, CallsUpdated

(* A call that begins keeps the types ... *)
LEMMA BeginTypes ==
  ASSUME TypingTypes, NEW s \in Session, NEW c, Begin(s, c), CallInv(c, platform)
  PROVE  TypingTypes'
<1>1. /\ begun' = begun + 1 /\ call' = [call EXCEPT ![s] = c]
      /\ overlapped' = (overlapped \/ Busy # {})
      /\ UNCHANGED <<platform, shown, unitsDown, scratch, queue, known, asked, refused, late>>
  BY DEF Begin, externalVars
<1>2. CallsOK'
  BY <1>1, CallsUpdated DEF TypingTypes
<1>3. overlapped' \in BOOLEAN
  BY <1>1, Zenon DEF TypingTypes, HistoryTypes
<1>4. begun' \in Nat
  BY <1>1 DEF TypingTypes, HistoryTypes
<1> QED BY <1>1, <1>2, <1>3, <1>4 DEF TypingTypes, DesktopTypes, HistoryTypes

(* ... whichever it is. *)
LEMMA CallTypes ==
  ASSUME TypingTypes, NEW s \in Session, Call(s)
  PROVE  TypingTypes'
<1>1. platform \in Platform
  BY DEF TypingTypes
<1>2. \A bytes \in Texts[platform] : bytes \in Seq(Byte)
  BY <1>1, TypingAssumption DEF Byte
<1>3. Chars \subseteq Nat
  BY TypingAssumption
<1>4. ASSUME NEW bytes \in Texts[platform], NEW human \in BOOLEAN, typeText(s, bytes, human)
      PROVE  TypingTypes'
  BY <1>2, <1>4, TextOK, BeginTypes DEF typeText
<1>5. ASSUME NEW cp \in Chars, typeChar(s, cp)
      PROVE  TypingTypes'
  BY <1>3, <1>5, CharOK, BeginTypes DEF typeChar
<1> QED BY <1>4, <1>5 DEF Call

(* What each action leaves alone. *)
LEMMA NothingTyped ==
  ASSUME TypingTypes, UNCHANGED <<platform, externalVars, historyVars>>, CallsOK'
  PROVE  TypingTypes'
BY DEF TypingTypes, DesktopTypes, HistoryTypes, externalVars, historyVars

(* A refusal ends the call. *)
LEMMA RefuseTypes ==
  ASSUME TypingTypes, UNCHANGED platform, NEW s \in Session, Refuse(s, "platformError")
  PROVE  CallsOK' /\ refused' = TRUE /\ UNCHANGED asked
<1>1. Return(s, "platformError") /\ refused' = TRUE /\ UNCHANGED asked
  BY DEF Refuse
<1> QED BY <1>1, ReturnOK DEF TypingTypes

(* A typed character is a scalar value. *)
LEMMA CharTypedTypes ==
  ASSUME TypingTypes, UNCHANGED platform, NEW s \in Session, CharTyped(s),
         call[s].pc \in {"type", "unitUp", "restore"}, call[s].at <= Len(call[s].out)
  PROVE  CallsOK' /\ asked' = Append(asked, Char(s)) /\ asked' \in Seq(ScalarValue)
<1>1. CallsOK'
  BY CharTypedCallsOK DEF TypingTypes
<1>2. asked' = Append(asked, Char(s)) /\ Char(s) \in ScalarValue /\ asked \in Seq(ScalarValue)
  BY CharIs DEF TypingTypes, HistoryTypes, CharTyped
<1> QED BY <1>1, <1>2, AppendProperties

(* The steps that type, one by one: a unit down, ... *)
LEMMA WinUnitDownTypes ==
  ASSUME TypingTypes, NEW s \in Session, WinUnitDown(s)
  PROVE  TypingTypes'
<1> DEFINE c == call[s]
           n == Len(Units(s))
<1>1. /\ platform = "windows" /\ c.pc = "type" /\ c.at <= Len(c.out)
      /\ CallsOK /\ CallInv(c, "windows") /\ call \in [Session -> CallRecord]
      /\ UNCHANGED <<platform, scratch, queue, known, begun, overlapped, late>>
  BY DEF TypingTypes, CallsOK, WinUnitDown, Typing
<1>2. CASE /\ shown' = Append(shown, Units(s)[c.unit])
           /\ call' = [call EXCEPT
                        ![s].pc = IF c.unit < n THEN "type" ELSE "unitUp",
                        ![s].unit = IF @ < n THEN @ + 1 ELSE 1]
           /\ UNCHANGED <<asked, refused>>
  <2> DEFINE d == [c EXCEPT !.pc = IF c.unit < n THEN "type" ELSE "unitUp",
                            !.unit = IF @ < n THEN @ + 1 ELSE 1]
  <2>1. CallInv(d, platform)
    BY <1>1, UnitDownOK DEF Units, Char
  <2>2. call' = [call EXCEPT ![s] = d]
    BY <1>1, <1>2
  <2>3. CallsOK'
    <3> HIDE DEF d
    <3> QED BY <1>1, <2>1, <2>2, CallsUpdated
  <2>4. shown' \in Seq(Unit16)
    <3>1. Units(s) \in Seq(Unit16) /\ c.unit \in 1..Len(Units(s))
      BY <1>1, CharIs DEF CallInv, InRange
    <3>2. Units(s)[c.unit] \in Unit16 /\ shown \in Seq(Unit16)
      BY <3>1, ElementOfSeq DEF TypingTypes, DesktopTypes
    <3> QED BY <1>2, <3>2, AppendProperties
  <2> QED BY <1>1, <1>2, <2>3, <2>4 DEF TypingTypes, DesktopTypes, HistoryTypes
<1>3. CASE Refuse(s, "platformError") /\ UNCHANGED shown
  BY <1>1, <1>3, RefuseTypes DEF TypingTypes, DesktopTypes, HistoryTypes
<1> QED BY <1>2, <1>3 DEF WinUnitDown

(* ... a unit up, ... *)
LEMMA WinUnitUpTypes ==
  ASSUME TypingTypes, NEW s \in Session, WinUnitUp(s)
  PROVE  TypingTypes'
<1> DEFINE c == call[s]
<1>1. /\ c.pc = "unitUp" /\ CallsOK /\ CallInv(c, platform) /\ call \in [Session -> CallRecord]
      /\ UNCHANGED <<platform, shown, scratch, queue, known, begun, overlapped, late>>
  BY DEF TypingTypes, CallsOK, WinUnitUp
<1>2. platform = "windows" /\ c.at <= Len(c.out)
  BY <1>1 DEF CallInv, InRange, InOrder
<1>3. CASE LastUnit(s) /\ CharTyped(s) /\ UNCHANGED refused
  BY <1>1, <1>2, <1>3, CharTypedTypes DEF TypingTypes, DesktopTypes, HistoryTypes
<1>4. CASE /\ ~LastUnit(s) /\ call' = [call EXCEPT ![s].unit = @ + 1]
           /\ UNCHANGED <<asked, refused>>
  <2>1. c.unit # Len(Utf16(c.out[c.at]))
    BY <1>4 DEF LastUnit, Units, Char
  <2>2. CallInv([c EXCEPT !.unit = @ + 1], platform)
    BY <1>1, <1>2, <2>1, UnitUpOK
  <2>3. call' = [call EXCEPT ![s] = [c EXCEPT !.unit = @ + 1]]
    BY <1>1, <1>4
  <2>4. CallsOK'
    BY <1>1, <2>2, <2>3, CallsUpdated
  <2> QED BY <1>1, <1>4, <2>4 DEF TypingTypes, DesktopTypes, HistoryTypes
<1>5. CASE Refuse(s, "platformError")
  BY <1>1, <1>5, RefuseTypes DEF TypingTypes, DesktopTypes, HistoryTypes
<1> QED BY <1>3, <1>4, <1>5 DEF WinUnitUp

(* ... a whole character on macOS, ... *)
LEMMA MacTypeTypes ==
  ASSUME TypingTypes, NEW s \in Session, MacType(s)
  PROVE  TypingTypes'
<1>1. /\ CallsOK /\ call[s].pc = "type" /\ call[s].at <= Len(call[s].out)
      /\ UNCHANGED <<platform, unitsDown, scratch, queue, known, begun, overlapped, late>>
  BY DEF TypingTypes, MacType, Typing
<1>2. CASE shown' = shown \o Units(s) /\ CharTyped(s) /\ UNCHANGED refused
  <2>1. shown' \in Seq(Unit16)
    BY <1>1, <1>2, CharIs, ConcatProperties DEF TypingTypes, DesktopTypes
  <2> QED BY <1>1, <1>2, <2>1, CharTypedTypes DEF TypingTypes, DesktopTypes, HistoryTypes
<1>3. CASE Refuse(s, "platformError") /\ UNCHANGED shown
  BY <1>1, <1>3, RefuseTypes DEF TypingTypes, DesktopTypes, HistoryTypes
<1> QED BY <1>2, <1>3 DEF MacType

(* ... and on X11 the scratch keycode read, ... *)
LEMMA X11FetchTypes ==
  ASSUME TypingTypes, NEW s \in Session, X11Fetch(s)
  PROVE  TypingTypes'
<1> DEFINE c == call[s]
<1>1. /\ CallsOK /\ c.pc = "type" /\ c.at <= Len(c.out) /\ platform = "x11"
      /\ CallInv(c, "x11") /\ call \in [Session -> CallRecord] /\ scratch \in KeySyms
      /\ UNCHANGED <<platform, shown, unitsDown, scratch, queue, known, begun, overlapped, late>>
  BY DEF TypingTypes, DesktopTypes, CallsOK, X11Fetch, Typing, externalVars
<1>2. CASE /\ call' = [call EXCEPT ![s].pc = "bind", ![s].saved = scratch]
           /\ UNCHANGED <<asked, refused>>
  <2>1. CallInv([c EXCEPT !.pc = "bind", !.saved = scratch], platform)
    BY <1>1, FetchedOK
  <2>2. call' = [call EXCEPT ![s] = [c EXCEPT !.pc = "bind", !.saved = scratch]]
    BY <1>1, <1>2
  <2>3. CallsOK'
    BY <1>1, <2>1, <2>2, CallsUpdated
  <2> QED BY <1>1, <1>2, <2>3 DEF TypingTypes, DesktopTypes, HistoryTypes
<1>3. CASE Refuse(s, "platformError")
  BY <1>1, <1>3, RefuseTypes DEF TypingTypes, DesktopTypes, HistoryTypes
<1> QED BY <1>2, <1>3 DEF X11Fetch

(* ... bound, ... *)
LEMMA X11BindTypes ==
  ASSUME TypingTypes, NEW s \in Session, X11Bind(s)
  PROVE  TypingTypes'
<1> DEFINE c == call[s]
<1>1. /\ CallsOK /\ CallInv(c, platform) /\ c.pc = "bind" /\ queue \in Seq(Event)
      /\ scratch' = KeySym(Char(s)) /\ queue' = Append(queue, "mapping")
      /\ call' = [call EXCEPT ![s].pc = "press"]
      /\ UNCHANGED <<platform, shown, unitsDown, known, historyVars>>
  BY DEF TypingTypes, DesktopTypes, CallsOK, X11Bind
<1>2. platform = "x11" /\ c.at <= Len(c.out)
  BY <1>1 DEF CallInv, InRange, InOrder
<1>3. CallsOK'
  BY <1>1, <1>2, AdvancedOK, PcCallsOK
<1>4. scratch' \in KeySyms /\ queue' \in Seq(Event)
  BY <1>1, <1>2, CharIs, KeySymType, AppendProperties DEF Event
<1> QED BY <1>1, <1>3, <1>4 DEF TypingTypes, DesktopTypes, HistoryTypes, historyVars

(* ... pressed ... *)
LEMMA X11PressTypes ==
  ASSUME TypingTypes, NEW s \in Session, X11Press(s)
  PROVE  TypingTypes'
<1> DEFINE c == call[s]
<1>1. /\ CallsOK /\ CallInv(c, platform) /\ c.pc = "press" /\ queue \in Seq(Event)
      /\ queue' = Append(queue, "press")
      /\ call' = [call EXCEPT ![s].pc = "restore"]
      /\ UNCHANGED <<platform, shown, unitsDown, scratch, known, historyVars>>
  BY DEF TypingTypes, DesktopTypes, CallsOK, X11Press
<1>2. platform = "x11"
  BY <1>1 DEF CallInv, InOrder
<1>3. CallsOK'
  BY <1>1, <1>2, AdvancedOK, PcCallsOK
<1>4. queue' \in Seq(Event)
  BY <1>1, AppendProperties DEF Event
<1> QED BY <1>1, <1>3, <1>4 DEF TypingTypes, DesktopTypes, HistoryTypes, historyVars

(* ... and restored. *)
LEMMA X11RestoreTypes ==
  ASSUME TypingTypes, NEW s \in Session, X11Restore(s)
  PROVE  TypingTypes'
<1> DEFINE c == call[s]
<1>1. /\ CallsOK /\ CallInv(c, platform) /\ c.pc = "restore" /\ queue \in Seq(Event)
      /\ scratch' = c.saved /\ queue' = Append(queue, "mapping") /\ CharTyped(s)
      /\ late' = (late \/ "mapping" \in ToSet(queue))
      /\ UNCHANGED <<platform, shown, unitsDown, known, begun, refused, overlapped>>
  BY DEF TypingTypes, DesktopTypes, CallsOK, X11Restore
<1>2. c \in CallRecord /\ c.at <= Len(c.out)
  BY <1>1 DEF CallInv, InRange
<1>3. CallsOK' /\ asked' \in Seq(ScalarValue)
  BY <1>1, <1>2, CharTypedTypes
<1>4. scratch' \in KeySyms /\ queue' \in Seq(Event)
  BY <1>1, <1>2, AppendProperties DEF CallRecord, Event
<1>5. late' \in BOOLEAN
  BY <1>1, Zenon DEF TypingTypes, HistoryTypes
<1> QED BY <1>1, <1>3, <1>4, <1>5 DEF TypingTypes, DesktopTypes, HistoryTypes

(* The application's step. *)
LEMMA X11AppHandlesTypes ==
  ASSUME TypingTypes, X11AppHandles
  PROVE  TypingTypes'
<1>1. /\ queue # <<>> /\ queue \in Seq(Event) /\ queue' = Tail(queue)
      /\ shown \in Seq(Unit16) /\ known \in KeySyms /\ scratch \in KeySyms
      /\ UNCHANGED <<platform, call, unitsDown, scratch, historyVars>>
  BY DEF TypingTypes, DesktopTypes, X11AppHandles
<1>2. CallsOK'
  BY <1>1 DEF TypingTypes, CallsOK
<1>3. queue' \in Seq(Event)
  BY <1>1, HeadTailProperties
<1>4. shown' \in Seq(Unit16) /\ known' \in KeySyms
  <2>1. CASE known' = scratch /\ UNCHANGED shown
    BY <1>1, <2>1
  <2>2. CASE shown' = shown \o Showing(known) /\ UNCHANGED known
    BY <1>1, <2>2, ShownKeySym, ConcatProperties
  <2> QED BY <2>1, <2>2 DEF X11AppHandles
<1> QED BY <1>1, <1>2, <1>3, <1>4 DEF TypingTypes, DesktopTypes, HistoryTypes, historyVars

(* All steps of a call. *)
LEMMA StepTypes ==
  ASSUME TypingTypes, NEW s \in Session, Step(s)
  PROVE  TypingTypes'
<1> USE DEF historyVars, externalVars
<1>1. CallsOK /\ CallInv(call[s], platform) /\ call[s] \in CallRecord
  BY DEF TypingTypes, CallsOK, CallInv
<1>2. CASE Decode(s)
  BY <1>1, <1>2, DecodeCallsOK, NothingTyped DEF Decode
<1>3. CASE Decoded(s)
  BY <1>1, <1>3, DecodedOK, PcCallsOK, NothingTyped DEF Decoded
<1>4. CASE AllTyped(s)
  BY <1>1, <1>4, ReturnOK, NothingTyped DEF AllTyped
<1>5. CASE Wake(s)
  BY <1>1, <1>5, WokenOK, PcCallsOK, NothingTyped DEF Wake
<1>6. CASE UinputType(s)
  BY <1>1, <1>6, ReturnOK, NothingTyped DEF UinputType
<1> QED BY <1>2, <1>3, <1>4, <1>5, <1>6, WinUnitDownTypes, WinUnitUpTypes, MacTypeTypes,
           X11FetchTypes, X11BindTypes, X11PressTypes, X11RestoreTypes DEF Step

(* The types hold at first, ... *)
LEMMA InitTypes == Init => TypingTypes
<1> SUFFICES ASSUME Init PROVE TypingTypes
  OBVIOUS
<1>1. CallsOK
  BY IdleOK DEF Init, CallsOK
<1>2. <<>> \in Seq(Unit16) /\ <<>> \in Seq(Event) /\ <<>> \in Seq(ScalarValue)
  BY EmptySeq
<1> QED BY <1>1, <1>2 DEF Init, TypingTypes, DesktopTypes, HistoryTypes, KeySyms

(* ... and after every step, ... *)
LEMMA NextTypes == TypingTypes /\ [Next]_vars => TypingTypes'
<1> SUFFICES ASSUME TypingTypes, [Next]_vars PROVE TypingTypes'
  OBVIOUS
<1>1. CASE UNCHANGED vars
  BY <1>1 DEF vars, externalVars, historyVars, TypingTypes, CallsOK, DesktopTypes, HistoryTypes
<1> QED BY <1>1, CallTypes, StepTypes, X11AppHandlesTypes DEF Next, Quiet

(* ... so always. *)
LEMMA Typed == Spec => []TypingTypes
BY InitTypes, NextTypes, PTL DEF Spec

(* What they say: types, indices in range. *)
LEMMA TypesGive ==
  ASSUME TypingTypes
  PROVE  TypeOK /\ DecodesExactly /\ MalformedTypesNothing
<1>1. ASSUME NEW s \in Session
      PROVE  /\ call[s] \in CallRecord /\ InRange(call[s], platform)
             /\ InOrder(call[s], platform) /\ DecodedSoFarIs(call[s])
  BY DEF TypingTypes, CallsOK, CallInv
<1>2. TypeOK
  <2>1. \A k \in 1..Len(shown) : shown[k] \in Nat /\ shown[k] < 65536
    BY ElementOfSeq DEF TypingTypes, DesktopTypes, Unit16
  <2>2. scratch \in Nat /\ known \in Nat
    <3>1. ASSUME NEW ks \in KeySyms
          PROVE  ks \in Nat
      <4>1. \A cp \in ScalarValue : KeySym(cp) \in Nat
        BY ScalarBounds, SMT DEF KeySym
      <4> QED BY <4>1 DEF KeySyms, Original
    <3> QED BY <3>1 DEF TypingTypes, DesktopTypes
  <2>3. ASSUME NEW s \in Session
        PROVE  /\ call[s].pc \in Pc
               /\ call[s].i \in 1..(Len(call[s].bytes) + 1)
               /\ call[s].at \in 1..(Len(call[s].out) + 1)
               /\ call[s].result \in Error \union {"ok"}
    BY <1>1 DEF CallRecord, InRange
  <2>4. platform \in Platform
    BY DEF TypingTypes
  <2> QED BY <2>1, <2>2, <2>3, <2>4, SMT DEF TypeOK, Pc
<1>3. DecodesExactly
  BY <1>1 DEF DecodesExactly, DecodedSoFarIs
<1>4. MalformedTypesNothing
  <2>1. ASSUME NEW s \in Session, call[s].at > 1, call[s].bytes # <<>>
        PROVE  EncodeAll(call[s].out) = call[s].bytes
    BY <1>1, <2>1 DEF DecodedSoFarIs
  <2> QED BY <2>1 DEF MalformedTypesNothing
<1> QED BY <1>2, <1>3, <1>4

(* Type correctness of Typing: the facade's places in the text and in the   *)
(* character stay in range (Keyboard.cpp:147-195).                          *)
THEOREM TypingTypeCorrect == Spec => []TypeOK
BY Typed, TypesGive, PTL

(* For every text, decodeUtf8 agrees with the Unicode standard, byte for byte *)
(* (Keyboard.cpp:32-99).                                                    *)
THEOREM TypingDecodesExactly == Spec => []DecodesExactly
BY Typed, TypesGive, PTL

(* No character of a text that is malformed anywhere is ever typed          *)
(* (Keyboard.h:64-65).                                                      *)
THEOREM TypingMalformedTypesNothing == Spec => []MalformedTypesNothing
BY Typed, TypesGive, PTL

-----------------------------------------------------------------------------
(* No unit stays pressed.  What is down is owed by a call: the units it has *)
(* pressed and not released yet.                                            *)
OwedBy(s, c) ==
  LET u == Utf16(c.out[c.at])
  IN IF c.pc = "type" /\ c.at <= Len(c.out) THEN {<<s, u[k]>> : k \in 1..(c.unit - 1)}
     ELSE IF c.pc = "unitUp" THEN {<<s, u[k]>> : k \in c.unit..Len(u)}
     ELSE {}

UnitsOwed ==
  ~refused => \A x \in unitsDown : \E s \in Session : x \in OwedBy(s, call[s])

(* A session's step changes its own call only, which was in progress. *)
LEMMA OneChanged ==
  ASSUME TypingTypes, NEW s \in Session, Step(s)
  PROVE  /\ \A t \in Session \ {s} : call'[t] = call[t]
         /\ s \in Busy
         /\ UNCHANGED <<platform, begun, overlapped>>
<1>1. call \in [Session -> CallRecord]
  BY DEF TypingTypes, CallsOK
<1> USE DEF historyVars, externalVars
<1>2. CASE Decode(s)
  BY <1>1, <1>2 DEF Decode, Return, Busy
<1>3. CASE Decoded(s) \/ AllTyped(s) \/ Wake(s)
  BY <1>1, <1>3 DEF Decoded, AllTyped, Wake, Return, Busy
<1>4. CASE WinUnitDown(s)
  BY <1>1, <1>4 DEF WinUnitDown, Typing, Refuse, Return, Busy
<1>5. CASE WinUnitUp(s)
  BY <1>1, <1>5 DEF WinUnitUp, CharTyped, Refuse, Return, Busy
<1>6. CASE MacType(s) \/ UinputType(s)
  BY <1>1, <1>6 DEF MacType, UinputType, Typing, CharTyped, Refuse, Return, Busy
<1>7. CASE X11Fetch(s)
  BY <1>1, <1>7 DEF X11Fetch, Typing, Refuse, Return, Busy
<1>8. CASE X11Bind(s) \/ X11Press(s)
  BY <1>1, <1>8 DEF X11Bind, X11Press, Busy
<1>9. CASE X11Restore(s)
  BY <1>1, <1>9 DEF X11Restore, CharTyped, Busy
<1> QED BY <1>2, <1>3, <1>4, <1>5, <1>6, <1>7, <1>8, <1>9 DEF Step

(* Debts after a step. *)
LEMMA DebtsKept ==
  ASSUME UnitsOwed, NEW s \in Session, \A t \in Session \ {s} : call'[t] = call[t],
         refused => refused',
         ~refused' => \A x \in unitsDown' :
                        /\ x \in unitsDown \/ x \in OwedBy(s, call'[s])
                        /\ x \in OwedBy(s, call[s]) => x \in OwedBy(s, call'[s])
  PROVE  UnitsOwed'
<1> SUFFICES ASSUME ~refused', NEW x \in unitsDown'
             PROVE  \E t \in Session : x \in OwedBy(t, call'[t])
  BY DEF UnitsOwed
<1>1. CASE x \in OwedBy(s, call'[s])
  BY <1>1
<1>2. CASE x \in unitsDown /\ x \notin OwedBy(s, call'[s])
  <2>1. PICK t \in Session : x \in OwedBy(t, call[t])
    BY <1>2 DEF UnitsOwed
  <2>2. t # s
    BY <1>2, <2>1
  <2> QED BY <2>1, <2>2
<1> QED BY <1>1, <1>2

(* A step of a call that owes nothing. *)
LEMMA NothingOwed ==
  ASSUME UnitsOwed, NEW s \in Session, \A t \in Session \ {s} : call'[t] = call[t],
         refused => refused', ~refused' => unitsDown' = unitsDown,
         OwedBy(s, call[s]) = {}
  PROVE  UnitsOwed'
BY DebtsKept

(* Off Windows no call has a second unit to press. *)
LEMMA FirstUnitOwesNothing ==
  ASSUME NEW s, NEW c, c.unit = 1, c.pc # "unitUp"
  PROVE  OwedBy(s, c) = {}
BY DEF OwedBy

(* A unit that goes down is owed from then on. *)
LEMMA WinUnitDownOwed ==
  ASSUME TypingTypes, UnitsOwed, NEW s \in Session, WinUnitDown(s)
  PROVE  UnitsOwed'
<1> DEFINE c == call[s]
           d == call'[s]
           u == Units(s)
           n == Len(Units(s))
<1>1. /\ platform = "windows" /\ c.pc = "type" /\ c.at <= Len(c.out)
      /\ CallsOK /\ call \in [Session -> CallRecord] /\ c \in CallRecord /\ InRange(c, "windows")
  BY DEF TypingTypes, CallsOK, WinUnitDown, Typing, CallInv
<1>2. /\ u = Utf16(c.out[c.at]) /\ c.unit \in Nat /\ c.unit \in 1..n /\ n \in {1, 2}
  BY <1>1, CharIs DEF CallRecord, InRange
<1>3. OwedBy(s, c) = {<<s, u[k]>> : k \in 1..(c.unit - 1)}
  BY <1>1, <1>2 DEF OwedBy
<1>4. \A t \in Session \ {s} : call'[t] = call[t]
  BY OneChanged DEF Step
<1>5. CASE /\ unitsDown' = unitsDown \union {<<s, u[c.unit]>>}
           /\ call' = [call EXCEPT
                        ![s].pc = IF c.unit < n THEN "type" ELSE "unitUp",
                        ![s].unit = IF @ < n THEN @ + 1 ELSE 1]
           /\ UNCHANGED <<asked, refused>>
  <2>1. /\ d.pc = (IF c.unit < n THEN "type" ELSE "unitUp")
        /\ d.unit = (IF c.unit < n THEN c.unit + 1 ELSE 1)
        /\ d.out = c.out /\ d.at = c.at
    BY <1>1, <1>5 DEF CallRecord
  <2> HIDE DEF c, d, u, n
  <2>2. OwedBy(s, d) = {<<s, u[k]>> : k \in 1..c.unit}
    <3>1. CASE c.unit < n
      <4>1. /\ d.unit - 1 = c.unit /\ d.pc = "type" /\ d.at <= Len(d.out)
            /\ Utf16(d.out[d.at]) = u
        BY <1>1, <1>2, <2>1, <3>1
      <4> QED BY <4>1 DEF OwedBy
    <3>2. CASE ~(c.unit < n)
      <4>1. c.unit = n /\ d.unit = 1 /\ d.pc = "unitUp" /\ Utf16(d.out[d.at]) = u
        BY <1>2, <2>1, <3>2
      <4> QED BY <4>1 DEF OwedBy, n, u
    <3> QED BY <3>1, <3>2
  <2>3. c.unit \in 1..c.unit /\ \A k \in 1..(c.unit - 1) : k \in 1..c.unit
    BY <1>2
  <2>4. ASSUME NEW x \in unitsDown'
        PROVE  /\ x \in unitsDown \/ x \in OwedBy(s, d)
               /\ x \in OwedBy(s, c) => x \in OwedBy(s, d)
    BY <1>3, <1>5, <2>2, <2>3
  <2> QED BY <1>4, <1>5, <2>4, DebtsKept DEF c, d
<1>6. CASE Refuse(s, "platformError")
  BY <1>4, <1>6, DebtsKept DEF Refuse
<1> QED BY <1>5, <1>6 DEF WinUnitDown

(* A unit that comes up no longer is. *)
LEMMA WinUnitUpOwed ==
  ASSUME TypingTypes, UnitsOwed, NEW s \in Session, WinUnitUp(s)
  PROVE  UnitsOwed'
<1> DEFINE c == call[s]
           d == call'[s]
           u == Units(s)
           n == Len(Units(s))
<1>1. /\ c.pc = "unitUp" /\ c.at <= Len(c.out)
      /\ CallsOK /\ call \in [Session -> CallRecord] /\ c \in CallRecord /\ InRange(c, platform)
  BY DEF TypingTypes, CallsOK, WinUnitUp, CallInv, InRange
<1>2. /\ u = Utf16(c.out[c.at]) /\ c.unit \in Nat /\ c.unit \in 1..n /\ n \in {1, 2}
  BY <1>1, CharIs DEF CallRecord, InRange
<1>3. OwedBy(s, c) = {<<s, u[k]>> : k \in c.unit..n}
  BY <1>1, <1>2 DEF OwedBy
<1>4. \A t \in Session \ {s} : call'[t] = call[t]
  BY OneChanged DEF Step
<1>5. ASSUME unitsDown' = unitsDown \ {<<s, u[c.unit]>>}, UNCHANGED refused,
             \A k \in c.unit..n : k # c.unit => <<s, u[k]>> \in OwedBy(s, d)
      PROVE  UnitsOwed'
  <2>1. ASSUME NEW x \in unitsDown'
        PROVE  x \in OwedBy(s, c) => x \in OwedBy(s, d)
    BY <1>3, <1>5
  <2> QED BY <1>4, <1>5, <2>1, DebtsKept
<1>6. CASE unitsDown' = unitsDown \ {<<s, u[c.unit]>>} /\ LastUnit(s) /\ UNCHANGED refused
  <2>1. \A k \in c.unit..n : k = c.unit
    BY <1>2, <1>6 DEF LastUnit
  <2> QED BY <1>5, <1>6, <2>1
<1>7. CASE /\ unitsDown' = unitsDown \ {<<s, u[c.unit]>>} /\ UNCHANGED refused
           /\ call' = [call EXCEPT ![s].unit = @ + 1]
  <2>1. d.pc = "unitUp" /\ d.unit = c.unit + 1 /\ d.out = c.out /\ d.at = c.at
    BY <1>1, <1>7 DEF CallRecord
  <2>2. OwedBy(s, d) = {<<s, u[k]>> : k \in (c.unit + 1)..n}
    <3> HIDE DEF c, d, u, n
    <3>1. Utf16(d.out[d.at]) = u
      BY <1>2, <2>1
    <3> QED BY <2>1, <3>1 DEF OwedBy, n, u
  <2>3. \A k \in c.unit..n : k # c.unit => k \in (c.unit + 1)..n
    BY <1>2
  <2> QED BY <1>5, <1>7, <2>2, <2>3
<1>8. CASE Refuse(s, "platformError")
  BY <1>4, <1>8, DebtsKept DEF Refuse
<1> QED BY <1>6, <1>7, <1>8 DEF WinUnitUp

(* All steps of a call keep account of the units, ... *)
LEMMA OwedStep ==
  ASSUME TypingTypes, UnitsOwed, NEW s \in Session, Step(s)
  PROVE  UnitsOwed'
<1>1. /\ \A t \in Session \ {s} : call'[t] = call[t]
      /\ call[s] \in CallRecord /\ InRange(call[s], platform) /\ InOrder(call[s], platform)
  BY OneChanged DEF TypingTypes, CallsOK, CallInv
<1> USE DEF historyVars, externalVars
<1>2. CASE Decode(s) \/ Decoded(s) \/ AllTyped(s) \/ Wake(s)
  <2>1. /\ UNCHANGED <<unitsDown, refused>>
        /\ call[s].pc \in {"decode", "sleep"} \/ ~(call[s].at <= Len(call[s].out))
        /\ call[s].pc # "unitUp"
    BY <1>1, <1>2, LenProperties DEF Decode, Decoded, AllTyped, Wake, CallRecord
  <2>2. OwedBy(s, call[s]) = {}
    BY <2>1 DEF OwedBy
  <2> QED BY <1>1, <2>1, <2>2, NothingOwed
<1>3. CASE MacType(s) \/ UinputType(s) \/ X11Fetch(s)
  <2>1. /\ UNCHANGED unitsDown /\ (refused => refused')
        /\ platform # "windows" /\ call[s].pc = "type"
    BY <1>3 DEF MacType, UinputType, X11Fetch, Typing, Refuse
  <2>2. OwedBy(s, call[s]) = {}
    BY <1>1, <2>1, FirstUnitOwesNothing DEF InRange
  <2> QED BY <1>1, <2>1, <2>2, NothingOwed
<1>4. CASE X11Bind(s) \/ X11Press(s) \/ X11Restore(s)
  <2>1. UNCHANGED <<unitsDown, refused>> /\ call[s].pc \in {"bind", "press", "restore"}
    BY <1>4 DEF X11Bind, X11Press, X11Restore
  <2>2. OwedBy(s, call[s]) = {}
    BY <2>1 DEF OwedBy
  <2> QED BY <1>1, <2>1, <2>2, NothingOwed
<1> QED BY <1>2, <1>3, <1>4, WinUnitDownOwed, WinUnitUpOwed DEF Step

(* A call that begins was idle, the others go on. *)
LEMMA CallIs ==
  ASSUME TypingTypes, NEW s \in Session, Call(s)
  PROVE  /\ call[s].pc = "idle"
         /\ \A t \in Session \ {s} : call'[t] = call[t]
         /\ overlapped' = (overlapped \/ Busy # {})
         /\ UNCHANGED <<platform, externalVars, asked, refused, late>>
         /\ \/ call'[s].pc = "decode"
            \/ call'[s].pc = "idle"
            \/ call'[s].pc = "type" /\ call'[s].unit = 1
<1>1. call \in [Session -> CallRecord] /\ call[s].pc = "idle"
  BY DEF TypingTypes, CallsOK, Call, MayBegin
<1>2. ASSUME NEW c, Begin(s, c)
      PROVE  /\ \A t \in Session \ {s} : call'[t] = call[t]
             /\ call'[s] = c
             /\ overlapped' = (overlapped \/ Busy # {})
             /\ UNCHANGED <<platform, externalVars, asked, refused, late>>
  BY <1>1, <1>2 DEF Begin
<1>3. ASSUME NEW bytes, NEW human, typeText(s, bytes, human)
      PROVE  /\ Begin(s, [Idle EXCEPT !.pc = "decode", !.bytes = bytes, !.human = human])
             /\ [Idle EXCEPT !.pc = "decode", !.bytes = bytes, !.human = human].pc = "decode"
  BY <1>3 DEF typeText, Idle
<1>4. ASSUME NEW cp, typeChar(s, cp)
      PROVE  \E c : /\ Begin(s, c)
                    /\ \/ c.pc = "idle"
                       \/ c.pc = "type" /\ c.unit = 1
  <2>1. CASE Scalar(cp)
    <3> DEFINE c == [Idle EXCEPT !.pc = "type", !.out = <<cp>>]
    <3>1. Begin(s, c) /\ c.pc = "type" /\ c.unit = 1
      BY <1>4, <2>1 DEF typeChar, Idle
    <3> QED BY <3>1
  <2>2. CASE ~Scalar(cp)
    <3> DEFINE c == [Idle EXCEPT !.result = "invalidArgument"]
    <3>1. Begin(s, c) /\ c.pc = "idle"
      BY <1>4, <2>2 DEF typeChar, Idle
    <3> QED BY <3>1
  <2> QED BY <2>1, <2>2
<1>5. CASE \E bytes \in Texts[platform], human \in BOOLEAN : typeText(s, bytes, human)
  BY <1>1, <1>2, <1>3, <1>5
<1>6. CASE \E cp \in Chars : typeChar(s, cp)
  BY <1>1, <1>2, <1>4, <1>6
<1> QED BY <1>5, <1>6 DEF Call

(* ... and so do all steps. *)
LEMMA OwedNext == TypingTypes /\ UnitsOwed /\ [Next]_vars => UnitsOwed'
<1> SUFFICES ASSUME TypingTypes, UnitsOwed, [Next]_vars PROVE UnitsOwed'
  OBVIOUS
<1>1. ASSUME NEW s \in Session, Call(s) PROVE UnitsOwed'
  <2>1. OwedBy(s, call[s]) = {}
    BY <1>1, CallIs DEF OwedBy
  <2> QED BY <1>1, <2>1, CallIs, NothingOwed DEF externalVars
<1>2. CASE X11AppHandles
  BY <1>2 DEF X11AppHandles, historyVars, UnitsOwed
<1>3. CASE UNCHANGED vars
  BY <1>3 DEF vars, externalVars, historyVars, UnitsOwed
<1> QED BY <1>1, <1>2, <1>3, OwedStep DEF Next, Quiet

-----------------------------------------------------------------------------
(* One session at a time.  What the application has received, what the      *)
(* scratch keycode is bound to and what events are on their way, at each    *)
(* step of the one call there is; an idle record stands for there being     *)
(* none.                                                                    *)
SentBy(c) ==
  LET u == Utf16(c.out[c.at])
  IN IF c.pc = "unitUp" THEN u
     ELSE IF c.pc = "type" /\ c.at <= Len(c.out) THEN SubSeq(u, 1, c.unit - 1)
     ELSE <<>>

ScratchFor(c) ==
  /\ c.pc \in {"bind", "press", "restore"} => c.saved = Original
  /\ scratch = IF c.pc \in {"press", "restore"} THEN KeySym(c.out[c.at]) ELSE Original

(* All characters typed so far show as themselves on X11. *)
AllPlain(cps) == \A cp \in ToSet(cps) : Plain(cp)

M1 == <<"mapping">>
M2 == <<"mapping", "mapping">>
P == <<"press">>
PM == <<"press", "mapping">>
PMM == <<"press", "mapping", "mapping">>
MP == <<"mapping", "press">>
MMP == <<"mapping", "mapping", "press">>
PMMP == <<"press", "mapping", "mapping", "press">>

(* No character is being typed; ks is bound; ks is bound and pressed.  A    *)
(* press that is still on its way shows what is missing.                    *)
Rest(all) ==
  \/ queue \in {<<>>, M1} /\ shown = all
  \/ queue = PM /\ shown \o Showing(known) = all

Bound(all, ks) ==
  \/ queue = <<>> /\ known = ks /\ shown = all
  \/ queue \in {M1, M2} /\ shown = all
  \/ queue = PMM /\ shown \o Showing(known) = all

Tapped(all, ks) ==
  \/ queue = <<>> /\ shown = all \o Showing(ks)
  \/ queue = P /\ known = ks /\ shown = all
  \/ queue \in {MP, MMP} /\ shown = all
  \/ queue = PMMP /\ shown \o Showing(known) = all

OnItsWay(c, all) ==
  IF c.pc = "press" THEN Bound(all, KeySym(c.out[c.at]))
  ELSE IF c.pc = "restore" THEN Tapped(all, KeySym(c.out[c.at]))
  ELSE Rest(all)

Arrives(c) ==
  /\ platform # "x11" /\ (platform = "windows" => ~refused) =>
       shown = Units16All(asked) \o SentBy(c)
  /\ platform = "x11" /\ ~late /\ AllPlain(asked) =>
       OnItsWay(c, Units16All(asked))

OneAtATime ==
  ~overlapped =>
    /\ \A s, t \in Busy : s = t
    /\ Busy = {} => ScratchFor(Idle) /\ Arrives(Idle)
    /\ \A s \in Busy : ScratchFor(call[s]) /\ Arrives(call[s])

(* Only X11 has a scratch keycode. *)
NoScratch == platform # "x11" => scratch = Original /\ queue = <<>>

(* An idle call is like any other. *)
LEMMA IdleAlike ==
  ASSUME NEW c, c.pc = "idle"
  PROVE  /\ ScratchFor(c) <=> ScratchFor(Idle)
         /\ Arrives(c) <=> Arrives(Idle)
<1>1. Idle.pc = "idle"
  BY DEF Idle
<1>2. SentBy(c) = <<>> /\ SentBy(Idle) = <<>>
  BY <1>1 DEF SentBy
<1>3. \A all : OnItsWay(c, all) <=> OnItsWay(Idle, all)
  BY <1>1 DEF OnItsWay
<1> QED BY <1>1, <1>2, <1>3 DEF ScratchFor, Arrives

(* A step of the one session there is. *)
LEMMA OneSteps ==
  ASSUME NEW s \in Session, \A t \in Session \ {s} : call'[t] = call[t],
         ~overlapped' => /\ Busy \subseteq {s}
                         /\ ScratchFor(call[s])' /\ Arrives(call[s])'
  PROVE  OneAtATime'
<1> SUFFICES ASSUME ~overlapped'
             PROVE  /\ \A t, u \in Busy' : t = u
                    /\ Busy' = {} => ScratchFor(Idle)' /\ Arrives(Idle)'
                    /\ \A t \in Busy' : ScratchFor(call[t])' /\ Arrives(call[t])'
  BY DEF OneAtATime
<1>1. Busy' \subseteq {s} /\ ScratchFor(call[s])' /\ Arrives(call[s])'
  BY DEF Busy
<1>2. ASSUME Busy' = {}
      PROVE  ScratchFor(Idle)' /\ Arrives(Idle)'
  <2>1. call'[s].pc = "idle"
    BY <1>2 DEF Busy
  <2>2. Idle.pc = "idle" /\ Idle' = Idle
    BY DEF Idle, Original
  <2>3. ScratchFor(Idle)'
    BY <1>1, <2>1, <2>2 DEF ScratchFor
  <2>4. SentBy(call[s])' = <<>> /\ SentBy(Idle)' = <<>>
    BY <2>1, <2>2 DEF SentBy
  <2>5. Arrives(Idle)'
    BY <1>1, <2>1, <2>2, <2>4 DEF Arrives, OnItsWay
  <2> QED BY <2>3, <2>5
<1> QED BY <1>1, <1>2

(* Before, between and after the characters. *)
LEMMA Untouched ==
  ASSUME NEW s \in Session, ScratchFor(call[s]), Arrives(call[s]),
         UNCHANGED <<platform, shown, scratch, queue, known, asked, late>>,
         refused => refused',
         call[s].pc \notin {"press", "restore"},
         call'[s].pc \notin {"bind", "press", "restore"},
         SentBy(call[s]) = <<>>, SentBy(call'[s]) = <<>>
  PROVE  ScratchFor(call[s])' /\ Arrives(call[s])'
<1>1. ScratchFor(call[s])'
  BY DEF ScratchFor
<1>2. SentBy(call[s])' = SentBy(call'[s])
  BY DEF SentBy
<1>3. OnItsWay(call[s], Units16All(asked)) = Rest(Units16All(asked))
  BY DEF OnItsWay
<1>4. OnItsWay(call[s], Units16All(asked))' = Rest(Units16All(asked))'
  BY DEF OnItsWay
<1>5. Rest(Units16All(asked))' = Rest(Units16All(asked))
  BY DEF Rest
<1>6. Arrives(call[s])'
  BY <1>2, <1>3, <1>4, <1>5 DEF Arrives
<1> QED BY <1>1, <1>6

(* Nothing is sent yet at the first unit, nor at other steps. *)
LEMMA NoneSent ==
  ASSUME NEW c, c.pc # "unitUp", c.unit = 1 \/ c.pc # "type" \/ ~(c.at <= Len(c.out))
  PROVE  SentBy(c) = <<>>
<1>1. SubSeq(Utf16(c.out[c.at]), 1, 1 - 1) = <<>>
  BY SubSeqEmpty
<1> QED BY <1>1 DEF SentBy

(* What a typed character adds. *)
LEMMA AskedMore ==
  ASSUME TypingTypes, UNCHANGED platform, NEW s \in Session, CharTyped(s),
         call[s].pc \in {"type", "unitUp", "restore"}, call[s].at <= Len(call[s].out)
  PROVE  /\ Units16All(asked') = Units16All(asked) \o Units16(Char(s))
         /\ Units16All(asked) \in Seq(Unit16) /\ Units16(Char(s)) \in Seq(Unit16)
         /\ AllPlain(asked') => AllPlain(asked) /\ Plain(Char(s))
         /\ call'[s].pc \in {"sleep", "type"} /\ call'[s].unit = 1
<1>1. /\ asked \in Seq(ScalarValue) /\ Char(s) \in ScalarValue /\ CallsOK
      /\ asked' = Append(asked, Char(s)) /\ call \in [Session -> CallRecord]
  BY CharIs DEF TypingTypes, HistoryTypes, CharTyped, CallsOK
<1>2. Char(s) \in ToSet(asked') /\ ToSet(asked) \subseteq ToSet(asked')
  <2>1. /\ asked' \in Seq(ScalarValue) /\ Len(asked') = Len(asked) + 1
        /\ \A i \in 1..Len(asked) : asked'[i] = asked[i]
        /\ asked'[Len(asked) + 1] = Char(s)
    BY <1>1, AppendProperties
  <2>2. /\ DOMAIN asked = 1..Len(asked) /\ DOMAIN asked' = 1..(Len(asked) + 1)
        /\ Len(asked) \in Nat
    BY <1>1, <2>1, LenProperties
  <2>3. Len(asked) + 1 \in DOMAIN asked' /\ DOMAIN asked \subseteq DOMAIN asked'
    BY <2>2
  <2> QED BY <2>1, <2>2, <2>3 DEF ToSet
<1>3. call'[s].pc \in {"sleep", "type"} /\ call'[s].unit = 1
  BY <1>1, CharTypedIs
<1>4. AllPlain(asked') => AllPlain(asked) /\ Plain(Char(s))
  BY <1>2 DEF AllPlain
<1> QED BY <1>1, <1>3, <1>4, Units16AllAppend, Utf16IsUnits16

(* Windows: what is down of the character is what was sent. *)
LEMMA WinUnitDownArrives ==
  ASSUME TypingTypes, NEW s \in Session, ScratchFor(call[s]), Arrives(call[s]), WinUnitDown(s)
  PROVE  ScratchFor(call[s])' /\ Arrives(call[s])'
<1> DEFINE c == call[s]
           d == call'[s]
           u == Units(s)
           n == Len(Units(s))
           all == Units16All(asked)
<1>1. /\ platform = "windows" /\ c.pc = "type" /\ c.at <= Len(c.out)
      /\ CallsOK /\ call \in [Session -> CallRecord] /\ c \in CallRecord /\ InRange(c, "windows")
      /\ UNCHANGED <<platform, scratch, queue, known, late>>
  BY DEF TypingTypes, CallsOK, WinUnitDown, Typing, CallInv
<1>2. /\ u = Utf16(c.out[c.at]) /\ c.unit \in Nat /\ c.unit \in 1..n /\ n \in {1, 2}
      /\ u \in Seq(Unit16)
  BY <1>1, CharIs DEF CallRecord, InRange
<1>3. CASE /\ shown' = Append(shown, u[c.unit])
           /\ call' = [call EXCEPT
                        ![s].pc = IF c.unit < n THEN "type" ELSE "unitUp",
                        ![s].unit = IF @ < n THEN @ + 1 ELSE 1]
           /\ UNCHANGED <<asked, refused>>
  <2>1. /\ d.pc = (IF c.unit < n THEN "type" ELSE "unitUp")
        /\ d.unit = (IF c.unit < n THEN c.unit + 1 ELSE 1)
        /\ d.out = c.out /\ d.at = c.at
    BY <1>1, <1>3 DEF CallRecord
  <2>2. ScratchFor(call[s])'
    BY <1>1, <2>1 DEF ScratchFor
  <2>3. SentBy(c) = SubSeq(u, 1, c.unit - 1)
    BY <1>1, <1>2 DEF SentBy
  <2>4. SentBy(d) = SubSeq(u, 1, c.unit)
    <3> HIDE DEF c, d, u, n
    <3>1. CASE c.unit < n
      <4>1. /\ d.unit - 1 = c.unit /\ d.pc = "type" /\ d.at <= Len(d.out)
            /\ Utf16(d.out[d.at]) = u
        BY <1>1, <1>2, <2>1, <3>1
      <4> QED BY <4>1 DEF SentBy
    <3>2. CASE ~(c.unit < n)
      <4>1. c.unit = n /\ d.pc = "unitUp" /\ Utf16(d.out[d.at]) = u
        BY <1>2, <2>1, <3>2
      <4>2. SubSeq(u, 1, n) = u
        BY <1>2, SubSeqFull DEF n, u
      <4> QED BY <4>1, <4>2 DEF SentBy
    <3> QED BY <3>1, <3>2
  <2>5. SentBy(d) = Append(SentBy(c), u[c.unit])
    <3> HIDE DEF c, d, u
    <3>1. n = Len(u)
      BY DEF u
    <3> HIDE DEF n
    <3>2. 1 \in 1..Len(u) /\ c.unit \in 1..Len(u)
      BY <1>2, <3>1
    <3>3. SubSeq(u, 1, c.unit) = SubSeq(u, 1, c.unit - 1) \o <<u[c.unit]>>
      BY <1>2, <3>2, SubSeqRecursiveSecond
    <3>4. SubSeq(u, 1, c.unit - 1) \in Seq(Unit16) /\ u[c.unit] \in Unit16
      <4>1. \A i \in 1..(c.unit - 1) : u[i] \in Unit16
        BY <1>2, <3>2, ElementOfSeq
      <4>2. c.unit - 1 \in Int /\ 1 \in Int
        BY <1>2
      <4> QED BY <1>2, <3>2, <4>1, <4>2, SubSeqProperties, ElementOfSeq
    <3>5. Append(SubSeq(u, 1, c.unit - 1), u[c.unit]) = SubSeq(u, 1, c.unit - 1) \o <<u[c.unit]>>
      BY <3>4, AppendIsConcat
    <3> QED BY <2>3, <2>4, <3>3, <3>5
  <2>6. ASSUME ~refused, shown = all \o SentBy(c)
        PROVE  shown' = all \o SentBy(d)
    <3>1. all \in Seq(Unit16) /\ SentBy(c) \in Seq(Unit16) /\ u[c.unit] \in Unit16
      <4>1. all \in Seq(Unit16)
        <5>1. \E cp \in ScalarValue : TRUE
          BY <1>1, CharIs
        <5> QED BY <5>1, Units16AllAppend DEF TypingTypes, HistoryTypes
      <4>2. u[c.unit] \in Unit16
        BY <1>2, ElementOfSeq
      <4>3. SubSeq(u, 1, c.unit - 1) \in Seq(Unit16)
        <5> HIDE DEF c, u
        <5>1. \A i \in 1..(c.unit - 1) : u[i] \in Unit16
          BY <1>2, ElementOfSeq DEF u
        <5>2. c.unit - 1 \in Int /\ 1 \in Int
          BY <1>2
        <5> QED BY <5>1, <5>2, SubSeqProperties
      <4> QED BY <2>3, <4>1, <4>2, <4>3
    <3> DEFINE x == SentBy(c)
               e == u[c.unit]
    <3> HIDE DEF all, x, e
    <3>2. Append(all \o x, e) = all \o Append(x, e)
      <4>1. all \o x \in Seq(Unit16) /\ <<e>> \in Seq(Unit16)
        BY <3>1, ConcatProperties DEF x, e
      <4>2. Append(all \o x, e) = (all \o x) \o <<e>>
        BY <3>1, <4>1, AppendIsConcat DEF e
      <4>3. Append(x, e) = x \o <<e>>
        BY <3>1, AppendIsConcat DEF x, e
      <4> QED BY <3>1, <4>1, <4>2, <4>3, ConcatAssociative DEF x
    <3> QED BY <1>3, <2>5, <2>6, <3>2 DEF x, e
  <2>7. SentBy(call[s])' = SentBy(d)
    BY DEF SentBy
  <2>8. Arrives(call[s])'
    BY <1>1, <1>3, <2>6, <2>7 DEF Arrives
  <2> QED BY <2>2, <2>8
<1>4. CASE Refuse(s, "platformError")
  <2>1. refused' = TRUE /\ call'[s].pc = "idle"
    BY <1>1, <1>4, ReturnIs DEF Refuse
  <2> QED BY <1>1, <2>1 DEF ScratchFor, Arrives
<1> QED BY <1>3, <1>4 DEF WinUnitDown

(* Windows: the units all up, the character is typed. *)
LEMMA WinUnitUpArrives ==
  ASSUME TypingTypes, NEW s \in Session, ScratchFor(call[s]), Arrives(call[s]), WinUnitUp(s)
  PROVE  ScratchFor(call[s])' /\ Arrives(call[s])'
<1> DEFINE c == call[s]
           d == call'[s]
<1>1. /\ c.pc = "unitUp" /\ CallsOK /\ call \in [Session -> CallRecord] /\ c \in CallRecord
      /\ InRange(c, platform) /\ InOrder(c, platform)
      /\ UNCHANGED <<platform, shown, scratch, queue, known, late>>
  BY DEF TypingTypes, CallsOK, WinUnitUp, CallInv
<1>2. platform = "windows" /\ c.at <= Len(c.out)
  BY <1>1 DEF InRange, InOrder
<1>3. SentBy(c) = Units(s) /\ Units(s) = Units16(Char(s))
  BY <1>1, <1>2, CharIs DEF SentBy
<1>4. CASE CharTyped(s) /\ UNCHANGED refused
  <2>1. /\ Units16All(asked') = Units16All(asked) \o SentBy(c)
        /\ d.pc \in {"sleep", "type"} /\ d.unit = 1
        /\ Units16All(asked) \o SentBy(c) \in Seq(Unit16)
    BY <1>1, <1>2, <1>3, <1>4, AskedMore, ConcatProperties
  <2>2. SentBy(d) = <<>> /\ SentBy(call[s])' = SentBy(d)
    BY <2>1, NoneSent DEF SentBy
  <2>3. ScratchFor(call[s])'
    BY <1>1, <2>1 DEF ScratchFor
  <2>4. Arrives(call[s])'
    BY <1>1, <1>2, <1>4, <2>1, <2>2, ConcatEmptySeq DEF Arrives
  <2> QED BY <2>3, <2>4
<1>5. CASE call' = [call EXCEPT ![s].unit = @ + 1] /\ UNCHANGED <<asked, refused>>
  <2>1. d.pc = "unitUp" /\ d.out = c.out /\ d.at = c.at
    BY <1>1, <1>5 DEF CallRecord
  <2>2. SentBy(call[s])' = SentBy(c)
    BY <1>1, <2>1 DEF SentBy
  <2> QED BY <1>1, <1>2, <1>5, <2>1, <2>2 DEF ScratchFor, Arrives
<1>6. CASE Refuse(s, "platformError")
  <2>1. refused' = TRUE /\ d.pc = "idle"
    BY <1>1, <1>6, ReturnIs DEF Refuse
  <2> QED BY <1>1, <1>2, <2>1 DEF ScratchFor, Arrives
<1> QED BY <1>4, <1>5, <1>6 DEF WinUnitUp

(* macOS: the whole character at once, or none of it. *)
LEMMA MacTypeArrives ==
  ASSUME TypingTypes, NEW s \in Session, ScratchFor(call[s]), Arrives(call[s]), MacType(s)
  PROVE  ScratchFor(call[s])' /\ Arrives(call[s])'
<1> DEFINE c == call[s]
           d == call'[s]
<1>1. /\ platform = "macos" /\ c.pc = "type" /\ c.at <= Len(c.out)
      /\ CallsOK /\ c \in CallRecord /\ InRange(c, platform)
      /\ UNCHANGED <<platform, scratch, queue, known, late>>
  BY DEF TypingTypes, CallsOK, MacType, Typing, CallInv
<1>2. SentBy(c) = <<>>
  BY <1>1, NoneSent DEF InRange
<1>3. CASE shown' = shown \o Units(s) /\ CharTyped(s) /\ UNCHANGED refused
  <2>1. /\ Units16All(asked') = Units16All(asked) \o Units(s)
        /\ d.pc \in {"sleep", "type"} /\ d.unit = 1
        /\ Units16All(asked) \in Seq(Unit16)
        /\ Units16All(asked) \o Units(s) \in Seq(Unit16)
    BY <1>1, <1>3, CharIs, AskedMore, ConcatProperties
  <2>2. SentBy(d) = <<>> /\ SentBy(call[s])' = SentBy(d)
    BY <2>1, NoneSent DEF SentBy
  <2>3. ScratchFor(call[s])'
    BY <1>1, <2>1 DEF ScratchFor
  <2>4. shown = Units16All(asked)
    BY <1>1, <1>2, <2>1, ConcatEmptySeq DEF Arrives
  <2>5. Arrives(call[s])'
    BY <1>1, <1>3, <2>1, <2>2, <2>4, ConcatEmptySeq DEF Arrives
  <2> QED BY <2>3, <2>5
<1>4. CASE Refuse(s, "platformError") /\ UNCHANGED shown
  <2>1. refused' = TRUE /\ d.pc = "idle" /\ UNCHANGED asked
    BY <1>1, <1>4, ReturnIs DEF Refuse
  <2>2. SentBy(d) = <<>>
    BY <2>1 DEF SentBy
  <2> QED BY <1>1, <1>2, <1>4, <2>1, <2>2, Untouched
<1> QED BY <1>3, <1>4 DEF MacType

(* X11: what is saved is the keycode's own binding. *)
LEMMA X11FetchArrives ==
  ASSUME TypingTypes, NEW s \in Session, ScratchFor(call[s]), Arrives(call[s]), X11Fetch(s)
  PROVE  ScratchFor(call[s])' /\ Arrives(call[s])'
<1> DEFINE c == call[s]
           d == call'[s]
<1>1. /\ platform = "x11" /\ c.pc = "type" /\ c.at <= Len(c.out)
      /\ CallsOK /\ call \in [Session -> CallRecord] /\ c \in CallRecord /\ InRange(c, platform)
      /\ UNCHANGED <<platform, shown, scratch, queue, known, late>>
  BY DEF TypingTypes, CallsOK, X11Fetch, Typing, CallInv, externalVars
<1>2. CASE /\ call' = [call EXCEPT ![s].pc = "bind", ![s].saved = scratch]
           /\ UNCHANGED <<asked, refused>>
  <2>1. d.pc = "bind" /\ d.saved = scratch
    BY <1>1, <1>2 DEF CallRecord
  <2>2. scratch = Original
    BY <1>1 DEF ScratchFor
  <2>3. ScratchFor(call[s])'
    BY <1>1, <2>1, <2>2 DEF ScratchFor
  <2>4. Arrives(call[s])'
    BY <1>1, <1>2, <2>1 DEF Arrives, OnItsWay, Rest
  <2> QED BY <2>3, <2>4
<1>3. CASE Refuse(s, "platformError")
  <2>1. refused' = TRUE /\ d.pc = "idle" /\ UNCHANGED asked
    BY <1>1, <1>3, ReturnIs DEF Refuse
  <2>2. SentBy(c) = <<>> /\ SentBy(d) = <<>>
    BY <1>1, <2>1, NoneSent DEF InRange
  <2> QED BY <1>1, <1>3, <2>1, <2>2, Untouched
<1> QED BY <1>2, <1>3 DEF X11Fetch

(* Appending to a short sequence that is written out. *)
LEMMA AppendTuple ==
  ASSUME NEW S, NEW r \in Seq(S), NEW e \in S
  PROVE  /\ Len(r) = 1 => Append(r, e) = <<r[1], e>>
         /\ Len(r) = 2 => Append(r, e) = <<r[1], r[2], e>>
         /\ Len(r) = 3 => Append(r, e) = <<r[1], r[2], r[3], e>>
<1> DEFINE t == Append(r, e)
<1>1. /\ t \in Seq(S) /\ Len(t) = Len(r) + 1
      /\ \A i \in 1..Len(r) : t[i] = r[i]
      /\ t[Len(r) + 1] = e
  BY AppendProperties
<1> HIDE DEF t
<1>2. ASSUME Len(r) = 1
      PROVE  t = <<r[1], e>>
  <2>1. Len(t) = 2 /\ t[1] = r[1] /\ t[2] = e
    BY <1>1, <1>2
  <2>2. t = <<t[1], t[2]>>
    BY <1>1, <2>1, SMT
  <2> QED BY <2>1, <2>2
<1>3. ASSUME Len(r) = 2
      PROVE  t = <<r[1], r[2], e>>
  <2>1. Len(t) = 3 /\ t[3] = e
    BY <1>1, <1>3
  <2>2. t[1] = r[1] /\ t[2] = r[2]
    BY <1>1, <1>3
  <2>3. t = <<t[1], t[2], t[3]>>
    BY <1>1, <2>1, SMT
  <2> QED BY <2>1, <2>2, <2>3
<1>4. ASSUME Len(r) = 3
      PROVE  t = <<r[1], r[2], r[3], e>>
  <2>1. Len(t) = 4 /\ t[4] = e
    BY <1>1, <1>4
  <2>2. t[1] = r[1] /\ t[2] = r[2] /\ t[3] = r[3]
    BY <1>1, <1>4
  <2>3. t \in Seq(S)
    BY <1>1
  <2>4. t = <<t[1], t[2], t[3], t[4]>>
    BY <2>1, <2>3, SMT
  <2> QED BY <2>1, <2>2, <2>4
<1> QED BY <1>2, <1>3, <1>4 DEF t

(* What appending an event makes of the queues there are. *)
LEMMA QueuesGrow ==
  /\ Append(<<>>, "mapping") = M1 /\ Append(M1, "mapping") = M2
  /\ Append(PM, "mapping") = PMM /\ Append(P, "mapping") = PM
  /\ Append(<<>>, "press") = P /\ Append(M1, "press") = MP
  /\ Append(M2, "press") = MMP /\ Append(PMM, "press") = PMMP
<1> DEFINE m == "mapping"
           p == "press"
<1>1. m \in Event /\ p \in Event
  BY DEF Event
<1> HIDE DEF m, p
<1>2. /\ <<m>> \in Seq(Event) /\ Len(<<m>>) = 1 /\ <<m>>[1] = m
      /\ <<p>> \in Seq(Event) /\ Len(<<p>>) = 1 /\ <<p>>[1] = p
  BY <1>1
<1>3. /\ <<p, m>> \in Seq(Event) /\ Len(<<p, m>>) = 2
      /\ <<p, m>>[1] = p /\ <<p, m>>[2] = m
      /\ <<m, m>> \in Seq(Event) /\ Len(<<m, m>>) = 2
      /\ <<m, m>>[1] = m /\ <<m, m>>[2] = m
  BY <1>1
<1>4. /\ <<p, m, m>> \in Seq(Event) /\ Len(<<p, m, m>>) = 3
      /\ <<p, m, m>>[1] = p /\ <<p, m, m>>[2] = m /\ <<p, m, m>>[3] = m
  BY <1>1
<1>5. Append(<<>>, m) = <<m>> /\ Append(<<>>, p) = <<p>>
  OBVIOUS
<1>6. /\ Append(<<m>>, m) = <<m, m>> /\ Append(<<m>>, p) = <<m, p>>
      /\ Append(<<p>>, m) = <<p, m>>
  BY <1>1, <1>2, AppendTuple
<1>7. Append(<<p, m>>, m) = <<p, m, m>> /\ Append(<<m, m>>, p) = <<m, m, p>>
  BY <1>1, <1>3, AppendTuple
<1>8. Append(<<p, m, m>>, p) = <<p, m, m, p>>
  BY <1>1, <1>4, AppendTuple
<1> QED BY <1>5, <1>6, <1>7, <1>8, Zenon DEF m, p, M1, M2, P, PM, PMM, MP, MMP, PMMP

(* X11: the character bound, its notice on the way. *)
LEMMA X11BindArrives ==
  ASSUME TypingTypes, NEW s \in Session, ScratchFor(call[s]), Arrives(call[s]), X11Bind(s)
  PROVE  ScratchFor(call[s])' /\ Arrives(call[s])'
<1> DEFINE c == call[s]
           d == call'[s]
           all == Units16All(asked)
<1>1. /\ c.pc = "bind" /\ CallsOK /\ call \in [Session -> CallRecord] /\ c \in CallRecord
      /\ scratch' = KeySym(Char(s)) /\ queue' = Append(queue, "mapping")
      /\ call' = [call EXCEPT ![s].pc = "press"] /\ InOrder(c, platform)
      /\ UNCHANGED <<platform, shown, known, asked, late>>
  BY DEF TypingTypes, CallsOK, X11Bind, CallInv, historyVars
<1>2. /\ d.pc = "press" /\ d.saved = c.saved /\ d.out = c.out /\ d.at = c.at
      /\ platform = "x11" /\ Char(s) = d.out[d.at]
  BY <1>1 DEF CallRecord, InOrder, Char
<1>3. ScratchFor(call[s])'
  BY <1>1, <1>2 DEF ScratchFor
<1>4. ASSUME Rest(all)
      PROVE  Bound(all, KeySym(c.out[c.at]))'
  BY <1>1, <1>4, QueuesGrow DEF Rest, Bound
<1>5. Arrives(call[s])'
  BY <1>1, <1>2, <1>4 DEF Arrives, OnItsWay
<1> QED BY <1>3, <1>5

(* X11: the keycode pressed after the notice. *)
LEMMA X11PressArrives ==
  ASSUME TypingTypes, NEW s \in Session, ScratchFor(call[s]), Arrives(call[s]), X11Press(s)
  PROVE  ScratchFor(call[s])' /\ Arrives(call[s])'
<1> DEFINE c == call[s]
           d == call'[s]
           all == Units16All(asked)
           ks == KeySym(c.out[c.at])
<1>1. /\ c.pc = "press" /\ CallsOK /\ call \in [Session -> CallRecord] /\ c \in CallRecord
      /\ queue' = Append(queue, "press") /\ CallInv(c, platform)
      /\ call' = [call EXCEPT ![s].pc = "restore"] /\ InOrder(c, platform)
      /\ UNCHANGED <<platform, shown, scratch, known, asked, late>>
  BY DEF TypingTypes, CallsOK, X11Press, CallInv, historyVars
<1>2. /\ d.pc = "restore" /\ d.saved = c.saved /\ d.out = c.out /\ d.at = c.at
      /\ platform = "x11"
  BY <1>1 DEF CallRecord, InOrder
<1>3. ScratchFor(call[s])'
  BY <1>1, <1>2 DEF ScratchFor
<1>4. ASSUME Bound(all, ks)
      PROVE  Tapped(all, ks)'
  BY <1>1, <1>2, <1>4, QueuesGrow DEF Bound, Tapped
<1>5. Arrives(call[s])'
  BY <1>1, <1>2, <1>4 DEF Arrives, OnItsWay
<1> QED BY <1>3, <1>5

(* With a change notice still on its way the application missed the         *)
(* character.                                                               *)
LEMMA InTime ==
  /\ "mapping" \in ToSet(MP) /\ "mapping" \in ToSet(MMP) /\ "mapping" \in ToSet(PMMP)
<1>1. /\ 1 \in DOMAIN MP /\ MP[1] = "mapping"
      /\ 1 \in DOMAIN MMP /\ MMP[1] = "mapping"
      /\ 2 \in DOMAIN PMMP /\ PMMP[2] = "mapping"
  BY DEF MP, MMP, PMMP
<1> QED BY <1>1 DEF ToSet

(* X11: the binding restored, and the character in time if no notice was left. *)
LEMMA X11RestoreArrives ==
  ASSUME TypingTypes, NEW s \in Session, ScratchFor(call[s]), Arrives(call[s]), X11Restore(s)
  PROVE  ScratchFor(call[s])' /\ Arrives(call[s])'
<1> DEFINE c == call[s]
           d == call'[s]
           all == Units16All(asked)
           ks == KeySym(c.out[c.at])
<1>1. /\ c.pc = "restore" /\ CallsOK /\ c \in CallRecord
      /\ InRange(c, platform) /\ InOrder(c, platform)
      /\ scratch' = c.saved /\ queue' = Append(queue, "mapping") /\ CharTyped(s)
      /\ late' = (late \/ "mapping" \in ToSet(queue))
      /\ UNCHANGED <<platform, shown, known>>
  BY DEF TypingTypes, CallsOK, X11Restore, CallInv
<1>2. platform = "x11" /\ c.at <= Len(c.out) /\ Char(s) \in ScalarValue /\ ks = KeySym(Char(s))
  BY <1>1, CharIs DEF InRange, InOrder, Char
<1>3. /\ Units16All(asked') = all \o Units16(Char(s))
      /\ AllPlain(asked') => AllPlain(asked) /\ Plain(Char(s))
      /\ d.pc \in {"sleep", "type"} /\ d.unit = 1
  BY <1>1, <1>2, AskedMore
<1>4. ScratchFor(call[s])'
  BY <1>1, <1>3 DEF ScratchFor
<1>5. ASSUME ~late', AllPlain(asked')
      PROVE  Rest(Units16All(asked))'
  <2>1. Tapped(all, ks) /\ "mapping" \notin ToSet(queue)
    BY <1>1, <1>2, <1>3, <1>5 DEF Arrives, OnItsWay
  <2>2. Showing(ks) = Units16(Char(s))
    BY <1>2, <1>3, <1>5, ShownPlain
  <2>3. CASE queue = <<>> /\ shown = all \o Showing(ks)
    BY <1>1, <1>3, <2>2, <2>3, QueuesGrow DEF Rest
  <2>4. CASE queue = P /\ known = ks /\ shown = all
    <3>1. Showing(known)' = Showing(ks)
      BY <1>1, <2>4
    <3> QED BY <1>1, <1>3, <2>2, <2>4, <3>1, QueuesGrow DEF Rest
  <2>5. queue = <<>> \/ queue = P
    <3>1. queue \notin {MP, MMP, PMMP}
      BY <2>1, InTime
    <3> QED BY <2>1, <3>1 DEF Tapped
  <2>6. M1 # <<>> /\ P # <<>> /\ P # MP /\ P # MMP /\ P # PMMP /\ MP # <<>>
        /\ MMP # <<>> /\ PMMP # <<>>
    BY DEF M1, P, MP, MMP, PMMP
  <2> QED BY <2>1, <2>3, <2>4, <2>5, <2>6 DEF Tapped
<1>6. Arrives(call[s])'
  BY <1>1, <1>2, <1>3, <1>5 DEF Arrives, OnItsWay
<1> QED BY <1>4, <1>6

(* What handling the first event leaves of the queues there are. *)
LEMMA QueuesShrink ==
  /\ Head(M1) = "mapping" /\ Tail(M1) = <<>>
  /\ Head(M2) = "mapping" /\ Tail(M2) = M1
  /\ Head(P) = "press" /\ Tail(P) = <<>>
  /\ Head(PM) = "press" /\ Tail(PM) = M1
  /\ Head(PMM) = "press" /\ Tail(PMM) = M2
  /\ Head(MP) = "mapping" /\ Tail(MP) = P
  /\ Head(MMP) = "mapping" /\ Tail(MMP) = MP
  /\ Head(PMMP) = "press" /\ Tail(PMMP) = MMP
<1> DEFINE m == "mapping"
           p == "press"
<1> HIDE DEF m, p
<1>1. Head(<<m>>) = m /\ Tail(<<m>>) = <<>> /\ Head(<<p>>) = p /\ Tail(<<p>>) = <<>>
  OBVIOUS
<1>2. /\ Head(<<m, m>>) = m /\ Tail(<<m, m>>) = <<m>>
      /\ Head(<<p, m>>) = p /\ Tail(<<p, m>>) = <<m>>
      /\ Head(<<m, p>>) = m /\ Tail(<<m, p>>) = <<p>>
  OBVIOUS
<1>3. /\ Head(<<p, m, m>>) = p /\ Tail(<<p, m, m>>) = <<m, m>>
      /\ Head(<<m, m, p>>) = m /\ Tail(<<m, m, p>>) = <<m, p>>
  OBVIOUS
<1>4. Head(<<p, m, m, p>>) = p /\ Tail(<<p, m, m, p>>) = <<m, m, p>>
  OBVIOUS
<1> QED BY <1>1, <1>2, <1>3, <1>4, Zenon DEF m, p, M1, M2, P, PM, PMM, MP, MMP, PMMP

(* The two events. *)
LEMMA Handled ==
  ASSUME TypingTypes, X11AppHandles
  PROVE  /\ queue # <<>> /\ queue' = Tail(queue)
         /\ Head(queue) = "mapping" => known' = scratch /\ shown' = shown
         /\ Head(queue) = "press" => shown' = shown \o Showing(known) /\ known' = known
         /\ UNCHANGED <<platform, call, scratch, asked, refused, late, overlapped>>
<1>1. shown \o <<>> = shown
  BY ConcatEmptySeq DEF TypingTypes, DesktopTypes
<1> QED BY <1>1 DEF X11AppHandles, historyVars

(* The application keeps up when nothing is being typed, ... *)
LEMMA RestHandled ==
  ASSUME TypingTypes, X11AppHandles, Rest(Units16All(asked))
  PROVE  Rest(Units16All(asked))'
<1> DEFINE all == Units16All(asked)
<1>1. CASE queue = M1 /\ shown = all
  BY <1>1, Handled, QueuesShrink DEF Rest
<1>2. CASE queue = PM /\ shown \o Showing(known) = all
  BY <1>2, Handled, QueuesShrink DEF Rest
<1> QED BY <1>1, <1>2, Handled DEF Rest

(* ... when a character is bound ... *)
LEMMA BoundHandled ==
  ASSUME TypingTypes, X11AppHandles, NEW s \in Session,
         scratch = KeySym(call[s].out[call[s].at]),
         Bound(Units16All(asked), KeySym(call[s].out[call[s].at]))
  PROVE  Bound(Units16All(asked), KeySym(call[s].out[call[s].at]))'
<1> DEFINE all == Units16All(asked)
<1>1. CASE queue = M1 /\ shown = all
  BY <1>1, Handled, QueuesShrink DEF Bound
<1>2. CASE queue = M2 /\ shown = all
  BY <1>2, Handled, QueuesShrink DEF Bound
<1>3. CASE queue = PMM /\ shown \o Showing(known) = all
  BY <1>3, Handled, QueuesShrink DEF Bound
<1> QED BY <1>1, <1>2, <1>3, Handled DEF Bound

(* ... and when it is pressed. *)
LEMMA TappedHandled ==
  ASSUME TypingTypes, X11AppHandles, NEW s \in Session,
         scratch = KeySym(call[s].out[call[s].at]),
         Tapped(Units16All(asked), KeySym(call[s].out[call[s].at]))
  PROVE  Tapped(Units16All(asked), KeySym(call[s].out[call[s].at]))'
<1> DEFINE all == Units16All(asked)
<1>1. CASE queue = P /\ known = scratch /\ shown = all
  <2>1. queue' = <<>> /\ shown' = all \o Showing(scratch)
    BY <1>1, Handled, QueuesShrink
  <2>2. Showing(KeySym(call[s].out[call[s].at]))' = Showing(scratch)
    BY Handled
  <2> QED BY <2>1, <2>2, Handled DEF Tapped
<1>2. CASE queue = MP /\ shown = all
  BY <1>2, Handled, QueuesShrink DEF Tapped
<1>3. CASE queue = MMP /\ shown = all
  BY <1>3, Handled, QueuesShrink DEF Tapped
<1>4. CASE queue = PMMP /\ shown \o Showing(known) = all
  BY <1>4, Handled, QueuesShrink DEF Tapped
<1> QED BY <1>1, <1>2, <1>3, <1>4, Handled DEF Tapped

(* The application's step, whether or not a call is in progress. *)
LEMMA X11AppHandlesArrives ==
  ASSUME TypingTypes, NoScratch, OneAtATime, X11AppHandles
  PROVE  NoScratch' /\ OneAtATime'
<1>1. platform = "x11" /\ UNCHANGED <<platform, call, scratch, asked, late, overlapped>>
  BY Handled DEF NoScratch
<1>2. ASSUME NEW s \in Session, ScratchFor(call[s]), Arrives(call[s])
      PROVE  ScratchFor(call[s])' /\ Arrives(call[s])'
  <2>1. ScratchFor(call[s])'
    BY <1>1, <1>2 DEF ScratchFor
  <2>2. ASSUME OnItsWay(call[s], Units16All(asked))
        PROVE  OnItsWay(call[s], Units16All(asked))'
    <3>1. CASE call[s].pc = "press"
      BY <1>1, <1>2, <2>2, <3>1, BoundHandled DEF OnItsWay, ScratchFor
    <3>2. CASE call[s].pc = "restore"
      BY <1>1, <1>2, <2>2, <3>2, TappedHandled DEF OnItsWay, ScratchFor
    <3>3. CASE call[s].pc \notin {"press", "restore"}
      BY <1>1, <2>2, <3>3, RestHandled DEF OnItsWay
    <3> QED BY <3>1, <3>2, <3>3
  <2>3. Arrives(call[s])'
    BY <1>1, <1>2, <2>2 DEF Arrives
  <2> QED BY <2>1, <2>3
<1>3. ASSUME ScratchFor(Idle), Arrives(Idle)
      PROVE  ScratchFor(Idle)' /\ Arrives(Idle)'
  <2>1. Idle.pc = "idle" /\ Idle' = Idle
    BY DEF Idle, Original
  <2>2. ScratchFor(Idle)'
    BY <1>1, <1>3, <2>1 DEF ScratchFor
  <2>3. Arrives(Idle)'
    BY <1>1, <1>3, <2>1, RestHandled DEF Arrives, OnItsWay
  <2> QED BY <2>2, <2>3
<1>4. Busy' = Busy /\ overlapped' = overlapped
  BY <1>1 DEF Busy
<1>5. NoScratch'
  BY <1>1 DEF NoScratch
<1>6. OneAtATime'
  <2> SUFFICES ASSUME ~overlapped
               PROVE  /\ \A s, t \in Busy : s = t
                      /\ Busy = {} => ScratchFor(Idle)' /\ Arrives(Idle)'
                      /\ \A s \in Busy : ScratchFor(call[s])' /\ Arrives(call[s])'
    BY <1>4 DEF OneAtATime
  <2> QED BY <1>2, <1>3 DEF OneAtATime, Busy
<1> QED BY <1>5, <1>6

(* A session's step, when it is the only one. *)
LEMMA StepArrives ==
  ASSUME TypingTypes, NEW s \in Session, ScratchFor(call[s]), Arrives(call[s]), Step(s)
  PROVE  ScratchFor(call[s])' /\ Arrives(call[s])'
<1> DEFINE c == call[s]
           d == call'[s]
<1>1. CallsOK /\ call \in [Session -> CallRecord] /\ c \in CallRecord /\ InRange(c, platform)
  BY DEF TypingTypes, CallsOK, CallInv
<1> USE DEF historyVars, externalVars
<1>2. CASE Decode(s)
  <2>1. c.pc = "decode" /\ UNCHANGED <<platform, externalVars, historyVars>>
    BY <1>2 DEF Decode
  <2>2. d.pc \in {"decode", "idle"}
    <3>1. CASE Return(s, "invalidArgument")
      BY <1>1, <3>1, ReturnIs
    <3>2. CASE \E kind \in LeadKinds :
                 call' = [call EXCEPT ![s].out = Append(@, Value(c.bytes, c.i, kind)),
                                      ![s].i = @ + kind.extra + 1]
      BY <1>1, <2>1, <3>2 DEF CallRecord
    <3> QED BY <1>2, <3>1, <3>2 DEF Decode
  <2> QED BY <2>1, <2>2, NoneSent, Untouched
<1>3. CASE Decoded(s) \/ Wake(s)
  <2>1. /\ c.pc \in {"decode", "sleep"} /\ call' = [call EXCEPT ![s].pc = "type"]
        /\ UNCHANGED <<platform, externalVars, historyVars>>
    BY <1>3 DEF Decoded, Wake
  <2>2. d.pc = "type" /\ d.unit = 1
    BY <1>1, <2>1 DEF CallRecord, InRange
  <2>3. SentBy(c) = <<>> /\ SentBy(d) = <<>>
    BY <2>1, <2>2, NoneSent
  <2> QED BY <2>1, <2>2, <2>3, Untouched
<1>4. CASE AllTyped(s)
  <2>1. /\ c.pc = "type" /\ c.at > Len(c.out) /\ d.pc = "idle"
        /\ UNCHANGED <<platform, externalVars, historyVars>>
    BY <1>1, <1>4, ReturnIs DEF AllTyped
  <2>2. c.at \in Nat /\ Len(c.out) \in Nat
    BY <1>1, LenProperties DEF CallRecord
  <2>3. SentBy(c) = <<>> /\ SentBy(d) = <<>>
    BY <2>1, <2>2, NoneSent
  <2> QED BY <2>1, <2>3, Untouched
<1>5. CASE UinputType(s)
  <2>1. /\ c.pc = "type" /\ c.unit = 1 /\ d.pc = "idle"
        /\ UNCHANGED <<platform, externalVars, historyVars>>
    BY <1>1, <1>5, ReturnIs DEF UinputType, Typing, InRange
  <2> QED BY <2>1, NoneSent, Untouched
<1> QED BY <1>2, <1>3, <1>4, <1>5, WinUnitDownArrives, WinUnitUpArrives, MacTypeArrives,
           X11FetchArrives, X11BindArrives, X11PressArrives, X11RestoreArrives DEF Step

(* Only X11 touches the scratch keycode. *)
LEMMA NoScratchStep ==
  ASSUME TypingTypes, NoScratch, NEW s \in Session, Step(s)
  PROVE  NoScratch'
<1>1. InOrder(call[s], platform)
  BY DEF TypingTypes, CallsOK, CallInv
<1> USE DEF historyVars, externalVars
<1>2. CASE X11Bind(s) \/ X11Press(s) \/ X11Restore(s)
  BY <1>1, <1>2, OneChanged DEF X11Bind, X11Press, X11Restore, InOrder, NoScratch
<1>3. CASE Decode(s) \/ Decoded(s) \/ AllTyped(s) \/ Wake(s) \/ UinputType(s)
  BY <1>3 DEF Decode, Decoded, AllTyped, Wake, UinputType, NoScratch
<1>4. CASE WinUnitDown(s) \/ WinUnitUp(s) \/ MacType(s) \/ X11Fetch(s)
  BY <1>4 DEF WinUnitDown, WinUnitUp, MacType, X11Fetch, NoScratch
<1> QED BY <1>2, <1>3, <1>4 DEF Step

(* A step of a session keeps one session's invariant. *)
LEMMA SessionArrives ==
  ASSUME TypingTypes, OneAtATime, NEW s \in Session, Call(s) \/ Step(s)
  PROVE  OneAtATime'
<1>1. CASE Step(s)
  <2>1. /\ \A t \in Session \ {s} : call'[t] = call[t]
        /\ s \in Busy /\ overlapped' = overlapped
    BY <1>1, OneChanged
  <2>2. ASSUME ~overlapped
        PROVE  Busy \subseteq {s} /\ ScratchFor(call[s])' /\ Arrives(call[s])'
    BY <1>1, <2>1, <2>2, StepArrives DEF OneAtATime
  <2> QED BY <2>1, <2>2, OneSteps
<1>2. CASE Call(s)
  <2>1. /\ call[s].pc = "idle" /\ \A t \in Session \ {s} : call'[t] = call[t]
        /\ overlapped' = (overlapped \/ Busy # {})
        /\ UNCHANGED <<platform, shown, scratch, queue, known, asked, refused, late>>
        /\ \/ call'[s].pc = "decode"
           \/ call'[s].pc = "idle"
           \/ call'[s].pc = "type" /\ call'[s].unit = 1
    BY <1>2, CallIs DEF externalVars
  <2>2. ASSUME ~overlapped'
        PROVE  Busy \subseteq {s} /\ ScratchFor(call[s])' /\ Arrives(call[s])'
    <3>1. ~overlapped /\ Busy = {}
      BY <2>1, <2>2
    <3>2. ScratchFor(call[s]) /\ Arrives(call[s])
      BY <2>1, <3>1, IdleAlike DEF OneAtATime
    <3>3. SentBy(call[s]) = <<>> /\ SentBy(call'[s]) = <<>>
      BY <2>1, NoneSent
    <3> QED BY <2>1, <3>1, <3>2, <3>3, Untouched
  <2> QED BY <2>1, <2>2, OneSteps
<1> QED BY <1>1, <1>2

(* The whole invariant. *)
TypingInv == TypingTypes /\ UnitsOwed /\ NoScratch /\ OneAtATime

(* It holds at first, ... *)
LEMMA InitTypingInv == Init => TypingInv
<1> SUFFICES ASSUME Init PROVE TypingInv
  OBVIOUS
<1>1. TypingTypes
  BY InitTypes
<1>2. UnitsOwed
  BY DEF Init, UnitsOwed
<1>3. NoScratch
  BY DEF Init, NoScratch
<1>4. Busy = {}
  BY DEF Init, Busy, Idle
<1>5. ScratchFor(Idle)
  BY DEF Init, ScratchFor, Idle
<1>6. Arrives(Idle)
  <2>1. Idle.pc = "idle" /\ SentBy(Idle) = <<>>
    BY DEF Idle, SentBy
  <2>2. Units16All(<<>>) = <<>>
    BY FlattenEmpty DEF Units16All
  <2>3. <<>> \o <<>> = <<>>
    OBVIOUS
  <2> QED BY <2>1, <2>2, <2>3 DEF Init, Arrives, OnItsWay, Rest
<1> QED BY <1>1, <1>2, <1>3, <1>4, <1>5, <1>6 DEF TypingInv, OneAtATime

(* ... after every step, ... *)
LEMMA NextTypingInv == TypingInv /\ [Next]_vars => TypingInv'
<1> SUFFICES ASSUME TypingInv, [Next]_vars PROVE TypingInv'
  OBVIOUS
<1>1. TypingTypes /\ UnitsOwed /\ NoScratch /\ OneAtATime
  BY DEF TypingInv
<1>2. TypingTypes' /\ UnitsOwed'
  BY <1>1, NextTypes, OwedNext
<1>3. ASSUME NEW s \in Session, Call(s) \/ Step(s)
      PROVE  NoScratch' /\ OneAtATime'
  <2>1. OneAtATime'
    BY <1>1, <1>3, SessionArrives
  <2>2. NoScratch'
    BY <1>1, <1>3, CallIs, NoScratchStep DEF NoScratch, externalVars
  <2> QED BY <2>1, <2>2
<1>4. ASSUME X11AppHandles
      PROVE  NoScratch' /\ OneAtATime'
  BY <1>1, <1>4, X11AppHandlesArrives
<1>5. ASSUME UNCHANGED vars
      PROVE  NoScratch' /\ OneAtATime'
  <2>1. NoScratch'
    BY <1>1, <1>5 DEF vars, externalVars, NoScratch
  <2>2. OneAtATime'
    BY <1>1, <1>5 DEF vars, externalVars, historyVars, OneAtATime, Busy, ScratchFor, Arrives,
                     OnItsWay, Rest, Bound, Tapped, SentBy
  <2> QED BY <2>1, <2>2
<1>6. NoScratch' /\ OneAtATime'
  BY <1>3, <1>4, <1>5 DEF Next, Quiet
<1> QED BY <1>2, <1>6 DEF TypingInv

(* ... and gives what was to be shown. *)
LEMMA TypingInvGives ==
  ASSUME TypingInv
  PROVE  KeyboardAsFound /\ TextArrives
<1>1. TypingTypes /\ UnitsOwed /\ NoScratch /\ OneAtATime
  BY DEF TypingInv
<1>2. KeyboardAsFound
  <2> SUFFICES ASSUME Busy = {}
               PROVE  /\ ~refused => unitsDown = {}
                      /\ ~overlapped => scratch = Original
    BY DEF KeyboardAsFound
  <2>1. \A s \in Session : OwedBy(s, call[s]) = {}
    BY DEF Busy, OwedBy
  <2>2. ~refused => unitsDown = {}
    BY <1>1, <2>1 DEF UnitsOwed
  <2>3. ~overlapped => scratch = Original
    BY <1>1 DEF OneAtATime, ScratchFor, Idle
  <2> QED BY <2>2, <2>3
<1>3. TextArrives
  <2> SUFFICES ASSUME Busy = {}, queue = <<>>, ~overlapped, ~late,
                      platform = "windows" => ~refused,
                      platform = "x11" => AllPlain(asked)
               PROVE  shown = Units16All(asked)
    BY DEF TextArrives, AllPlain
  <2>1. Arrives(Idle) /\ Idle.pc = "idle"
    BY <1>1 DEF OneAtATime, Idle
  <2>2. SentBy(Idle) = <<>> /\ Units16All(asked) \in Seq(Unit16)
    <3>1. 0 \in ScalarValue
      BY SMT DEF ScalarValue, Scalar
    <3> QED BY <1>1, <2>1, <3>1, Units16AllAppend DEF SentBy, TypingTypes, HistoryTypes
  <2>3. CASE platform # "x11"
    BY <2>1, <2>2, <2>3, ConcatEmptySeq DEF Arrives
  <2>4. CASE platform = "x11"
    <3>1. Rest(Units16All(asked))
      BY <2>1, <2>4 DEF Arrives, OnItsWay
    <3>2. PM # <<>>
      BY DEF PM
    <3> QED BY <3>1, <3>2 DEF Rest
  <2> QED BY <2>3, <2>4
<1> QED BY <1>2, <1>3

(* Calls leave the keyboard as they found it: no unit stays pressed, and the *)
(* X11 scratch keycode has its binding back (X11KeyboardBackend.cpp:55).    *)
THEOREM TypingKeyboardAsFound == Spec => []KeyboardAsFound
BY InitTypingInv, NextTypingInv, TypingInvGives, PTL DEF Spec

(* What typeUnicode reported as typed has arrived, as whole UTF-16; on X11   *)
(* if its characters are ones whose keysym, bound alone, shows them         *)
(* (X11KeyboardBackend.cpp:14-17,69-71).                                    *)
THEOREM TypingTextArrives == Spec => []TextArrives
BY InitTypingInv, NextTypingInv, TypingInvGives, PTL DEF Spec
===============================================================================
