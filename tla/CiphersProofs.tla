---------------------------- MODULE CiphersProofs ----------------------------
(***************************************************************************)
(* The ciphers that MCCiphers runs, for every value of their constants:    *)
(* the SM3 digest of messages of any length, in pieces of any lengths; and *)
(* the AES bulk functions and the modes of sm4_core.c, for messages and    *)
(* calls of any lengths: which blocks a turn of their loops writes, what   *)
(* it writes there, and that this is what the mode of operation says; and  *)
(* the AES context, whose key schedules are those of FIPS 197.             *)
(***************************************************************************)
EXTENDS MCCiphers, SequencesExt, SequenceTheorems, WellFoundedInduction, TLAPS

-----------------------------------------------------------------------------
(* Sequences                                                               *)

\* Induction, on the numbers of a set.
LEMMA NatInSteps ==
  ASSUME NEW S, 0 \in S, \A n \in Nat : n \in S => n + 1 \in S
  PROVE  \A n \in Nat : n \in S
  <1> SUFFICES ASSUME NEW n \in Nat, n \notin S PROVE FALSE
    OBVIOUS
  <1> DEFINE R == OpToRel(<, Nat)
             Rest == Nat \ S
  <1>1. IsWellFoundedOn(R, Nat)
    BY NatLessThanWellFounded
  <1>2. Rest \subseteq Nat /\ Rest # {}
    OBVIOUS
  <1>3. PICK m \in Rest : \A k \in Rest : ~ (<<k, m>> \in R)
    BY <1>1, <1>2, WFMin
  <1>4. \A k \in Nat : k < m => k \in S
    BY <1>3 DEF OpToRel
  <1> HIDE DEF R
  <1>5. m \in Nat /\ m # 0 /\ m - 1 \in Nat /\ m - 1 < m /\ m - 1 + 1 = m
    BY <1>3
  <1> QED
    BY <1>3, <1>4, <1>5

\* A function on the first numbers is a sequence.
LEMMA FunctionIsSeq ==
  ASSUME NEW S, NEW n \in Nat, NEW f \in [1 .. n -> S]
  PROVE  f \in Seq(S) /\ Len(f) = n
  OBVIOUS

-----------------------------------------------------------------------------
(* FlattenSeq                                                              *)

\* The function that FlattenSeq defines by recursion, without its recursion.
Flattens(f, s) ==
  f = [i \in 1 .. Len(s) |-> IF i = 1 THEN s[i] ELSE f[i - 1] \o s[i]]

\* What that function is at one place.
LEMMA FlattensAt ==
  ASSUME NEW f, NEW s, Flattens(f, s), NEW i \in 1 .. Len(s)
  PROVE  f[i] = IF i = 1 THEN s[i] ELSE f[i - 1] \o s[i]
  BY Zenon DEF Flattens

\* There is one for every sequence of sequences.
LEMMA FlattensExists ==
  ASSUME NEW S, NEW s \in Seq(Seq(S))
  PROVE  \E f \in [1 .. Len(s) -> Seq(S)] : Flattens(f, s)
  <1> DEFINE Upto(n) == \E f \in [1 .. n -> Seq(S)] :
               f = [i \in 1 .. n |-> IF i = 1 THEN s[i] ELSE f[i - 1] \o s[i]]
             Good == {n \in Nat : n <= Len(s) => Upto(n)}
  <1>1. 0 \in Good
    <2>1. Upto(0)
      <3> DEFINE f == [i \in 1 .. 0 |-> s[i]]
      <3>1. f \in [1 .. 0 -> Seq(S)]
        OBVIOUS
      <3>2. f = [i \in 1 .. 0 |-> IF i = 1 THEN s[i] ELSE f[i - 1] \o s[i]]
        OBVIOUS
      <3> QED
        BY <3>1, <3>2
    <2> QED
      BY <2>1
  <1>2. ASSUME NEW n \in Nat, n \in Good PROVE n + 1 \in Good
    <2> HIDE DEF Upto
    <2> SUFFICES ASSUME n + 1 <= Len(s) PROVE Upto(n + 1)
      OBVIOUS
    <2> USE DEF Upto
    <2>1. Upto(n)
      <3> HIDE DEF Upto
      <3>1. Len(s) \in Nat
        OBVIOUS
      <3> QED
        BY <1>2, <3>1
    <2>2. PICK f \in [1 .. n -> Seq(S)] :
            f = [i \in 1 .. n |-> IF i = 1 THEN s[i] ELSE f[i - 1] \o s[i]]
      BY <2>1
    <2>3. ASSUME NEW i \in 1 .. n
          PROVE  f[i] = IF i = 1 THEN s[i] ELSE f[i - 1] \o s[i]
      BY <2>2, Zenon
    <2> DEFINE g == [i \in 1 .. n + 1 |->
                       IF i <= n THEN f[i] ELSE IF i = 1 THEN s[i] ELSE f[n] \o s[i]]
    <2>4. ASSUME NEW i \in 1 .. n + 1 PROVE g[i] \in Seq(S)
      <3>1. s[i] \in Seq(S)
        BY LenProperties
      <3>2. CASE i <= n
        BY <3>2
      <3>3. CASE i = n + 1 /\ i # 1
        <4>1. f[n] \in Seq(S) /\ ~ (i <= n)
          BY <3>3
        <4>2. f[n] \o s[i] \in Seq(S)
          BY <3>1, <4>1
        <4> QED
          BY <3>3, <4>1, <4>2
      <3>4. CASE i = n + 1 /\ i = 1
        BY <3>1, <3>4
      <3> QED
        BY <3>2, <3>3, <3>4
    <2>5. g \in [1 .. n + 1 -> Seq(S)]
      BY <2>4
    <2>6. ASSUME NEW i \in 1 .. n + 1
          PROVE  g[i] = IF i = 1 THEN s[i] ELSE g[i - 1] \o s[i]
      <3>1. CASE i <= n
        <4>1. f[i] = IF i = 1 THEN s[i] ELSE f[i - 1] \o s[i]
          <5>1. i \in 1 .. n
            BY <3>1
          <5> QED
            BY <2>3, <5>1
        <4>2. i # 1 => g[i - 1] = f[i - 1]
          BY <3>1
        <4> QED
          BY <3>1, <4>1, <4>2
      <3>2. CASE i = n + 1
        <4>1. i # 1 => g[i - 1] = f[n]
          BY <3>2
        <4>2. g[i] = IF i = 1 THEN s[i] ELSE f[n] \o s[i]
          BY <3>2
        <4> QED
          BY <4>1, <4>2
      <3> QED
        BY <3>1, <3>2
    <2>7. g = [i \in 1 .. n + 1 |-> IF i = 1 THEN s[i] ELSE g[i - 1] \o s[i]]
      <3> HIDE DEF g
      <3> QED
        BY <2>5, <2>6
    <2> HIDE DEF g
    <2> QED
      BY <2>5, <2>7
  <1> HIDE DEF Upto
  <1>3. \A n \in Nat : n \in Good
    <2> HIDE DEF Good
    <2> QED
      BY <1>1, <1>2, NatInSteps
  <1>4. Len(s) \in Nat
    OBVIOUS
  <1>5. Upto(Len(s))
    BY <1>3, <1>4
  <1> QED
    BY <1>5 DEF Upto, Flattens

\* Two sequences are the same at the first m places.
Agree(f, g, m) == \A i \in 1 .. m : f[i] = g[i]

\* And only one, at the places where the sequences agree.
LEMMA FlattensUnique ==
  ASSUME NEW S, NEW s \in Seq(Seq(S)), NEW f, NEW g, Flattens(f, s),
         NEW t \in Seq(Seq(S)), Flattens(g, t), NEW m \in Nat, m <= Len(s), m <= Len(t),
         Agree(s, t, m)
  PROVE  Agree(f, g, m)
  <1> DEFINE Good == {n \in Nat : n \in 1 .. m => f[n] = g[n]}
  <1>1. 0 \in Good
    OBVIOUS
  <1>2. ASSUME NEW n \in Nat, n \in Good PROVE n + 1 \in Good
    <2> SUFFICES ASSUME n + 1 \in 1 .. m PROVE f[n + 1] = g[n + 1]
      OBVIOUS
    <2>1. n + 1 \in 1 .. Len(s) /\ n + 1 \in 1 .. Len(t) /\ s[n + 1] = t[n + 1]
      BY DEF Agree
    <2>2. f[n + 1] = IF n + 1 = 1 THEN s[n + 1] ELSE f[n + 1 - 1] \o s[n + 1]
      BY <2>1, FlattensAt
    <2>3. g[n + 1] = IF n + 1 = 1 THEN t[n + 1] ELSE g[n + 1 - 1] \o t[n + 1]
      BY <2>1, FlattensAt
    <2>4. n + 1 # 1 => f[n + 1 - 1] = g[n + 1 - 1]
      BY <1>2
    <2> QED
      BY <2>1, <2>2, <2>3, <2>4
  <1>3. \A n \in Nat : n \in Good
    <2> HIDE DEF Good
    <2> QED
      BY <1>1, <1>2, NatInSteps
  <1> QED
    BY <1>3 DEF Agree

\* FlattenSeq is the last value of that function.
LEMMA FlattenIsLast ==
  ASSUME NEW S, NEW s \in Seq(Seq(S)), Len(s) > 0
  PROVE  \E f \in [1 .. Len(s) -> Seq(S)] : Flattens(f, s) /\ FlattenSeq(s) = f[Len(s)]
  <1> DEFINE c == CHOOSE f : Flattens(f, s)
  <1>1. PICK f \in [1 .. Len(s) -> Seq(S)] : Flattens(f, s)
    BY FlattensExists
  <1>2. Flattens(c, s)
    BY <1>1
  <1>3. FlattenSeq(s) = c[Len(s)]
    BY DEF FlattenSeq, Flattens
  <1>4. \A i \in 1 .. Len(s) : c[i] = f[i]
    <2>1. Agree(s, s, Len(s)) /\ Len(s) \in Nat /\ Len(s) <= Len(s)
      BY DEF Agree
    <2> HIDE DEF c
    <2>2. Agree(c, f, Len(s))
      BY <1>1, <1>2, <2>1, FlattensUnique
    <2> QED
      BY <2>2 DEF Agree
  <1>5. FlattenSeq(s) = f[Len(s)]
    BY <1>3, <1>4
  <1> QED
    BY <1>1, <1>5

\* Flattened, nothing is nothing, and one more sequence comes after the others.
LEMMA FlattenEmpty == FlattenSeq(<<>>) = <<>>
  BY DEF FlattenSeq

\* What FlattenSeq makes of one more sequence.
LEMMA FlattenAppend ==
  ASSUME NEW S, NEW s \in Seq(Seq(S)), NEW b \in Seq(S)
  PROVE  /\ FlattenSeq(s) \in Seq(S)
         /\ FlattenSeq(Append(s, b)) = FlattenSeq(s) \o b
  <1> DEFINE t == Append(s, b)
  <1>1. /\ t \in Seq(Seq(S)) /\ Len(t) = Len(s) + 1 /\ t[Len(t)] = b
        /\ \A i \in 1 .. Len(s) : t[i] = s[i]
    BY AppendProperties
  <1> HIDE DEF t
  <1>2. PICK g \in [1 .. Len(t) -> Seq(S)] : Flattens(g, t) /\ FlattenSeq(t) = g[Len(t)]
    BY <1>1, FlattenIsLast
  <1>3. Len(s) \in Nat /\ Len(t) \in 1 .. Len(t)
    BY <1>1
  <1>4. g[Len(t)] = IF Len(t) = 1 THEN t[Len(t)] ELSE g[Len(t) - 1] \o t[Len(t)]
    BY <1>2, <1>3, FlattensAt
  <1>5. CASE Len(s) = 0
    <2>1. s = <<>>
      BY <1>5
    <2>2. FlattenSeq(s) = <<>>
      BY <2>1, FlattenEmpty
    <2>3. FlattenSeq(t) = b
      BY <1>1, <1>2, <1>4, <1>5
    <2> QED
      BY <2>2, <2>3 DEF t
  <1>6. CASE Len(s) > 0
    <2>1. PICK f \in [1 .. Len(s) -> Seq(S)] : Flattens(f, s) /\ FlattenSeq(s) = f[Len(s)]
      BY <1>6, FlattenIsLast
    <2>2. \A i \in 1 .. Len(s) : f[i] = g[i]
      <3>1. Len(s) <= Len(s) /\ Len(s) <= Len(t) /\ Agree(s, t, Len(s))
        BY <1>1, <1>3 DEF Agree
      <3>2. Flattens(f, s) /\ Flattens(g, t) /\ t \in Seq(Seq(S)) /\ Len(s) \in Nat
        BY <1>1, <1>2, <1>3, <2>1
      <3>3. Agree(f, g, Len(s))
        BY <3>1, <3>2, FlattensUnique
      <3> QED
        BY <3>3 DEF Agree
    <2>3. Len(t) - 1 = Len(s) /\ Len(t) # 1 /\ f[Len(s)] = g[Len(s)] /\ f[Len(s)] \in Seq(S)
      BY <1>1, <1>3, <1>6, <2>1, <2>2
    <2> QED
      BY <1>1, <1>2, <1>4, <2>1, <2>3 DEF t
  <1> QED
    BY <1>3, <1>5, <1>6

-----------------------------------------------------------------------------
(* The blocks                                                              *)

\* What may be in a block, and what is.
DataBytes == {<<"data", b, k>> : b \in Nat, k \in Nat}
CountBytes == {<<"count", n, k>> : n \in Nat, k \in Nat}
\* The bytes that a block, and what is hashed, are made of.
Byte == {<<"old">>, <<"0x80">>, <<"0">>} \cup DataBytes \cup CountBytes
\* The blocks that the compression function takes.
Block == [1 .. HashBlock -> Byte]

\* The assumptions, and that blocks are sequences.
LEMMA Sizes ==
  /\ HashBlock \in Nat \ {0} /\ HashCount \in Nat /\ HashCount + 1 <= HashBlock
  /\ \A b \in Block : b \in Seq(Byte) /\ Len(b) = HashBlock
  /\ \A d \in Seq(Block) : d \in Seq(Seq(Byte))
  <1>1. HashBlock \in Nat \ {0} /\ HashCount \in Nat /\ HashCount + 1 <= HashBlock
    BY HashAssumption
  <1>2. \A b \in Block : b \in Seq(Byte) /\ Len(b) = HashBlock
    BY <1>1, FunctionIsSeq DEF Block
  <1>3. Block \subseteq Seq(Byte)
    BY <1>2
  <1> QED
    BY <1>1, <1>2, <1>3, SeqMonotonic

\* The sizes of a block, as numbers.
LEMMA Bytes ==
  /\ \A b, k \in Nat : <<"data", b, k>> \in Byte
  /\ \A n, k \in Nat : <<"count", n, k>> \in Byte
  <1>1. \A b, k \in Nat : <<"data", b, k>> \in DataBytes
    BY DEF DataBytes
  <1>2. \A n, k \in Nat : <<"count", n, k>> \in CountBytes
    BY DEF CountBytes
  <1> QED
    BY <1>1, <1>2 DEF Byte

\* Blocks and bytes can be put together in any order.
LEMMA Assoc ==
  \A s, t, u \in Seq(Byte) : (s \o t) \o u = s \o (t \o u)
  BY ConcatAssociative

\* The bytes of two pieces that follow each other.
LEMMA Together ==
  \A r, s, t, u \in Seq(Byte) : r \o ((s \o t) \o u) = ((r \o s) \o t) \o u
  <1> SUFFICES ASSUME NEW r \in Seq(Byte), NEW s \in Seq(Byte), NEW t \in Seq(Byte),
                      NEW u \in Seq(Byte)
               PROVE  r \o ((s \o t) \o u) = ((r \o s) \o t) \o u
    OBVIOUS
  <1>1. s \o t \in Seq(Byte) /\ r \o s \in Seq(Byte)
    BY ConcatProperties
  <1>2. (r \o (s \o t)) \o u = r \o ((s \o t) \o u)
    BY <1>1, Assoc
  <1>3. (r \o s) \o t = r \o (s \o t)
    BY Assoc
  <1> QED
    BY <1>2, <1>3

\* A piece that fills a block and goes on in the next.
LEMMA Across ==
  \A r, s, t, u \in Seq(Byte) : (r \o s) \o (t \o u) = (r \o (s \o t)) \o u
  <1> SUFFICES ASSUME NEW r \in Seq(Byte), NEW s \in Seq(Byte), NEW t \in Seq(Byte),
                      NEW u \in Seq(Byte)
               PROVE  (r \o s) \o (t \o u) = (r \o (s \o t)) \o u
    OBVIOUS
  <1>1. r \o s \in Seq(Byte)
    BY ConcatProperties
  <1>2. ((r \o s) \o t) \o u = (r \o s) \o (t \o u)
    BY <1>1, Assoc
  <1>3. (r \o s) \o t = r \o (s \o t)
    BY Assoc
  <1> QED
    BY <1>2, <1>3

\* What is left after the whole blocks of n bytes is less than a block.
LEMMA Division ==
  ASSUME NEW n \in Nat, NEW b \in Nat \ {0}
  PROVE  /\ n \div b \in Nat /\ (n \div b) * b \in Nat
         /\ (n \div b) * b <= n /\ n < (n \div b) * b + b
  OBVIOUS

\* A multiple leaves no rest.
LEMMA MultipleRest ==
  ASSUME NEW n \in Nat, NEW b \in Nat \ {0}
  PROVE  (n * b) % b = 0
  OBVIOUS

\* memcpy and memset change the bytes they are told to, and no others.
LEMMA CopiedBytes ==
  ASSUME NEW b \in Block, NEW k \in Nat, NEW src \in Seq(Byte),
         k + Len(src) <= HashBlock
  PROVE  /\ Hash!Copied(b, k, src) \in Block
         /\ \A i \in 1 .. HashBlock :
               Hash!Copied(b, k, src)[i] =
                 IF i \in k + 1 .. k + Len(src) THEN src[i - k] ELSE b[i]
         /\ SubSeq(Hash!Copied(b, k, src), 1, k + Len(src)) = SubSeq(b, 1, k) \o src
  <1> DEFINE c == Hash!Copied(b, k, src)
             n == Len(src)
  <1>1. n \in Nat /\ HashBlock \in Nat
    BY Sizes
  <1>2. \A i \in k + 1 .. k + n : src[i - k] \in Byte
    BY <1>1
  <1>3. c = [i \in 1 .. HashBlock |-> IF i \in k + 1 .. k + n THEN src[i - k] ELSE b[i]]
    BY DEF Hash!Copied
  <1>4. \A i \in 1 .. HashBlock : b[i] \in Byte
    BY DEF Block
  <1>5. c \in [1 .. HashBlock -> Byte]
    BY <1>2, <1>3, <1>4
  <1>6. \A i \in 1 .. HashBlock : c[i] = IF i \in k + 1 .. k + n THEN src[i - k] ELSE b[i]
    BY <1>3
  <1> HIDE DEF c
  <1>7. /\ SubSeq(c, 1, k + n) \in Seq(Byte) /\ Len(SubSeq(c, 1, k + n)) = k + n
        /\ \A i \in 1 .. k + n : SubSeq(c, 1, k + n)[i] = c[i]
    <2>1. 1 \in Int /\ k + n \in Int /\ \A i \in 1 .. k + n : c[i] \in Byte
      BY <1>1, <1>5
    <2>2. /\ SubSeq(c, 1, k + n) \in Seq(Byte)
          /\ Len(SubSeq(c, 1, k + n)) = IF 1 <= k + n THEN k + n - 1 + 1 ELSE 0
          /\ \A i \in 1 .. k + n - 1 + 1 : SubSeq(c, 1, k + n)[i] = c[1 + i - 1]
      BY <2>1, SubSeqProperties
    <2> QED
      BY <1>1, <2>2
  <1>8. /\ SubSeq(b, 1, k) \in Seq(Byte) /\ Len(SubSeq(b, 1, k)) = k
        /\ \A i \in 1 .. k : SubSeq(b, 1, k)[i] = b[i]
    <2>1. 1 \in Int /\ k \in Int /\ \A i \in 1 .. k : b[i] \in Byte
      BY <1>1, <1>4
    <2>2. /\ SubSeq(b, 1, k) \in Seq(Byte)
          /\ Len(SubSeq(b, 1, k)) = IF 1 <= k THEN k - 1 + 1 ELSE 0
          /\ \A i \in 1 .. k - 1 + 1 : SubSeq(b, 1, k)[i] = b[1 + i - 1]
      BY <2>1, SubSeqProperties
    <2> QED
      BY <1>1, <2>2
  <1> DEFINE left == SubSeq(c, 1, k + n)
             first == SubSeq(b, 1, k)
  <1> HIDE DEF left, first
  <1>9. /\ first \o src \in Seq(Byte) /\ Len(first \o src) = k + n
        /\ \A i \in 1 .. k + n : (first \o src)[i] =
                                    IF i <= k THEN first[i] ELSE src[i - k]
    BY <1>8, ConcatProperties DEF first
  <1>10. ASSUME NEW i \in 1 .. k + n PROVE left[i] = (first \o src)[i]
    <2>1. i \in 1 .. HashBlock
      BY <1>1
    <2>2. CASE i <= k
      BY <1>1, <1>6, <1>7, <1>8, <1>9, <2>1, <2>2 DEF left, first
    <2>3. CASE ~ (i <= k)
      BY <1>1, <1>6, <1>7, <1>8, <1>9, <2>1, <2>3 DEF left, first
    <2> QED
      BY <2>2, <2>3
  <1>11. left = first \o src
    BY <1>7, <1>9, <1>10, SeqEqual DEF left
  <1> QED
    BY <1>5, <1>6, <1>11 DEF Block, c, left, first

\* A block of the data.
LEMMA BlockOfData ==
  ASSUME NEW data \in Seq(Byte), NEW w \in Nat, (w + 1) * HashBlock <= Len(data)
  PROVE  /\ Hash!BlockOf(data, w) \in Block
         /\ SubSeq(data, 1, w * HashBlock) \in Seq(Byte)
         /\ SubSeq(data, 1, w * HashBlock) \o Hash!BlockOf(data, w) =
              SubSeq(data, 1, (w + 1) * HashBlock)
  <1> DEFINE l == w * HashBlock
             m == (w + 1) * HashBlock
             x == SubSeq(data, l + 1, m)
  <1>1. /\ l \in Nat /\ m \in Nat /\ m = l + HashBlock /\ m <= Len(data)
        /\ HashBlock \in Nat \ {0} /\ Len(data) \in Nat
    BY Sizes
  <1>2. x = Hash!BlockOf(data, w)
    BY DEF Hash!BlockOf
  <1> HIDE DEF l, m
  <1>3. /\ l + 1 \in Int /\ m \in Int /\ \A i \in l + 1 .. m : data[i] \in Byte
        /\ 1 \in Int /\ l \in Int /\ \A i \in 1 .. l : data[i] \in Byte
    BY <1>1
  <1>4. x \in Seq(Byte) /\ Len(x) = IF l + 1 <= m THEN m - (l + 1) + 1 ELSE 0
    BY <1>3, SubSeqProperties
  <1>5. SubSeq(data, 1, l) \in Seq(Byte)
    BY <1>3, SubSeqProperties
  <1>6. Len(x) = HashBlock
    BY <1>1, <1>4
  <1>7. x \in [1 .. Len(x) -> Byte]
    BY <1>4, LenProperties
  <1>8. SubSeq(data, 1, l) \o x = SubSeq(data, 1, m)
    <2>1. 1 \in 1 .. Len(data) + 1 /\ l \in 1 - 1 .. Len(data) /\ m \in l .. Len(data)
      BY <1>1
    <2> QED
      BY <2>1, ConcatAdjacentSubSeq
  <1> QED
    BY <1>2, <1>5, <1>6, <1>7, <1>8 DEF Block, l, m

\* The loop over whole blocks takes the beginning of the data.
LEMMA WholeBlocks ==
  ASSUME NEW d \in Seq(Block), NEW data \in Seq(Byte), NEW w \in Nat,
         w * HashBlock <= Len(data)
  PROVE  /\ d \o [k \in 1 .. w |-> Hash!BlockOf(data, k - 1)] \in Seq(Block)
         /\ Len(d \o [k \in 1 .. w |-> Hash!BlockOf(data, k - 1)]) = Len(d) + w
         /\ FlattenSeq(d \o [k \in 1 .. w |-> Hash!BlockOf(data, k - 1)]) =
               FlattenSeq(d) \o SubSeq(data, 1, w * HashBlock)
  <1> DEFINE blocks(n) == [k \in 1 .. n |-> Hash!BlockOf(data, k - 1)]
             P(n) == /\ blocks(n) \in Seq(Block) /\ Len(blocks(n)) = n
                     /\ FlattenSeq(d \o blocks(n)) =
                          FlattenSeq(d) \o SubSeq(data, 1, n * HashBlock)
             Good == {n \in Nat : n * HashBlock <= Len(data) => P(n)}
  <1>1. /\ HashBlock \in Nat \ {0} /\ Len(data) \in Nat /\ d \in Seq(Seq(Byte))
        /\ FlattenSeq(d) \in Seq(Byte) /\ <<>> \in Seq(Byte)
    BY Sizes, FlattenAppend
  <1>2. 0 \in Good
    <2>1. blocks(0) = <<>> /\ SubSeq(data, 1, 0) = <<>>
      BY SubSeqEmpty
    <2>2. d \o <<>> = d /\ FlattenSeq(d) \o <<>> = FlattenSeq(d)
      BY <1>1, ConcatEmptySeq
    <2>3. 0 * HashBlock = 0
      BY <1>1
    <2> HIDE DEF blocks
    <2>4. blocks(0) \in Seq(Block) /\ Len(blocks(0)) = 0
      BY <2>1, EmptySeq
    <2>5. P(0)
      BY <2>1, <2>2, <2>3, <2>4
    <2> QED
      BY <2>5
  <1>3. ASSUME NEW n \in Nat, n \in Good PROVE n + 1 \in Good
    <2> HIDE DEF P
    <2> SUFFICES ASSUME (n + 1) * HashBlock <= Len(data) PROVE P(n + 1)
      OBVIOUS
    <2>1. P(n)
      <3>1. n * HashBlock <= Len(data)
        BY <1>1
      <3> QED
        BY <1>3, <3>1
    <2> DEFINE x == Hash!BlockOf(data, n)
               prefix == SubSeq(data, 1, n * HashBlock)
    <2>2. /\ x \in Block /\ x \in Seq(Byte) /\ prefix \in Seq(Byte)
          /\ prefix \o x = SubSeq(data, 1, (n + 1) * HashBlock)
      BY BlockOfData, Sizes
    <2>3. blocks(n) \in Seq(Block) /\ Len(blocks(n)) = n
      BY <2>1 DEF P
    <2>4. blocks(n + 1) = Append(blocks(n), x)
      <3>1. /\ Append(blocks(n), x) \in Seq(Block) /\ Len(Append(blocks(n), x)) = n + 1
            /\ \A i \in 1 .. n : Append(blocks(n), x)[i] = blocks(n)[i]
            /\ Append(blocks(n), x)[n + 1] = x
        BY <2>2, <2>3, AppendProperties
      <3> DEFINE t == Append(blocks(n), x)
      <3> HIDE DEF t
      <3>2. t \in [1 .. n + 1 -> Block]
        BY <3>1, LenProperties DEF t
      <3>3. ASSUME NEW i \in 1 .. n + 1 PROVE t[i] = Hash!BlockOf(data, i - 1)
        <4>1. CASE i \in 1 .. n
          BY <3>1, <4>1 DEF t
        <4>2. CASE i = n + 1
          BY <3>1, <4>2 DEF t
        <4> QED
          BY <4>1, <4>2
      <3>4. t = [i \in 1 .. n + 1 |-> Hash!BlockOf(data, i - 1)]
        BY <3>2, <3>3
      <3> QED
        BY <3>4 DEF t
    <2> HIDE DEF blocks, x, prefix
    <2>5. d \o blocks(n) \in Seq(Block) /\ d \o blocks(n) \in Seq(Seq(Byte))
      <3>1. d \o blocks(n) \in Seq(Block)
        BY <2>3, ConcatProperties
      <3> QED
        BY <3>1, Sizes
    <2>6. d \o blocks(n + 1) = Append(d \o blocks(n), x)
      <3>1. Append(blocks(n), x) = blocks(n) \o <<x>> /\ <<x>> \in Seq(Block)
        BY <2>2, <2>3, AppendIsConcat
      <3>2. Append(d \o blocks(n), x) = (d \o blocks(n)) \o <<x>>
        BY <2>2, <2>5, AppendIsConcat
      <3>3. (d \o blocks(n)) \o <<x>> = d \o (blocks(n) \o <<x>>)
        BY <2>3, <3>1, ConcatAssociative
      <3> QED
        BY <2>4, <3>1, <3>2, <3>3
    <2>7. FlattenSeq(d \o blocks(n + 1)) = FlattenSeq(d \o blocks(n)) \o x
      BY <2>2, <2>5, <2>6, FlattenAppend
    <2>8. FlattenSeq(d \o blocks(n)) = FlattenSeq(d) \o prefix
      BY <2>1 DEF P, prefix
    <2>9. (FlattenSeq(d) \o prefix) \o x = FlattenSeq(d) \o (prefix \o x)
      <3>1. FlattenSeq(d) \in Seq(Byte) /\ prefix \in Seq(Byte) /\ x \in Seq(Byte)
        BY <1>1, <2>2 DEF x, prefix
      <3> QED
        BY <3>1, ConcatAssociative
    <2>10. blocks(n + 1) \in Seq(Block) /\ Len(blocks(n + 1)) = n + 1
      <3>1. x \in Block /\ blocks(n) \in Seq(Block) /\ Len(blocks(n)) = n
        BY <2>2, <2>3
      <3>2. Append(blocks(n), x) \in Seq(Block) /\ Len(Append(blocks(n), x)) = n + 1
        BY <3>1, AppendProperties
      <3> QED
        BY <2>4, <3>2
    <2> QED
      BY <2>2, <2>7, <2>8, <2>9, <2>10 DEF P
  <1> HIDE DEF P
  <1>4. \A n \in Nat : n \in Good
    <2> HIDE DEF Good
    <2> QED
      BY <1>2, <1>3, NatInSteps
  <1>5. P(w)
    BY <1>4
  <1> HIDE DEF blocks
  <1>6. d \o blocks(w) \in Seq(Block) /\ Len(d \o blocks(w)) = Len(d) + w
    <2>1. blocks(w) \in Seq(Block) /\ Len(blocks(w)) = w
      BY <1>5 DEF P
    <2> DEFINE bs == blocks(w)
    <2>2. d \in Seq(Block) /\ bs \in Seq(Block) /\ Len(bs) = w
      BY <2>1
    <2> HIDE DEF bs
    <2>3. d \o bs \in Seq(Block) /\ Len(d \o bs) = Len(d) + w
      BY <2>2, ConcatProperties
    <2> QED
      BY <2>3 DEF bs
  <1> QED
    BY <1>5, <1>6 DEF P, blocks

-----------------------------------------------------------------------------
(* The state                                                               *)

\* The blocks d and the first n bytes of the block b are the message m.
Kept(d, n, b, m) ==
  /\ d \in Seq(Block) /\ n \in 0 .. HashBlock - 1 /\ b \in Block
  /\ m \in Seq(Byte) /\ m = FlattenSeq(d) \o SubSeq(b, 1, n)

\* What sm3_ctx holds of the message, until there is a digest.
Held == result = <<>> => Kept(digest, num, block, message) /\ sm3blocks = Len(digest)

\* What was exported of it.
HeldExported ==
  exported # <<>> =>
    /\ Kept(exported[1][1], exported[1][3], exported[1][4], exported[2])
    /\ exported[1][2] = Len(exported[1][1])

\* The inductive invariant.
HashIInv == branch \in Nat /\ block \in Block /\ Held /\ HeldExported /\ Hash!DigestRight

\* The beginning of a block.
LEMMA Beginning ==
  ASSUME NEW b \in Block, NEW n \in 0 .. HashBlock
  PROVE  SubSeq(b, 1, n) \in Seq(Byte) /\ Len(SubSeq(b, 1, n)) = n
  <1>1. 1 \in Int /\ n \in Int /\ n \in Nat /\ \A i \in 1 .. n : b[i] \in Byte
    BY Sizes DEF Block
  <1>2. /\ SubSeq(b, 1, n) \in Seq(Byte)
        /\ Len(SubSeq(b, 1, n)) = IF 1 <= n THEN n - 1 + 1 ELSE 0
    BY <1>1, SubSeqProperties
  <1> QED
    BY <1>1, <1>2

\* The loop over whole blocks, and what is kept for the next call: before is
\* what the first block of the call was completed to.
LEMMA AbsorbKeeps ==
  ASSUME digest \in Seq(Block), NEW before \in Seq(Block), NEW b \in Block,
         NEW data \in Seq(Byte), Hash!Absorb(before, b, data), sm3blocks = Len(digest)
  PROVE  /\ Kept(digest', num', block', FlattenSeq(digest \o before) \o data)
         /\ sm3blocks' = Len(digest')
  <1> DEFINE w == Hash!Whole(data)
             l == w * HashBlock
             n == Len(data)
             blocks == [k \in 1 .. w |-> Hash!BlockOf(data, k - 1)]
             rest == SubSeq(data, l + 1, n)
             e == digest \o before
  <1>1. /\ digest' = digest \o (before \o blocks)
        /\ sm3blocks' = sm3blocks + Len(before \o blocks)
        /\ num' = Len(rest) /\ block' = Hash!Copied(b, 0, rest)
    BY DEF Hash!Absorb
  <1>2. /\ HashBlock \in Nat \ {0} /\ n \in Nat /\ w \in Nat /\ l \in Nat
        /\ l <= n /\ n < l + HashBlock /\ w * HashBlock <= Len(data)
    <2>1. HashBlock \in Nat \ {0} /\ n \in Nat /\ w = n \div HashBlock
      BY Sizes DEF Hash!Whole
    <2> HIDE DEF w, n
    <2>2. w \in Nat /\ l \in Nat /\ l <= n /\ n < l + HashBlock
      BY <2>1, Division
    <2> QED
      BY <2>1, <2>2 DEF n
  <1>3. e \in Seq(Block) /\ e \in Seq(Seq(Byte)) /\ Len(e) = Len(digest) + Len(before)
    BY Sizes, ConcatProperties
  <1> HIDE DEF e, l
  <1>4. /\ e \o blocks \in Seq(Block) /\ Len(e \o blocks) = Len(e) + w
        /\ FlattenSeq(e \o blocks) = FlattenSeq(e) \o SubSeq(data, 1, l)
    BY <1>2, <1>3, WholeBlocks DEF l
  <1>5. /\ <<>> \in Seq(Block) /\ <<>> \o blocks \in Seq(Block) /\ Len(<<>> \o blocks) = Len(<<>>) + w
    BY <1>2, EmptySeq, WholeBlocks
  <1> HIDE DEF w
  <1>6. blocks \in Seq(Block) /\ Len(blocks) = w
    <2>1. \A k \in 1 .. w : Hash!BlockOf(data, k - 1) \in Block
      <3> TAKE k \in 1 .. w
      <3>1. k - 1 \in Nat /\ (k - 1 + 1) * HashBlock <= Len(data)
        BY <1>2, SMTT(30)
      <3> QED
        BY <3>1, BlockOfData
    <2>2. blocks \in [1 .. w -> Block]
      BY <2>1
    <2> QED
      BY <1>2, <2>2, FunctionIsSeq
  <1> HIDE DEF blocks
  <1>7. digest' = e \o blocks /\ Len(before \o blocks) = Len(before) + w
    <2>1. (digest \o before) \o blocks = digest \o (before \o blocks)
      BY <1>6, ConcatAssociative
    <2> QED
      BY <1>1, <1>6, <2>1, ConcatProperties DEF e
  <1>8. sm3blocks' = Len(digest')
    <2>1. Len(digest) \in Nat /\ Len(before) \in Nat
      OBVIOUS
    <2> QED
      BY <1>1, <1>2, <1>3, <1>4, <1>7, <2>1
  <1>9. rest \in Seq(Byte) /\ Len(rest) = n - l /\ SubSeq(data, 1, l) \in Seq(Byte)
    <2>1. /\ l + 1 \in Int /\ n \in Int /\ \A i \in l + 1 .. n : data[i] \in Byte
          /\ 1 \in Int /\ l \in Int /\ \A i \in 1 .. l : data[i] \in Byte
      BY <1>2
    <2>2. /\ rest \in Seq(Byte) /\ Len(rest) = IF l + 1 <= n THEN n - (l + 1) + 1 ELSE 0
          /\ SubSeq(data, 1, l) \in Seq(Byte)
      BY <2>1, SubSeqProperties
    <2> QED
      BY <1>2, <2>2
  <1>10. SubSeq(data, 1, l) \o rest = data
    <2>1. 1 \in 1 .. Len(data) + 1 /\ l \in 1 - 1 .. Len(data) /\ n \in l .. Len(data)
      BY <1>2
    <2>2. SubSeq(data, 1, l) \o rest = SubSeq(data, 1, n)
      BY <2>1, ConcatAdjacentSubSeq
    <2> QED
      BY <2>2, SubSeqFull
  <1> HIDE DEF rest, n
  <1>11. num' \in 0 .. HashBlock - 1 /\ num' = Len(rest)
    BY <1>1, <1>2, <1>9
  <1>12. block' \in Block /\ SubSeq(block', 1, num') = rest
    <2>1. 0 + Len(rest) <= HashBlock /\ 0 + Len(rest) = Len(rest)
      BY <1>2, <1>9
    <2>2. /\ Hash!Copied(b, 0, rest) \in Block
          /\ SubSeq(Hash!Copied(b, 0, rest), 1, 0 + Len(rest)) = SubSeq(b, 1, 0) \o rest
      BY <1>9, <2>1, CopiedBytes
    <2>3. SubSeq(b, 1, 0) \o rest = rest
      BY <1>9, SubSeqEmpty, ConcatEmptySeq
    <2> QED
      BY <1>1, <2>1, <2>2, <2>3
  <1>13. FlattenSeq(e) \in Seq(Byte)
    BY <1>3, EmptySeq, FlattenAppend
  <1>14. FlattenSeq(e) \o data = FlattenSeq(digest') \o SubSeq(block', 1, num')
    <2>1. (FlattenSeq(e) \o SubSeq(data, 1, l)) \o rest =
            FlattenSeq(e) \o (SubSeq(data, 1, l) \o rest)
      <3>1. SubSeq(data, 1, l) \in Seq(Byte) /\ rest \in Seq(Byte)
        BY <1>9
      <3> QED
        BY <1>13, <3>1, Assoc
    <2> QED
      BY <1>4, <1>7, <1>10, <1>12, <2>1
  <1>15. FlattenSeq(e) \o data \in Seq(Byte)
    BY <1>13, ConcatProperties
  <1> QED
    BY <1>4, <1>7, <1>8, <1>11, <1>12, <1>14, <1>15 DEF Kept, e

-----------------------------------------------------------------------------
(* The steps                                                               *)

\* Nothing is held of an empty message, whatever is in the block.
LEMMA EmptyKept ==
  ASSUME NEW b \in Block
  PROVE  Kept(<<>>, 0, b, <<>>) /\ Len(<<>>) = 0
  <1>1. <<>> \in Seq(Block) /\ <<>> \in Seq(Byte) /\ 0 \in 0 .. HashBlock - 1
    BY Sizes, EmptySeq
  <1>2. FlattenSeq(<<>>) \o SubSeq(b, 1, 0) = <<>>
    BY FlattenEmpty, SubSeqEmpty, ConcatEmptySeq
  <1> QED
    BY <1>1, <1>2 DEF Kept

\* A digest that has not begun is in the invariant.
LEMMA HashInit == Hash!Init => HashIInv
  <1> SUFFICES ASSUME Hash!Init PROVE HashIInv
    OBVIOUS
  <1>1. block \in Block
    <2>1. block = [k \in 1 .. HashBlock |-> <<"old">>] /\ <<"old">> \in Byte
      BY DEF Hash!Init, Byte
    <2> QED
      BY <2>1 DEF Block
  <1>2. Held
    BY <1>1, EmptyKept DEF Hash!Init, Held
  <1> QED
    BY <1>1, <1>2 DEF Hash!Init, HashIInv, HeldExported, Hash!DigestRight

\* A piece of any length is added to what is held.
LEMMA UpdateStep ==
  ASSUME HashIInv, NEW n \in Nat, Hash!Update(n)
  PROVE  HashIInv'
  <1> DEFINE data == [k \in 1 .. n |-> <<"data", branch, Len(message) + k>>]
             left == HashBlock - num
             part == SubSeq(data, 1, left)
             full == Hash!Copied(block, num, part)
             rest == SubSeq(data, left + 1, n)
  <1>1. /\ result = <<>> /\ branch \in Nat /\ block \in Block
        /\ Kept(digest, num, block, message) /\ sm3blocks = Len(digest)
        /\ message' = message \o data /\ UNCHANGED <<exported, branch, result>>
    BY DEF HashIInv, Held, Hash!Update
  <1>2. /\ digest \in Seq(Block) /\ num \in 0 .. HashBlock - 1 /\ message \in Seq(Byte)
        /\ message = FlattenSeq(digest) \o SubSeq(block, 1, num) /\ num \in Nat
    BY <1>1 DEF Kept
  <1>3. data \in Seq(Byte) /\ Len(data) = n
    <2>1. Len(message) \in Nat
      BY <1>2
    <2>2. \A k \in 1 .. n : <<"data", branch, Len(message) + k>> \in Byte
      <3> TAKE k \in 1 .. n
      <3>1. Len(message) + k \in Nat
        BY <2>1
      <3> QED
        BY <1>1, <3>1, Bytes
    <2>3. data \in [1 .. n -> Byte]
      BY <2>2
    <2> QED
      BY <2>3, FunctionIsSeq
  <1>4. /\ IF num = 0 THEN Hash!Absorb(<<>>, block, data)
           ELSE IF n < left
           THEN /\ block' = Hash!Copied(block, num, data)
                /\ num' = num + n
                /\ UNCHANGED <<digest, sm3blocks>>
           ELSE Hash!Absorb(<<full>>, full, rest)
    BY DEF Hash!Update
  <1> HIDE DEF data
  <1>5. FlattenSeq(digest) \in Seq(Byte) /\ digest \in Seq(Seq(Byte))
    BY <1>2, Sizes, EmptySeq, FlattenAppend
  <1>6. HashBlock \in Nat \ {0} /\ left \in Nat /\ left >= 1 /\ num + left = HashBlock
    BY <1>2, Sizes
  <1>7. Kept(digest', num', block', message') /\ sm3blocks' = Len(digest')
    <2>1. CASE num = 0
      <3>1. <<>> \in Seq(Block) /\ digest \o <<>> = digest /\ Hash!Absorb(<<>>, block, data)
        BY <1>2, <1>4, <2>1, EmptySeq, ConcatEmptySeq
      <3>2. message = FlattenSeq(digest)
        BY <1>2, <1>5, <2>1, SubSeqEmpty, ConcatEmptySeq
      <3>3. /\ Kept(digest', num', block', FlattenSeq(digest \o <<>>) \o data)
            /\ sm3blocks' = Len(digest')
        BY <1>1, <1>2, <1>3, <3>1, AbsorbKeeps
      <3> QED
        BY <1>1, <3>1, <3>2, <3>3
    <2>2. CASE num # 0 /\ n < left
      <3>1. /\ block' = Hash!Copied(block, num, data) /\ num' = num + n
            /\ digest' = digest /\ sm3blocks' = sm3blocks
        BY <1>4, <2>2
      <3>2. num + Len(data) <= HashBlock /\ num' \in 0 .. HashBlock - 1
        BY <1>2, <1>3, <1>6, <2>2, <3>1
      <3>3. /\ block' \in Block
            /\ SubSeq(block', 1, num + Len(data)) = SubSeq(block, 1, num) \o data
        BY <1>1, <1>2, <1>3, <3>1, <3>2, CopiedBytes
      <3>4. num \in 0 .. HashBlock
        BY <1>2, <1>6
      <3>5. SubSeq(block, 1, num) \in Seq(Byte)
        BY <1>1, <3>4, Beginning
      <3>6. message' = FlattenSeq(digest) \o (SubSeq(block, 1, num) \o data)
        BY <1>1, <1>2, <1>3, <1>5, <3>5, Assoc
      <3>7. message' \in Seq(Byte)
        BY <1>1, <1>2, <1>3, ConcatProperties
      <3> QED
        BY <1>1, <1>2, <1>3, <3>1, <3>2, <3>3, <3>6, <3>7 DEF Kept
    <2>3. CASE num # 0 /\ ~ (n < left)
      <3>1. Hash!Absorb(<<full>>, full, rest)
        BY <1>4, <2>3
      <3>2. /\ part \in Seq(Byte) /\ Len(part) = left /\ rest \in Seq(Byte)
        <4>1. /\ 1 \in Int /\ left \in Int /\ \A i \in 1 .. left : data[i] \in Byte
              /\ left + 1 \in Int /\ n \in Int /\ \A i \in left + 1 .. n : data[i] \in Byte
          BY <1>3, <1>6, <2>3
        <4>2. /\ part \in Seq(Byte) /\ Len(part) = IF 1 <= left THEN left - 1 + 1 ELSE 0
              /\ rest \in Seq(Byte)
          BY <4>1, SubSeqProperties
        <4> QED
          BY <1>6, <4>2
      <3>3. part \o rest = data
        <4>1. 1 \in 1 .. Len(data) + 1 /\ left \in 1 - 1 .. Len(data) /\ n \in left .. Len(data)
          BY <1>3, <1>6, <2>3
        <4>2. part \o rest = SubSeq(data, 1, n)
          BY <1>3, <4>1, ConcatAdjacentSubSeq
        <4> QED
          BY <1>3, <4>2, SubSeqFull
      <3> HIDE DEF part, rest, left
      <3>4. full \in Block /\ SubSeq(full, 1, num + left) = SubSeq(block, 1, num) \o part
        <4>1. num + Len(part) <= HashBlock
          BY <1>2, <1>6, <3>2
        <4> QED
          BY <1>1, <1>2, <3>2, <4>1, CopiedBytes
      <3> HIDE DEF full
      <3>5. full = SubSeq(block, 1, num) \o part /\ full \in Seq(Byte)
        <4>1. full \in Seq(Byte) /\ Len(full) = num + left
          BY <1>6, <3>4, Sizes
        <4>2. SubSeq(full, 1, Len(full)) = full
          BY <4>1, SubSeqFull
        <4> QED
          BY <3>4, <4>1, <4>2
      <3>6. <<full>> \in Seq(Block) /\ Append(digest, full) = digest \o <<full>>
        BY <1>2, <3>4, AppendIsConcat
      <3>7. /\ Kept(digest', num', block', FlattenSeq(digest \o <<full>>) \o rest)
            /\ sm3blocks' = Len(digest')
        BY <1>1, <1>2, <3>1, <3>2, <3>4, <3>6, AbsorbKeeps
      <3>8. FlattenSeq(digest \o <<full>>) = FlattenSeq(digest) \o full
        BY <1>5, <3>5, <3>6, FlattenAppend
      <3>9. num \in 0 .. HashBlock
        BY <1>2, <1>6
      <3>10. SubSeq(block, 1, num) \in Seq(Byte)
        BY <1>1, <3>9, Beginning
      <3>11. FlattenSeq(digest) \o full = message \o part
        <4>1. (FlattenSeq(digest) \o SubSeq(block, 1, num)) \o part =
                FlattenSeq(digest) \o (SubSeq(block, 1, num) \o part)
          BY <1>5, <3>2, <3>10, Assoc
        <4> QED
          BY <1>2, <3>5, <4>1
      <3>12. (message \o part) \o rest = message \o data
        BY <1>2, <3>2, <3>3, Assoc
      <3> QED
        BY <1>1, <3>7, <3>8, <3>11, <3>12
    <2> QED
      BY <2>1, <2>2, <2>3
  <1>8. block' \in Block /\ Held'
    BY <1>7 DEF Held, Kept
  <1>9. HeldExported' /\ Hash!DigestRight' /\ branch' \in Nat
    BY <1>1 DEF HashIInv, HeldExported, Hash!DigestRight
  <1> QED
    BY <1>8, <1>9 DEF HashIInv

\* A digest of whole blocks is that many bytes long.
LEMMA FlattenLength ==
  ASSUME NEW d \in Seq(Block)
  PROVE  FlattenSeq(d) \in Seq(Byte) /\ Len(FlattenSeq(d)) = Len(d) * HashBlock
  <1> DEFINE Good == {n \in Nat : \A e \in Seq(Block) :
                        Len(e) = n => Len(FlattenSeq(e)) = n * HashBlock}
  <1>1. 0 \in Good
    <2> SUFFICES ASSUME NEW e \in Seq(Block), Len(e) = 0
                 PROVE  Len(FlattenSeq(e)) = 0 * HashBlock
      OBVIOUS
    <2>1. e = <<>>
      OBVIOUS
    <2> QED
      BY <2>1, FlattenEmpty, Sizes
  <1>2. ASSUME NEW n \in Nat, n \in Good PROVE n + 1 \in Good
    <2> SUFFICES ASSUME NEW e \in Seq(Block), Len(e) = n + 1
                 PROVE  Len(FlattenSeq(e)) = (n + 1) * HashBlock
      OBVIOUS
    <2>1. e # <<>>
      OBVIOUS
    <2>2. PICK f \in Seq(Block), b \in Block : e = Append(f, b)
      BY <2>1, SequenceEmptyOrAppend
    <2>3. Len(f) = n /\ Len(f) \in Nat
      BY <2>2
    <2>4. /\ f \in Seq(Seq(Byte)) /\ b \in Seq(Byte) /\ Len(b) = HashBlock
          /\ HashBlock \in Nat
      BY Sizes
    <2>5. FlattenSeq(f) \in Seq(Byte) /\ FlattenSeq(e) = FlattenSeq(f) \o b
      BY <2>2, <2>4, FlattenAppend
    <2>6. Len(FlattenSeq(f)) = n * HashBlock
      BY <1>2, <2>3
    <2>7. Len(FlattenSeq(e)) = n * HashBlock + HashBlock
      BY <2>4, <2>5, <2>6, ConcatProperties, ZenonT(40)
    <2> QED
      BY <2>4, <2>7
  <1>3. \A n \in Nat : n \in Good
    <2> HIDE DEF Good
    <2> QED
      BY <1>1, <1>2, NatInSteps
  <1>4. FlattenSeq(d) \in Seq(Byte)
    BY Sizes, EmptySeq, FlattenAppend
  <1> QED
    BY <1>3, <1>4

\* Where the padding ends: at the end of the block that has room for the length.
LEMMA PaddedEnd ==
  ASSUME NEW q \in Nat, NEW n \in 0 .. HashBlock - 1
  PROVE  Hash!PaddedLength(q * HashBlock + n) =
           (IF n + 1 + HashCount <= HashBlock THEN q + 1 ELSE q + 2) * HashBlock
  <1> DEFINE p == IF n + 1 + HashCount <= HashBlock THEN q + 1 ELSE q + 2
             from == q * HashBlock + n + 1 + HashCount
             to == q * HashBlock + n + HashCount + HashBlock
             k == CHOOSE k \in from .. to : k % HashBlock = 0
  <1>1. HashBlock \in Nat \ {0} /\ HashCount \in Nat /\ HashCount + 1 <= HashBlock
    BY Sizes
  <1>2. /\ q * HashBlock \in Nat /\ (q + 1) * HashBlock = q * HashBlock + HashBlock
        /\ (q + 2) * HashBlock = q * HashBlock + HashBlock + HashBlock
    BY <1>1
  <1>3. p \in Nat /\ p * HashBlock \in from .. to
    BY <1>1, <1>2
  <1>4. (p * HashBlock) % HashBlock = 0
    BY <1>1, <1>3, MultipleRest
  <1>5. k \in from .. to /\ k % HashBlock = 0
    BY <1>3, <1>4
  <1> HIDE DEF k, p
  <1>6. from \in Nat /\ to \in Nat /\ to - from < HashBlock
    BY <1>1, <1>2
  <1> HIDE DEF from, to
  <1>7. k \in Nat /\ k = (k \div HashBlock) * HashBlock /\ k \div HashBlock \in Nat
    BY <1>1, <1>5, <1>6
  <1> DEFINE r == k \div HashBlock
  <1> HIDE DEF r
  <1>8. r \in Nat /\ k = r * HashBlock
    BY <1>7 DEF r
  <1>9. ~ (r < p)
    <2> SUFFICES ASSUME r < p PROVE FALSE
      OBVIOUS
    <2>1. r * HashBlock + HashBlock <= p * HashBlock
      BY <1>1, <1>3, <1>8
    <2> QED
      BY <1>1, <1>3, <1>5, <1>6, <1>8, <2>1
  <1>10. ~ (p < r)
    <2> SUFFICES ASSUME p < r PROVE FALSE
      OBVIOUS
    <2>1. p * HashBlock + HashBlock <= r * HashBlock
      BY <1>1, <1>3, <1>8
    <2> QED
      BY <1>1, <1>3, <1>5, <1>6, <1>8, <2>1
  <1>11. k = p * HashBlock
    BY <1>3, <1>8, <1>9, <1>10
  <1> QED
    BY <1>11 DEF Hash!PaddedLength, k, p, from, to

\* Zeros and the mark are bytes.
LEMMA Zeroes ==
  ASSUME NEW n \in Nat
  PROVE  /\ Hash!Zeros(n) \in Seq(Byte) /\ Len(Hash!Zeros(n)) = n
         /\ <<Hash!Mark>> \in Seq(Byte) /\ Len(<<Hash!Mark>>) = 1
  <1>1. <<"0">> \in Byte /\ Hash!Mark \in Byte
    BY DEF Byte, Hash!Mark
  <1>2. Hash!Zeros(n) \in [1 .. n -> Byte]
    BY <1>1 DEF Hash!Zeros
  <1> QED
    BY <1>1, <1>2, FunctionIsSeq

\* Zeroes after zeroes are zeroes.
LEMMA ZeroesTogether ==
  ASSUME NEW m \in Nat, NEW n \in Nat
  PROVE  Hash!Zeros(m) \o Hash!Zeros(n) = Hash!Zeros(m + n)
  <1> DEFINE z1 == Hash!Zeros(m)
             z2 == Hash!Zeros(n)
             s == z1 \o z2
             t == Hash!Zeros(m + n)
  <1>1. /\ \A i \in 1 .. m : z1[i] = <<"0">>
        /\ \A i \in 1 .. n : z2[i] = <<"0">>
        /\ \A i \in 1 .. m + n : t[i] = <<"0">>
    BY DEF Hash!Zeros
  <1>2. /\ z1 \in Seq(Byte) /\ Len(z1) = m /\ z2 \in Seq(Byte) /\ Len(z2) = n
        /\ t \in Seq(Byte) /\ Len(t) = m + n
    BY Zeroes
  <1> HIDE DEF z1, z2, t
  <1>3. /\ s \in Seq(Byte) /\ Len(s) = m + n
        /\ \A i \in 1 .. m + n : s[i] = IF i <= m THEN z1[i] ELSE z2[i - m]
    BY <1>2, ConcatProperties
  <1> HIDE DEF s
  <1>4. ASSUME NEW i \in 1 .. m + n PROVE s[i] = t[i]
    <2>1. t[i] = <<"0">>
      BY <1>1
    <2>2. CASE i <= m
      <3>1. i \in 1 .. m /\ s[i] = z1[i]
        BY <1>3, <2>2
      <3> QED
        BY <1>1, <2>1, <3>1
    <2>3. CASE ~ (i <= m)
      <3>1. i - m \in 1 .. n /\ s[i] = z2[i - m]
        BY <1>3, <2>3
      <3> QED
        BY <1>1, <2>1, <3>1
    <2> QED
      BY <2>2, <2>3
  <1>5. s = t
    BY <1>2, <1>3, <1>4, SeqEqual
  <1> QED
    BY <1>5 DEF s, t, z1, z2

\* The FlattenSeq that Sm3 has is the one of these lemmas.
LEMMA SameFlattened == \A t : Hash!FlattenSeq(t) = FlattenSeq(t)
  BY Zenon DEF Hash!FlattenSeq, FlattenSeq

\* sm3_final: the mark, zeros and the length come right after the message, in
\* one block or in two.
LEMMA FinalStep ==
  ASSUME HashIInv, Hash!Final
  PROVE  HashIInv'
  <1> DEFINE marked == Hash!Copied(block, num, <<Hash!Mark>>)
             rest == HashBlock - num - 1
             last == IF Hash!CountFits
                     THEN Hash!Copied(marked, num + 1, Hash!Zeros(rest - HashCount))
                     ELSE Hash!Zeros(HashBlock - HashCount)
             count == [k \in 1 .. HashCount |->
                         <<"count", sm3blocks * HashBlock + num, k>>]
             first == Hash!Copied(marked, num + 1, Hash!Zeros(rest))
             end == SubSeq(last, 1, HashBlock - HashCount) \o count
             s == SubSeq(block, 1, num)
             mark == <<Hash!Mark>>
  <1>1. /\ branch \in Nat /\ block \in Block
        /\ Kept(digest, num, block, message) /\ sm3blocks = Len(digest)
        /\ result' = digest \o (IF Hash!CountFits THEN <<>> ELSE <<first>>) \o <<end>>
        /\ block' = result'[Len(result')]
        /\ UNCHANGED <<message, exported, branch>>
    BY DEF HashIInv, Held, Hash!Final
  <1>2. /\ digest \in Seq(Block) /\ num \in 0 .. HashBlock - 1 /\ num \in Nat
        /\ message \in Seq(Byte) /\ message = FlattenSeq(digest) \o s
        /\ Len(digest) \in Nat
    BY <1>1 DEF Kept
  <1>3. /\ HashBlock \in Nat \ {0} /\ HashCount \in Nat /\ HashBlock - HashCount \in Nat
        /\ rest \in Nat /\ rest = HashBlock - num - 1
        /\ num + 1 <= HashBlock /\ num + 1 \in Nat
    BY <1>2, Sizes
  <1>4. /\ FlattenSeq(digest) \in Seq(Byte) /\ digest \in Seq(Seq(Byte))
        /\ Len(FlattenSeq(digest)) = Len(digest) * HashBlock
    BY <1>2, Sizes, FlattenLength
  <1>5. s \in Seq(Byte) /\ Len(s) = num
    BY <1>1, <1>2, <1>3, Beginning
  <1>6. mark \in Seq(Byte) /\ Len(mark) = 1
    BY Zeroes
  <1>7. Len(message) = Len(digest) * HashBlock + num /\ Len(message) \in Nat
    BY <1>2, <1>4, <1>5, ConcatProperties
  <1>8. /\ count \in Seq(Byte) /\ Len(count) = HashCount
        /\ count = [k \in 1 .. HashCount |-> <<"count", Len(message), k>>]
    <2>1. count = [k \in 1 .. HashCount |-> <<"count", Len(message), k>>]
      BY <1>1, <1>7
    <2>2. \A k \in 1 .. HashCount : <<"count", Len(message), k>> \in Byte
      <3> TAKE k \in 1 .. HashCount
      <3>1. k \in Nat
        OBVIOUS
      <3> QED
        BY <1>7, <3>1, Bytes
    <2>3. count \in [1 .. HashCount -> Byte]
      BY <2>1, <2>2
    <2> QED
      BY <1>3, <2>1, <2>3, FunctionIsSeq
  <1> DEFINE z == Hash!PaddedLength(Len(message)) - Len(message) - 1 - HashCount
  <1>9. Hash!Padded(message) = ((message \o mark) \o Hash!Zeros(z)) \o count
    BY <1>8 DEF Hash!Padded
  <1>10. z = IF Hash!CountFits THEN rest - HashCount ELSE rest + (HashBlock - HashCount)
    <2> DEFINE q == Len(digest)
               fits == num + 1 + HashCount <= HashBlock
    <2>1. Hash!PaddedLength(q * HashBlock + num) =
            (IF fits THEN q + 1 ELSE q + 2) * HashBlock
      BY <1>2, PaddedEnd
    <2>2. fits <=> Hash!CountFits
      BY DEF Hash!CountFits
    <2>3. /\ q * HashBlock \in Nat /\ (q + 1) * HashBlock = q * HashBlock + HashBlock
          /\ (q + 2) * HashBlock = q * HashBlock + HashBlock + HashBlock
      BY <1>2, <1>3
    <2> HIDE DEF q
    <2>4. CASE fits
      BY <1>2, <1>3, <1>7, <2>1, <2>2, <2>3, <2>4 DEF q
    <2>5. CASE ~ fits
      BY <1>2, <1>3, <1>7, <2>1, <2>2, <2>3, <2>5 DEF q
    <2> QED
      BY <2>4, <2>5
  <1> HIDE DEF mark, s, count, z, rest
  <1>11. marked \in Block /\ SubSeq(marked, 1, num + 1) = s \o mark
    <2>1. num + Len(mark) <= HashBlock
      BY <1>3, <1>6
    <2>2. marked = Hash!Copied(block, num, mark) /\ s = SubSeq(block, 1, num)
      BY DEF mark, s
    <2> HIDE DEF marked
    <2>3. /\ Hash!Copied(block, num, mark) \in Block
          /\ SubSeq(Hash!Copied(block, num, mark), 1, num + Len(mark)) =
               SubSeq(block, 1, num) \o mark
      <3>1. block \in Block /\ num \in Nat /\ mark \in Seq(Byte)
        BY <1>1, <1>2, <1>6
      <3> QED
        BY <2>1, <3>1, CopiedBytes
    <2> QED
      BY <1>6, <2>2, <2>3
  <1> HIDE DEF marked
  <1>12. s \o mark \in Seq(Byte) /\ Len(s \o mark) = num + 1
    BY <1>5, <1>6, ConcatProperties
  <1> DEFINE Done == /\ result' # <<>> /\ result'[Len(result')] \in Block
                     /\ FlattenSeq(result') = Hash!Padded(message)
  <1>13. ASSUME Hash!CountFits PROVE Done
    <2> DEFINE zs == Hash!Zeros(rest - HashCount)
               body == SubSeq(last, 1, HashBlock - HashCount)
    <2>1. num + 1 + HashCount <= HashBlock
      BY <1>13 DEF Hash!CountFits
    <2>2. rest - HashCount \in Nat
      BY <1>2, <1>3, <2>1
    <2>3. zs \in Seq(Byte) /\ Len(zs) = rest - HashCount /\ zs = Hash!Zeros(z)
      BY <1>10, <1>13, <2>2, Zeroes
    <2>4. num + 1 + Len(zs) = HashBlock - HashCount /\ num + 1 + Len(zs) <= HashBlock
      BY <1>2, <1>3, <2>3
    <2> HIDE DEF zs
    <2>5. last \in Block /\ body = (s \o mark) \o zs
      <3>1. last = Hash!Copied(marked, num + 1, zs)
        BY <1>13 DEF zs
      <3>2. /\ Hash!Copied(marked, num + 1, zs) \in Block
            /\ SubSeq(Hash!Copied(marked, num + 1, zs), 1, num + 1 + Len(zs)) =
                 SubSeq(marked, 1, num + 1) \o zs
        BY <1>3, <1>11, <2>3, <2>4, CopiedBytes
      <3> QED
        BY <1>11, <2>4, <3>1, <3>2
    <2>6. (s \o mark) \o zs \in Seq(Byte) /\ Len((s \o mark) \o zs) = HashBlock - HashCount
      BY <1>12, <2>3, <2>4, ConcatProperties
    <2>7. end = ((s \o mark) \o zs) \o count
      BY <2>5
    <2> HIDE DEF last, body
    <2>8. end \in Seq(Byte) /\ Len(end) = HashBlock
      <3>1. Len(end) = (HashBlock - HashCount) + HashCount
        BY <1>3, <1>8, <2>6, <2>7, ConcatProperties
      <3>2. end \in Seq(Byte)
        BY <1>8, <2>6, <2>7, ConcatProperties
      <3> QED
        BY <1>3, <3>1, <3>2
    <2>9. end \in Block
      BY <2>8, LenProperties DEF Block
    <2> HIDE DEF end
    <2>10. result' = Append(digest, end)
      <3>1. digest \o <<>> = digest
        BY <1>2, ConcatEmptySeq
      <3>2. Append(digest, end) = digest \o <<end>>
        BY <1>2, <2>9, AppendIsConcat
      <3> QED
        BY <1>1, <1>13, <3>1, <3>2
    <2>11. FlattenSeq(result') = FlattenSeq(digest) \o end
      BY <1>4, <2>8, <2>10, FlattenAppend
    <2>12. FlattenSeq(digest) \o end = ((message \o mark) \o zs) \o count
      <3>1. FlattenSeq(digest) \o end =
              ((FlattenSeq(digest) \o (s \o mark)) \o zs) \o count
        <4> DEFINE start == FlattenSeq(digest)
                   begin == s \o mark
        <4>1. /\ start \in Seq(Byte) /\ begin \in Seq(Byte)
              /\ zs \in Seq(Byte) /\ count \in Seq(Byte) /\ end = (begin \o zs) \o count
          BY <1>4, <1>8, <1>12, <2>3, <2>7
        <4> HIDE DEF start, begin
        <4>2. start \o ((begin \o zs) \o count) = ((start \o begin) \o zs) \o count
          BY <4>1, Together, SMTT(30)
        <4>3. start \o end = ((start \o begin) \o zs) \o count
          BY <4>1, <4>2
        <4> QED
          BY <4>3 DEF start, begin
      <3>2. FlattenSeq(digest) \o (s \o mark) = (FlattenSeq(digest) \o s) \o mark
        BY <1>4, <1>5, <1>6, Assoc
      <3> QED
        BY <1>2, <3>1, <3>2 DEF s
    <2>13. FlattenSeq(result') = Hash!Padded(message)
      BY <1>9, <2>3, <2>11, <2>12
    <2>14. result' # <<>> /\ result'[Len(result')] = end
      BY <1>2, <2>9, <2>10, AppendProperties
    <2> QED
      BY <2>9, <2>13, <2>14
  <1>14. ASSUME ~ Hash!CountFits PROVE Done
    <2> DEFINE z1 == Hash!Zeros(rest)
               z2 == Hash!Zeros(HashBlock - HashCount)
    <2>1. /\ z1 \in Seq(Byte) /\ Len(z1) = rest /\ z2 \in Seq(Byte)
          /\ Len(z2) = HashBlock - HashCount /\ z1 \o z2 = Hash!Zeros(z)
      BY <1>3, <1>10, <1>14, Zeroes, ZeroesTogether
    <2>2. last = z2 /\ SubSeq(last, 1, HashBlock - HashCount) = z2
      <3>1. last = z2
        BY <1>14
      <3>2. SubSeq(z2, 1, Len(z2)) = z2
        BY <2>1, SubSeqFull
      <3> QED
        BY <2>1, <3>1, <3>2
    <2>3. num + 1 + Len(z1) = HashBlock
      BY <1>2, <1>3, <2>1
    <2>4. first = Hash!Copied(marked, num + 1, z1)
      OBVIOUS
    <2> HIDE DEF z1, z2, last
    <2>5. first \in Block /\ SubSeq(first, 1, HashBlock) = (s \o mark) \o z1
      <3>1. num + 1 + Len(z1) <= HashBlock
        BY <1>3, <2>3
      <3>2. /\ Hash!Copied(marked, num + 1, z1) \in Block
            /\ SubSeq(Hash!Copied(marked, num + 1, z1), 1, num + 1 + Len(z1)) =
                 SubSeq(marked, 1, num + 1) \o z1
        BY <1>3, <1>11, <2>1, <3>1, CopiedBytes, ZenonT(40)
      <3> QED
        BY <1>11, <2>3, <2>4, <3>2
    <2>6. first = (s \o mark) \o z1 /\ first \in Seq(Byte)
      <3>1. first \in Seq(Byte) /\ Len(first) = HashBlock
        BY <2>5, Sizes
      <3>2. SubSeq(first, 1, Len(first)) = first
        BY <3>1, SubSeqFull
      <3> QED
        BY <2>5, <3>1, <3>2
    <2>7. end = z2 \o count
      BY <2>2
    <2> HIDE DEF first, end
    <2>8. end \in Seq(Byte) /\ Len(end) = HashBlock
      <3>1. Len(end) = (HashBlock - HashCount) + HashCount
        BY <1>3, <1>8, <2>1, <2>7, ConcatProperties
      <3>2. end \in Seq(Byte)
        BY <1>8, <2>1, <2>7, ConcatProperties
      <3> QED
        BY <1>3, <3>1, <3>2
    <2>9. end \in Block
      BY <2>8, LenProperties DEF Block
    <2>10. Append(digest, first) \in Seq(Block) /\ Append(digest, first) \in Seq(Seq(Byte))
      <3>1. Append(digest, first) \in Seq(Block)
        BY <1>2, <2>5, AppendProperties
      <3> QED
        BY <3>1, Sizes
    <2>11. result' = Append(Append(digest, first), end)
      <3>1. Append(digest, first) = digest \o <<first>>
        BY <1>2, <2>5, AppendIsConcat
      <3>2. Append(Append(digest, first), end) = Append(digest, first) \o <<end>>
        BY <2>9, <2>10, AppendIsConcat
      <3> QED
        BY <1>1, <1>14, <3>1, <3>2
    <2>12. FlattenSeq(result') = (FlattenSeq(digest) \o first) \o end
      <3>1. FlattenSeq(Append(digest, first)) = FlattenSeq(digest) \o first
        BY <1>4, <2>6, FlattenAppend
      <3>2. FlattenSeq(result') = FlattenSeq(Append(digest, first)) \o end
        BY <2>8, <2>10, <2>11, FlattenAppend
      <3> QED
        BY <3>1, <3>2
    <2>13. FlattenSeq(digest) \o first = (message \o mark) \o z1
      <3>1. FlattenSeq(digest) \o ((s \o mark) \o z1) =
              ((FlattenSeq(digest) \o s) \o mark) \o z1
        <4>1. /\ FlattenSeq(digest) \in Seq(Byte) /\ s \in Seq(Byte)
              /\ mark \in Seq(Byte) /\ z1 \in Seq(Byte)
          BY <1>4, <1>5, <1>6, <2>1
        <4> QED
          BY <4>1, Together, SMTT(30)
      <3> QED
        BY <1>2, <2>6, <3>1 DEF s
    <2>14. ((message \o mark) \o z1) \o (z2 \o count) =
             ((message \o mark) \o (z1 \o z2)) \o count
      <3> DEFINE start == message \o mark
      <3>1. /\ start \in Seq(Byte) /\ z1 \in Seq(Byte)
            /\ z2 \in Seq(Byte) /\ count \in Seq(Byte)
        BY <1>2, <1>6, <1>8, <2>1, ConcatProperties
      <3> HIDE DEF start
      <3>2. (start \o z1) \o (z2 \o count) = (start \o (z1 \o z2)) \o count
        BY <3>1, Across, SMTT(30)
      <3> QED
        BY <3>2 DEF start
    <2>15. FlattenSeq(result') = Hash!Padded(message)
      BY <1>9, <2>1, <2>7, <2>12, <2>13, <2>14
    <2>16. result' # <<>> /\ result'[Len(result')] = end
      BY <2>9, <2>10, <2>11, AppendProperties
    <2> QED
      BY <2>9, <2>15, <2>16
  <1>15. Done
    BY <1>13, <1>14
  <1>16. /\ result' # <<>> /\ FlattenSeq(result') = Hash!Padded(message')
         /\ branch' \in Nat /\ block' \in Block /\ exported' = exported
    BY <1>1, <1>15
  <1>17. HeldExported'
    BY <1>16 DEF HashIInv, HeldExported
  <1>18. Hash!DigestRight'
    BY <1>16, SameFlattened DEF Hash!DigestRight
  <1>19. Held'
    BY <1>16 DEF Held
  <1> QED
    BY <1>16, <1>17, <1>18, <1>19 DEF HashIInv

\* An export holds what the context does.
LEMMA ExportStep == HashIInv /\ Hash!Export => HashIInv'
  <1> SUFFICES ASSUME HashIInv, Hash!Export PROVE HashIInv'
    OBVIOUS
  <1>1. /\ result = <<>> /\ exported' = <<Hash!Saved, message>>
        /\ UNCHANGED <<digest, sm3blocks, num, block, message, branch, result>>
    BY DEF Hash!Export, Hash!ctx
  <1>2. Hash!Saved = <<digest, sm3blocks, num, block>>
    BY DEF Hash!Saved, Hash!ctx
  <1>3. Kept(digest, num, block, message) /\ sm3blocks = Len(digest)
    BY <1>1 DEF HashIInv, Held
  <1>4. /\ exported'[1][1] = digest /\ exported'[1][2] = sm3blocks
        /\ exported'[1][3] = num /\ exported'[1][4] = block /\ exported'[2] = message
    BY <1>1, <1>2
  <1> QED
    BY <1>1, <1>3, <1>4 DEF HashIInv, Held, HeldExported, Hash!DigestRight

\* An import brings it back, after the digest, too.
LEMMA ImportStep == HashIInv /\ Hash!Import => HashIInv'
  <1> SUFFICES ASSUME HashIInv, Hash!Import PROVE HashIInv'
    OBVIOUS
  <1>1. /\ exported # <<>> /\ digest' = exported[1][1] /\ sm3blocks' = exported[1][2]
        /\ num' = exported[1][3] /\ block' = exported[1][4] /\ message' = exported[2]
        /\ branch' = branch + 1 /\ result' = <<>> /\ exported' = exported
    BY DEF Hash!Import
  <1>2. Kept(digest', num', block', message') /\ sm3blocks' = Len(digest')
    BY <1>1 DEF HashIInv, HeldExported
  <1>3. Held' /\ block' \in Block
    BY <1>2 DEF Held, Kept
  <1> QED
    BY <1>1, <1>3 DEF HashIInv, HeldExported, Hash!DigestRight

\* sm3_init leaves nothing of the last message but what is in the block.
LEMMA InitAgainStep == HashIInv /\ Hash!InitAgain => HashIInv'
  <1> SUFFICES ASSUME HashIInv, Hash!InitAgain PROVE HashIInv'
    OBVIOUS
  <1>1. /\ digest' = <<>> /\ sm3blocks' = 0 /\ num' = 0 /\ message' = <<>>
        /\ branch' = branch + 1 /\ result' = <<>> /\ block' = block /\ exported' = exported
    BY DEF Hash!InitAgain
  <1>2. block \in Block
    BY DEF HashIInv
  <1>3. Kept(digest', num', block', message') /\ sm3blocks' = Len(digest')
    BY <1>1, <1>2, EmptyKept
  <1> QED
    BY <1>1, <1>2, <1>3 DEF HashIInv, Held, HeldExported, Hash!DigestRight

\* Every call keeps the invariant.
LEMMA HashNext == HashIInv /\ [Hash!Next]_Hash!vars => HashIInv'
  <1> SUFFICES ASSUME HashIInv, [Hash!Next]_Hash!vars PROVE HashIInv'
    OBVIOUS
  <1>1. CASE \E n \in HashPieces : Hash!Update(n)
    BY <1>1, UpdateStep, HashAssumption
  <1>2. CASE UNCHANGED Hash!vars
    BY <1>2 DEF Hash!vars, Hash!ctx, HashIInv, Held, HeldExported, Hash!DigestRight
  <1> QED
    BY <1>1, <1>2, FinalStep, ExportStep, ImportStep, InitAgainStep DEF Hash!Next

-----------------------------------------------------------------------------
(* The theorems                                                            *)

\* Between the calls, the context of sm3.c and what was exported of one hold the
\* message that was given so far: the whole blocks compressed, the rest kept.
THEOREM HashInvariance == CiphersSpec => []HashIInv
  <1>1. CiphersInit => HashIInv
    BY HashInit DEF CiphersInit
  <1>2. HashIInv /\ [CiphersNext]_<<which, vars, contextVars, sm4Vars, sm3Vars>> => HashIInv'
    <2> SUFFICES ASSUME HashIInv, [CiphersNext]_<<which, vars, contextVars, sm4Vars, sm3Vars>>
                 PROVE  HashIInv'
      OBVIOUS
    <2>1. [Hash!Next]_Hash!vars
      <3>1. CASE Hash!Next
        BY <3>1
      <3>2. CASE UNCHANGED sm3Vars
        BY <3>2 DEF sm3Vars, Hash!vars, Hash!ctx
      <3> QED
        BY <3>1, <3>2 DEF CiphersNext
    <2> QED
      BY <2>1, HashNext
  <1> QED
    BY <1>1, <1>2, PTL DEF CiphersSpec

\* The digest of sm3_final is that of the message with the padding of the
\* standard, whatever pieces it came in, and also after an import.
THEOREM DigestRightHolds == CiphersSpec => []DigestRight
  <1>1. HashIInv => DigestRight
    BY DEF HashIInv, DigestRight
  <1> QED
    BY <1>1, HashInvariance, PTL

\* Exclusive or is commutative,
LEMMA XorComm == \A a, b : Xor(a, b) = Xor(b, a)
  BY DEF Xor

\* associative,
LEMMA XorAssoc == \A a, b, c : Xor(Xor(a, b), c) = Xor(a, Xor(b, c))
  BY DEF Xor

\* its own inverse,
LEMMA XorSelf == \A a : Xor(a, a) = {}
  BY DEF Xor

\* and no block at all is its zero.
LEMMA XorZero == \A a : Xor(a, {}) = a /\ Xor({}, a) = a
  BY DEF Xor

\* What was added is taken away.
LEMMA XorBack == \A a, b : Xor(Xor(a, b), b) = a /\ Xor(b, Xor(b, a)) = a
  BY DEF Xor

\* f is a function on 0 .. n.
Upto(f, n) == f = [i \in 0 .. n |-> f[i]]

\* Functions that start alike and go on alike are the same.
Alike(f, g, n) == \A i \in 1 .. n : f[i - 1] = g[i - 1] => f[i] = g[i]

\* Two functions that begin alike, and go on alike, are the same one: what
\* makes a function that is defined by recursion the one that a lemma names.
LEMMA SameByStep ==
  ASSUME NEW n \in Nat, NEW f, NEW g, Upto(f, n), Upto(g, n),
         f[0] = g[0], Alike(f, g, n)
  PROVE  f = g
  <1> DEFINE Eq(i) == f[i] = g[i]
             Same == {i \in Nat : i <= n => Eq(i)}
  <1>0. Eq(0)
    OBVIOUS
  <1>s. ASSUME NEW i \in Nat, i <= n => Eq(i), i + 1 <= n PROVE Eq(i + 1)
    <2>1. i + 1 \in 1 .. n /\ (i + 1) - 1 = i /\ i <= n
      BY ONLY <1>s, n \in Nat
    <2>2. f[i] = g[i]
      BY ONLY <2>1, <1>s
    <2> QED
      BY ONLY <2>1, <2>2, Alike(f, g, n) DEF Alike
  <1> HIDE DEF Eq
  <1>1. 0 \in Same
    BY ONLY <1>0
  <1>2. \A i \in Nat : i \in Same => i + 1 \in Same
    BY ONLY <1>s
  <1> HIDE DEF Same
  <1>3. \A i \in Nat : i \in Same
    BY ONLY <1>1, <1>2, NatInSteps
  <1>4. \A i \in 0 .. n : f[i] = g[i]
    BY <1>3 DEF Same, Eq
  <1>5. [i \in 0 .. n |-> f[i]] = [i \in 0 .. n |-> g[i]]
    BY ONLY <1>4
  <1> QED
    BY ONLY <1>5, Upto(f, n), Upto(g, n), Zenon DEF Upto

-----------------------------------------------------------------------------
(* AesBulk: where a turn reads and writes.                                 *)

\* What the buffers hold at the start.
Start(a) == IF a < MaxBlocks THEN Input(a + 1) ELSE Atom("old", a)

\* The values of the variables of AesBulk.
BulkTypes ==
  /\ mode \in Modes /\ rounds \in RoundNumbers
  /\ dst \in {0, MaxBlocks}
  /\ mode = "cbc_mac" => dst = MaxBlocks
  /\ pc \in {"idle", "loop"}
  /\ nblocks \in Nat /\ done \in Nat /\ done + nblocks <= MaxBlocks
  /\ pc = "idle" => nblocks = 0

\* What is in the buffers of AesBulk: outside the output of the call so far,
\* what was there from the start.
BulkMem ==
  /\ mem = [a \in 0 .. (2 * MaxBlocks) |-> mem[a]]
  /\ OnlyOutputWritten

\* Loads of blocks that are still to be done.
LEMMA Unread ==
  ASSUME BulkTypes, BulkMem, NEW k \in Nat, k < nblocks
  PROVE  /\ In(k) \in DOMAIN mem
         /\ In(k) < MaxBlocks
         /\ mem[In(k)] = Input(done + k + 1)
  <1>0. MaxBlocks \in Nat
    BY SizesAssumption
  <1>1. In(k) = done + k /\ In(k) \in 0 .. (2 * MaxBlocks) /\ In(k) < MaxBlocks
    BY <1>0 DEF BulkTypes, In
  <1>2. ~ (In(k) \in dst .. (dst + done - 1)) /\ (mode = "cbc_mac" => In(k) # dst)
    BY <1>0, <1>1 DEF BulkTypes
  <1> QED
    BY <1>1, <1>2 DEF BulkMem, OnlyOutputWritten

\* Stores of them.
LEMMA Reached ==
  ASSUME BulkTypes, BulkMem, NEW k \in Nat, k < nblocks
  PROVE  /\ Out(k) \in DOMAIN mem
         /\ mode # "cbc_mac" => Out(k) = Out(0) + k
         /\ mode = "cbc_mac" => Out(k) = Out(0) /\ Out(0) = MaxBlocks
         /\ Out(0) \in Nat
  <1>0. MaxBlocks \in Nat
    BY SizesAssumption
  <1> QED
    BY <1>0 DEF BulkTypes, BulkMem, Out

\* A store of a turn does not reach what the turn loads later.
LEMMA Apart ==
  ASSUME BulkTypes, NEW j \in Nat, NEW k \in Nat, j < k, k < nblocks
  PROVE  Out(j) # In(k)
  <1>0. MaxBlocks \in Nat
    BY SizesAssumption
  <1> QED
    BY <1>0 DEF BulkTypes, Out, In

\* m with the blocks ys of a turn of n blocks.
Stored(m, n, ys) ==
  [a \in 0 .. (2 * MaxBlocks) |->
     IF a \in Out(0) .. Out(n - 1) THEN ys[a - Out(0) + 1] ELSE m[a]]

\* The blocks of a turn that are stored together,
LEMMA StoreAllIs ==
  ASSUME BulkMem, NEW n \in Nat, NEW ys, Len(ys) = n
  PROVE  StoreAll(mem, ys) = Stored(mem, n, ys)
  BY DEF BulkMem, StoreAll, Stored

\* and the one block of a turn that has one.
LEMMA StoreOneIs ==
  ASSUME BulkTypes, BulkMem, 1 <= nblocks, NEW y
  PROVE  [mem EXCEPT ![Out(0)] = y] = Stored(mem, 1, <<y>>)
  <1>1. Out(0) \in Nat /\ Out(0) \in 0 .. (2 * MaxBlocks)
    BY Reached DEF BulkMem, BulkTypes
  <1>2. \A a \in 0 .. (2 * MaxBlocks) :
           /\ a \in Out(0) .. Out(1 - 1) <=> a = Out(0)
           /\ a = Out(0) => <<y>>[a - Out(0) + 1] = y
    BY <1>1
  <1> QED
    BY <1>1, <1>2 DEF BulkMem, Stored

\* Nothing stored yet, one more block stored, and a load after some stores.
LEMMA StoredNone ==
  ASSUME BulkTypes, BulkMem, mode # "cbc_mac", NEW ys
  PROVE  Stored(mem, 0, ys) = mem
  <1>1. Out(0) .. Out(0 - 1) = {}
    BY SizesAssumption DEF BulkTypes, Out
  <1> QED
    BY <1>1 DEF Stored, BulkMem

\* Storing blocks one after the other: one more,
LEMMA StoredNext ==
  ASSUME BulkTypes, BulkMem, mode # "cbc_mac", NEW ys, NEW i \in Nat, i < nblocks
  PROVE  [Stored(mem, i, ys) EXCEPT ![Out(i)] = ys[i + 1]] = Stored(mem, i + 1, ys)
  <1>0. MaxBlocks \in Nat /\ dst \in Nat /\ done \in Nat
    BY SizesAssumption DEF BulkTypes
  <1>1. Out(i) \in 0 .. (2 * MaxBlocks)
    BY Reached DEF BulkMem
  <1>2. \A a \in 0 .. (2 * MaxBlocks) :
           /\ a \in Out(0) .. Out((i + 1) - 1) <=> a \in Out(0) .. Out(i - 1) \/ a = Out(i)
           /\ a = Out(i) => a - Out(0) + 1 = i + 1 /\ ~ (a \in Out(0) .. Out(i - 1))
    BY <1>0 DEF Out
  <1> QED
    BY <1>1, <1>2 DEF Stored

\* and what is still there to be loaded.
LEMMA StoredLoad ==
  ASSUME BulkTypes, BulkMem, mode # "cbc_mac", NEW ys,
         NEW i \in Nat, NEW k \in Nat, i <= k, k < nblocks
  PROVE  Stored(mem, i, ys)[In(k)] = mem[In(k)]
  <1>0. MaxBlocks \in Nat /\ dst \in Nat /\ done \in Nat
    BY SizesAssumption DEF BulkTypes
  <1>1. In(k) \in 0 .. (2 * MaxBlocks)
    BY Unread DEF BulkMem
  <1>2. ~ (In(k) \in Out(0) .. Out(i - 1))
    BY <1>0 DEF Out, In, BulkTypes
  <1> QED
    BY <1>1, <1>2 DEF Stored

\* The sums that XorEach stores.
Sums(xs, n) == [i \in 1 .. n |-> Xor(xs[i], mem[In(i - 1)])]

\* One block of XorEach.
EachStep(m, xs, i) == [m EXCEPT ![Out(i - 1)] = Xor(xs[i], m[In(i - 1)])]

\* What XorEach does: block by block, as if all were loaded before any is
\* stored.
LEMMA XorEachIs ==
  ASSUME BulkTypes, BulkMem, mode # "cbc_mac", NEW n \in Nat, n <= nblocks,
         NEW xs, Len(xs) = n
  PROVE  XorEach(mem, xs) = Stored(mem, n, Sums(xs, n))
  <1> DEFINE Rec(f) == f = [i \in 0 .. Len(xs) |->
                 IF i = 0 THEN mem
                 ELSE EachStep(f[i - 1], xs, i)]
             g == [i \in 0 .. n |-> Stored(mem, i, Sums(xs, n))]
             mm == CHOOSE f : Rec(f)
  <1>0. \A i \in 1 .. n : g[i] = EachStep(g[i - 1], xs, i)
    <2> SUFFICES ASSUME NEW i \in 1 .. n
                 PROVE  g[i] = EachStep(g[i - 1], xs, i)
      OBVIOUS
    <2>1. i - 1 \in Nat /\ i - 1 < nblocks /\ (i - 1) + 1 = i /\ i - 1 \in 0 .. n /\ i \in 0 .. n
      BY DEF BulkTypes
    <2>2. Stored(mem, i - 1, Sums(xs, n))[In(i - 1)] = mem[In(i - 1)]
      BY <2>1, StoredLoad
    <2>3. Sums(xs, n)[i] = Xor(xs[i], mem[In(i - 1)])
      BY DEF Sums
    <2>4. [Stored(mem, i - 1, Sums(xs, n)) EXCEPT ![Out(i - 1)] = Sums(xs, n)[(i - 1) + 1]]
             = Stored(mem, (i - 1) + 1, Sums(xs, n))
      BY <2>1, StoredNext
    <2>5. g[i - 1] = Stored(mem, i - 1, Sums(xs, n)) /\ g[i] = Stored(mem, i, Sums(xs, n))
      BY <2>1
    <2> HIDE DEF g
    <2> QED
      BY <2>1, <2>2, <2>3, <2>4, <2>5 DEF EachStep
  <1>1. g[0] = mem
    BY StoredNone
  <1>2. Upto(g, n)
    BY DEF Upto
  <1> HIDE DEF g
  <1>n. Len(xs) = n
    OBVIOUS
  <1>3. Rec(g)
    <2>1. \A i \in 0 .. n : g[i] = IF i = 0 THEN mem ELSE EachStep(g[i - 1], xs, i)
      BY ONLY <1>0, <1>1, n \in Nat
    <2>2. [i \in 0 .. n |-> g[i]]
            = [i \in 0 .. n |-> IF i = 0 THEN mem ELSE EachStep(g[i - 1], xs, i)]
      BY ONLY <2>1
    <2> QED
      BY ONLY <2>2, <1>n, <1>2, Zenon DEF Upto
  <1>4. \A f : Rec(f) => f = g
    <2> SUFFICES ASSUME NEW f, Rec(f) PROVE f = g
      OBVIOUS
    <2>1. Upto(f, n) /\ f[0] = g[0]
      BY ONLY Rec(f), <1>n, <1>1, n \in Nat DEF Upto
    <2>2. Alike(f, g, n)
      <3> SUFFICES ASSUME NEW i \in 1 .. n, f[i - 1] = g[i - 1] PROVE f[i] = g[i]
        BY DEF Alike
      <3>1. f[i] = EachStep(f[i - 1], xs, i)
        BY ONLY Rec(f), <1>n, n \in Nat, i \in 1 .. n
      <3> QED
        BY <3>1, <1>0
    <2> QED
      BY ONLY <2>1, <2>2, <1>2, n \in Nat, SameByStep
  <1>5. XorEach(mem, xs) = mm[Len(xs)]
    BY DEF XorEach, EachStep
  <1>6. mm = g
    <2> HIDE DEF Rec
    <2> QED BY <1>3, <1>4
  <1> QED
    <2>1. g[n] = Stored(mem, n, Sums(xs, n))
      BY DEF g
    <2> HIDE DEF g
    <2> QED
      BY ONLY <2>1, <1>5, <1>6, <1>n

\* What block i of a turn is chained to, in cbc_dec and cfb_dec: the block
\* before it, and for the first one what the register holds.
Before(i) == IF i = 0 THEN reg.x5 ELSE mem[In(i - 1)]

\* The sums of ds with the blocks before them.
ChainedSums(ds, n) == [i \in 1 .. n |-> Xor(Before(i - 1), ds[i])]

\* One block of CbcDec4.
CbcStep(p, ds, i) ==
  [mem |-> [p.mem EXCEPT ![Out(i - 1)] = Xor(p.x5, ds[i])],
   x5 |-> p.mem[In(i - 1)]]

\* What cbc_dec does four blocks at a time.
LEMMA CbcDec4Is ==
  ASSUME BulkTypes, BulkMem, CbcDec4
  PROVE  /\ mem' = Stored(mem, 4, ChainedSums(DecVec4(Blocks(mem, 4)), 4))
         /\ reg' = [x5 |-> mem[In(3)]]
  <1> DEFINE ds == DecVec4(Blocks(mem, 4))
             ys == ChainedSums(ds, 4)
             Rec(f) == f = [i \in 0 .. 4 |->
                 IF i = 0 THEN [mem |-> mem, x5 |-> reg.x5]
                 ELSE CbcStep(f[i - 1], ds, i)]
             g == [i \in 0 .. 4 |-> [mem |-> Stored(mem, i, ys), x5 |-> Before(i)]]
             s == CHOOSE f : Rec(f)
  <1>m. mode # "cbc_mac" /\ 4 <= nblocks
    BY DEF CbcDec4, Turn4, Advance
  <1>0. \A i \in 1 .. 4 : g[i] = CbcStep(g[i - 1], ds, i)
    <2> HIDE DEF ds
    <2> SUFFICES ASSUME NEW i \in 1 .. 4 PROVE g[i] = CbcStep(g[i - 1], ds, i)
      OBVIOUS
    <2>1. i - 1 \in Nat /\ i - 1 < nblocks /\ (i - 1) + 1 = i /\ i - 1 \in 0 .. 4 /\ i \in 0 .. 4 /\ i # 0
      BY <1>m DEF BulkTypes
    <2>2. Stored(mem, i - 1, ys)[In(i - 1)] = mem[In(i - 1)]
      BY <2>1, <1>m, StoredLoad
    <2>3. ys[i] = Xor(Before(i - 1), ds[i])
      BY DEF ChainedSums
    <2>4. [Stored(mem, i - 1, ys) EXCEPT ![Out(i - 1)] = ys[(i - 1) + 1]]
             = Stored(mem, (i - 1) + 1, ys)
      BY <2>1, <1>m, StoredNext
    <2>5. /\ g[i - 1] = [mem |-> Stored(mem, i - 1, ys), x5 |-> Before(i - 1)]
          /\ g[i] = [mem |-> Stored(mem, i, ys), x5 |-> Before(i)]
      BY <2>1
    <2>6. Before(i) = mem[In(i - 1)]
      BY <2>1 DEF Before
    <2> HIDE DEF g, ys
    <2> QED
      BY <2>1, <2>2, <2>3, <2>4, <2>5, <2>6 DEF CbcStep
  <1>1. g[0] = [mem |-> mem, x5 |-> reg.x5]
    BY <1>m, StoredNone DEF Before
  <1>2. Upto(g, 4)
    BY DEF Upto
  <1>9. g[4].mem = Stored(mem, 4, ys) /\ g[4].x5 = mem[In(3)]
    BY DEF Before
  <1> HIDE DEF g, ys, ds
  <1>3. Rec(g)
    <2>1. \A i \in 0 .. 4 : g[i] = IF i = 0 THEN [mem |-> mem, x5 |-> reg.x5] ELSE CbcStep(g[i - 1], ds, i)
      BY ONLY <1>0, <1>1
    <2>2. [i \in 0 .. 4 |-> g[i]]
            = [i \in 0 .. 4 |-> IF i = 0 THEN [mem |-> mem, x5 |-> reg.x5] ELSE CbcStep(g[i - 1], ds, i)]
      BY ONLY <2>1
    <2> QED
      BY ONLY <2>2, <1>2, Zenon DEF Upto
  <1>4. \A f : Rec(f) => f = g
    <2> SUFFICES ASSUME NEW f, Rec(f) PROVE f = g
      OBVIOUS
    <2>1. Upto(f, 4) /\ f[0] = g[0]
      BY ONLY Rec(f), <1>1 DEF Upto
    <2>2. Alike(f, g, 4)
      <3> SUFFICES ASSUME NEW i \in 1 .. 4, f[i - 1] = g[i - 1] PROVE f[i] = g[i]
        BY DEF Alike
      <3>1. f[i] = CbcStep(f[i - 1], ds, i)
        BY ONLY Rec(f), i \in 1 .. 4
      <3> QED
        BY <3>1, <1>0
    <2>3. 4 \in Nat
      OBVIOUS
    <2> QED
      BY ONLY <2>1, <2>2, <2>3, <1>2, SameByStep
  <1>5. mem' = s[4].mem /\ reg' = [x5 |-> s[4].x5]
    BY DEF CbcDec4, CbcStep, ds
  <1>6. s = g
    <2> HIDE DEF Rec
    <2> QED BY <1>3, <1>4
  <1> HIDE DEF s
  <1> QED
    BY ONLY <1>5, <1>6, <1>9 DEF ys, ds

-----------------------------------------------------------------------------
(* What XtsLoad makes of the buffers: the tweaks that are kept in outbuf.   *)

\* The buffers after n tweaks, those of spilled kept where their output goes.
Spilled(n, t, spilled) ==
  [a \in 0 .. (2 * MaxBlocks) |->
     IF a \in Out(0) .. Out(n - 1) /\ a - Out(0) \in spilled
     THEN TweakBlock(t[a - Out(0)]) ELSE mem[a]]

\* At the start nothing is kept,
LEMMA SpilledNone ==
  ASSUME BulkTypes, BulkMem, mode # "cbc_mac", NEW t, NEW spilled
  PROVE  Spilled(0, t, spilled) = mem
  <1>1. Out(0) .. Out(0 - 1) = {}
    BY SizesAssumption DEF BulkTypes, Out
  <1> QED
    BY <1>1 DEF Spilled, BulkMem

\* m with the tweak of block i, if that is kept.
WithTweak(m, t, spilled, i) ==
  IF i \in spilled THEN [m EXCEPT ![Out(i)] = TweakBlock(t[i])] ELSE m

\* then one tweak more;
LEMMA SpilledNext ==
  ASSUME BulkTypes, BulkMem, mode # "cbc_mac", NEW t, NEW spilled, NEW i \in Nat, i < nblocks
  PROVE  Spilled(i + 1, t, spilled) = WithTweak(Spilled(i, t, spilled), t, spilled, i)
  <1>0. MaxBlocks \in Nat /\ dst \in Nat /\ done \in Nat
    BY SizesAssumption DEF BulkTypes
  <1>1. Out(i) \in 0 .. (2 * MaxBlocks)
    BY Reached DEF BulkMem
  <1>2. \A a \in 0 .. (2 * MaxBlocks) :
           /\ a \in Out(0) .. Out((i + 1) - 1) <=> a \in Out(0) .. Out(i - 1) \/ a = Out(i)
           /\ a = Out(i) => a - Out(0) = i /\ ~ (a \in Out(0) .. Out(i - 1))
    BY <1>0 DEF Out
  <1>3. CASE i \in spilled
    BY <1>1, <1>2, <1>3 DEF Spilled, WithTweak
  <1>4. CASE ~ (i \in spilled)
    <2>1. \A a \in 0 .. (2 * MaxBlocks) :
            (a \in Out(0) .. Out((i + 1) - 1) /\ a - Out(0) \in spilled)
              <=> (a \in Out(0) .. Out(i - 1) /\ a - Out(0) \in spilled)
      BY <1>2, <1>4
    <2> QED
      BY <2>1, <1>4 DEF Spilled, WithTweak
  <1> QED
    BY <1>3, <1>4

\* no block is lost by it before it is loaded.
LEMMA SpilledLoad ==
  ASSUME BulkTypes, BulkMem, mode # "cbc_mac", NEW t, NEW spilled,
         NEW i \in Nat, NEW k \in Nat, i <= k, k < nblocks
  PROVE  Spilled(i, t, spilled)[In(k)] = mem[In(k)]
  <1>0. MaxBlocks \in Nat /\ dst \in Nat /\ done \in Nat
    BY SizesAssumption DEF BulkTypes
  <1>1. In(k) \in 0 .. (2 * MaxBlocks)
    BY Unread DEF BulkMem
  <1>2. ~ (In(k) \in Out(0) .. Out(i - 1))
    BY <1>0 DEF Out, In, BulkTypes
  <1> QED
    BY <1>1, <1>2 DEF Spilled

\* What is kept is there when it is loaded again, and gone when the turn ends.
LEMMA SpilledThere ==
  ASSUME BulkTypes, BulkMem, mode # "cbc_mac", NEW t, NEW spilled,
         NEW n \in Nat, n <= nblocks, NEW k \in 0 .. (n - 1), k \in spilled
  PROVE  Spilled(n, t, spilled)[Out(k)] = TweakBlock(t[k])
  <1>0. MaxBlocks \in Nat /\ dst \in Nat /\ done \in Nat
    BY SizesAssumption DEF BulkTypes
  <1>1. Out(k) \in 0 .. (2 * MaxBlocks)
    BY Reached DEF BulkMem, BulkTypes
  <1>2. Out(k) \in Out(0) .. Out(n - 1) /\ Out(k) - Out(0) = k
    BY <1>0 DEF Out
  <1> QED
    BY <1>1, <1>2 DEF Spilled

\* When the output is stored nothing of the tweaks is left.
LEMMA SpilledGone ==
  ASSUME BulkTypes, BulkMem, NEW t, NEW spilled, NEW n \in Nat, NEW ys, Len(ys) = n
  PROVE  StoreAll(Spilled(n, t, spilled), ys) = Stored(mem, n, ys)
  <1>1. DOMAIN Spilled(n, t, spilled) = 0 .. (2 * MaxBlocks)
    BY DEF Spilled
  <1>2. \A a \in 0 .. (2 * MaxBlocks) :
          ~ (a \in Out(0) .. Out(n - 1)) => Spilled(n, t, spilled)[a] = mem[a]
    BY DEF Spilled
  <1> QED
    BY <1>1, <1>2 DEF StoreAll, Stored

\* The first n values of a function, as a sequence, and one more.
FirstOf(f, n) == [i \in 1 .. n |-> f[i]]

\* The first values of a function are a sequence,
LEMMA FirstOfIsSeq ==
  ASSUME NEW f, NEW n \in Nat
  PROVE  FirstOf(f, n) \in Seq({f[i] : i \in 1 .. n}) /\ Len(FirstOf(f, n)) = n
  BY DEF FirstOf

\* and one more is appended to it.
LEMMA FirstOfMore ==
  ASSUME NEW f, NEW n \in Nat
  PROVE  Append(FirstOf(f, n), f[n + 1]) = FirstOf(f, n + 1)
  <1> DEFINE S == {f[i] : i \in 1 .. (n + 1)}
  <1>1. FirstOf(f, n) \in Seq(S) /\ Len(FirstOf(f, n)) = n /\ f[n + 1] \in S
    BY DEF FirstOf
  <1>2. FirstOf(f, n + 1) \in Seq(S) /\ Len(FirstOf(f, n + 1)) = n + 1
    BY DEF FirstOf
  <1>3. /\ Append(FirstOf(f, n), f[n + 1]) \in Seq(S)
        /\ Len(Append(FirstOf(f, n), f[n + 1])) = n + 1
        /\ \A i \in 1 .. n : Append(FirstOf(f, n), f[n + 1])[i] = FirstOf(f, n)[i]
        /\ Append(FirstOf(f, n), f[n + 1])[n + 1] = f[n + 1]
    <2> HIDE DEF S
    <2> QED
      BY <1>1, AppendProperties
  <1>4. \A i \in 1 .. (n + 1) : Append(FirstOf(f, n), f[n + 1])[i] = FirstOf(f, n + 1)[i]
    BY <1>3 DEF FirstOf
  <1> HIDE DEF S
  <1> QED
    BY <1>2, <1>3, <1>4, SeqEqual

-----------------------------------------------------------------------------
(* XTS: what a turn loads.                                                 *)

\* One block of XtsLoad.
XtsStep(p, t, spilled, k) ==
  [xs |-> Append(p.xs, Xor(p.mem[In(k - 1)], TweakBlock(t[k - 1]))),
   mem |-> WithTweak(p.mem, t, spilled, k - 1)]

\* The blocks of a turn with their tweaks added.
Tweaked(t) == [i \in 1 .. nblocks |-> Xor(mem[In(i - 1)], TweakBlock(t[i - 1]))]

\* What XtsLoad does: the tweaked blocks, and the tweaks that are kept.
LEMMA XtsLoadIs ==
  ASSUME BulkTypes, BulkMem, mode # "cbc_mac", NEW n \in Nat, n <= nblocks, NEW spilled
  PROVE  XtsLoad(n, spilled) = [xs |-> FirstOf(Tweaked(Tweaks(n)), n),
                                mem |-> Spilled(n, Tweaks(n), spilled)]
  <1> DEFINE t == Tweaks(n)
             Rec(f) == f = [k \in 0 .. n |->
                 IF k = 0 THEN [xs |-> <<>>, mem |-> mem]
                 ELSE XtsStep(f[k - 1], t, spilled, k)]
             g == [k \in 0 .. n |-> [xs |-> FirstOf(Tweaked(t), k),
                                     mem |-> Spilled(k, t, spilled)]]
             s == CHOOSE f : Rec(f)
  <1>5. XtsLoad(n, spilled) = s[n]
    BY DEF XtsLoad, XtsStep, WithTweak
  <1> HIDE DEF t
  <1>0. \A k \in 1 .. n : g[k] = XtsStep(g[k - 1], t, spilled, k)
    <2> SUFFICES ASSUME NEW k \in 1 .. n PROVE g[k] = XtsStep(g[k - 1], t, spilled, k)
      OBVIOUS
    <2>1. /\ k - 1 \in Nat /\ k - 1 < nblocks /\ (k - 1) + 1 = k
          /\ k - 1 \in 0 .. n /\ k \in 0 .. n /\ k \in 1 .. nblocks
      BY DEF BulkTypes
    <2>2. Spilled(k - 1, t, spilled)[In(k - 1)] = mem[In(k - 1)]
      BY <2>1, SpilledLoad
    <2>3. Tweaked(t)[k] = Xor(mem[In(k - 1)], TweakBlock(t[k - 1]))
      BY <2>1 DEF Tweaked
    <2>4. Append(FirstOf(Tweaked(t), k - 1), Tweaked(t)[(k - 1) + 1]) = FirstOf(Tweaked(t), (k - 1) + 1)
      BY ONLY <2>1, FirstOfMore
    <2>5. Spilled((k - 1) + 1, t, spilled)
            = WithTweak(Spilled(k - 1, t, spilled), t, spilled, k - 1)
      BY ONLY <2>1, BulkTypes, BulkMem, mode # "cbc_mac", SpilledNext
    <2>6. /\ g[k - 1] = [xs |-> FirstOf(Tweaked(t), k - 1), mem |-> Spilled(k - 1, t, spilled)]
          /\ g[k] = [xs |-> FirstOf(Tweaked(t), k), mem |-> Spilled(k, t, spilled)]
      BY <2>1
    <2> HIDE DEF g
    <2>7. /\ g[k - 1].xs = FirstOf(Tweaked(t), k - 1)
          /\ g[k - 1].mem = Spilled(k - 1, t, spilled)
      BY <2>6
    <2> QED
      BY <2>1, <2>2, <2>3, <2>4, <2>5, <2>6, <2>7 DEF XtsStep
  <1>1. g[0] = [xs |-> <<>>, mem |-> mem]
    <2>1. FirstOf(Tweaked(t), 0) = <<>>
      BY DEF FirstOf
    <2> QED
      BY <2>1, SpilledNone
  <1>2. Upto(g, n)
    BY DEF Upto
  <1>9. g[n] = [xs |-> FirstOf(Tweaked(t), n), mem |-> Spilled(n, t, spilled)]
    OBVIOUS
  <1> HIDE DEF g
  <1>3. Rec(g)
    <2>1. \A k \in 0 .. n : g[k] = IF k = 0 THEN [xs |-> <<>>, mem |-> mem]
                                   ELSE XtsStep(g[k - 1], t, spilled, k)
      BY ONLY <1>0, <1>1, n \in Nat
    <2>2. [k \in 0 .. n |-> g[k]]
            = [k \in 0 .. n |-> IF k = 0 THEN [xs |-> <<>>, mem |-> mem]
                                ELSE XtsStep(g[k - 1], t, spilled, k)]
      BY ONLY <2>1
    <2> QED
      BY ONLY <2>2, <1>2, Zenon DEF Upto
  <1>4. \A f : Rec(f) => f = g
    <2> SUFFICES ASSUME NEW f, Rec(f) PROVE f = g
      OBVIOUS
    <2>1. Upto(f, n) /\ f[0] = g[0]
      BY ONLY Rec(f), <1>1, n \in Nat DEF Upto
    <2>2. Alike(f, g, n)
      <3> SUFFICES ASSUME NEW k \in 1 .. n, f[k - 1] = g[k - 1] PROVE f[k] = g[k]
        BY DEF Alike
      <3>1. f[k] = XtsStep(f[k - 1], t, spilled, k)
        BY ONLY Rec(f), n \in Nat, k \in 1 .. n
      <3> QED
        BY <3>1, <1>0
    <2> QED
      BY ONLY <2>1, <2>2, <1>2, n \in Nat, SameByStep
  <1>6. s = g
    <2> HIDE DEF Rec
    <2> QED BY <1>3, <1>4
  <1> HIDE DEF s
  <1> QED
    BY ONLY <1>5, <1>6, <1>9 DEF t

-----------------------------------------------------------------------------
(* What every turn stores.                                                 *)

\* The end of a turn, and what it stored.
Took(n, ys) ==
  /\ n \in 1 .. nblocks /\ (mode = "cbc_mac" => n = 1)
  /\ pc = "loop"
  /\ nblocks' = nblocks - n /\ done' = done + n
  /\ UNCHANGED <<mode, rounds, prepared, keyschdec, dst, pc>>
  /\ mem' = Stored(mem, n, ys)

\* A turn of one block takes one block,
LEMMA TookOne ==
  ASSUME BulkTypes, BulkMem, Advance(1), NEW y, mem' = [mem EXCEPT ![Out(0)] = y]
  PROVE  Took(1, <<y>>)
  <1>1. pc = "loop" /\ 1 <= nblocks /\ 1 \in 1 .. nblocks
    BY DEF Advance, BulkTypes
  <1>2. mem' = Stored(mem, 1, <<y>>)
    BY <1>1, StoreOneIs
  <1> QED
    BY <1>1, <1>2 DEF Advance, Took, ctx

\* and one of n blocks n.
LEMMA TookAll ==
  ASSUME BulkTypes, BulkMem, NEW n \in Nat \ {0}, Advance(n), mode # "cbc_mac", NEW ys,
         mem' = Stored(mem, n, ys)
  PROVE  Took(n, ys)
  BY DEF Advance, Took, ctx, BulkTypes

\* What each of the turns takes and stores, those of one block first.
LEMMA EcbEncTook ==
  ASSUME BulkTypes, BulkMem, EcbEnc PROVE Took(1, <<Enc(mem[In(0)])>>)
  BY TookOne DEF EcbEnc

\* ecb_dec.
LEMMA EcbDecTook ==
  ASSUME BulkTypes, BulkMem, EcbDec PROVE Took(1, <<Dec(mem[In(0)])>>)
  BY TookOne DEF EcbDec

\* The block that cfb_enc adds in the last round.
LastSum == AesEncLast(InnerEnc(reg.x0, keyschenc, LastKey(rounds)),
                      Xor(mem[In(0)], Xor(key0, keylast)))

\* cfb_enc.
LEMMA CfbEncTook ==
  ASSUME BulkTypes, BulkMem, CfbEnc PROVE Took(1, <<Xor(key0, LastSum)>>)
  BY TookOne DEF CfbEnc, LastSum

\* cbc_enc, and the MAC that keeps the last block only.
LEMMA CbcEncTook ==
  ASSUME BulkTypes, BulkMem, CbcEnc
  PROVE  Took(1, <<AesEncLast(InnerEnc(reg.x0, keyschenc, LastKey(rounds)), keylast)>>)
  BY TookOne DEF CbcEnc

\* ctr, one block at a time.
LEMMA Ctr1Took ==
  ASSUME BulkTypes, BulkMem, Ctr1
  PROVE  Took(1, <<Xor(Enc(CtrBlock(reg.x5)), mem[In(0)])>>)
  BY TookOne DEF Ctr1, Turn1

\* ctr32le, one block at a time.
LEMMA Ctr32le1Took ==
  ASSUME BulkTypes, BulkMem, Ctr32le1
  PROVE  Took(1, <<Xor(Enc(CtrBlock(reg.x5)), mem[In(0)])>>)
  BY TookOne DEF Ctr32le1, Turn1

\* cfb_dec, one block at a time.
LEMMA CfbDec1Took ==
  ASSUME BulkTypes, BulkMem, CfbDec1
  PROVE  Took(1, <<Xor(mem[In(0)], Enc(reg.x5))>>)
  BY TookOne DEF CfbDec1, Turn1

\* cbc_dec, one block at a time.
LEMMA CbcDec1Took ==
  ASSUME BulkTypes, BulkMem, CbcDec1
  PROVE  Took(1, <<Xor(Dec(mem[In(0)]), reg.x5)>>)
  BY TookOne DEF CbcDec1, Turn1

\* xts_enc, one block at a time.
LEMMA XtsEnc1Took ==
  ASSUME BulkTypes, BulkMem, XtsEnc1
  PROVE  Took(1, <<Xor(TweakBlock(reg.x5), Enc(Xor(mem[In(0)], TweakBlock(reg.x5))))>>)
  BY TookOne DEF XtsEnc1, Turn1

\* xts_dec, one block at a time.
LEMMA XtsDec1Took ==
  ASSUME BulkTypes, BulkMem, XtsDec1
  PROVE  Took(1, <<Xor(TweakBlock(reg.x5), Dec(Xor(mem[In(0)], TweakBlock(reg.x5))))>>)
  BY TookOne DEF XtsDec1, Turn1

-----------------------------------------------------------------------------
(* Four blocks.                                                            *)

\* Four blocks go in and four come out.
LEMMA FourLen ==
  /\ \A xs : Len(EncVec4(xs)) = 4 /\ Len(DecVec4(xs)) = 4
  /\ \A m : \A n \in Nat : Len(Sums(m, n)) = n /\ Len(ChainedSums(m, n)) = n
  BY DEF EncVec4, DecVec4, DoEncVec4, DoDecVec4, Sums, ChainedSums

\* ctr, four blocks at a time.
LEMMA Ctr4Took ==
  ASSUME BulkTypes, BulkMem, Ctr4
  PROVE  Took(4, Sums(EncVec4([i \in 1 .. 4 |-> CtrBlock(Ctr4Counters.x[i - 1])]), 4))
  <1> DEFINE es == EncVec4([i \in 1 .. 4 |-> CtrBlock(Ctr4Counters.x[i - 1])])
  <1>1. Advance(4) /\ mode # "cbc_mac" /\ 4 <= nblocks /\ mem' = XorEach(mem, es)
    BY DEF Ctr4, Turn4, Advance, Ctr4Crypt
  <1>2. Len(es) = 4
    BY FourLen
  <1> HIDE DEF es
  <1>3. mem' = Stored(mem, 4, Sums(es, 4))
    BY <1>1, <1>2, XorEachIs
  <1>4. Took(4, Sums(es, 4))
    BY <1>1, <1>3, TookAll
  <1> QED
    BY <1>4 DEF es

\* cfb_dec, four blocks at a time.
LEMMA CfbDec4Took ==
  ASSUME BulkTypes, BulkMem, CfbDec4
  PROVE  Took(4, Sums(EncVec4(<<reg.x5>> \o Blocks(mem, 3)), 4))
  <1> DEFINE es == EncVec4(<<reg.x5>> \o Blocks(mem, 3))
  <1>1. Advance(4) /\ mode # "cbc_mac" /\ 4 <= nblocks /\ mem' = XorEach(mem, es)
    BY DEF CfbDec4, Turn4, Advance
  <1>2. Len(es) = 4
    BY FourLen
  <1> HIDE DEF es
  <1>3. mem' = Stored(mem, 4, Sums(es, 4))
    BY <1>1, <1>2, XorEachIs
  <1>4. Took(4, Sums(es, 4))
    BY <1>1, <1>3, TookAll
  <1> QED
    BY <1>4 DEF es

\* cbc_dec, four blocks at a time.
LEMMA CbcDec4Took ==
  ASSUME BulkTypes, BulkMem, CbcDec4
  PROVE  Took(4, ChainedSums(DecVec4(Blocks(mem, 4)), 4))
  <1>1. Advance(4) /\ mode # "cbc_mac"
    BY DEF CbcDec4, Turn4
  <1> QED
    BY <1>1, CbcDec4Is, TookAll

\* The counter of block i of a turn of ctr32le_enc, from 1.
LaneCounter(i) == CtrBlock(AddLane(reg.x5, i - 1))

\* ctr32le, four blocks at a time.
LEMMA Ctr32le4Took ==
  ASSUME BulkTypes, BulkMem, Ctr32le4
  PROVE  Took(4, Sums(EncVec4([i \in 1 .. 4 |-> LaneCounter(i)]), 4))
  <1> DEFINE es == EncVec4([i \in 1 .. 4 |-> LaneCounter(i)])
             ys == Sums(es, 4)
  <1>1. Advance(4) /\ mode # "cbc_mac"
    BY DEF Ctr32le4, Turn4
  <1>2. mem' = StoreAll(mem, ys)
    BY DEF Ctr32le4, LaneCounter, Sums
  <1>3. Len(ys) = 4
    BY FourLen
  <1> HIDE DEF ys
  <1>4. mem' = Stored(mem, 4, ys)
    BY <1>2, <1>3, StoreAllIs
  <1>5. Took(4, ys)
    BY <1>1, <1>4, TookAll
  <1> QED
    BY <1>5 DEF ys

\* The tweaked blocks of a turn.
XtsIn(n) == FirstOf(Tweaked(Tweaks(n)), n)
\* What comes out, with the tweaks added again.
XtsSums(n, ys) == [i \in 1 .. n |-> Xor(TweakBlock(Tweaks(n)[i - 1]), ys[i])]

\* Either direction of XTS, four blocks at a time:
LEMMA Xts4Took ==
  ASSUME BulkTypes, BulkMem, Turn4, mode # "cbc_mac", NEW ys,
         mem' = Xts4Store(Xts4Load, ys)
  PROVE  Took(4, XtsSums(4, ys))
  <1> DEFINE t == Tweaks(4)
             m == Spilled(4, t, 0 .. 3)
             zs == [i \in 1 .. 4 |-> Xor(m[Out(i - 1)], ys[i])]
  <1>1. Advance(4) /\ 4 <= nblocks
    BY DEF Turn4, Advance
  <1>2. Xts4Load.mem = m
    BY <1>1, XtsLoadIs DEF Xts4Load
  <1>3. \A i \in 1 .. 4 : m[Out(i - 1)] = TweakBlock(t[i - 1])
    <2> SUFFICES ASSUME NEW i \in 1 .. 4 PROVE m[Out(i - 1)] = TweakBlock(t[i - 1])
      OBVIOUS
    <2>1. i - 1 \in 0 .. (4 - 1) /\ i - 1 \in 0 .. 3
      OBVIOUS
    <2> HIDE DEF t
    <2> QED
      BY <1>1, <2>1, SpilledThere
  <1>4. zs = XtsSums(4, ys)
    <2> HIDE DEF m
    <2> QED
      BY <1>3 DEF XtsSums
  <1>5. mem' = StoreAll(m, zs)
    BY <1>2 DEF Xts4Store
  <1>6. Len(zs) = 4
    OBVIOUS
  <1> HIDE DEF t, zs
  <1>7. mem' = Stored(mem, 4, zs)
    <2>1. \A n \in Nat : Len(zs) = n =>
            StoreAll(Spilled(n, t, 0 .. 3), zs) = Stored(mem, n, zs)
      BY ONLY BulkTypes, BulkMem, SpilledGone
    <2> QED
      BY ONLY <1>5, <1>6, <2>1
  <1>8. Took(4, zs)
    BY <1>1, <1>7, TookAll
  <1> QED
    BY <1>8, <1>4

\* xts_enc,
LEMMA XtsEnc4Took ==
  ASSUME BulkTypes, BulkMem, XtsEnc4
  PROVE  Took(4, XtsSums(4, EncVec4(XtsIn(4))))
  <1>1. Turn4 /\ mode # "cbc_mac" /\ 4 <= nblocks /\ mem' = Xts4Store(Xts4Load, EncVec4(Xts4Load.xs))
    BY DEF XtsEnc4, Turn4, Advance
  <1>2. Xts4Load.xs = XtsIn(4)
    BY <1>1, XtsLoadIs DEF Xts4Load, XtsIn
  <1> QED
    BY <1>1, <1>2, Xts4Took

\* and xts_dec.
LEMMA XtsDec4Took ==
  ASSUME BulkTypes, BulkMem, XtsDec4
  PROVE  Took(4, XtsSums(4, DecVec4(XtsIn(4))))
  <1>1. Turn4 /\ mode # "cbc_mac" /\ 4 <= nblocks /\ mem' = Xts4Store(Xts4Load, DecVec4(Xts4Load.xs))
    BY DEF XtsDec4, Turn4, Advance
  <1>2. Xts4Load.xs = XtsIn(4)
    BY <1>1, XtsLoadIs DEF Xts4Load, XtsIn
  <1> QED
    BY <1>1, <1>2, Xts4Took

-----------------------------------------------------------------------------
(* Eight blocks.                                                           *)

\* A turn of eight blocks.
LEMMA EightTook ==
  ASSUME BulkTypes, BulkMem, Turn8, mode # "cbc_mac", NEW ys, Len(ys) = 8,
         mem' = StoreAll(mem, ys)
  PROVE  Took(8, ys)
  <1>1. Advance(8)
    BY DEF Turn8
  <1>2. mem' = Stored(mem, 8, ys)
    BY StoreAllIs
  <1> QED
    BY <1>1, <1>2, TookAll

\* The blocks of a turn of eight with key 0, before the rounds, and the last
\* round after them, with what is added there.
EncOf(xs) == EncVec8(AddKey0(xs, keyschenc))
\* Eight blocks up to the last round of decryption.
DecOf(xs) == DecVec8(AddKey0(xs, keyschdec))
\* The last round, with the last key already added to what is in sums,
LastEnc(v, sums) == [i \in 1 .. 8 |-> AesEncLast(v.xs[i], Xor(sums[i], v.xmm0))]
\* in either direction.
LastDec(v, sums) == [i \in 1 .. 8 |-> AesDecLast(v.xs[i], Xor(sums[i], v.xmm0))]

\* It puts out eight blocks.
LEMMA LastLen == \A v, sums : Len(LastEnc(v, sums)) = 8 /\ Len(LastDec(v, sums)) = 8
  BY DEF LastEnc, LastDec

\* ctr, eight blocks at a time.
LEMMA Ctr8Took ==
  ASSUME BulkTypes, BulkMem, Ctr8
  PROVE  Took(8, LastEnc(EncOf([i \in 1 .. 8 |-> CtrBlock(Ctr8Counters.x[i - 1])]),
                         Blocks(mem, 8)))
  <1> DEFINE ys == LastEnc(EncOf([i \in 1 .. 8 |-> CtrBlock(Ctr8Counters.x[i - 1])]),
                           Blocks(mem, 8))
  <1>1. mem' = StoreAll(mem, ys)
    BY DEF Ctr8, Ctr8Crypt, LastEnc, EncOf, Blocks
  <1>2. Turn8 /\ mode # "cbc_mac"
    BY DEF Ctr8
  <1>3. Len(ys) = 8
    BY LastLen
  <1> HIDE DEF ys
  <1>4. Took(8, ys)
    BY <1>1, <1>2, <1>3, EightTook
  <1> QED
    BY <1>4 DEF ys

\* ctr32le, eight blocks at a time.
LEMMA Ctr32le8Took ==
  ASSUME BulkTypes, BulkMem, Ctr32le8
  PROVE  Took(8, LastEnc(EncOf([i \in 1 .. 8 |-> LaneCounter(i)]), Blocks(mem, 8)))
  <1> DEFINE ys == LastEnc(EncOf([i \in 1 .. 8 |-> LaneCounter(i)]), Blocks(mem, 8))
  <1>1. mem' = StoreAll(mem, ys)
    BY DEF Ctr32le8, LastEnc, EncOf, Blocks, LaneCounter
  <1>2. Turn8 /\ mode # "cbc_mac"
    BY DEF Ctr32le8
  <1>3. Len(ys) = 8
    BY LastLen
  <1> HIDE DEF ys
  <1>4. Took(8, ys)
    BY <1>1, <1>2, <1>3, EightTook
  <1> QED
    BY <1>4 DEF ys

\* cfb_dec, eight blocks at a time.
LEMMA CfbDec8Took ==
  ASSUME BulkTypes, BulkMem, CfbDec8
  PROVE  Took(8, LastEnc(EncOf(<<reg.x5>> \o Blocks(mem, 7)), Blocks(mem, 8)))
  <1> DEFINE ys == LastEnc(EncOf(<<reg.x5>> \o Blocks(mem, 7)), Blocks(mem, 8))
  <1>1. mem' = StoreAll(mem, ys)
    BY DEF CfbDec8, LastEnc, EncOf, Blocks
  <1>2. Turn8 /\ mode # "cbc_mac"
    BY DEF CfbDec8
  <1>3. Len(ys) = 8
    BY LastLen
  <1> HIDE DEF ys
  <1>4. Took(8, ys)
    BY <1>1, <1>2, <1>3, EightTook
  <1> QED
    BY <1>4 DEF ys

\* cbc_dec, eight blocks at a time.
LEMMA CbcDec8Took ==
  ASSUME BulkTypes, BulkMem, CbcDec8
  PROVE  Took(8, LastDec(DecOf(Blocks(mem, 8)), <<reg.x5>> \o Blocks(mem, 7)))
  <1> DEFINE ys == LastDec(DecOf(Blocks(mem, 8)), <<reg.x5>> \o Blocks(mem, 7))
  <1>1. mem' = StoreAll(mem, ys)
    BY DEF CbcDec8, LastDec, DecOf
  <1>2. Turn8 /\ mode # "cbc_mac"
    BY DEF CbcDec8
  <1>3. Len(ys) = 8
    BY LastLen
  <1> HIDE DEF ys
  <1>4. Took(8, ys)
    BY <1>1, <1>2, <1>3, EightTook
  <1> QED
    BY <1>4 DEF ys

\* The tweaks of a turn of eight, some from registers and some from outbuf.
LEMMA Tweak8Is ==
  ASSUME BulkTypes, BulkMem, 8 <= nblocks, mode # "cbc_mac"
  PROVE  \A k \in 0 .. 7 : Tweak8(Xts8Load, k) = TweakBlock(Tweaks(8)[k])
  <1> DEFINE t == Tweaks(8)
             m == Spilled(8, t, 5 .. 7)
  <1>1. Xts8Load.mem = m
    BY XtsLoadIs DEF Xts8Load
  <1> HIDE DEF t
  <1>2. \A n \in Nat : n <= nblocks => \A k \in 0 .. (n - 1) :
          k \in 5 .. 7 => Spilled(n, t, 5 .. 7)[Out(k)] = TweakBlock(t[k])
    BY SpilledThere
  <1>3. \A k \in 5 .. 7 : k \in 0 .. (8 - 1) /\ m[Out(k)] = TweakBlock(t[k])
    BY <1>2
  <1> HIDE DEF m
  <1> QED
    BY <1>1, <1>3 DEF Tweak8, t

\* The eight tweaks of a turn.
TweakSums == [i \in 1 .. 8 |-> TweakBlock(Tweaks(8)[i - 1])]

\* Either direction of XTS, eight blocks at a time:
LEMMA Xts8Took ==
  ASSUME BulkTypes, BulkMem, Turn8, mode # "cbc_mac", NEW ys, Len(ys) = 8,
         mem' = StoreAll(Xts8Load.mem, ys)
  PROVE  Took(8, ys)
  <1>1. Advance(8) /\ 8 <= nblocks
    BY DEF Turn8, Advance
  <1>2. Xts8Load.mem = Spilled(8, Tweaks(8), 5 .. 7)
    BY <1>1, XtsLoadIs DEF Xts8Load
  <1>3. \A n \in Nat : Len(ys) = n =>
            StoreAll(Spilled(n, Tweaks(8), 5 .. 7), ys) = Stored(mem, n, ys)
    BY ONLY BulkTypes, BulkMem, SpilledGone
  <1>4. mem' = Stored(mem, 8, ys)
    BY <1>2, <1>3
  <1> QED
    BY <1>1, <1>4, TookAll

\* xts_enc,
LEMMA XtsEnc8Took ==
  ASSUME BulkTypes, BulkMem, XtsEnc8
  PROVE  Took(8, LastEnc(EncOf(XtsIn(8)), TweakSums))
  <1> DEFINE v == XtsEnc8Rounds(Xts8Load.xs)
             ys == [i \in 1 .. 8 |-> AesEncLast(v.xs[i], Xor(v.xmm0, Tweak8(Xts8Load, i - 1)))]
  <1>1. Turn8 /\ mode # "cbc_mac" /\ 8 <= nblocks
    BY DEF XtsEnc8, Turn8, Advance
  <1>2. mem' = StoreAll(Xts8Load.mem, ys)
    BY DEF XtsEnc8, XtsEnc8Last
  <1>3. Xts8Load.xs = XtsIn(8)
    BY <1>1, XtsLoadIs DEF Xts8Load, XtsIn
  <1>4. v = EncOf(XtsIn(8))
    BY <1>3 DEF XtsEnc8Rounds, EncOf
  <1>5. Len(ys) = 8
    OBVIOUS
  <1>7. \A k \in 0 .. 7 : Tweak8(Xts8Load, k) = TweakBlock(Tweaks(8)[k])
    BY <1>1, Tweak8Is
  <1>6. ys = LastEnc(EncOf(XtsIn(8)), TweakSums)
    <2> HIDE DEF v
    <2>1. \A i \in 1 .. 8 : i - 1 \in 0 .. 7 /\ TweakSums[i] = Tweak8(Xts8Load, i - 1)
      BY <1>7 DEF TweakSums
    <2>2. \A i \in 1 .. 8 : AesEncLast(v.xs[i], Xor(v.xmm0, Tweak8(Xts8Load, i - 1)))
                              = AesEncLast(v.xs[i], Xor(TweakSums[i], v.xmm0))
      BY <2>1, XorComm
    <2> QED
      BY <1>4, <2>2 DEF LastEnc
  <1> HIDE DEF ys
  <1>8. Took(8, ys)
    BY <1>1, <1>2, <1>5, Xts8Took
  <1> QED
    BY <1>8, <1>6

\* and xts_dec.
LEMMA XtsDec8Took ==
  ASSUME BulkTypes, BulkMem, XtsDec8
  PROVE  Took(8, LastDec(DecOf(XtsIn(8)), TweakSums))
  <1> DEFINE v == XtsDec8Rounds(Xts8Load.xs)
             ys == [i \in 1 .. 8 |-> AesDecLast(v.xs[i], Xor(v.xmm0, Tweak8(Xts8Load, i - 1)))]
  <1>1. Turn8 /\ mode # "cbc_mac" /\ 8 <= nblocks
    BY DEF XtsDec8, Turn8, Advance
  <1>2. mem' = StoreAll(Xts8Load.mem, ys)
    BY DEF XtsDec8, XtsDec8Last
  <1>3. Xts8Load.xs = XtsIn(8)
    BY <1>1, XtsLoadIs DEF Xts8Load, XtsIn
  <1>4. v = DecOf(XtsIn(8))
    BY <1>3 DEF XtsDec8Rounds, DecOf
  <1>5. Len(ys) = 8
    OBVIOUS
  <1>7. \A k \in 0 .. 7 : Tweak8(Xts8Load, k) = TweakBlock(Tweaks(8)[k])
    BY <1>1, Tweak8Is
  <1>6. ys = LastDec(DecOf(XtsIn(8)), TweakSums)
    <2> HIDE DEF v
    <2>1. \A i \in 1 .. 8 : i - 1 \in 0 .. 7 /\ TweakSums[i] = Tweak8(Xts8Load, i - 1)
      BY <1>7 DEF TweakSums
    <2>2. \A i \in 1 .. 8 : AesDecLast(v.xs[i], Xor(v.xmm0, Tweak8(Xts8Load, i - 1)))
                              = AesDecLast(v.xs[i], Xor(TweakSums[i], v.xmm0))
      BY <2>1, XorComm
    <2> QED
      BY <1>4, <2>2 DEF LastDec
  <1> HIDE DEF ys
  <1>8. Took(8, ys)
    BY <1>1, <1>2, <1>5, Xts8Took
  <1> QED
    BY <1>8, <1>6

\* Every turn stores as many blocks as it takes, and nothing else.
LEMMA TurnTook ==
  ASSUME BulkTypes, BulkMem, Turn
  PROVE  \E n, ys : Took(n, ys)
  <1>1. CASE EcbEnc BY <1>1, EcbEncTook
  <1>2. CASE EcbDec BY <1>2, EcbDecTook
  <1>3. CASE CfbEnc BY <1>3, CfbEncTook
  <1>4. CASE CbcEnc BY <1>4, CbcEncTook
  <1>5. CASE Ctr1 BY <1>5, Ctr1Took
  <1>6. CASE Ctr4 BY <1>6, Ctr4Took
  <1>7. CASE Ctr8 BY <1>7, Ctr8Took
  <1>8. CASE Ctr32le1 BY <1>8, Ctr32le1Took
  <1>9. CASE Ctr32le4 BY <1>9, Ctr32le4Took
  <1>10. CASE Ctr32le8 BY <1>10, Ctr32le8Took
  <1>11. CASE CfbDec1 BY <1>11, CfbDec1Took
  <1>12. CASE CfbDec4 BY <1>12, CfbDec4Took
  <1>13. CASE CfbDec8 BY <1>13, CfbDec8Took
  <1>14. CASE CbcDec1 BY <1>14, CbcDec1Took
  <1>15. CASE CbcDec4 BY <1>15, CbcDec4Took
  <1>16. CASE CbcDec8 BY <1>16, CbcDec8Took
  <1>17. CASE XtsEnc1 BY <1>17, XtsEnc1Took
  <1>18. CASE XtsEnc4 BY <1>18, XtsEnc4Took
  <1>19. CASE XtsEnc8 BY <1>19, XtsEnc8Took
  <1>20. CASE XtsDec1 BY <1>20, XtsDec1Took
  <1>21. CASE XtsDec4 BY <1>21, XtsDec4Took
  <1>22. CASE XtsDec8 BY <1>22, XtsDec8Took
  <1> QED
    BY <1>1, <1>2, <1>3, <1>4, <1>5, <1>6, <1>7, <1>8, <1>9, <1>10, <1>11, <1>12,
       <1>13, <1>14, <1>15, <1>16, <1>17, <1>18, <1>19, <1>20, <1>21, <1>22 DEF Turn

\* What was not to be written is not.
LEMMA TookKeeps ==
  ASSUME BulkTypes, BulkMem, NEW n, NEW ys, Took(n, ys)
  PROVE  BulkTypes' /\ BulkMem'
  <1>0. MaxBlocks \in Nat
    BY SizesAssumption
  <1>1. /\ n \in Nat /\ 1 <= n /\ n <= nblocks /\ (mode = "cbc_mac" => n = 1)
        /\ pc = "loop" /\ nblocks' = nblocks - n /\ done' = done + n
        /\ mode' = mode /\ rounds' = rounds /\ dst' = dst /\ pc' = pc
    BY DEF Took, BulkTypes
  <1>2. BulkTypes'
    BY <1>1 DEF BulkTypes
  <1>3. mem' = Stored(mem, n, ys)
    BY DEF Took
  <1>4. mem' = [a \in 0 .. (2 * MaxBlocks) |-> mem'[a]] /\ DOMAIN mem' = 0 .. (2 * MaxBlocks)
    BY <1>3 DEF Stored
  <1>5. ASSUME NEW a \in 0 .. (2 * MaxBlocks)
        PROVE  (a \in dst .. (dst + (done + n) - 1)) \/ (mode = "cbc_mac" /\ a = dst)
               \/ mem'[a] = Start(a)
    <2>1. CASE a \in Out(0) .. Out(n - 1)
      BY <2>1, <1>0, <1>1 DEF Out, BulkTypes
    <2>2. CASE ~ (a \in Out(0) .. Out(n - 1))
      <3>1. mem'[a] = mem[a]
        BY <2>2, <1>3 DEF Stored
      <3>2. (a \in dst .. (dst + done - 1)) \/ (mode = "cbc_mac" /\ a = dst) \/ mem[a] = Start(a)
        BY DEF BulkMem, OnlyOutputWritten, Start
      <3> QED
        BY <3>1, <3>2, <1>0, <1>1 DEF BulkTypes
    <2> QED
      BY <2>1, <2>2
  <1> QED
    BY <1>1, <1>2, <1>4, <1>5 DEF BulkMem, OnlyOutputWritten, Start

\* The invariant of the buffers holds at the start,
LEMMA BulkStart == Init => BulkTypes /\ BulkMem
  BY SizesAssumption DEF Init, BulkTypes, BulkMem, OnlyOutputWritten

\* and every step keeps it.
LEMMA BulkNext == BulkTypes /\ BulkMem /\ [Next]_vars => BulkTypes' /\ BulkMem'
  <1> SUFFICES ASSUME BulkTypes, BulkMem, [Next]_vars PROVE BulkTypes' /\ BulkMem'
    OBVIOUS
  <1>1. CASE Turn
    BY <1>1, TurnTook, TookKeeps
  <1>2. ASSUME NEW n \in CallSizes, Call(n) PROVE BulkTypes' /\ BulkMem'
    <2>1. n \in Nat
      BY SizesAssumption
    <2> QED
      BY <2>1, <1>2, SizesAssumption DEF Call, BulkTypes, BulkMem, OnlyOutputWritten
  <1>3. CASE Return
    BY <1>3 DEF Return, BulkTypes, BulkMem, OnlyOutputWritten, ctx
  <1>4. CASE UNCHANGED vars
    BY <1>4 DEF vars, BulkTypes, BulkMem, OnlyOutputWritten
  <1> QED
    BY <1>1, <1>2, <1>3, <1>4 DEF Next

-----------------------------------------------------------------------------
(* Sm4Modes: where a turn reads and writes.                                *)

\* The values of the variables of Sm4Modes, and what is left of a call: never
\* more than is left of the message.
Sm4Types ==
  /\ sm4mode \in Sm4!Modes
  /\ sm4dst \in {0, MaxBlocks}
  /\ sm4pc \in {"unkeyed", "idle", "loop"}
  /\ nbytes \in Nat /\ sm4done \in Nat /\ tail \in Nat
  /\ sm4done <= MaxBlocks
  /\ sm4pc = "loop" => sm4done * Sm4Block + nbytes <= MaxBlocks * Sm4Block
  /\ tail > 0 => sm4pc = "idle" /\ sm4done < MaxBlocks /\ sm4mode \in Sm4!Streams

\* A block of a message that ended with part of a block.
Ended(a) == tail > 0 /\ a = sm4dst + sm4done

\* What is in the buffers of Sm4Modes: outside the output so far, what was there
\* from the start.
Sm4Mem ==
  /\ sm4mem = [a \in 0 .. (2 * MaxBlocks) |-> sm4mem[a]]
  /\ \A a \in 0 .. (2 * MaxBlocks) :
       ~ Ended(a) /\ ~ (a \in sm4dst .. (sm4dst + sm4done - 1))
         => sm4mem[a] = (IF a < MaxBlocks THEN Sm4!Input(a + 1) ELSE Sm4!Atom("old", a))

\* The blocks of a call that are left are blocks of the message.
LEMMA WholeFit ==
  ASSUME Sm4Types, sm4pc = "loop", NEW n \in Nat, n <= Sm4!WholeBlocks
  PROVE  /\ n * Sm4Block <= nbytes /\ nbytes - n * Sm4Block \in Nat
         /\ sm4done + n <= MaxBlocks
         /\ (sm4done + n) * Sm4Block + (nbytes - n * Sm4Block) = sm4done * Sm4Block + nbytes
  <1>0. MaxBlocks \in Nat /\ Sm4Block \in Nat \ {0} /\ nbytes \in Nat /\ sm4done \in Nat
    BY SizesAssumption, Sm4Assumption DEF Sm4Types
  <1> DEFINE q == nbytes \div Sm4Block
  <1>1. q \in Nat /\ q * Sm4Block <= nbytes
    BY <1>0, Division
  <1>2. n <= q
    BY DEF Sm4!WholeBlocks
  <1> HIDE DEF q
  <1>3. n * Sm4Block <= q * Sm4Block /\ n * Sm4Block \in Nat
    BY <1>0, <1>1, <1>2
  <1>4. n * Sm4Block <= nbytes
    BY <1>0, <1>1, <1>3
  <1>5. (sm4done + n) * Sm4Block = sm4done * Sm4Block + n * Sm4Block
    BY <1>0
  <1>6. sm4done * Sm4Block + nbytes <= MaxBlocks * Sm4Block
    BY DEF Sm4Types
  <1>7. (sm4done + n) * Sm4Block <= MaxBlocks * Sm4Block
    BY <1>0, <1>3, <1>4, <1>5, <1>6
  <1>8. sm4done + n <= MaxBlocks
    <2> SUFFICES ASSUME ~ (sm4done + n <= MaxBlocks) PROVE FALSE
      OBVIOUS
    <2>1. MaxBlocks + 1 <= sm4done + n /\ sm4done + n \in Nat
      BY <1>0
    <2>2. (MaxBlocks + 1) * Sm4Block <= (sm4done + n) * Sm4Block
      BY <2>1, <1>0
    <2>3. (MaxBlocks + 1) * Sm4Block = MaxBlocks * Sm4Block + Sm4Block
      BY <1>0
    <2> QED
      BY <1>0, <1>7, <2>2, <2>3
  <1> QED
    BY <1>0, <1>3, <1>4, <1>5, <1>8

\* n blocks are left in a loop.
Left(n) == Sm4Types /\ Sm4Mem /\ sm4pc = "loop" /\ sm4done + n <= MaxBlocks

\* A block that is not done is still there to be read.
LEMMA Sm4Unread ==
  ASSUME NEW k \in Nat, Left(k + 1)
  PROVE  /\ Sm4!In(k) \in 0 .. (2 * MaxBlocks)
         /\ sm4mem[Sm4!In(k)] = Sm4!Input(sm4done + k + 1)
  <1>0. MaxBlocks \in Nat /\ sm4dst \in {0, MaxBlocks} /\ sm4done \in Nat /\ tail = 0
        /\ sm4done + (k + 1) <= MaxBlocks
    BY SizesAssumption DEF Left, Sm4Types
  <1>1. Sm4!In(k) = sm4done + k /\ Sm4!In(k) \in 0 .. (2 * MaxBlocks) /\ Sm4!In(k) < MaxBlocks
    BY <1>0 DEF Sm4!In
  <1>2. ~ Ended(Sm4!In(k)) /\ ~ (Sm4!In(k) \in sm4dst .. (sm4dst + sm4done - 1))
    BY <1>0, <1>1 DEF Ended
  <1> QED
    BY <1>1, <1>2 DEF Left, Sm4Mem

\* The buffers with the blocks of a turn from the (i+1)-th to the n-th stored.
Sm4Stored(i, n, ys) ==
  [a \in 0 .. (2 * MaxBlocks) |->
     IF a \in Sm4!Out(i) .. Sm4!Out(n - 1) THEN ys[a - Sm4!Out(0) + 1] ELSE sm4mem[a]]

\* None of them,
LEMMA Sm4StoredNone ==
  ASSUME NEW n \in Nat, Left(n), NEW ys
  PROVE  Sm4Stored(n, n, ys) = sm4mem
  <1>1. Sm4!Out(n) .. Sm4!Out(n - 1) = {}
    BY SizesAssumption DEF Left, Sm4Types, Sm4!Out
  <1> QED
    BY <1>1 DEF Sm4Stored, Left, Sm4Mem

\* One more block stored, after the others or before them.
LEMMA Sm4StoredAfter ==
  ASSUME NEW n \in Nat, Left(n + 1), NEW ys
  PROVE  [Sm4Stored(0, n, ys) EXCEPT ![Sm4!Out(n)] = ys[n + 1]] = Sm4Stored(0, n + 1, ys)
  <1>0. MaxBlocks \in Nat /\ sm4dst \in {0, MaxBlocks} /\ sm4done \in Nat
        /\ sm4done + (n + 1) <= MaxBlocks
    BY SizesAssumption DEF Left, Sm4Types
  <1>1. Sm4!Out(n) \in 0 .. (2 * MaxBlocks)
    BY <1>0 DEF Sm4!Out
  <1>2. \A a \in 0 .. (2 * MaxBlocks) :
           /\ a \in Sm4!Out(0) .. Sm4!Out((n + 1) - 1)
                <=> a \in Sm4!Out(0) .. Sm4!Out(n - 1) \/ a = Sm4!Out(n)
           /\ a = Sm4!Out(n) => a - Sm4!Out(0) + 1 = n + 1 /\ ~ (a \in Sm4!Out(0) .. Sm4!Out(n - 1))
    BY <1>0 DEF Sm4!Out
  <1> QED
    BY <1>1, <1>2 DEF Sm4Stored

\* and one more, before the others.
LEMMA Sm4StoredBefore ==
  ASSUME NEW n \in Nat, Left(n), NEW i \in Nat, i < n, NEW ys
  PROVE  [Sm4Stored(i + 1, n, ys) EXCEPT ![Sm4!Out(i)] = ys[i + 1]] = Sm4Stored(i, n, ys)
  <1>0. MaxBlocks \in Nat /\ sm4dst \in {0, MaxBlocks} /\ sm4done \in Nat
        /\ sm4done + n <= MaxBlocks
    BY SizesAssumption DEF Left, Sm4Types
  <1>1. Sm4!Out(i) \in 0 .. (2 * MaxBlocks)
    BY <1>0 DEF Sm4!Out
  <1>2. \A a \in 0 .. (2 * MaxBlocks) :
           /\ a \in Sm4!Out(i) .. Sm4!Out(n - 1)
                <=> a \in Sm4!Out(i + 1) .. Sm4!Out(n - 1) \/ a = Sm4!Out(i)
           /\ a = Sm4!Out(i) => a - Sm4!Out(0) + 1 = i + 1 /\ ~ (a \in Sm4!Out(i + 1) .. Sm4!Out(n - 1))
    BY <1>0 DEF Sm4!Out
  <1> QED
    BY <1>1, <1>2 DEF Sm4Stored

\* A load of a block that is not stored to, here or in place.
LEMMA Sm4StoredLoad ==
  ASSUME NEW n \in Nat, Left(n), NEW k \in Nat, k < n, NEW i \in Nat, NEW j \in Nat,
         j <= k \/ k < i, j <= n, NEW ys
  PROVE  Sm4Stored(i, j, ys)[Sm4!In(k)] = sm4mem[Sm4!In(k)]
  <1>0. MaxBlocks \in Nat /\ sm4dst \in {0, MaxBlocks} /\ sm4done \in Nat
        /\ sm4done + n <= MaxBlocks
    BY SizesAssumption DEF Left, Sm4Types
  <1>1. Sm4!In(k) \in 0 .. (2 * MaxBlocks)
    BY <1>0 DEF Sm4!In
  <1>2. ~ (Sm4!In(k) \in Sm4!Out(i) .. Sm4!Out(j - 1))
    BY <1>0 DEF Sm4!Out, Sm4!In
  <1> QED
    BY <1>1, <1>2 DEF Sm4Stored

\* The blocks of a turn that are stored together,
LEMMA Sm4StoreAllIs ==
  ASSUME NEW n \in Nat, Left(n), NEW ys, DOMAIN ys = 1 .. n
  PROVE  Sm4!StoreAll(sm4mem, ys) = Sm4Stored(0, n, ys)
  <1>0. MaxBlocks \in Nat /\ sm4dst \in {0, MaxBlocks} /\ sm4done \in Nat
    BY SizesAssumption DEF Left, Sm4Types
  <1>1. DOMAIN sm4mem = 0 .. (2 * MaxBlocks)
    BY DEF Left, Sm4Mem
  <1>2. \A a \in 0 .. (2 * MaxBlocks) :
          (\E i \in DOMAIN ys : a = Sm4!Out(i - 1)) <=> a \in Sm4!Out(0) .. Sm4!Out(n - 1)
    <2> SUFFICES ASSUME NEW a \in 0 .. (2 * MaxBlocks)
                 PROVE  (\E i \in 1 .. n : a = Sm4!Out(i - 1)) <=> a \in Sm4!Out(0) .. Sm4!Out(n - 1)
      OBVIOUS
    <2>1. ASSUME a \in Sm4!Out(0) .. Sm4!Out(n - 1) PROVE \E i \in 1 .. n : a = Sm4!Out(i - 1)
      <3>1. a - Sm4!Out(0) + 1 \in 1 .. n /\ a = Sm4!Out((a - Sm4!Out(0) + 1) - 1)
        BY <2>1, <1>0 DEF Sm4!Out
      <3> QED
        BY <3>1
    <2>2. ASSUME NEW i \in 1 .. n, a = Sm4!Out(i - 1) PROVE a \in Sm4!Out(0) .. Sm4!Out(n - 1)
      BY <2>2, <1>0 DEF Sm4!Out
    <2> QED
      BY <2>1, <2>2
  <1> QED
    BY <1>1, <1>2 DEF Sm4!StoreAll, Sm4Stored

\* and the one block of a turn that has one.
LEMMA Sm4StoreOneIs ==
  ASSUME Left(1), NEW y
  PROVE  [sm4mem EXCEPT ![Sm4!Out(0)] = y] = Sm4Stored(0, 1, <<y>>)
  <1>0. MaxBlocks \in Nat /\ sm4dst \in {0, MaxBlocks} /\ sm4done \in Nat
        /\ sm4done + 1 <= MaxBlocks
    BY SizesAssumption DEF Left, Sm4Types
  <1>1. Sm4!Out(0) \in 0 .. (2 * MaxBlocks) /\ Sm4!Out(0) \in Nat
    BY <1>0 DEF Sm4!Out
  <1>2. \A a \in 0 .. (2 * MaxBlocks) :
           /\ a \in Sm4!Out(0) .. Sm4!Out(1 - 1) <=> a = Sm4!Out(0)
           /\ a = Sm4!Out(0) => <<y>>[a - Sm4!Out(0) + 1] = y
    BY <1>1
  <1>3. sm4mem = [a \in 0 .. (2 * MaxBlocks) |-> sm4mem[a]]
    BY DEF Left, Sm4Mem
  <1> QED
    BY <1>1, <1>2, <1>3 DEF Sm4Stored

-----------------------------------------------------------------------------
(* crypto_xor_cpy of some blocks, and the loop that goes backwards.        *)

\* The blocks with the key stream xs added.
Sm4Sums(xs, n) == [i \in 1 .. n |-> Xor(sm4mem[Sm4!In(i - 1)], xs[i])]

\* One block of crypto_xor_cpy.
CopyStep(m, xs, i) == [m EXCEPT ![Sm4!Out(i - 1)] = Sm4!Xor(m[Sm4!In(i - 1)], xs[i])]

\* What crypto_xor_cpy does: block by block, as if all were loaded first.
LEMMA XorCopyIs ==
  ASSUME NEW n \in Nat, Left(n), NEW xs, Len(xs) = n
  PROVE  Sm4!XorCopy(sm4mem, xs) = Sm4Stored(0, n, Sm4Sums(xs, n))
  <1> DEFINE Rec(f) == f = [i \in 0 .. Len(xs) |->
                 IF i = 0 THEN sm4mem ELSE CopyStep(f[i - 1], xs, i)]
             g == [i \in 0 .. n |-> Sm4Stored(0, i, Sm4Sums(xs, n))]
             mm == CHOOSE f : Rec(f)
  <1>t. sm4done \in Nat /\ MaxBlocks \in Nat
    BY SizesAssumption DEF Left, Sm4Types
  <1>0. \A i \in 1 .. n : g[i] = CopyStep(g[i - 1], xs, i)
    <2> SUFFICES ASSUME NEW i \in 1 .. n PROVE g[i] = CopyStep(g[i - 1], xs, i)
      OBVIOUS
    <2>1. i - 1 \in Nat /\ i - 1 < n /\ (i - 1) + 1 = i /\ i - 1 \in 0 .. n /\ i \in 0 .. n
      OBVIOUS
    <2>l. Left((i - 1) + 1)
      BY <2>1, <1>t DEF Left
    <2>2. Sm4Stored(0, i - 1, Sm4Sums(xs, n))[Sm4!In(i - 1)] = sm4mem[Sm4!In(i - 1)]
      BY <2>1, Sm4StoredLoad
    <2>3. Sm4Sums(xs, n)[i] = Xor(sm4mem[Sm4!In(i - 1)], xs[i])
      BY DEF Sm4Sums
    <2>4. [Sm4Stored(0, i - 1, Sm4Sums(xs, n)) EXCEPT ![Sm4!Out(i - 1)] = Sm4Sums(xs, n)[(i - 1) + 1]]
             = Sm4Stored(0, (i - 1) + 1, Sm4Sums(xs, n))
      BY <2>1, <2>l, Sm4StoredAfter
    <2>5. g[i - 1] = Sm4Stored(0, i - 1, Sm4Sums(xs, n)) /\ g[i] = Sm4Stored(0, i, Sm4Sums(xs, n))
      BY <2>1
    <2>6. \A a, b : Sm4!Xor(a, b) = Xor(a, b)
      BY DEF Sm4!Xor, Xor
    <2> HIDE DEF g
    <2> QED
      BY <2>1, <2>2, <2>3, <2>4, <2>5, <2>6 DEF CopyStep
  <1>1. g[0] = sm4mem
    <2>1. Left(0)
      BY <1>t DEF Left
    <2>2. \A k \in Nat : Left(k) => Sm4Stored(k, k, Sm4Sums(xs, n)) = sm4mem
      BY Sm4StoredNone
    <2> QED
      BY <2>1, <2>2
  <1>2. Upto(g, n)
    BY DEF Upto
  <1>9. g[n] = Sm4Stored(0, n, Sm4Sums(xs, n))
    OBVIOUS
  <1> HIDE DEF g
  <1>n. Len(xs) = n
    OBVIOUS
  <1>3. Rec(g)
    <2>1. \A i \in 0 .. n : g[i] = IF i = 0 THEN sm4mem ELSE CopyStep(g[i - 1], xs, i)
      BY ONLY <1>0, <1>1, n \in Nat
    <2>2. [i \in 0 .. n |-> g[i]]
            = [i \in 0 .. n |-> IF i = 0 THEN sm4mem ELSE CopyStep(g[i - 1], xs, i)]
      BY ONLY <2>1
    <2> QED
      BY ONLY <2>2, <1>n, <1>2, Zenon DEF Upto
  <1>4. \A f : Rec(f) => f = g
    <2> SUFFICES ASSUME NEW f, Rec(f) PROVE f = g
      OBVIOUS
    <2>1. Upto(f, n) /\ f[0] = g[0]
      BY ONLY Rec(f), <1>n, <1>1, n \in Nat DEF Upto
    <2>2. Alike(f, g, n)
      <3> SUFFICES ASSUME NEW i \in 1 .. n, f[i - 1] = g[i - 1] PROVE f[i] = g[i]
        BY DEF Alike
      <3>1. f[i] = CopyStep(f[i - 1], xs, i)
        BY ONLY Rec(f), <1>n, n \in Nat, i \in 1 .. n
      <3> QED
        BY <3>1, <1>0
    <2> QED
      BY ONLY <2>1, <2>2, <1>2, n \in Nat, SameByStep
  <1>5. Sm4!XorCopy(sm4mem, xs) = mm[Len(xs)]
    BY DEF Sm4!XorCopy, CopyStep
  <1>6. mm = g
    <2> HIDE DEF Rec
    <2> QED BY <1>3, <1>4
  <1> HIDE DEF mm
  <1> QED
    BY ONLY <1>5, <1>6, <1>n, <1>9

\* Functions on 1 .. n that end alike and go back alike are the same.
AlikeBack(f, g, n) == \A i \in 1 .. (n - 1) : f[i + 1] = g[i + 1] => f[i] = g[i]

\* A function on the numbers from 1 on.
From1(f, n) == f = [i \in 1 .. n |-> f[i]]

\* SameByStep for a recursion that goes back from n.
LEMMA SameByStepBack ==
  ASSUME NEW n \in Nat, NEW f, NEW g, From1(f, n), From1(g, n),
         f[n] = g[n], AlikeBack(f, g, n)
  PROVE  f = g
  <1> DEFINE Eq(i) == f[i] = g[i]
             Same == {j \in Nat : j < n => Eq(n - j)}
  <1>0. Eq(n)
    OBVIOUS
  <1>s. ASSUME NEW j \in Nat, j < n => Eq(n - j), j + 1 < n PROVE Eq(n - (j + 1))
    <2>1. n - (j + 1) \in 1 .. (n - 1) /\ (n - (j + 1)) + 1 = n - j /\ j < n
      BY ONLY <1>s, n \in Nat
    <2>2. f[n - j] = g[n - j]
      BY ONLY <2>1, <1>s
    <2> QED
      BY ONLY <2>1, <2>2, AlikeBack(f, g, n) DEF AlikeBack
  <1> HIDE DEF Eq
  <1>1. 0 \in Same
    BY ONLY <1>0, n \in Nat
  <1>2. \A j \in Nat : j \in Same => j + 1 \in Same
    BY ONLY <1>s
  <1> HIDE DEF Same
  <1>3. \A j \in Nat : j \in Same
    BY ONLY <1>1, <1>2, NatInSteps
  <1>4. \A i \in 1 .. n : Eq(i)
    <2> SUFFICES ASSUME NEW i \in 1 .. n PROVE Eq(i)
      OBVIOUS
    <2>1. n - i \in Nat /\ n - i < n /\ n - (n - i) = i
      OBVIOUS
    <2>2. Eq(n - (n - i))
      BY ONLY <1>3, <2>1 DEF Same
    <2> QED
      BY ONLY <2>1, <2>2
  <1>5. [i \in 1 .. n |-> f[i]] = [i \in 1 .. n |-> g[i]]
    BY ONLY <1>4 DEF Eq
  <1> QED
    BY ONLY <1>5, From1(f, n), From1(g, n), Zenon DEF From1

\* What block i of a turn of cbc_dec is chained to, from 0.
Sm4Before(i) == IF i = 0 THEN sm4iv ELSE sm4mem[Sm4!In(i - 1)]

\* The sums of ds with the blocks before them.
Sm4ChainedSums(ds, n) == [i \in 1 .. n |-> Xor(Sm4Before(i - 1), ds[i])]

\* One block of the loop that goes back.
BackStep(m, ds, i) == [m EXCEPT ![Sm4!Out(i)] = Sm4!Xor(m[Sm4!In(i - 1)], ds[i + 1])]

\* Going back from the last block, each finds the block before it as it was.
LEMMA BackwardsIs ==
  ASSUME NEW n \in Nat \ {0}, Left(n), NEW ds
  PROVE  Sm4!Backwards(n, ds) = Sm4Stored(1, n, Sm4ChainedSums(ds, n))
  <1> DEFINE ys == Sm4ChainedSums(ds, n)
             Rec(f) == f = [i \in 1 .. n |->
                 IF i = n THEN sm4mem ELSE BackStep(f[i + 1], ds, i)]
             g == [i \in 1 .. n |-> Sm4Stored(i, n, ys)]
             mm == CHOOSE f : Rec(f)
  <1>0. \A i \in 1 .. (n - 1) : g[i] = BackStep(g[i + 1], ds, i)
    <2> SUFFICES ASSUME NEW i \in 1 .. (n - 1) PROVE g[i] = BackStep(g[i + 1], ds, i)
      OBVIOUS
    <2>1. /\ i \in Nat /\ i < n /\ i - 1 \in Nat /\ i - 1 < n /\ i - 1 < i + 1 /\ i + 1 \in Nat /\ n <= n
          /\ i + 1 \in 1 .. n /\ i \in 1 .. n /\ i # 0 /\ (i + 1) - 1 = i
      OBVIOUS
    <2>2. Sm4Stored(i + 1, n, ys)[Sm4!In(i - 1)] = sm4mem[Sm4!In(i - 1)]
      BY <2>1, Sm4StoredLoad
    <2>3. ys[i + 1] = Xor(sm4mem[Sm4!In(i - 1)], ds[i + 1])
      BY <2>1 DEF Sm4ChainedSums, Sm4Before
    <2>4. [Sm4Stored(i + 1, n, ys) EXCEPT ![Sm4!Out(i)] = ys[i + 1]] = Sm4Stored(i, n, ys)
      BY <2>1, Sm4StoredBefore
    <2>5. g[i + 1] = Sm4Stored(i + 1, n, ys) /\ g[i] = Sm4Stored(i, n, ys)
      BY <2>1
    <2>6. \A a, b : Sm4!Xor(a, b) = Xor(a, b)
      BY DEF Sm4!Xor, Xor
    <2> HIDE DEF g, ys
    <2> QED
      BY <2>1, <2>2, <2>3, <2>4, <2>5, <2>6 DEF BackStep
  <1>1. g[n] = sm4mem
    BY Sm4StoredNone
  <1>2. From1(g, n)
    BY DEF From1
  <1>9. g[1] = Sm4Stored(1, n, ys)
    OBVIOUS
  <1> HIDE DEF g, ys
  <1>3. Rec(g)
    <2>1. \A i \in 1 .. n : g[i] = IF i = n THEN sm4mem ELSE BackStep(g[i + 1], ds, i)
      BY ONLY <1>0, <1>1, n \in Nat
    <2>2. [i \in 1 .. n |-> g[i]]
            = [i \in 1 .. n |-> IF i = n THEN sm4mem ELSE BackStep(g[i + 1], ds, i)]
      BY ONLY <2>1
    <2> QED
      BY ONLY <2>2, <1>2, Zenon DEF From1
  <1>4. \A f : Rec(f) => f = g
    <2> SUFFICES ASSUME NEW f, Rec(f) PROVE f = g
      OBVIOUS
    <2>1. From1(f, n) /\ f[n] = g[n]
      BY ONLY Rec(f), <1>1, n \in Nat \ {0} DEF From1
    <2>2. AlikeBack(f, g, n)
      <3> SUFFICES ASSUME NEW i \in 1 .. (n - 1), f[i + 1] = g[i + 1] PROVE f[i] = g[i]
        BY DEF AlikeBack
      <3>1. f[i] = BackStep(f[i + 1], ds, i)
        BY ONLY Rec(f), n \in Nat, i \in 1 .. (n - 1)
      <3> QED
        BY <3>1, <1>0
    <2> QED
      BY ONLY <2>1, <2>2, <1>2, n \in Nat, SameByStepBack
  <1>5. Sm4!Backwards(n, ds) = mm[1]
    BY DEF Sm4!Backwards, BackStep
  <1>6. mm = g
    <2> HIDE DEF Rec
    <2> QED BY <1>3, <1>4
  <1> HIDE DEF mm
  <1> QED
    BY ONLY <1>5, <1>6, <1>9 DEF ys

-----------------------------------------------------------------------------
(* What every turn of Sm4Modes stores.                                     *)

\* A turn takes n blocks and puts out ys.
Sm4Took(n, ys) ==
  /\ n \in Nat \ {0} /\ n <= Sm4!WholeBlocks
  /\ sm4pc = "loop"
  /\ nbytes' = nbytes - n * Sm4Block /\ sm4done' = sm4done + n
  /\ UNCHANGED <<sm4mode, sm4ctx, sm4dst, sm4pc, tail>>
  /\ sm4mem' = Sm4Stored(0, n, ys)

\* The whole blocks of a call are blocks of the message that are left.
LEMMA WholeLeft ==
  ASSUME Sm4Types, Sm4Mem, NEW n \in Nat, n <= Sm4!WholeBlocks, sm4pc = "loop"
  PROVE  Left(n)
  BY WholeFit DEF Left

\* There are zero or more of them,
LEMMA WholeIsNat == Sm4Types => Sm4!WholeBlocks \in Nat
  BY Sm4Assumption DEF Sm4Types, Sm4!WholeBlocks

\* and a loop takes some of them.
LEMMA AtMostIs ==
  ASSUME Sm4Types, NEW n \in Nat
  PROVE  /\ Sm4!AtMost(n) \in Nat /\ Sm4!AtMost(n) <= Sm4!WholeBlocks
         /\ Sm4!AtMost(n) <= n
         /\ Sm4!WholeBlocks <= n => Sm4!AtMost(n) = Sm4!WholeBlocks
  BY WholeIsNat DEF Sm4!AtMost

\* What makes a turn one that takes n blocks.
LEMMA Sm4TookSome ==
  ASSUME Sm4Types, Sm4Mem, NEW n \in Nat \ {0}, n <= Sm4!WholeBlocks,
         Sm4!Advance(n), NEW ys, sm4mem' = Sm4Stored(0, n, ys)
  PROVE  Sm4Took(n, ys)
  BY DEF Sm4Took, Sm4!Advance

\* What each of the turns takes and stores: ecb_enc and ecb_dec,
LEMMA Sm4EcbTook ==
  ASSUME Sm4Types, Sm4Mem, NEW name, NEW rk, Sm4!Ecb(name, rk)
  PROVE  \E n : Sm4Took(n, Sm4!CryptBlocks(rk, Sm4!Blocks(n)))
  <1> DEFINE n == IF Sm4!WholeBlocks >= 8 THEN 8 ELSE Sm4!AtMost(4)
             ys == Sm4!CryptBlocks(rk, Sm4!Blocks(n))
  <1>1. /\ n > 0 /\ sm4mem' = Sm4!StoreAll(sm4mem, ys) /\ Sm4!Advance(n)
    BY DEF Sm4!Ecb
  <1>2. n \in Nat \ {0} /\ n <= Sm4!WholeBlocks
    BY <1>1, AtMostIs, WholeIsNat
  <1>3. DOMAIN ys = 1 .. n
    BY DEF Sm4!CryptBlocks, Sm4!Blocks
  <1> HIDE DEF n, ys
  <1>4. Left(n)
    BY <1>1, <1>2, WholeLeft DEF Sm4!Advance
  <1>5. sm4mem' = Sm4Stored(0, n, ys)
    BY <1>1, <1>2, <1>3, <1>4, Sm4StoreAllIs
  <1>6. Sm4Took(n, ys)
    BY <1>1, <1>2, <1>5, Sm4TookSome
  <1> QED
    BY <1>6 DEF ys

\* cbc_enc,
LEMMA Sm4CbcEncTook ==
  ASSUME Sm4Types, Sm4Mem, Sm4!CbcEnc
  PROVE  Sm4Took(1, <<Sm4!Crypt(sm4ctx.rkey_enc, Sm4!Xor(sm4mem[Sm4!In(0)], Sm4!WalkIv))>>)
  <1>1. Sm4!WholeBlocks > 0 /\ Sm4!Advance(1) /\ sm4pc = "loop"
    BY DEF Sm4!CbcEnc, Sm4!Advance
  <1>2. 1 <= Sm4!WholeBlocks /\ 1 \in Nat \ {0}
    BY <1>1, WholeIsNat
  <1>3. Left(1)
    BY <1>1, <1>2, WholeLeft
  <1> QED
    BY <1>1, <1>2, <1>3, Sm4StoreOneIs, Sm4TookSome DEF Sm4!CbcEnc

\* The block that the key stream is made of, for one block.
LEMMA Sm4StreamTook ==
  ASSUME Sm4Types, Sm4Mem, Sm4!WholeBlocks > 0, Sm4!Advance(1), NEW k,
         sm4mem' = Sm4!XorCopy(sm4mem, <<k>>)
  PROVE  Sm4Took(1, Sm4Sums(<<k>>, 1))
  <1>1. 1 <= Sm4!WholeBlocks /\ 1 \in Nat \ {0} /\ sm4pc = "loop" /\ Len(<<k>>) = 1
    BY WholeIsNat DEF Sm4!Advance
  <1>2. Left(1)
    BY <1>1, WholeLeft
  <1>3. \A n \in Nat : \A xs : Left(n) /\ Len(xs) = n
          => Sm4!XorCopy(sm4mem, xs) = Sm4Stored(0, n, Sm4Sums(xs, n))
    BY XorCopyIs
  <1> DEFINE xs == <<k>>
  <1>4. Len(xs) = 1 /\ sm4mem' = Sm4!XorCopy(sm4mem, xs)
    OBVIOUS
  <1> HIDE DEF xs
  <1>5. sm4mem' = Sm4Stored(0, 1, Sm4Sums(xs, 1))
    BY <1>2, <1>3, <1>4
  <1> QED
    BY <1>1, <1>5, Sm4TookSome DEF xs

\* cfb_enc,
LEMMA Sm4CfbEncTook ==
  ASSUME Sm4Types, Sm4Mem, Sm4!CfbEnc
  PROVE  Sm4Took(1, Sm4Sums(<<Sm4!Crypt(sm4ctx.rkey_enc, Sm4!WalkIv)>>, 1))
  <1> DEFINE k == Sm4!Crypt(sm4ctx.rkey_enc, Sm4!WalkIv)
  <1>1. Sm4!WholeBlocks > 0 /\ Sm4!Advance(1) /\ sm4mem' = Sm4!XorCopy(sm4mem, <<k>>)
    BY DEF Sm4!CfbEnc
  <1> HIDE DEF k
  <1>2. Sm4Took(1, Sm4Sums(<<k>>, 1))
    BY <1>1, Sm4StreamTook
  <1> QED
    BY <1>2 DEF k

\* ofb,
LEMMA Sm4OfbTook ==
  ASSUME Sm4Types, Sm4Mem, NEW name, Sm4!Ofb(name)
  PROVE  Sm4Took(1, Sm4Sums(<<Sm4!Crypt(sm4ctx.rkey_enc, Sm4!WalkIv)>>, 1))
  <1> DEFINE k == Sm4!Crypt(sm4ctx.rkey_enc, Sm4!WalkIv)
  <1>1. Sm4!WholeBlocks > 0 /\ Sm4!Advance(1) /\ sm4mem' = Sm4!XorCopy(sm4mem, <<k>>)
    BY DEF Sm4!Ofb
  <1> HIDE DEF k
  <1>2. Sm4Took(1, Sm4Sums(<<k>>, 1))
    BY <1>1, Sm4StreamTook
  <1> QED
    BY <1>2 DEF k

\* cbc_dec with eight blocks,
LEMMA Sm4CbcDec8Took ==
  ASSUME Sm4Types, Sm4Mem, Sm4!CbcDec8
  PROVE  Sm4Took(8, [i \in 1 .. 8 |->
           Sm4!Xor(Sm4!CryptBlocks(sm4ctx.rkey_dec, Sm4!Blocks(8))[i], (<<sm4iv>> \o Sm4!Blocks(7))[i])])
  <1> DEFINE ys == [i \in 1 .. 8 |->
           Sm4!Xor(Sm4!CryptBlocks(sm4ctx.rkey_dec, Sm4!Blocks(8))[i], (<<sm4iv>> \o Sm4!Blocks(7))[i])]
  <1>1. Sm4!Advance(8) /\ 8 <= Sm4!WholeBlocks /\ sm4mem' = Sm4!StoreAll(sm4mem, ys)
    BY WholeIsNat DEF Sm4!CbcDec8
  <1>2. DOMAIN ys = 1 .. 8
    OBVIOUS
  <1> HIDE DEF ys
  <1>3. Left(8)
    BY <1>1, WholeLeft DEF Sm4!Advance
  <1>4. \A n \in Nat : Left(n) /\ DOMAIN ys = 1 .. n => Sm4!StoreAll(sm4mem, ys) = Sm4Stored(0, n, ys)
    BY Sm4StoreAllIs
  <1>5. sm4mem' = Sm4Stored(0, 8, ys)
    BY <1>1, <1>2, <1>3, <1>4
  <1>6. Sm4Took(8, ys)
    BY <1>1, <1>5, Sm4TookSome
  <1> QED
    BY <1>6 DEF ys

\* cfb_dec with eight blocks,
LEMMA Sm4CfbDec8Took ==
  ASSUME Sm4Types, Sm4Mem, Sm4!CfbDec8
  PROVE  Sm4Took(8, [i \in 1 .. 8 |->
           Sm4!Xor(Sm4!CryptBlocks(sm4ctx.rkey_enc, <<sm4iv>> \o Sm4!Blocks(7))[i], sm4mem[Sm4!In(i - 1)])])
  <1> DEFINE ys == [i \in 1 .. 8 |->
           Sm4!Xor(Sm4!CryptBlocks(sm4ctx.rkey_enc, <<sm4iv>> \o Sm4!Blocks(7))[i], sm4mem[Sm4!In(i - 1)])]
  <1>1. Sm4!Advance(8) /\ 8 <= Sm4!WholeBlocks /\ sm4mem' = Sm4!StoreAll(sm4mem, ys)
    BY WholeIsNat DEF Sm4!CfbDec8
  <1>2. DOMAIN ys = 1 .. 8
    OBVIOUS
  <1> HIDE DEF ys
  <1>3. Left(8)
    BY <1>1, WholeLeft DEF Sm4!Advance
  <1>4. \A n \in Nat : Left(n) /\ DOMAIN ys = 1 .. n => Sm4!StoreAll(sm4mem, ys) = Sm4Stored(0, n, ys)
    BY Sm4StoreAllIs
  <1>5. sm4mem' = Sm4Stored(0, 8, ys)
    BY <1>1, <1>2, <1>3, <1>4
  <1>6. Sm4Took(8, ys)
    BY <1>1, <1>5, Sm4TookSome
  <1> QED
    BY <1>6 DEF ys

\* The number of blocks that the loops after those of eight blocks take.
Rest == Sm4!AtMost(8)

\* The loops for the rest take at least one block.
LEMMA RestIs ==
  ASSUME Sm4Types, Sm4!WholeBlocks \in 1 .. 7
  PROVE  Rest \in Nat \ {0} /\ Rest <= Sm4!WholeBlocks
  BY AtMostIs DEF Rest

\* The rest of cbc_dec.
LEMMA Sm4CbcDecRestTook ==
  ASSUME Sm4Types, Sm4Mem, Sm4!CbcDecRest
  PROVE  Sm4Took(Rest, Sm4ChainedSums(Sm4!CryptBlocks(sm4ctx.rkey_dec, Sm4!Blocks(Rest)), Rest))
  <1> DEFINE n == Rest
             ds == Sm4!CryptBlocks(sm4ctx.rkey_dec, Sm4!Blocks(n))
             ys == Sm4ChainedSums(ds, n)
  <1>1. /\ Sm4!Advance(n) /\ Sm4!WholeBlocks \in 1 .. 7
        /\ sm4mem' = [Sm4!Backwards(n, ds) EXCEPT ![Sm4!Out(0)] = Sm4!Xor(sm4iv, ds[1])]
    BY DEF Sm4!CbcDecRest, Rest
  <1>2. n \in Nat \ {0} /\ n <= Sm4!WholeBlocks
    BY <1>1, RestIs
  <1> HIDE DEF n, ds
  <1>3. Left(n)
    BY <1>1, <1>2, WholeLeft DEF Sm4!Advance
  <1>4. Sm4!Backwards(n, ds) = Sm4Stored(1, n, ys)
    BY <1>2, <1>3, BackwardsIs
  <1>5. ys[1] = Sm4!Xor(sm4iv, ds[1])
    BY <1>2 DEF Sm4ChainedSums, Sm4Before, Sm4!Xor, Xor
  <1> HIDE DEF ys
  <1>6. \A i \in Nat : i < n =>
          [Sm4Stored(i + 1, n, ys) EXCEPT ![Sm4!Out(i)] = ys[i + 1]] = Sm4Stored(i, n, ys)
    BY <1>2, <1>3, Sm4StoredBefore
  <1>7. [Sm4Stored(0 + 1, n, ys) EXCEPT ![Sm4!Out(0)] = ys[0 + 1]] = Sm4Stored(0, n, ys)
    BY ONLY <1>2, <1>6
  <1>8. sm4mem' = Sm4Stored(0, n, ys)
    BY <1>1, <1>4, <1>5, <1>7
  <1>9. Sm4Took(n, ys)
    BY <1>1, <1>2, <1>8, Sm4TookSome
  <1> QED
    BY <1>9 DEF n, ds, ys

\* The IV and the blocks but the last one are as many as the blocks.
LEMMA CryptedLen ==
  ASSUME NEW rk, NEW n \in Nat \ {0}, NEW x
  PROVE  /\ Len(<<x>> \o Sm4!Blocks(n - 1)) = n
         /\ Len(Sm4!CryptBlocks(rk, <<x>> \o Sm4!Blocks(n - 1))) = n
         /\ \A i \in 1 .. n : (<<x>> \o Sm4!Blocks(n - 1))[i] = IF i = 1 THEN x ELSE sm4mem[Sm4!In(i - 2)]
         /\ DOMAIN (<<x>> \o Sm4!Blocks(n - 1)) = 1 .. n
  <1> DEFINE S == {x} \cup {sm4mem[Sm4!In(i - 1)] : i \in 1 .. (n - 1)}
             bs == Sm4!Blocks(n - 1)
  <1>0. bs \in [1 .. (n - 1) -> S] /\ n - 1 \in Nat /\ x \in S
    BY DEF Sm4!Blocks
  <1>1. bs \in Seq(S) /\ Len(bs) = n - 1 /\ <<x>> \in Seq(S)
    <2> HIDE DEF S, bs
    <2> QED
      BY <1>0, FunctionIsSeq
  <1>2. \A i \in 1 .. (n - 1) : bs[i] = sm4mem[Sm4!In(i - 1)]
    BY DEF Sm4!Blocks
  <1> HIDE DEF S, bs
  <1>3. <<x>> \o bs \in Seq(S) /\ Len(<<x>> \o bs) = n
    BY <1>1, ConcatProperties
  <1>4. \A i \in 1 .. n : (<<x>> \o bs)[i] = IF i = 1 THEN x ELSE bs[i - 1]
    BY <1>1, ConcatProperties
  <1>5. \A i \in 1 .. n : i # 1 => i - 1 \in 1 .. (n - 1) /\ (i - 1) - 1 = i - 2
    OBVIOUS
  <1>6. DOMAIN (<<x>> \o bs) = 1 .. n
    BY <1>3
  <1>7. Len(Sm4!CryptBlocks(rk, <<x>> \o bs)) = n
    BY <1>6 DEF Sm4!CryptBlocks
  <1> QED
    BY <1>2, <1>3, <1>4, <1>5, <1>6, <1>7 DEF bs

\* The rest of cfb_dec.
LEMMA Sm4CfbDecRestTook ==
  ASSUME Sm4Types, Sm4Mem, Sm4!CfbDecRest
  PROVE  Sm4Took(Rest, Sm4Sums(Sm4!CryptBlocks(sm4ctx.rkey_enc, <<sm4iv>> \o Sm4!Blocks(Rest - 1)), Rest))
  <1> DEFINE n == Rest
             xs == Sm4!CryptBlocks(sm4ctx.rkey_enc, <<sm4iv>> \o Sm4!Blocks(n - 1))
  <1>1. /\ Sm4!Advance(n) /\ Sm4!WholeBlocks \in 1 .. 7
        /\ sm4mem' = Sm4!XorCopy(sm4mem, xs)
    BY DEF Sm4!CfbDecRest, Rest
  <1>2. n \in Nat \ {0} /\ n <= Sm4!WholeBlocks
    BY <1>1, RestIs
  <1> HIDE DEF n
  <1>5. Len(xs) = n
    BY <1>2, CryptedLen
  <1> HIDE DEF xs
  <1>3. Left(n)
    BY <1>1, <1>2, WholeLeft DEF Sm4!Advance
  <1>4. Sm4!XorCopy(sm4mem, xs) = Sm4Stored(0, n, Sm4Sums(xs, n))
    BY <1>2, <1>3, <1>5, XorCopyIs
  <1>6. Sm4Took(n, Sm4Sums(xs, n))
    BY <1>1, <1>2, <1>4, Sm4TookSome
  <1> QED
    BY <1>6 DEF n, xs

\* Every turn but the last one of a call takes whole blocks.
LEMMA Sm4TurnTook ==
  ASSUME Sm4Types, Sm4Mem, Sm4!Turn, ~ Sm4!EndOfBlocks
  PROVE  \E n, ys : Sm4Took(n, ys)
  <1>1. CASE Sm4!EcbEnc BY <1>1, Sm4EcbTook DEF Sm4!EcbEnc
  <1>2. CASE Sm4!EcbDec BY <1>2, Sm4EcbTook DEF Sm4!EcbDec
  <1>3. CASE Sm4!CbcEnc BY <1>3, Sm4CbcEncTook
  <1>4. CASE Sm4!CbcDec8 BY <1>4, Sm4CbcDec8Took
  <1>5. CASE Sm4!CbcDecRest BY <1>5, Sm4CbcDecRestTook
  <1>6. CASE Sm4!CfbEnc BY <1>6, Sm4CfbEncTook
  <1>7. CASE Sm4!CfbDec8 BY <1>7, Sm4CfbDec8Took
  <1>8. CASE Sm4!CfbDecRest BY <1>8, Sm4CfbDecRestTook
  <1>9. CASE Sm4!OfbEnc BY <1>9, Sm4OfbTook DEF Sm4!OfbEnc
  <1>10. CASE Sm4!OfbDec BY <1>10, Sm4OfbTook DEF Sm4!OfbDec
  <1> QED
    BY <1>1, <1>2, <1>3, <1>4, <1>5, <1>6, <1>7, <1>8, <1>9, <1>10 DEF Sm4!Turn

-----------------------------------------------------------------------------
(* Nothing but the output is written, and a part of a block is exact.      *)

\* A turn that takes blocks keeps the buffers as Sm4Mem has them.
LEMMA Sm4TookKeeps ==
  ASSUME Sm4Types, Sm4Mem, NEW n, NEW ys, Sm4Took(n, ys)
  PROVE  Sm4Types' /\ Sm4Mem' /\ tail' = 0
  <1>0. MaxBlocks \in Nat /\ Sm4Block \in Nat \ {0}
    BY SizesAssumption, Sm4Assumption
  <1>1. /\ n \in Nat /\ 1 <= n /\ n <= Sm4!WholeBlocks /\ sm4pc = "loop"
        /\ nbytes' = nbytes - n * Sm4Block /\ sm4done' = sm4done + n
        /\ sm4mode' = sm4mode /\ sm4dst' = sm4dst /\ sm4pc' = sm4pc /\ tail' = tail
    BY DEF Sm4Took
  <1>2. /\ nbytes - n * Sm4Block \in Nat /\ sm4done + n <= MaxBlocks
        /\ (sm4done + n) * Sm4Block + (nbytes - n * Sm4Block) = sm4done * Sm4Block + nbytes
    BY <1>1, WholeFit
  <1>3. tail = 0 /\ tail' = 0
    BY <1>1 DEF Sm4Types
  <1>4. Sm4Types'
    BY <1>1, <1>2, <1>3 DEF Sm4Types
  <1>5. sm4mem' = Sm4Stored(0, n, ys)
    BY DEF Sm4Took
  <1>6. sm4mem' = [a \in 0 .. (2 * MaxBlocks) |-> sm4mem'[a]]
    BY <1>5 DEF Sm4Stored
  <1>7. ASSUME NEW a \in 0 .. (2 * MaxBlocks), ~ (a \in sm4dst .. (sm4dst + (sm4done + n) - 1))
        PROVE  sm4mem'[a] = (IF a < MaxBlocks THEN Sm4!Input(a + 1) ELSE Sm4!Atom("old", a))
    <2>1. ~ (a \in Sm4!Out(0) .. Sm4!Out(n - 1)) /\ ~ (a \in sm4dst .. (sm4dst + sm4done - 1))
      BY <1>0, <1>1, <1>7 DEF Sm4!Out, Sm4Types
    <2>2. sm4mem'[a] = sm4mem[a]
      BY <2>1, <1>5 DEF Sm4Stored
    <2> QED
      BY <2>1, <2>2, <1>3 DEF Sm4Mem, Ended
  <1>8. Sm4Mem'
    BY <1>1, <1>6, <1>7 DEF Sm4Mem
  <1> QED
    BY <1>3, <1>4, <1>8

\* The invariant of Sm4Modes.
Sm4IInv == Sm4Types /\ Sm4Mem /\ Sm4!TailExact

\* It holds at the start,
LEMMA Sm4Start == Sm4!Init => Sm4IInv
  BY SizesAssumption, Sm4Assumption DEF Sm4!Init, Sm4IInv, Sm4Types, Sm4Mem, Sm4!TailExact

\* The loops are over.
LEMMA EndOfBlocksStep == Sm4IInv /\ Sm4!EndOfBlocks => Sm4IInv'
  <1> SUFFICES ASSUME Sm4IInv, Sm4!EndOfBlocks PROVE Sm4IInv'
    OBVIOUS
  <1>0. MaxBlocks \in Nat /\ Sm4Block \in Nat \ {0}
    BY SizesAssumption, Sm4Assumption
  <1>1. /\ sm4mode' = sm4mode /\ sm4ctx' = sm4ctx /\ sm4dst' = sm4dst /\ sm4done' = sm4done
        /\ sm4pc = "loop" /\ sm4iv' = Sm4!WalkIv /\ tail = 0
    BY DEF Sm4!EndOfBlocks, Sm4IInv, Sm4Types
  <1>2. CASE sm4mode \in Sm4!Streams /\ nbytes > 0
    <2>1. /\ keystream' = Sm4!TailKeystream /\ tail' = nbytes /\ nbytes' = 0 /\ sm4pc' = "idle"
          /\ sm4mem' = [sm4mem EXCEPT ![Sm4!Out(0)] =
               Sm4!Part(nbytes, Sm4!Xor(sm4mem[Sm4!In(0)], Sm4!TailKeystream), sm4mem[Sm4!Out(0)])]
      BY <1>2 DEF Sm4!EndOfBlocks
    <2>2. sm4done < MaxBlocks
      <3>1. sm4done * Sm4Block + nbytes <= MaxBlocks * Sm4Block /\ nbytes \in Nat /\ sm4done \in Nat
        BY <1>1 DEF Sm4IInv, Sm4Types
      <3>2. sm4done * Sm4Block < MaxBlocks * Sm4Block
        BY <1>0, <1>2, <3>1
      <3> SUFFICES ASSUME MaxBlocks <= sm4done PROVE FALSE
        BY <1>0, <3>1
      <3>3. MaxBlocks * Sm4Block <= sm4done * Sm4Block
        BY <1>0, <3>1
      <3> QED
        BY <1>0, <3>1, <3>2, <3>3
    <2>3. Sm4Types'
      BY <1>0, <1>1, <1>2, <2>1, <2>2 DEF Sm4IInv, Sm4Types
    <2>4. Left(0 + 1)
      BY <1>1, <2>2, <1>0 DEF Left, Sm4IInv, Sm4Types
    <2>5. sm4mem[Sm4!In(0)] = Sm4!Input(sm4done + 1)
      BY <2>4, Sm4Unread DEF Sm4IInv, Sm4Types
    <2>6. /\ Sm4!Out(0) = sm4dst + sm4done /\ Sm4!Out(0) \in 0 .. (2 * MaxBlocks)
          /\ ~ (Sm4!Out(0) \in sm4dst .. (sm4dst + sm4done - 1))
          /\ Sm4!Out(0) < MaxBlocks <=> sm4dst = 0
          /\ sm4dst = 0 => Sm4!Out(0) = sm4done
      BY <1>0, <2>2 DEF Sm4!Out, Sm4IInv, Sm4Types
    <2>7. sm4mem[Sm4!Out(0)]
            = IF sm4dst = 0 THEN Sm4!Input(sm4done + 1) ELSE Sm4!Atom("old", sm4dst + sm4done)
      BY <2>6, <1>1 DEF Sm4IInv, Sm4Mem, Ended
    <2>8. /\ sm4mem' = [a \in 0 .. (2 * MaxBlocks) |-> sm4mem'[a]]
          /\ \A a \in 0 .. (2 * MaxBlocks) : a # Sm4!Out(0) => sm4mem'[a] = sm4mem[a]
          /\ sm4mem'[Sm4!Out(0)] =
               Sm4!Part(nbytes, Sm4!Xor(sm4mem[Sm4!In(0)], Sm4!TailKeystream), sm4mem[Sm4!Out(0)])
      BY <2>1, <2>6 DEF Sm4IInv, Sm4Mem
    <2>9. Sm4Mem'
      BY <1>1, <1>2, <2>1, <2>6, <2>8 DEF Sm4IInv, Sm4Mem, Ended
    <2>10. Sm4!TailExact'
      <3>1. (Sm4!Abstract!Apply(Sm4!AbstractMode, sm4ctx.rkey_enc, Sm4!WalkIv,
               Sm4!Input(sm4done + 1)).out)
              = Sm4!Xor(Sm4!Input(sm4done + 1), Sm4!TailKeystream)
        BY <1>2 DEF Sm4!Abstract!Apply, Sm4!AbstractMode, Sm4!Streams, Sm4!TailKeystream,
                    Sm4!Encrypted, Sm4!Xor, Sm4!Abstract!Xor
      <3>2. Sm4!AbstractMode' = Sm4!AbstractMode
        BY <1>1 DEF Sm4!AbstractMode
      <3> QED
        BY <1>1, <2>1, <2>5, <2>6, <2>7, <2>8, <3>1, <3>2 DEF Sm4!TailExact
    <2> QED
      BY <2>3, <2>9, <2>10 DEF Sm4IInv
  <1>3. CASE ~ (sm4mode \in Sm4!Streams /\ nbytes > 0)
    <2>1. /\ UNCHANGED <<keystream, sm4mem, tail, nbytes>>
          /\ sm4pc' = IF nbytes > 0 THEN "loop" ELSE "idle"
      BY <1>3 DEF Sm4!EndOfBlocks
    <2> QED
      BY <1>1, <2>1 DEF Sm4IInv, Sm4Types, Sm4Mem, Ended, Sm4!TailExact
  <1> QED
    BY <1>2, <1>3

\* Every step keeps the invariant.
LEMMA Sm4Next == Sm4IInv /\ [Sm4!Next]_Sm4!vars => Sm4IInv'
  <1> SUFFICES ASSUME Sm4IInv, [Sm4!Next]_Sm4!vars PROVE Sm4IInv'
    OBVIOUS
  <1>0. MaxBlocks \in Nat /\ Sm4Block \in Nat \ {0}
    BY SizesAssumption, Sm4Assumption
  <1>1. CASE Sm4!EndOfBlocks
    BY <1>1, EndOfBlocksStep
  <1>2. CASE Sm4!Turn /\ ~ Sm4!EndOfBlocks
    <2>1. Sm4Types' /\ Sm4Mem' /\ tail' = 0
      BY <1>2, Sm4TurnTook, Sm4TookKeeps DEF Sm4IInv
    <2> QED
      BY <2>1 DEF Sm4IInv, Sm4!TailExact
  <1>3. ASSUME NEW n \in Sm4Calls, Sm4!Call(n) PROVE Sm4IInv'
    <2>1. n \in Nat
      BY Sm4Assumption
    <2>2. tail = 0 /\ tail' = 0 /\ sm4done' = sm4done /\ nbytes' = n /\ sm4pc' = "loop"
          /\ sm4done * Sm4Block + n <= MaxBlocks * Sm4Block
          /\ UNCHANGED <<sm4mode, sm4dst, sm4mem>>
      BY <1>3 DEF Sm4!Call
    <2> QED
      BY <2>1, <2>2 DEF Sm4IInv, Sm4Types, Sm4Mem, Ended, Sm4!TailExact
  <1>4. CASE Sm4!SetKey
    BY <1>4 DEF Sm4!SetKey, Sm4IInv, Sm4Types, Sm4Mem, Ended, Sm4!TailExact
  <1>5. CASE UNCHANGED Sm4!vars
    <2>1. UNCHANGED <<sm4mode, sm4ctx, sm4dst, sm4mem, sm4iv, sm4pc, nbytes, sm4done, tail>>
      BY <1>5 DEF Sm4!vars
    <2>2. Sm4Types' /\ Sm4Mem'
      BY <2>1 DEF Sm4IInv, Sm4Types, Sm4Mem, Ended
    <2>3. Sm4!AbstractMode' = Sm4!AbstractMode
      BY <2>1 DEF Sm4!AbstractMode
    <2> QED
      BY <2>1, <2>2, <2>3 DEF Sm4IInv, Sm4!TailExact
  <1> QED
    BY <1>1, <1>2, <1>3, <1>4, <1>5 DEF Sm4!Next

-----------------------------------------------------------------------------
(* The run.                                                                *)

\* The invariant of both.
OutputIInv == BulkTypes /\ BulkMem /\ Sm4IInv

\* Whatever the length of the message, of the calls and of the blocks:
\* outside what a call puts out, the buffers of the AES bulk functions and of
\* the modes of sm4_core.c are as they were, in place or not, while every
\* loop of these functions writes its blocks.
THEOREM OutputInvariance == CiphersSpec => []OutputIInv
  <1>1. CiphersInit => OutputIInv
    BY BulkStart, Sm4Start DEF CiphersInit, OutputIInv
  <1>2. OutputIInv /\ [CiphersNext]_<<which, vars, contextVars, sm4Vars, sm3Vars>> => OutputIInv'
    <2> SUFFICES ASSUME OutputIInv, [CiphersNext]_<<which, vars, contextVars, sm4Vars, sm3Vars>>
                 PROVE  OutputIInv'
      OBVIOUS
    <2>1. [Next]_vars
      BY DEF CiphersNext
    <2>2. [Sm4!Next]_Sm4!vars
      <3>1. CASE Sm4!Next
        BY <3>1
      <3>2. CASE UNCHANGED sm4Vars
        BY <3>2 DEF sm4Vars, Sm4!vars
      <3> QED
        BY <3>1, <3>2 DEF CiphersNext
    <2> QED
      BY <2>1, <2>2, BulkNext, Sm4Next DEF OutputIInv
  <1> QED
    BY <1>1, <1>2, PTL DEF CiphersSpec

\* So nothing after the output of a call of the AES bulk functions is
\* written, and the bytes that an SM4 call has after its last whole block come
\* out as the beginning of the block that the mode would put out.
THEOREM OutputExactHolds == CiphersSpec => []OutputExact
  <1>1. OutputIInv => OutputExact
    BY DEF OutputIInv, OutputExact, BulkMem, Sm4IInv
  <1> QED
    BY <1>1, OutputInvariance, PTL

-----------------------------------------------------------------------------
(* What the modes of operation say, for SM4.                               *)

\* The round keys of the message's key.
Sm4Key == [r \in 0 .. (Sm4Rounds - 1) |-> Sm4!RoundKey(r)]

\* The modules' Xor is the same.
LEMMA SameXor ==
  \A a, b : Sm4!Xor(a, b) = Xor(a, b) /\ Sm4!Abstract!Xor(a, b) = Xor(a, b)
            /\ Abstract!Xor(a, b) = Xor(a, b)
  BY DEF Sm4!Xor, Sm4!Abstract!Xor, Abstract!Xor, Xor

\* The results of Apply for the modes that sm4_core.c has.
LEMMA Sm4ApplyIs ==
  ASSUME NEW k, NEW c, NEW x
  PROVE  /\ Sm4!Abstract!Apply("ecb_enc", k, c, x) = [out |-> Sm4!Crypt(k, x), chain |-> c]
         /\ Sm4!Abstract!Apply("ecb_dec", k, c, x) = [out |-> Sm4!Crypt(Sm4!Reversed(k), x), chain |-> c]
         /\ Sm4!Abstract!Apply("cbc_enc", k, c, x)
              = [out |-> Sm4!Crypt(k, Xor(c, x)), chain |-> Sm4!Crypt(k, Xor(c, x))]
         /\ Sm4!Abstract!Apply("cbc_dec", k, c, x)
              = [out |-> Xor(Sm4!Crypt(Sm4!Reversed(k), x), c), chain |-> x]
         /\ Sm4!Abstract!Apply("cfb_enc", k, c, x)
              = [out |-> Xor(Sm4!Crypt(k, c), x), chain |-> Xor(Sm4!Crypt(k, c), x)]
         /\ Sm4!Abstract!Apply("cfb_dec", k, c, x) = [out |-> Xor(Sm4!Crypt(k, c), x), chain |-> x]
         /\ Sm4!Abstract!Apply("ofb", k, c, x) = [out |-> Xor(Sm4!Crypt(k, c), x), chain |-> Sm4!Crypt(k, c)]
  <1>1. \A a, b : Sm4!Abstract!Xor(a, b) = Xor(a, b)
    BY SameXor
  <1>2. Sm4!Abstract!Apply("ecb_enc", k, c, x) = [out |-> Sm4!Crypt(k, x), chain |-> c]
    BY DEF Sm4!Abstract!Apply, Sm4!Encrypted
  <1>3. Sm4!Abstract!Apply("ecb_dec", k, c, x) = [out |-> Sm4!Crypt(Sm4!Reversed(k), x), chain |-> c]
    BY DEF Sm4!Abstract!Apply, Sm4!Decrypted
  <1>4. Sm4!Abstract!Apply("cbc_enc", k, c, x)
              = [out |-> Sm4!Crypt(k, Xor(c, x)), chain |-> Sm4!Crypt(k, Xor(c, x))]
    BY <1>1 DEF Sm4!Abstract!Apply, Sm4!Encrypted
  <1>5. Sm4!Abstract!Apply("cbc_dec", k, c, x)
              = [out |-> Xor(Sm4!Crypt(Sm4!Reversed(k), x), c), chain |-> x]
    BY <1>1 DEF Sm4!Abstract!Apply, Sm4!Decrypted
  <1>6. Sm4!Abstract!Apply("cfb_enc", k, c, x)
              = [out |-> Xor(Sm4!Crypt(k, c), x), chain |-> Xor(Sm4!Crypt(k, c), x)]
    BY <1>1 DEF Sm4!Abstract!Apply, Sm4!Encrypted
  <1>7. Sm4!Abstract!Apply("cfb_dec", k, c, x) = [out |-> Xor(Sm4!Crypt(k, c), x), chain |-> x]
    BY <1>1 DEF Sm4!Abstract!Apply, Sm4!Encrypted
  <1>8. Sm4!Abstract!Apply("ofb", k, c, x) = [out |-> Xor(Sm4!Crypt(k, c), x), chain |-> Sm4!Crypt(k, c)]
    BY <1>1 DEF Sm4!Abstract!Apply, Sm4!Encrypted
  <1> QED
    BY <1>2, <1>3, <1>4, <1>5, <1>6, <1>7, <1>8

\* The blocks xs after each other: w is the output, d blocks of it are there
\* already, and cs are the chain values.
Sm4Applies(m, k, w, d, cs, xs, n) ==
  \A i \in 1 .. n : Sm4!Abstract!Apply(m, k, cs[i - 1], xs[i]) = [out |-> w[d + i], chain |-> cs[i]]

\* One block of ApplyAll.
Sm4ApplyStep(m, k, p, x) ==
  LET a == Sm4!Abstract!Apply(m, k, p.chain, x)
  IN  [out |-> Sm4!Abstract!Emit(m, p.out, a.out), chain |-> a.chain]

\* What ApplyAll puts out for them.
LEMMA Sm4ApplyAllIs ==
  ASSUME NEW m, m # "cbc_mac", NEW k, NEW w, NEW d \in Nat, NEW n \in Nat, NEW cs,
         NEW xs, Len(xs) = n, Sm4Applies(m, k, w, d, cs, xs, n)
  PROVE  Sm4!Abstract!ApplyAll(m, k, FirstOf(w, d), cs[0], xs)
           = [out |-> FirstOf(w, d + n), chain |-> cs[n]]
  <1> DEFINE first == [out |-> FirstOf(w, d), chain |-> cs[0]]
             Rec(f) == f = [i \in 0 .. Len(xs) |->
                 IF i = 0 THEN first ELSE Sm4ApplyStep(m, k, f[i - 1], xs[i])]
             g == [i \in 0 .. n |-> [out |-> FirstOf(w, d + i), chain |-> cs[i]]]
             s == CHOOSE f : Rec(f)
  <1>0. \A i \in 1 .. n : g[i] = Sm4ApplyStep(m, k, g[i - 1], xs[i])
    <2> SUFFICES ASSUME NEW i \in 1 .. n PROVE g[i] = Sm4ApplyStep(m, k, g[i - 1], xs[i])
      OBVIOUS
    <2>1. i - 1 \in 0 .. n /\ i \in 0 .. n /\ d + (i - 1) \in Nat /\ (d + (i - 1)) + 1 = d + i
      OBVIOUS
    <2>2. Sm4!Abstract!Apply(m, k, cs[i - 1], xs[i]) = [out |-> w[d + i], chain |-> cs[i]]
      BY DEF Sm4Applies
    <2>3. Append(FirstOf(w, d + (i - 1)), w[(d + (i - 1)) + 1]) = FirstOf(w, (d + (i - 1)) + 1)
      BY ONLY <2>1, FirstOfMore
    <2>4. /\ g[i - 1] = [out |-> FirstOf(w, d + (i - 1)), chain |-> cs[i - 1]]
          /\ g[i] = [out |-> FirstOf(w, d + i), chain |-> cs[i]]
      BY <2>1
    <2> HIDE DEF g
    <2>5. g[i - 1].chain = cs[i - 1] /\ g[i - 1].out = FirstOf(w, d + (i - 1))
      BY ONLY <2>4
    <2>6. Sm4ApplyStep(m, k, g[i - 1], xs[i])
            = [out |-> Sm4!Abstract!Emit(m, FirstOf(w, d + (i - 1)), w[d + i]), chain |-> cs[i]]
      BY ONLY <2>2, <2>5 DEF Sm4ApplyStep
    <2>7. Sm4!Abstract!Emit(m, FirstOf(w, d + (i - 1)), w[d + i]) = FirstOf(w, d + i)
      BY <2>1, <2>3 DEF Sm4!Abstract!Emit
    <2> QED
      BY ONLY <2>4, <2>6, <2>7
  <1>1. g[0] = first
    OBVIOUS
  <1>2. Upto(g, n)
    BY DEF Upto
  <1>9. g[n] = [out |-> FirstOf(w, d + n), chain |-> cs[n]]
    OBVIOUS
  <1>5. Sm4!Abstract!ApplyAll(m, k, FirstOf(w, d), cs[0], xs) = s[Len(xs)]
    BY DEF Sm4!Abstract!ApplyAll, Sm4ApplyStep
  <1> HIDE DEF g, first
  <1>n. Len(xs) = n
    OBVIOUS
  <1>3. Rec(g)
    <2>1. \A i \in 0 .. n : g[i] = IF i = 0 THEN first ELSE Sm4ApplyStep(m, k, g[i - 1], xs[i])
      BY ONLY <1>0, <1>1, n \in Nat
    <2>2. [i \in 0 .. n |-> g[i]]
            = [i \in 0 .. n |-> IF i = 0 THEN first ELSE Sm4ApplyStep(m, k, g[i - 1], xs[i])]
      BY ONLY <2>1
    <2> QED
      BY ONLY <2>2, <1>n, <1>2, Zenon DEF Upto
  <1>4. \A f : Rec(f) => f = g
    <2> SUFFICES ASSUME NEW f, Rec(f) PROVE f = g
      OBVIOUS
    <2>1. Upto(f, n) /\ f[0] = g[0]
      BY ONLY Rec(f), <1>n, <1>1, n \in Nat DEF Upto
    <2>2. Alike(f, g, n)
      <3> SUFFICES ASSUME NEW i \in 1 .. n, f[i - 1] = g[i - 1] PROVE f[i] = g[i]
        BY DEF Alike
      <3>1. f[i] = Sm4ApplyStep(m, k, f[i - 1], xs[i])
        BY ONLY Rec(f), <1>n, n \in Nat, i \in 1 .. n
      <3> QED
        BY <3>1, <1>0
    <2> QED
      BY ONLY <2>1, <2>2, <1>2, n \in Nat, SameByStep
  <1>6. s = g
    <2> HIDE DEF Rec
    <2> QED BY <1>3, <1>4
  <1> HIDE DEF s
  <1> QED
    BY ONLY <1>5, <1>6, <1>n, <1>9

-----------------------------------------------------------------------------
(* sm4_core.c does what the modes of operation say.                        *)

\* The keys of the context, once it has some.
Sm4Keys ==
  sm4pc # "unkeyed" =>
    sm4ctx.rkey_enc = Sm4Key /\ sm4ctx.rkey_dec = Sm4!Reversed(Sm4Key)

\* Where the chain value is.
Sm4Walk ==
  /\ \/ walk_iv = <<"iv">>
     \/ walk_iv = <<"keystream">> /\ sm4mode \in {"ofb_enc", "ofb_dec"} /\ sm4pc = "loop"
     \/ /\ sm4mode \in {"cbc_enc", "cfb_enc"} /\ sm4pc = "loop"
        /\ sm4done > 0 /\ walk_iv = <<"out", sm4dst + sm4done - 1>>

\* The round keys for decryption are those for encryption, reversed.
LEMMA KeysReversed ==
  [n \in 0 .. (Sm4Rounds - 1) |->
      Sm4!RoundKey(CHOOSE r \in 0 .. (Sm4Rounds - 1) : Sm4!DecIndex(r) = n)]
    = Sm4!Reversed(Sm4Key)
  <1>0. Sm4Rounds \in Nat \ {0}
    BY Sm4Assumption
  <1>1. \A n \in 0 .. (Sm4Rounds - 1) :
          (CHOOSE r \in 0 .. (Sm4Rounds - 1) : Sm4!DecIndex(r) = n) = Sm4Rounds - 1 - n
    <2> SUFFICES ASSUME NEW n \in 0 .. (Sm4Rounds - 1)
                 PROVE  (CHOOSE r \in 0 .. (Sm4Rounds - 1) : Sm4!DecIndex(r) = n) = Sm4Rounds - 1 - n
      OBVIOUS
    <2>1. \A r \in 0 .. (Sm4Rounds - 1) : Sm4!DecIndex(r) = n <=> r = Sm4Rounds - 1 - n
      BY <1>0 DEF Sm4!DecIndex
    <2>2. Sm4Rounds - 1 - n \in 0 .. (Sm4Rounds - 1)
      BY <1>0
    <2> QED
      BY <2>1, <2>2
  <1>2. \A n \in 0 .. (Sm4Rounds - 1) :
          Sm4Rounds - 1 - n \in 0 .. (Sm4Rounds - 1)
          /\ Sm4Key[Sm4Rounds - 1 - n] = Sm4!RoundKey(Sm4Rounds - 1 - n)
    BY <1>0 DEF Sm4Key
  <1> QED
    BY <1>1, <1>2 DEF Sm4!Reversed

\* A turn of n blocks, the blocks ys it puts out, and the chain values cs.
Sm4Turned(n, ys, cs) ==
  /\ Sm4Took(n, ys)
  /\ cs[0] = Sm4!WalkIv /\ cs[n] = Sm4!WalkIv'
  /\ \A i \in 1 .. n :
       Sm4!Abstract!Apply(Sm4!AbstractMode, Sm4Key, cs[i - 1], Sm4!Input(sm4done + i))
         = [out |-> ys[i], chain |-> cs[i]]

\* The blocks of the message,
Sm4In == [i \in 1 .. MaxBlocks |-> Sm4!Input(i)]

\* and n of them.
LEMMA Sm4Part ==
  ASSUME NEW d \in Nat, NEW n \in Nat, d + n <= MaxBlocks
  PROVE  /\ Len(SubSeq(Sm4In, d + 1, d + n)) = n
         /\ \A i \in 1 .. n : SubSeq(Sm4In, d + 1, d + n)[i] = Sm4!Input(d + i)
  <1>0. MaxBlocks \in Nat
    BY SizesAssumption
  <1> DEFINE S == {Sm4!Input(i) : i \in 1 .. MaxBlocks}
  <1>1. Sm4In \in Seq(S) /\ Len(Sm4In) = MaxBlocks
    BY <1>0 DEF Sm4In
  <1> HIDE DEF S
  <1>2. \A i \in 1 .. n : d + i \in 1 .. MaxBlocks /\ i + (d + 1) - 1 = d + i
    BY <1>0
  <1>3. \A i \in 1 .. n : Sm4In[d + i] = Sm4!Input(d + i)
    BY <1>2 DEF Sm4In
  <1>4. Len(SubSeq(Sm4In, d + 1, d + n)) = n
    BY <1>0, <1>1
  <1>5. \A i \in 1 .. n : SubSeq(Sm4In, d + 1, d + n)[i] = Sm4In[d + i]
    <2>1. d + 1 \in Int /\ d + n \in Int /\ (d + n) - (d + 1) + 1 = n
      OBVIOUS
    <2>2. \A i \in (d + 1) .. (d + n) : Sm4In[i] \in S
      BY <1>0, <1>1
    <2>3. \A i \in 1 .. (d + n) - (d + 1) + 1 :
             SubSeq(Sm4In, d + 1, d + n)[i] = Sm4In[(d + 1) + i - 1]
      BY ONLY <2>1, <2>2, SubSeqProperties
    <2>4. \A i \in 1 .. n : (d + 1) + i - 1 = d + i
      OBVIOUS
    <2> QED
      BY ONLY <2>1, <2>3, <2>4
  <1> QED
    BY <1>3, <1>4, <1>5

\* Such a turn is a step of the mode of operation.
LEMMA Sm4Process ==
  ASSUME Sm4IInv, NEW n, NEW ys, NEW cs, Sm4Turned(n, ys, cs)
  PROVE  Sm4!Abstract!Process
  <1>0. MaxBlocks \in Nat
    BY SizesAssumption
  <1>1. /\ n \in Nat \ {0} /\ n <= Sm4!WholeBlocks /\ sm4pc = "loop"
        /\ sm4done' = sm4done + n /\ sm4mode' = sm4mode /\ sm4dst' = sm4dst
        /\ sm4mem' = Sm4Stored(0, n, ys)
    BY DEF Sm4Turned, Sm4Took
  <1>2. sm4done + n <= MaxBlocks /\ sm4done \in Nat /\ sm4dst \in {0, MaxBlocks}
    BY <1>1, WholeFit DEF Sm4IInv, Sm4Types
  <1> DEFINE w == [i \in 1 .. (sm4done + n) |-> sm4mem'[sm4dst + i - 1]]
             m == Sm4!AbstractMode
             xs == SubSeq(Sm4In, sm4done + 1, sm4done + n)
  <1>3. \A i \in 1 .. n : w[sm4done + i] = ys[i]
    <2> SUFFICES ASSUME NEW i \in 1 .. n PROVE w[sm4done + i] = ys[i]
      OBVIOUS
    <2>1. /\ sm4dst + (sm4done + i) - 1 \in 0 .. (2 * MaxBlocks)
          /\ sm4dst + (sm4done + i) - 1 \in Sm4!Out(0) .. Sm4!Out(n - 1)
          /\ (sm4dst + (sm4done + i) - 1) - Sm4!Out(0) + 1 = i
          /\ sm4done + i \in 1 .. (sm4done + n)
      BY <1>0, <1>1, <1>2 DEF Sm4!Out
    <2> QED
      BY <1>1, <2>1 DEF Sm4Stored
  <1>4. [i \in 1 .. sm4done |-> sm4mem[sm4dst + i - 1]] = FirstOf(w, sm4done)
    <2> SUFFICES ASSUME NEW i \in 1 .. sm4done PROVE sm4mem[sm4dst + i - 1] = w[i]
      BY DEF FirstOf
    <2>1. /\ sm4dst + i - 1 \in 0 .. (2 * MaxBlocks)
          /\ ~ (sm4dst + i - 1 \in Sm4!Out(0) .. Sm4!Out(n - 1))
          /\ i \in 1 .. (sm4done + n)
      BY <1>0, <1>1, <1>2 DEF Sm4!Out
    <2> QED
      BY <1>1, <2>1 DEF Sm4Stored
  <1>5. [i \in 1 .. sm4done' |-> sm4mem'[sm4dst' + i - 1]] = FirstOf(w, sm4done + n)
    BY <1>1 DEF FirstOf
  <1>6. Len(xs) = n /\ \A i \in 1 .. n : xs[i] = Sm4!Input(sm4done + i)
    BY <1>1, <1>2, Sm4Part
  <1> HIDE DEF w, xs
  <1>7. Sm4Applies(m, Sm4Key, w, sm4done, cs, xs, n)
    BY <1>3, <1>6 DEF Sm4Applies, Sm4Turned
  <1>8. m # "cbc_mac" /\ m' = m
    BY <1>1 DEF Sm4!AbstractMode, Sm4IInv, Sm4Types, Sm4!Modes, Sm4!CryptAll, Sm4!Streams
  <1> HIDE DEF m
  <1>9. Sm4!Abstract!ApplyAll(m, Sm4Key, FirstOf(w, sm4done), cs[0], xs)
          = [out |-> FirstOf(w, sm4done + n), chain |-> cs[n]]
    BY <1>1, <1>2, <1>6, <1>7, <1>8, Sm4ApplyAllIs
  <1>10. n \in 1 .. (Len(Sm4In) - sm4done)
    <2>1. Len(Sm4In) = MaxBlocks
      BY <1>0 DEF Sm4In
    <2> QED
      BY <1>0, <1>1, <1>2, <2>1
  <1>11. cs[0] = Sm4!WalkIv /\ cs[n] = Sm4!WalkIv'
    BY DEF Sm4Turned
  <1>12. Sm4Key' = Sm4Key /\ Sm4In' = Sm4In
    BY DEF Sm4Key, Sm4In, Sm4!RoundKey, Sm4!Input, Sm4!Atom
  <1>13. \E k \in 1 .. (Len(Sm4In) - sm4done) :
           LET s == Sm4!Abstract!ApplyAll(m, Sm4Key, [i \in 1 .. sm4done |-> sm4mem[sm4dst + i - 1]],
                      Sm4!WalkIv, SubSeq(Sm4In, sm4done + 1, sm4done + k))
           IN  /\ sm4done' = sm4done + k
               /\ [i \in 1 .. sm4done' |-> sm4mem'[sm4dst' + i - 1]] = s.out
               /\ Sm4!WalkIv' = s.chain
               /\ m' = m /\ Sm4Key' = Sm4Key /\ Sm4In' = Sm4In
    <2> DEFINE s == Sm4!Abstract!ApplyAll(m, Sm4Key, [i \in 1 .. sm4done |-> sm4mem[sm4dst + i - 1]],
                      Sm4!WalkIv, SubSeq(Sm4In, sm4done + 1, sm4done + n))
    <2>1. s = [out |-> FirstOf(w, sm4done + n), chain |-> cs[n]]
      BY ONLY <1>4, <1>9, <1>11 DEF xs
    <2> HIDE DEF s
    <2>2. /\ sm4done' = sm4done + n
          /\ [i \in 1 .. sm4done' |-> sm4mem'[sm4dst' + i - 1]] = s.out
          /\ Sm4!WalkIv' = s.chain
          /\ m' = m /\ Sm4Key' = Sm4Key /\ Sm4In' = Sm4In
      BY ONLY <1>1, <1>5, <1>8, <1>11, <1>12, <2>1
    <2> QED
      BY ONLY <1>10, <2>2 DEF s
  <1> QED
    BY <1>13 DEF Sm4!Abstract!Process, m, Sm4Key, Sm4In

\* What the steps need to be those of the mode.
Sm4RInv == Sm4IInv /\ Sm4Keys /\ Sm4Walk

\* What the blocks of a turn are.
LEMMA Sm4TurnLoads ==
  ASSUME Sm4IInv, sm4pc = "loop", NEW n \in Nat, n <= Sm4!WholeBlocks
  PROVE  \A i \in 1 .. n : sm4mem[Sm4!In(i - 1)] = Sm4!Input(sm4done + i)
  <1> SUFFICES ASSUME NEW i \in 1 .. n PROVE sm4mem[Sm4!In(i - 1)] = Sm4!Input(sm4done + i)
    OBVIOUS
  <1>1. i - 1 \in Nat /\ (i - 1) + 1 = i /\ i <= Sm4!WholeBlocks /\ i \in Nat
    BY WholeIsNat DEF Sm4IInv
  <1>2. Left((i - 1) + 1)
    BY <1>1, WholeLeft DEF Sm4IInv
  <1>3. \A k \in Nat : Left(k + 1) => sm4mem[Sm4!In(k)] = Sm4!Input(sm4done + k + 1)
    BY Sm4Unread
  <1>4. sm4done + (i - 1) + 1 = sm4done + i
    BY DEF Sm4IInv, Sm4Types
  <1> QED
    BY <1>1, <1>2, <1>3, <1>4

\* The chain value in the caller's IV,
LEMMA WalkAtIv ==
  /\ walk_iv = <<"iv">> => Sm4!WalkIv = sm4iv
  /\ walk_iv' = <<"iv">> => Sm4!WalkIv' = sm4iv'
  BY DEF Sm4!WalkIv

\* in the block put out last,
LEMMA WalkAtOut ==
  ASSUME NEW a
  PROVE  walk_iv' = <<"out", a>> => Sm4!WalkIv' = sm4mem'[a]
  BY DEF Sm4!WalkIv

\* and in the key stream.
LEMMA WalkAtKeystream ==
  walk_iv' = <<"keystream">> => Sm4!WalkIv' = keystream'
  BY DEF Sm4!WalkIv

\* The block that a turn of one block stores.
LEMMA Sm4OneStored ==
  ASSUME Sm4Types, Sm4Mem, NEW y, Sm4Took(1, y)
  PROVE  sm4mem'[Sm4!Out(0)] = y[1]
  <1>0. MaxBlocks \in Nat /\ sm4dst \in {0, MaxBlocks} /\ sm4done \in Nat
    BY SizesAssumption DEF Sm4Types
  <1>1. sm4pc = "loop" /\ 1 <= Sm4!WholeBlocks /\ sm4mem' = Sm4Stored(0, 1, y)
    BY DEF Sm4Took
  <1>2. Left(1)
    BY <1>1, WholeLeft
  <1>3. Sm4!Out(0) \in 0 .. (2 * MaxBlocks) /\ Sm4!Out(0) \in Sm4!Out(0) .. Sm4!Out(1 - 1)
        /\ Sm4!Out(0) - Sm4!Out(0) + 1 = 1
    BY <1>0, <1>2 DEF Sm4!Out, Left
  <1> QED
    BY <1>1, <1>3 DEF Sm4Stored

\* The turns are those of the modes: ecb_enc and ecb_dec,
LEMMA EcbTurned ==
  ASSUME Sm4RInv, Sm4!EcbEnc \/ Sm4!EcbDec
  PROVE  \E n, ys, cs : Sm4Turned(n, ys, cs)
  <1> DEFINE rk == IF Sm4!EcbEnc THEN sm4ctx.rkey_enc ELSE sm4ctx.rkey_dec
  <1>1. PICK n : Sm4Took(n, Sm4!CryptBlocks(rk, Sm4!Blocks(n)))
    BY Sm4EcbTook DEF Sm4RInv, Sm4IInv, Sm4!EcbEnc, Sm4!EcbDec
  <1> DEFINE ys == Sm4!CryptBlocks(rk, Sm4!Blocks(n))
             cs == [i \in 0 .. n |-> Sm4!WalkIv]
  <1>2. n \in Nat \ {0} /\ n <= Sm4!WholeBlocks /\ sm4pc = "loop"
    BY <1>1 DEF Sm4Took
  <1>3. \A i \in 1 .. n : ys[i] = Sm4!Crypt(rk, Sm4!Input(sm4done + i))
    BY <1>2, Sm4TurnLoads DEF Sm4!CryptBlocks, Sm4!Blocks, Sm4RInv
  <1>4. \/ Sm4!EcbEnc /\ sm4mode = "ecb_enc" /\ rk = Sm4Key
        \/ sm4mode = "ecb_dec" /\ rk = Sm4!Reversed(Sm4Key)
    BY <1>2 DEF Sm4!EcbEnc, Sm4!EcbDec, Sm4!Ecb, Sm4RInv, Sm4Keys
  <1>5. Sm4!AbstractMode = sm4mode
    BY <1>4 DEF Sm4!AbstractMode
  <1>6. walk_iv = <<"iv">>
    BY <1>4 DEF Sm4RInv, Sm4Walk
  <1>7. UNCHANGED <<sm4iv, walk_iv>>
    BY DEF Sm4!EcbEnc, Sm4!EcbDec, Sm4!Ecb
  <1>8. cs[0] = Sm4!WalkIv /\ cs[n] = Sm4!WalkIv'
    BY <1>2, <1>6, <1>7, WalkAtIv
  <1>9. ASSUME NEW i \in 1 .. n
        PROVE  Sm4!Abstract!Apply(Sm4!AbstractMode, Sm4Key, cs[i - 1], Sm4!Input(sm4done + i))
                 = [out |-> ys[i], chain |-> cs[i]]
    <2>0. i - 1 \in 0 .. n /\ i \in 0 .. n
      BY <1>2
    <2>1. cs[i - 1] = Sm4!WalkIv /\ cs[i] = Sm4!WalkIv
      BY <2>0
    <2> HIDE DEF cs, ys, rk
    <2> QED
      BY <2>1, <1>3, <1>4, <1>5, Sm4ApplyIs
  <1>10. Sm4Turned(n, ys, cs)
    <2> HIDE DEF cs
    <2> QED
      BY <1>1, <1>8, <1>9 DEF Sm4Turned
  <1> QED
    BY <1>10

\* A turn of one block.
LEMMA OneTurned ==
  ASSUME NEW y, NEW c, Sm4Took(1, y), Sm4!WalkIv' = c,
         Sm4!Abstract!Apply(Sm4!AbstractMode, Sm4Key, Sm4!WalkIv, Sm4!Input(sm4done + 1))
           = [out |-> y[1], chain |-> c]
  PROVE  \E n, ys, cs : Sm4Turned(n, ys, cs)
  <1> DEFINE cs == [i \in 0 .. 1 |-> IF i = 0 THEN Sm4!WalkIv ELSE c]
  <1>1. cs[0] = Sm4!WalkIv /\ cs[1] = c
    OBVIOUS
  <1> HIDE DEF cs
  <1>2. \A i \in 1 .. 1 : i = 1 /\ i - 1 = 0
    OBVIOUS
  <1>3. Sm4Turned(1, y, cs)
    BY <1>1, <1>2 DEF Sm4Turned
  <1> QED
    BY <1>3

\* cbc_enc,
LEMMA CbcEncTurned ==
  ASSUME Sm4RInv, Sm4!CbcEnc
  PROVE  \E n, ys, cs : Sm4Turned(n, ys, cs)
  <1> DEFINE y == Sm4!Crypt(sm4ctx.rkey_enc, Sm4!Xor(sm4mem[Sm4!In(0)], Sm4!WalkIv))
  <1>1. Sm4Took(1, <<y>>)
    BY Sm4CbcEncTook DEF Sm4RInv, Sm4IInv
  <1>2. sm4pc = "loop" /\ 1 <= Sm4!WholeBlocks
    BY <1>1 DEF Sm4Took
  <1>3. sm4mem[Sm4!In(0)] = Sm4!Input(sm4done + 1)
    <2>1. \A i \in 1 .. 1 : sm4mem[Sm4!In(i - 1)] = Sm4!Input(sm4done + i)
      BY <1>2, Sm4TurnLoads DEF Sm4RInv
    <2> QED
      BY <2>1
  <1>4. Sm4!AbstractMode = "cbc_enc" /\ sm4ctx.rkey_enc = Sm4Key
    BY <1>2 DEF Sm4!CbcEnc, Sm4!AbstractMode, Sm4RInv, Sm4Keys
  <1>5. y = Sm4!Crypt(Sm4Key, Xor(Sm4!WalkIv, Sm4!Input(sm4done + 1)))
    BY <1>3, <1>4, SameXor, XorComm
  <1> HIDE DEF y
  <1>6. Sm4!WalkIv' = y
    BY <1>1, Sm4OneStored, WalkAtOut DEF Sm4!CbcEnc, Sm4RInv, Sm4IInv
  <1>7. Sm4!Abstract!Apply(Sm4!AbstractMode, Sm4Key, Sm4!WalkIv, Sm4!Input(sm4done + 1))
           = [out |-> <<y>>[1], chain |-> y]
    BY <1>4, <1>5, Sm4ApplyIs
  <1> QED
    BY <1>1, <1>6, <1>7, OneTurned

\* cfb_enc,
LEMMA CfbEncTurned ==
  ASSUME Sm4RInv, Sm4!CfbEnc
  PROVE  \E n, ys, cs : Sm4Turned(n, ys, cs)
  <1> DEFINE k == Sm4!Crypt(sm4ctx.rkey_enc, Sm4!WalkIv)
             y == Sm4Sums(<<k>>, 1)
  <1>1. Sm4Took(1, y)
    BY Sm4CfbEncTook DEF Sm4RInv, Sm4IInv
  <1>2. sm4pc = "loop" /\ 1 <= Sm4!WholeBlocks
    BY <1>1 DEF Sm4Took
  <1>3. sm4mem[Sm4!In(0)] = Sm4!Input(sm4done + 1)
    <2>1. \A i \in 1 .. 1 : sm4mem[Sm4!In(i - 1)] = Sm4!Input(sm4done + i)
      BY <1>2, Sm4TurnLoads DEF Sm4RInv
    <2> QED
      BY <2>1
  <1>4. Sm4!AbstractMode = "cfb_enc" /\ sm4ctx.rkey_enc = Sm4Key
    BY <1>2 DEF Sm4!CfbEnc, Sm4!AbstractMode, Sm4RInv, Sm4Keys
  <1>5. y[1] = Xor(Sm4!Crypt(Sm4Key, Sm4!WalkIv), Sm4!Input(sm4done + 1))
    BY <1>3, <1>4, XorComm DEF Sm4Sums
  <1> HIDE DEF y
  <1>6. Sm4!WalkIv' = y[1]
    BY <1>1, Sm4OneStored, WalkAtOut DEF Sm4!CfbEnc, Sm4RInv, Sm4IInv
  <1>7. Sm4!Abstract!Apply(Sm4!AbstractMode, Sm4Key, Sm4!WalkIv, Sm4!Input(sm4done + 1))
           = [out |-> y[1], chain |-> y[1]]
    BY <1>4, <1>5, Sm4ApplyIs
  <1> QED
    BY <1>1, <1>6, <1>7, OneTurned

\* ofb.
LEMMA OfbTurned ==
  ASSUME Sm4RInv, Sm4!OfbEnc \/ Sm4!OfbDec
  PROVE  \E n, ys, cs : Sm4Turned(n, ys, cs)
  <1> DEFINE k == Sm4!Crypt(sm4ctx.rkey_enc, Sm4!WalkIv)
             y == Sm4Sums(<<k>>, 1)
  <1>1. Sm4Took(1, y)
    BY Sm4OfbTook DEF Sm4RInv, Sm4IInv, Sm4!OfbEnc, Sm4!OfbDec
  <1>2. sm4pc = "loop" /\ 1 <= Sm4!WholeBlocks
    BY <1>1 DEF Sm4Took
  <1>3. sm4mem[Sm4!In(0)] = Sm4!Input(sm4done + 1)
    <2>1. \A i \in 1 .. 1 : sm4mem[Sm4!In(i - 1)] = Sm4!Input(sm4done + i)
      BY <1>2, Sm4TurnLoads DEF Sm4RInv
    <2> QED
      BY <2>1
  <1>4. Sm4!AbstractMode = "ofb" /\ sm4ctx.rkey_enc = Sm4Key
    BY <1>2 DEF Sm4!OfbEnc, Sm4!OfbDec, Sm4!Ofb, Sm4!AbstractMode, Sm4RInv, Sm4Keys
  <1>5. y[1] = Xor(Sm4!Crypt(Sm4Key, Sm4!WalkIv), Sm4!Input(sm4done + 1))
    BY <1>3, <1>4, XorComm DEF Sm4Sums
  <1>6. Sm4!WalkIv' = k /\ k = Sm4!Crypt(Sm4Key, Sm4!WalkIv)
    BY <1>4, WalkAtKeystream DEF Sm4!OfbEnc, Sm4!OfbDec, Sm4!Ofb
  <1> HIDE DEF y, k
  <1>7. Sm4!Abstract!Apply(Sm4!AbstractMode, Sm4Key, Sm4!WalkIv, Sm4!Input(sm4done + 1))
           = [out |-> y[1], chain |-> k]
    BY <1>4, <1>5, <1>6, Sm4ApplyIs
  <1> QED
    BY <1>1, <1>6, <1>7, OneTurned

\* The chain values of cbc_dec and cfb_dec.
Inputs(n) == [i \in 0 .. n |-> IF i = 0 THEN sm4iv ELSE Sm4!Input(sm4done + i)]

\* A turn of cbc_dec or cfb_dec that puts out what is due.
LEMMA ChainedTurned ==
  ASSUME Sm4RInv, sm4mode \in {"cbc_dec", "cfb_dec"}, NEW n, NEW ys, Sm4Took(n, ys),
         sm4iv' = sm4mem[Sm4!In(n - 1)], walk_iv' = walk_iv,
         \A i \in 1 .. n : ys[i] =
           IF sm4mode = "cbc_dec"
           THEN Xor(Sm4!Crypt(Sm4!Reversed(Sm4Key), Sm4!Input(sm4done + i)), Inputs(n)[i - 1])
           ELSE Xor(Sm4!Crypt(Sm4Key, Inputs(n)[i - 1]), Sm4!Input(sm4done + i))
  PROVE  \E m, zs, cs : Sm4Turned(m, zs, cs)
  <1>1. n \in Nat \ {0} /\ n <= Sm4!WholeBlocks /\ sm4pc = "loop"
    BY DEF Sm4Took
  <1>2. walk_iv = <<"iv">>
    BY DEF Sm4RInv, Sm4Walk
  <1>3. \A i \in 1 .. n : sm4mem[Sm4!In(i - 1)] = Sm4!Input(sm4done + i)
    BY <1>1, Sm4TurnLoads DEF Sm4RInv
  <1>4. Inputs(n)[0] = Sm4!WalkIv /\ Inputs(n)[n] = Sm4!WalkIv'
    BY <1>1, <1>2, <1>3, WalkAtIv DEF Inputs
  <1>5. Sm4!AbstractMode = sm4mode
    BY DEF Sm4!AbstractMode
  <1>6. ASSUME NEW i \in 1 .. n
        PROVE  Sm4!Abstract!Apply(Sm4!AbstractMode, Sm4Key, Inputs(n)[i - 1], Sm4!Input(sm4done + i))
                 = [out |-> ys[i], chain |-> Inputs(n)[i]]
    <2>1. Inputs(n)[i] = Sm4!Input(sm4done + i)
      BY DEF Inputs
    <2>2. CASE sm4mode = "cbc_dec"
      BY <2>1, <2>2, <1>5, Sm4ApplyIs
    <2>3. CASE sm4mode = "cfb_dec"
      BY <2>1, <2>3, <1>5, Sm4ApplyIs
    <2> QED
      BY <2>2, <2>3
  <1>7. Sm4Turned(n, ys, Inputs(n))
    BY <1>4, <1>6 DEF Sm4Turned
  <1> QED
    BY <1>7

\* The blocks that are chained, as the loops of cbc_dec and cfb_dec copy them.
LEMMA IvBlocks ==
  ASSUME Sm4RInv, sm4pc = "loop", NEW n \in Nat \ {0}, n <= Sm4!WholeBlocks, NEW m, m = n - 1
  PROVE  /\ DOMAIN (<<sm4iv>> \o Sm4!Blocks(m)) = 1 .. n
         /\ \A i \in 1 .. n : (<<sm4iv>> \o Sm4!Blocks(m))[i] = Inputs(n)[i - 1]
         /\ \A i \in 1 .. n : Sm4Before(i - 1) = Inputs(n)[i - 1]
  <1>1. \A i \in 1 .. n : sm4mem[Sm4!In(i - 1)] = Sm4!Input(sm4done + i)
    BY Sm4TurnLoads DEF Sm4RInv
  <1>2. /\ DOMAIN (<<sm4iv>> \o Sm4!Blocks(n - 1)) = 1 .. n
        /\ \A i \in 1 .. n : (<<sm4iv>> \o Sm4!Blocks(n - 1))[i]
                               = IF i = 1 THEN sm4iv ELSE sm4mem[Sm4!In(i - 2)]
    BY CryptedLen
  <1>3. ASSUME NEW i \in 1 .. n
        PROVE  /\ Inputs(n)[i - 1] = IF i = 1 THEN sm4iv ELSE Sm4!Input(sm4done + (i - 1))
               /\ Sm4Before(i - 1) = IF i = 1 THEN sm4iv ELSE sm4mem[Sm4!In(i - 2)]
               /\ i # 1 => sm4mem[Sm4!In(i - 2)] = Sm4!Input(sm4done + (i - 1))
    <2>1. i - 1 \in 0 .. n /\ (i - 1 = 0 <=> i = 1) /\ (i - 1) - 1 = i - 2
      OBVIOUS
    <2>2. i # 1 => i - 1 \in 1 .. n
      OBVIOUS
    <2> QED
      BY <1>1, <2>1, <2>2 DEF Inputs, Sm4Before
  <1>4. \A i \in 1 .. n : (<<sm4iv>> \o Sm4!Blocks(m))[i] = Inputs(n)[i - 1]
    BY <1>2, <1>3
  <1>5. \A i \in 1 .. n : Sm4Before(i - 1) = Inputs(n)[i - 1]
    BY <1>3
  <1>6. DOMAIN (<<sm4iv>> \o Sm4!Blocks(m)) = 1 .. n
    BY <1>2
  <1> QED
    BY <1>4, <1>5, <1>6

\* Both loops of cbc_dec do,
LEMMA CbcDecTurned ==
  ASSUME Sm4RInv, Sm4!CbcDec8 \/ Sm4!CbcDecRest
  PROVE  \E n, ys, cs : Sm4Turned(n, ys, cs)
  <1>1. CASE Sm4!CbcDec8
    <2> DEFINE n == 8
               ivs == <<sm4iv>> \o Sm4!Blocks(7)
               ds == Sm4!CryptBlocks(sm4ctx.rkey_dec, Sm4!Blocks(8))
               ys == [i \in 1 .. 8 |-> Sm4!Xor(ds[i], ivs[i])]
    <2>1. Sm4Took(8, ys)
      BY <1>1, Sm4CbcDec8Took DEF Sm4RInv, Sm4IInv
    <2>2. sm4pc = "loop" /\ 8 <= Sm4!WholeBlocks /\ 8 \in Nat \ {0} /\ 7 = 8 - 1
      BY <2>1 DEF Sm4Took
    <2>3. \A i \in 1 .. 8 : sm4mem[Sm4!In(i - 1)] = Sm4!Input(sm4done + i)
      BY <2>2, Sm4TurnLoads DEF Sm4RInv
    <2>4. \A i \in 1 .. 8 : ds[i] = Sm4!Crypt(Sm4!Reversed(Sm4Key), Sm4!Input(sm4done + i))
      BY <2>2, <2>3 DEF Sm4!CryptBlocks, Sm4!Blocks, Sm4RInv, Sm4Keys
    <2>5. \A i \in 1 .. 8 : ivs[i] = Inputs(8)[i - 1]
      BY <2>2, IvBlocks
    <2> HIDE DEF ds, ivs
    <2>6. \A i \in 1 .. 8 : ys[i]
            = Xor(Sm4!Crypt(Sm4!Reversed(Sm4Key), Sm4!Input(sm4done + i)), Inputs(8)[i - 1])
      BY <2>4, <2>5, SameXor
    <2> HIDE DEF ys
    <2>7. sm4mode = "cbc_dec" /\ sm4iv' = sm4mem[Sm4!In(8 - 1)] /\ walk_iv' = walk_iv
      BY <1>1 DEF Sm4!CbcDec8
    <2> QED
      BY <2>1, <2>6, <2>7, ChainedTurned
  <1>2. CASE Sm4!CbcDecRest
    <2> DEFINE n == Rest
               ds == Sm4!CryptBlocks(sm4ctx.rkey_dec, Sm4!Blocks(n))
               ys == Sm4ChainedSums(ds, n)
    <2>1. Sm4Took(n, ys)
      BY <1>2, Sm4CbcDecRestTook DEF Sm4RInv, Sm4IInv
    <2>2. sm4pc = "loop" /\ n <= Sm4!WholeBlocks /\ n \in Nat \ {0} /\ n - 1 = n - 1
      BY <2>1 DEF Sm4Took
    <2>7. sm4mode = "cbc_dec" /\ sm4iv' = sm4mem[Sm4!In(n - 1)] /\ walk_iv' = walk_iv
      BY <1>2 DEF Sm4!CbcDecRest, Rest
    <2> HIDE DEF n
    <2>3. \A i \in 1 .. n : sm4mem[Sm4!In(i - 1)] = Sm4!Input(sm4done + i)
      BY <2>2, Sm4TurnLoads DEF Sm4RInv
    <2>4. \A i \in 1 .. n : ds[i] = Sm4!Crypt(Sm4!Reversed(Sm4Key), Sm4!Input(sm4done + i))
      BY <2>2, <2>3 DEF Sm4!CryptBlocks, Sm4!Blocks, Sm4RInv, Sm4Keys
    <2>5. \A i \in 1 .. n : Sm4Before(i - 1) = Inputs(n)[i - 1]
      BY <2>2, IvBlocks
    <2> HIDE DEF ds
    <2>6. \A i \in 1 .. n : ys[i]
            = Xor(Sm4!Crypt(Sm4!Reversed(Sm4Key), Sm4!Input(sm4done + i)), Inputs(n)[i - 1])
      BY <2>4, <2>5, XorComm DEF Sm4ChainedSums
    <2> HIDE DEF ys
    <2> QED
      BY <2>1, <2>6, <2>7, ChainedTurned
  <1> QED
    BY <1>1, <1>2

\* and both of cfb_dec.
LEMMA CfbDecTurned ==
  ASSUME Sm4RInv, Sm4!CfbDec8 \/ Sm4!CfbDecRest
  PROVE  \E n, ys, cs : Sm4Turned(n, ys, cs)
  <1>1. CASE Sm4!CfbDec8
    <2> DEFINE ivs == <<sm4iv>> \o Sm4!Blocks(7)
               es == Sm4!CryptBlocks(sm4ctx.rkey_enc, ivs)
               ys == [i \in 1 .. 8 |-> Sm4!Xor(es[i], sm4mem[Sm4!In(i - 1)])]
    <2>1. Sm4Took(8, ys)
      BY <1>1, Sm4CfbDec8Took DEF Sm4RInv, Sm4IInv
    <2>2. sm4pc = "loop" /\ 8 <= Sm4!WholeBlocks /\ 8 \in Nat \ {0} /\ 7 = 8 - 1
      BY <2>1 DEF Sm4Took
    <2>3. \A i \in 1 .. 8 : sm4mem[Sm4!In(i - 1)] = Sm4!Input(sm4done + i)
      BY <2>2, Sm4TurnLoads DEF Sm4RInv
    <2>5. DOMAIN ivs = 1 .. 8 /\ \A i \in 1 .. 8 : ivs[i] = Inputs(8)[i - 1]
      BY <2>2, IvBlocks
    <2> HIDE DEF ivs
    <2>4. \A i \in 1 .. 8 : es[i] = Sm4!Crypt(Sm4Key, Inputs(8)[i - 1])
      BY <2>2, <2>5 DEF Sm4!CryptBlocks, Sm4RInv, Sm4Keys
    <2> HIDE DEF es
    <2>6. \A i \in 1 .. 8 : ys[i]
            = Xor(Sm4!Crypt(Sm4Key, Inputs(8)[i - 1]), Sm4!Input(sm4done + i))
      BY <2>3, <2>4, SameXor
    <2> HIDE DEF ys
    <2>7. sm4mode = "cfb_dec" /\ sm4iv' = sm4mem[Sm4!In(8 - 1)] /\ walk_iv' = walk_iv
      BY <1>1 DEF Sm4!CfbDec8
    <2> QED
      BY <2>1, <2>6, <2>7, ChainedTurned
  <1>2. CASE Sm4!CfbDecRest
    <2> DEFINE n == Rest
               ivs == <<sm4iv>> \o Sm4!Blocks(n - 1)
               es == Sm4!CryptBlocks(sm4ctx.rkey_enc, ivs)
               ys == Sm4Sums(es, n)
    <2>1. Sm4Took(n, ys)
      BY <1>2, Sm4CfbDecRestTook DEF Sm4RInv, Sm4IInv
    <2>2. sm4pc = "loop" /\ n <= Sm4!WholeBlocks /\ n \in Nat \ {0}
      BY <2>1 DEF Sm4Took
    <2>7. sm4mode = "cfb_dec" /\ sm4iv' = sm4mem[Sm4!In(n - 1)] /\ walk_iv' = walk_iv
      BY <1>2 DEF Sm4!CfbDecRest, Rest
    <2> HIDE DEF n
    <2>3. \A i \in 1 .. n : sm4mem[Sm4!In(i - 1)] = Sm4!Input(sm4done + i)
      BY <2>2, Sm4TurnLoads DEF Sm4RInv
    <2>5. DOMAIN ivs = 1 .. n /\ \A i \in 1 .. n : ivs[i] = Inputs(n)[i - 1]
      BY <2>2, IvBlocks
    <2> HIDE DEF ivs
    <2>4. \A i \in 1 .. n : es[i] = Sm4!Crypt(Sm4Key, Inputs(n)[i - 1])
      BY <2>2, <2>5 DEF Sm4!CryptBlocks, Sm4RInv, Sm4Keys
    <2> HIDE DEF es
    <2>6. \A i \in 1 .. n : ys[i]
            = Xor(Sm4!Crypt(Sm4Key, Inputs(n)[i - 1]), Sm4!Input(sm4done + i))
      BY <2>3, <2>4, XorComm DEF Sm4Sums
    <2> HIDE DEF ys
    <2> QED
      BY <2>1, <2>6, <2>7, ChainedTurned
  <1> QED
    BY <1>1, <1>2

\* So every turn that takes blocks is one of the mode.
LEMMA TurnTurned ==
  ASSUME Sm4RInv, Sm4!Turn, ~ Sm4!EndOfBlocks
  PROVE  \E n, ys, cs : Sm4Turned(n, ys, cs)
  <1>1. CASE Sm4!EcbEnc \/ Sm4!EcbDec BY <1>1, EcbTurned
  <1>2. CASE Sm4!CbcEnc BY <1>2, CbcEncTurned
  <1>3. CASE Sm4!CbcDec8 \/ Sm4!CbcDecRest BY <1>3, CbcDecTurned
  <1>4. CASE Sm4!CfbEnc BY <1>4, CfbEncTurned
  <1>5. CASE Sm4!CfbDec8 \/ Sm4!CfbDecRest BY <1>5, CfbDecTurned
  <1>6. CASE Sm4!OfbEnc \/ Sm4!OfbDec BY <1>6, OfbTurned
  <1> QED
    BY <1>1, <1>2, <1>3, <1>4, <1>5, <1>6 DEF Sm4!Turn

\* The chain value and the keys stay where they are known to be.
LEMMA Sm4WalkNext ==
  ASSUME Sm4RInv, [Sm4!Next]_Sm4!vars
  PROVE  Sm4Keys' /\ Sm4Walk'
  <1>0. MaxBlocks \in Nat
    BY SizesAssumption
  <1>k. Sm4Key' = Sm4Key
    BY DEF Sm4Key, Sm4!RoundKey
  <1>1. CASE Sm4!EndOfBlocks
    BY <1>1, <1>k DEF Sm4!EndOfBlocks, Sm4RInv, Sm4Keys, Sm4Walk
  <1>2. CASE Sm4!Turn /\ ~ Sm4!EndOfBlocks
    <2>2. \E n, ys : Sm4Took(n, ys)
      BY <1>2, Sm4TurnTook DEF Sm4RInv, Sm4IInv
    <2>3. Sm4Keys'
      BY <2>2, <1>k DEF Sm4Took, Sm4RInv, Sm4Keys
    <2>4. sm4pc = "loop" /\ sm4pc' = "loop" /\ sm4mode' = sm4mode /\ sm4dst' = sm4dst
      BY <2>2 DEF Sm4Took
    <2>5. sm4done \in Nat /\ sm4dst \in Nat
      BY <1>0 DEF Sm4RInv, Sm4IInv, Sm4Types
    <2>6. CASE sm4mode \in {"cbc_enc", "cfb_enc"}
      <3>1. walk_iv' = <<"out", Sm4!Out(0)>> /\ sm4done' = sm4done + 1
        BY <1>2, <2>6 DEF Sm4!Turn, Sm4!EcbEnc, Sm4!EcbDec, Sm4!Ecb, Sm4!CbcEnc, Sm4!CbcDec8,
                     Sm4!CbcDecRest, Sm4!CfbEnc, Sm4!CfbDec8, Sm4!CfbDecRest, Sm4!OfbEnc,
                     Sm4!OfbDec, Sm4!Ofb, Sm4!Advance
      <3>2. Sm4!Out(0) = sm4dst' + sm4done' - 1 /\ sm4done' > 0
        BY <2>4, <2>5, <3>1 DEF Sm4!Out
      <3> QED
        BY <2>3, <2>4, <2>6, <3>1, <3>2 DEF Sm4Walk
    <2>7. CASE sm4mode \in {"ofb_enc", "ofb_dec"}
      <3>1. walk_iv' = <<"keystream">>
        BY <1>2, <2>7 DEF Sm4!Turn, Sm4!EcbEnc, Sm4!EcbDec, Sm4!Ecb, Sm4!CbcEnc, Sm4!CbcDec8,
                     Sm4!CbcDecRest, Sm4!CfbEnc, Sm4!CfbDec8, Sm4!CfbDecRest, Sm4!OfbEnc,
                     Sm4!OfbDec, Sm4!Ofb
      <3> QED
        BY <2>3, <2>4, <2>7, <3>1 DEF Sm4Walk
    <2>8. CASE ~ (sm4mode \in {"cbc_enc", "cfb_enc", "ofb_enc", "ofb_dec"})
      <3>1. walk_iv' = walk_iv
        BY <1>2, <2>8 DEF Sm4!Turn, Sm4!EcbEnc, Sm4!EcbDec, Sm4!Ecb, Sm4!CbcEnc, Sm4!CbcDec8,
                     Sm4!CbcDecRest, Sm4!CfbEnc, Sm4!CfbDec8, Sm4!CfbDecRest, Sm4!OfbEnc,
                     Sm4!OfbDec, Sm4!Ofb
      <3>2. walk_iv = <<"iv">>
        BY <2>8 DEF Sm4RInv, Sm4Walk
      <3> QED
        BY <2>3, <3>1, <3>2 DEF Sm4Walk
    <2> QED
      BY <2>6, <2>7, <2>8
  <1>3. ASSUME NEW n \in Sm4Calls, Sm4!Call(n) PROVE Sm4Keys' /\ Sm4Walk'
    BY <1>3, <1>k DEF Sm4!Call, Sm4RInv, Sm4Keys, Sm4Walk
  <1>4. CASE Sm4!SetKey
    <2>1. /\ sm4ctx' = [rkey_enc |-> [n \in 0 .. (Sm4Rounds - 1) |-> Sm4!RoundKey(n)],
                        rkey_dec |-> [n \in 0 .. (Sm4Rounds - 1) |->
                   Sm4!RoundKey(CHOOSE r \in 0 .. (Sm4Rounds - 1) : Sm4!DecIndex(r) = n)]]
          /\ sm4pc = "unkeyed" /\ UNCHANGED walk_iv
      BY <1>4 DEF Sm4!SetKey
    <2>2. sm4ctx'.rkey_enc = Sm4Key /\ sm4ctx'.rkey_dec = Sm4!Reversed(Sm4Key)
      BY <2>1, KeysReversed DEF Sm4Key
    <2>3. Sm4!Reversed(Sm4Key)' = Sm4!Reversed(Sm4Key)
      BY DEF Sm4Key, Sm4!Reversed, Sm4!RoundKey
    <2>4. Sm4Keys'
      BY <2>2, <2>3, <1>k DEF Sm4Keys
    <2>5. Sm4Walk'
      BY <2>1 DEF Sm4RInv, Sm4Walk
    <2> QED
      BY <2>4, <2>5
  <1>5. CASE UNCHANGED Sm4!vars
    BY <1>5, <1>k DEF Sm4!vars, Sm4RInv, Sm4Keys, Sm4Walk
  <1> QED
    BY <1>1, <1>2, <1>3, <1>4, <1>5 DEF Sm4!Next

\* What is put out so far.
Sm4Put == [i \in 1 .. sm4done |-> sm4mem[sm4dst + i - 1]]

\* A step that takes no blocks is not seen.
LEMMA Sm4Unseen ==
  ASSUME sm4mode' = sm4mode, sm4done' = sm4done, Sm4Put' = Sm4Put, Sm4!WalkIv' = Sm4!WalkIv
  PROVE  UNCHANGED Sm4!Abstract!vars
  <1>1. Sm4!AbstractMode' = Sm4!AbstractMode
    BY DEF Sm4!AbstractMode
  <1>2. [r \in 0 .. (Sm4Rounds - 1) |-> Sm4!RoundKey(r)]' = [r \in 0 .. (Sm4Rounds - 1) |-> Sm4!RoundKey(r)]
    BY DEF Sm4!RoundKey
  <1>3. [i \in 1 .. MaxBlocks |-> Sm4!Input(i)]' = [i \in 1 .. MaxBlocks |-> Sm4!Input(i)]
    BY DEF Sm4!Input, Sm4!Atom
  <1> QED
    BY <1>1, <1>2, <1>3 DEF Sm4!Abstract!vars, Sm4Put

\* What is put out stays.
LEMMA Sm4SameOut ==
  ASSUME sm4dst' = sm4dst, sm4done' = sm4done,
         \A i \in 1 .. sm4done : sm4mem'[sm4dst + i - 1] = sm4mem[sm4dst + i - 1]
  PROVE  Sm4Put' = Sm4Put
  BY DEF Sm4Put

\* Every step is one of the mode of operation, or not seen.
LEMMA Sm4StepImplements ==
  ASSUME Sm4RInv, [Sm4!Next]_Sm4!vars
  PROVE  [Sm4!Abstract!Process]_Sm4!Abstract!vars
  <1>0. MaxBlocks \in Nat
    BY SizesAssumption
  <1>1. CASE Sm4!EndOfBlocks
    <2>1. /\ UNCHANGED <<sm4mode, sm4dst, sm4done>>
          /\ walk_iv' = <<"iv">> /\ sm4iv' = Sm4!WalkIv
          /\ sm4mem' = sm4mem \/ \E x : sm4mem' = [sm4mem EXCEPT ![Sm4!Out(0)] = x]
      BY <1>1 DEF Sm4!EndOfBlocks
    <2>2. Sm4!WalkIv' = Sm4!WalkIv
      BY <2>1, WalkAtIv
    <2>3. \A i \in 1 .. sm4done : sm4dst + i - 1 # Sm4!Out(0)
      BY <1>0 DEF Sm4!Out, Sm4RInv, Sm4IInv, Sm4Types
    <2>4. \A i \in 1 .. sm4done : sm4mem'[sm4dst + i - 1] = sm4mem[sm4dst + i - 1]
      <3> SUFFICES ASSUME NEW i \in 1 .. sm4done
                   PROVE  sm4mem'[sm4dst + i - 1] = sm4mem[sm4dst + i - 1]
        OBVIOUS
      <3>1. sm4dst + i - 1 \in 0 .. (2 * MaxBlocks)
        BY <1>0 DEF Sm4RInv, Sm4IInv, Sm4Types
      <3>2. sm4mem = [a \in 0 .. (2 * MaxBlocks) |-> sm4mem[a]]
        BY DEF Sm4RInv, Sm4IInv, Sm4Mem
      <3>3. DOMAIN sm4mem = 0 .. (2 * MaxBlocks)
        BY <3>2
      <3> QED
        BY <2>1, <2>3, <3>1, <3>3
    <2> QED
      BY <2>1, <2>2, <2>4, Sm4SameOut, Sm4Unseen
  <1>2. CASE Sm4!Turn /\ ~ Sm4!EndOfBlocks
    <2>1. PICK n, ys, cs : Sm4Turned(n, ys, cs)
      BY <1>2, TurnTurned
    <2>2. Sm4!Abstract!Process
      BY <2>1, Sm4Process DEF Sm4RInv
    <2> QED
      BY <2>2
  <1>3. ASSUME NEW n \in Sm4Calls, Sm4!Call(n) PROVE UNCHANGED Sm4!Abstract!vars
    <2>1. /\ UNCHANGED <<sm4mode, sm4dst, sm4mem, sm4iv, sm4done>>
          /\ walk_iv' = <<"iv">> /\ sm4pc = "idle"
      BY <1>3 DEF Sm4!Call
    <2>2. walk_iv = <<"iv">>
      BY <2>1 DEF Sm4RInv, Sm4Walk
    <2>3. Sm4!WalkIv' = Sm4!WalkIv
      BY <2>1, <2>2, WalkAtIv
    <2> QED
      BY <2>1, <2>3, Sm4SameOut, Sm4Unseen
  <1>4. CASE Sm4!SetKey
    <2>1. UNCHANGED <<sm4mode, sm4dst, sm4mem, sm4iv, walk_iv, sm4done>> /\ sm4pc = "unkeyed"
      BY <1>4 DEF Sm4!SetKey
    <2>2. walk_iv = <<"iv">>
      BY <2>1 DEF Sm4RInv, Sm4Walk
    <2>3. Sm4!WalkIv' = Sm4!WalkIv
      BY <2>1, <2>2, WalkAtIv
    <2> QED
      BY <2>1, <2>3, Sm4SameOut, Sm4Unseen
  <1>5. CASE UNCHANGED Sm4!vars
    <2>1. UNCHANGED <<sm4mode, sm4dst, sm4mem, sm4iv, walk_iv, keystream, sm4done>>
      BY <1>5 DEF Sm4!vars
    <2>2. Sm4!WalkIv' = Sm4!WalkIv
      BY <2>1 DEF Sm4!WalkIv
    <2> QED
      BY <2>1, <2>2, Sm4SameOut, Sm4Unseen
  <1> QED
    BY <1>1, <1>2, <1>3, <1>4, <1>5 DEF Sm4!Next

\* And so is the start.
LEMMA Sm4StartImplements == Sm4!Init => Sm4!Abstract!Init /\ Sm4RInv
  <1> SUFFICES ASSUME Sm4!Init PROVE Sm4!Abstract!Init /\ Sm4RInv
    OBVIOUS
  <1>1. sm4done = 0 /\ walk_iv = <<"iv">> /\ sm4pc = "unkeyed"
    BY DEF Sm4!Init
  <1>2. Sm4!Abstract!Init
    BY <1>1 DEF Sm4!Abstract!Init
  <1>3. Sm4Keys /\ Sm4Walk
    BY <1>1 DEF Sm4Keys, Sm4Walk
  <1> QED
    BY <1>2, <1>3, Sm4Start DEF Sm4RInv

\* The steps of the run, as steps of Sm4Modes.
LEMMA Sm4StepOfRun ==
  [CiphersNext]_<<which, vars, contextVars, sm4Vars, sm3Vars>> => [Sm4!Next]_Sm4!vars
  <1> SUFFICES ASSUME [CiphersNext]_<<which, vars, contextVars, sm4Vars, sm3Vars>>
               PROVE  [Sm4!Next]_Sm4!vars
    OBVIOUS
  <1>1. CASE Sm4!Next
    BY <1>1
  <1>2. CASE UNCHANGED sm4Vars
    BY <1>2 DEF sm4Vars, Sm4!vars
  <1> QED
    BY <1>1, <1>2 DEF CiphersNext

\* The loops of sm4_core.c, of eight blocks, four, the rest and one,
\* in place or not, over any number of calls, put out what ECB, CBC, CFB and
\* OFB say, and the IV goes on where the last call stopped.
THEOREM Sm4ModeImplemented == CiphersSpec => ImplementsSm4Mode
  <1>1. CiphersInit => Sm4!Abstract!Init /\ Sm4RInv
    BY Sm4StartImplements DEF CiphersInit
  <1>2. Sm4RInv /\ [CiphersNext]_<<which, vars, contextVars, sm4Vars, sm3Vars>> => Sm4RInv'
    <2> SUFFICES ASSUME Sm4RInv, [Sm4!Next]_Sm4!vars PROVE Sm4RInv'
      BY Sm4StepOfRun
    <2> QED
      BY Sm4Next, Sm4WalkNext DEF Sm4RInv
  <1>3. Sm4RInv /\ [CiphersNext]_<<which, vars, contextVars, sm4Vars, sm3Vars>>
          => [Sm4!Abstract!Process]_Sm4!Abstract!vars
    BY Sm4StepOfRun, Sm4StepImplements
  <1> QED
    BY <1>1, <1>2, <1>3, PTL DEF CiphersSpec, ImplementsSm4Mode, Sm4!ImplementsMode, Sm4!Abstract!Spec

-----------------------------------------------------------------------------
(* The rounds of AES.                                                      *)

\* The tests on rounds in the code, with its three values.
LEMMA RoundsAre == BulkTypes => LastKey(rounds) = rounds /\ LastKeyVec8(rounds) = rounds
                               /\ rounds \in {10, 12, 14}
  BY SizesAssumption DEF BulkTypes, LastKey, LastKeyVec8

\* What the rounds before the last one make of a block.
Inner(x) == InnerEnc(Xor(x, key0), keyschenc, rounds)
\* The same of the inverse cipher.
InvInner(x) == InnerDec(Xor(x, keyschdec[0]), keyschdec, rounds)

\* The cipher is that of FIPS 197.
LEMMA EncIs ==
  ASSUME BulkTypes
  PROVE  /\ \A x : Enc(x) = AesEncLast(Inner(x), keylast)
         /\ \A x : Fips197Cipher(rounds, x) = Enc(x)
  <1>1. LastKey(rounds) = rounds
    BY RoundsAre
  <1>2. \A x : Enc(x) = AesEncLast(Inner(x), keylast)
    BY <1>1 DEF Enc, DoEnc, Inner, key0, keylast
  <1>3. \A x : Fips197Cipher(rounds, x) = AesEncLast(Inner(x), keylast)
    BY DEF Fips197Cipher, Inner, InnerEnc, keylast
  <1> QED
    BY <1>2, <1>3

\* The last round, with a block folded into it.
LEMMA LastRound ==
  /\ \A x, k, s : AesEncLast(x, Xor(s, k)) = Xor(AesEncLast(x, k), s)
  /\ \A x, k, s : AesDecLast(x, Xor(s, k)) = Xor(AesDecLast(x, k), s)
  BY XorComm, XorAssoc DEF AesEncLast, AesDecLast

\* A set of blocks: sets of pairs of a term and the number of its MixColumns,
\* where the block in the result of a SubShift is another one.
BlockSet(S) == \A x \in S : \A e \in x :
  /\ e = <<e[1], e[2]>> /\ e[2] \in Int
  /\ e[1][1] = "sub" => e[1][2] \in S

\* A block is in such a set.
IsBlock(x) == \E S : BlockSet(S) /\ x \in S

\* The terms of a block are pairs.
LEMMA BlockPairs ==
  ASSUME NEW x, IsBlock(x), NEW e \in x
  PROVE  e = <<e[1], e[2]>> /\ e[2] \in Int
  BY DEF IsBlock, BlockSet

\* A block whose terms are those of S, but for their MixColumns.
LEMMA BlockOf ==
  ASSUME NEW S, BlockSet(S), NEW x,
         \A e \in x : /\ e = <<e[1], e[2]>> /\ e[2] \in Int
                      /\ e[1][1] = "sub" => e[1][2] \in S
  PROVE  IsBlock(x)
  <1> DEFINE T == S \cup {x}
  <1>1. BlockSet(T)
    BY DEF BlockSet
  <1> QED
    BY <1>1 DEF IsBlock

\* Sums of blocks are blocks,
LEMMA BlockXor ==
  ASSUME NEW a, NEW b, IsBlock(a), IsBlock(b)
  PROVE  IsBlock(Xor(a, b))
  <1>1. PICK S : BlockSet(S) /\ a \in S
    BY DEF IsBlock
  <1>2. PICK T : BlockSet(T) /\ b \in T
    BY DEF IsBlock
  <1>3. BlockSet(S \cup T)
    BY <1>1, <1>2 DEF BlockSet
  <1>4. \A e \in Xor(a, b) : /\ e = <<e[1], e[2]>> /\ e[2] \in Int
                             /\ e[1][1] = "sub" => e[1][2] \in S \cup T
    BY <1>1, <1>2 DEF BlockSet, Xor
  <1> QED
    BY ONLY <1>3, <1>4, BlockOf

\* so are the results of MixColumns,
LEMMA BlockMixed ==
  ASSUME NEW x, IsBlock(x), NEW m \in Int
  PROVE  IsBlock(Mixed(x, m))
  <1>1. PICK S : BlockSet(S) /\ x \in S
    BY DEF IsBlock
  <1>2. ASSUME NEW e \in Mixed(x, m)
        PROVE  e = <<e[1], e[2]>> /\ e[2] \in Int /\ (e[1][1] = "sub" => e[1][2] \in S)
    <2>1. PICK d \in x : e = <<d[1], d[2] + m>>
      BY DEF Mixed
    <2>2. d[2] \in Int /\ (d[1][1] = "sub" => d[1][2] \in S)
      BY <1>1 DEF BlockSet
    <2> QED
      BY <2>1, <2>2
  <1> QED
    BY ONLY <1>1, <1>2, BlockOf

\* A block of one term that is not the result of SubShift.
LEMMA BlockAtom ==
  ASSUME NEW t, t[1] # "sub"
  PROVE  IsBlock({<<t, 0>>})
  <1>1. BlockSet({})
    BY DEF BlockSet
  <1>2. \A e \in {<<t, 0>>} : /\ e = <<e[1], e[2]>> /\ e[2] \in Int
                              /\ e[1][1] = "sub" => e[1][2] \in {}
    OBVIOUS
  <1> QED
    BY ONLY <1>1, <1>2, BlockOf

\* what SubShift makes of one,
LEMMA BlockSub ==
  ASSUME NEW x, IsBlock(x)
  PROVE  IsBlock(SubShift(x))
  <1>1. PICK S : BlockSet(S) /\ x \in S
    BY DEF IsBlock
  <1>2. \A e \in SubShift(x) : /\ e = <<e[1], e[2]>> /\ e[2] \in Int
                               /\ e[1][1] = "sub" => e[1][2] \in S
    BY <1>1 DEF SubShift
  <1> QED
    BY ONLY <1>1, <1>2, BlockOf

\* and what InvSubShift does.
LEMMA BlockInvSub ==
  ASSUME NEW x, IsBlock(x)
  PROVE  IsBlock(InvSubShift(x))
  <1>1. CASE \E e \in x : x = {e} /\ e[1][1] = "sub" /\ e[2] = 0
    <2>1. PICK S : BlockSet(S) /\ x \in S
      BY DEF IsBlock
    <2>2. PICK e \in x : x = {e} /\ e[1][1] = "sub"
      BY <1>1
    <2>3. InvSubShift(x) = e[1][2]
      BY <1>1, <2>2 DEF InvSubShift
    <2>4. e[1][2] \in S
      BY <2>1, <2>2 DEF BlockSet
    <2> QED
      BY <2>1, <2>3, <2>4 DEF IsBlock
  <1>2. CASE ~ \E e \in x : x = {e} /\ e[1][1] = "sub" /\ e[2] = 0
    <2>1. InvSubShift(x) = {<<<<"invsub", x>>, 0>>}
      BY <1>2 DEF InvSubShift
    <2>2. <<"invsub", x>>[1] # "sub"
      OBVIOUS
    <2> QED
      BY <2>1, <2>2, BlockAtom
  <1> QED
    BY <1>1, <1>2

\* MixColumns is linear.
LEMMA MixedXor ==
  ASSUME NEW a, NEW b, IsBlock(a), IsBlock(b)
  PROVE  Mixed(Xor(a, b), -1) = Xor(Mixed(a, -1), Mixed(b, -1))
  <1>1. \A d, e : d \in a \cup b /\ e \in a \cup b
           /\ <<d[1], d[2] + (-1)>> = <<e[1], e[2] + (-1)>> => d = e
    <2> SUFFICES ASSUME NEW d \in a \cup b, NEW e \in a \cup b,
                        <<d[1], d[2] + (-1)>> = <<e[1], e[2] + (-1)>>
                 PROVE  d = e
      OBVIOUS
    <2>1. d = <<d[1], d[2]>> /\ e = <<e[1], e[2]>> /\ d[2] \in Int /\ e[2] \in Int
      BY BlockPairs
    <2>2. d[1] = e[1] /\ d[2] + (-1) = e[2] + (-1)
      OBVIOUS
    <2>3. d[2] = e[2]
      BY <2>1, <2>2
    <2> QED
      BY <2>1, <2>2, <2>3
  <1> DEFINE M(e) == <<e[1], e[2] + (-1)>>
  <1>2. \A x : Mixed(x, -1) = {M(e) : e \in x}
    BY DEF Mixed
  <1>3. \A d, e : d \in a \cup b /\ e \in a \cup b /\ M(d) = M(e) => d = e
    BY <1>1
  <1> HIDE DEF M
  <1> QED
    BY <1>2, <1>3 DEF Xor

\* Keys, inputs and tweaks are blocks.
LEMMA BlockAtoms ==
  /\ \A r \in 0 .. 14 : IsBlock(keyschenc[r])
  /\ \A i : IsBlock(Input(i)) /\ IsBlock(TweakBlock(i))
  <1>1. \A t : t[1] # "sub" => IsBlock({<<t, 0>>})
    BY BlockAtom
  <1>2. \A r \in 0 .. 14 : IsBlock(keyschenc[r])
    <2> SUFFICES ASSUME NEW r \in 0 .. 14 PROVE IsBlock(keyschenc[r])
      OBVIOUS
    <2>1. keyschenc[r] = {<<<<"key", r>>, 0>>}
      BY DEF keyschenc, Atom
    <2> QED
      BY <1>1, <2>1
  <1>3. \A i : IsBlock(Input(i)) /\ IsBlock(TweakBlock(i))
    BY <1>1 DEF Input, TweakBlock, Atom
  <1> QED
    BY <1>2, <1>3

\* A turn of the second loop of the key schedule of eight words,
KeyTurn256(p, n, rcon) ==
  LET a == Expand256A(p[2 * n - 1], p[2 * n], rcon)
  IN  p \o <<a, Expand256B(a, p[2 * n])>>

\* and what is done again and again: rounds, and turns of the key schedules.
Stage(kind, keys, p, n) ==
  IF kind = "enc" THEN AesEnc(p, keys[n])
  ELSE IF kind = "dec" THEN AesDec(p, keys[n])
  ELSE IF kind = "128" THEN Expand128(p, keys[n])
  ELSE IF kind = "192" THEN Store192(p.ks, p.k, keys[n])
  ELSE KeyTurn256(p, n, keys[n])

\* The function that a recursive definition of them chooses,
Stages(S, kind, keys, first) ==
  CHOOSE f : f = [n \in S |-> IF n = 0 THEN first ELSE Stage(kind, keys, f[n - 1], n)]

\* and what it should be.
Staged(f, kind, keys, first, n) ==
  /\ Upto(f, n) /\ f[0] = first
  /\ \A i \in 1 .. n : f[i] = Stage(kind, keys, f[i - 1], i)

\* There are stages of any number,
LEMMA StagedExist ==
  ASSUME NEW kind, NEW keys, NEW first
  PROVE  \A n \in Nat : \E f : Staged(f, kind, keys, first, n)
  <1> DEFINE Good == {n \in Nat : \E f : Staged(f, kind, keys, first, n)}
             T(p, n) == Stage(kind, keys, p, n)
             Is(f, n) == /\ Upto(f, n) /\ f[0] = first
                         /\ \A i \in 1 .. n : f[i] = T(f[i - 1], i)
  <1>0. \A f, n : Staged(f, kind, keys, first, n) <=> Is(f, n)
    BY DEF Staged
  <1> HIDE DEF T
  <1>1. 0 \in Good
    <2> DEFINE f == [r \in 0 .. 0 |-> first]
    <2>1. Is(f, 0)
      BY DEF Upto
    <2> HIDE DEF Is
    <2> QED
      BY <1>0, <2>1
  <1>2. \A n \in Nat : n \in Good => n + 1 \in Good
    <2> SUFFICES ASSUME NEW n \in Nat, n \in Good PROVE n + 1 \in Good
      OBVIOUS
    <2>1. PICK f : Is(f, n)
      BY <1>0
    <2> DEFINE g == [r \in 0 .. (n + 1) |-> IF r = n + 1 THEN T(f[n], n + 1) ELSE f[r]]
    <2>2. Upto(g, n + 1) /\ g[0] = first
      BY <2>1 DEF Upto
    <2>3. ASSUME NEW r \in 1 .. (n + 1) PROVE g[r] = T(g[r - 1], r)
      <3>0. r \in 0 .. (n + 1) /\ r - 1 \in 0 .. (n + 1) /\ r - 1 # n + 1
        OBVIOUS
      <3>1. CASE r = n + 1
        <4>1. r - 1 = n
          BY <3>1
        <4>2. g[r] = T(f[n], n + 1)
          BY <3>0, <3>1
        <4>3. g[r - 1] = f[n]
          BY <3>0, <4>1
        <4> QED
          BY ONLY <4>2, <4>3, <3>1
      <3>2. CASE r # n + 1
        <4>1. r \in 1 .. n
          BY <3>2
        <4>2. f[r] = T(f[r - 1], r)
          BY <4>1, <2>1
        <4>3. g[r] = f[r] /\ g[r - 1] = f[r - 1]
          BY <3>0, <3>2
        <4> QED
          BY ONLY <4>2, <4>3
      <3> QED
        BY <3>1, <3>2
    <2> HIDE DEF g
    <2>4. Is(g, n + 1)
      BY <2>2, <2>3
    <2>5. Staged(g, kind, keys, first, n + 1)
      BY <1>0, <2>4
    <2> QED
      BY <2>5
  <1> HIDE DEF Good
  <1>3. \A n \in Nat : n \in Good
    BY ONLY <1>1, <1>2, NatInSteps
  <1> QED
    BY <1>3 DEF Good

\* and Stages takes them.
LEMMA StagesAre ==
  ASSUME NEW n \in Nat, NEW kind, NEW keys, NEW first
  PROVE  Staged(Stages(0 .. n, kind, keys, first), kind, keys, first, n)
  <1> DEFINE T(p, i) == Stage(kind, keys, p, i)
             Rec(f) == f = [i \in 0 .. n |-> IF i = 0 THEN first ELSE T(f[i - 1], i)]
  <1>0. \A f : Staged(f, kind, keys, first, n)
                 <=> /\ Upto(f, n) /\ f[0] = first
                     /\ \A i \in 1 .. n : f[i] = T(f[i - 1], i)
    BY DEF Staged
  <1>1. Stages(0 .. n, kind, keys, first) = CHOOSE f : Rec(f)
    BY DEF Stages
  <1> HIDE DEF T
  <1>2. \A f : Staged(f, kind, keys, first, n) => Rec(f)
    <2> SUFFICES ASSUME NEW f, Upto(f, n), f[0] = first, \A i \in 1 .. n : f[i] = T(f[i - 1], i)
                 PROVE  Rec(f)
      BY <1>0
    <2>1. \A i \in 0 .. n : f[i] = IF i = 0 THEN first ELSE T(f[i - 1], i)
      OBVIOUS
    <2>2. [i \in 0 .. n |-> f[i]] = [i \in 0 .. n |-> IF i = 0 THEN first ELSE T(f[i - 1], i)]
      BY ONLY <2>1
    <2> QED
      BY ONLY <2>2, Upto(f, n), Zenon DEF Upto
  <1>3. \A f : Rec(f) => Staged(f, kind, keys, first, n)
    <2> SUFFICES ASSUME NEW f, Rec(f)
                 PROVE  /\ Upto(f, n) /\ f[0] = first
                        /\ \A i \in 1 .. n : f[i] = T(f[i - 1], i)
      BY <1>0
    <2>1. Upto(f, n) /\ f[0] = first
      BY DEF Upto
    <2>2. \A i \in 1 .. n : f[i] = T(f[i - 1], i)
      OBVIOUS
    <2> QED
      BY <2>1, <2>2
  <1>4. \E f : Staged(f, kind, keys, first, n)
    BY StagedExist
  <1>5. \E f : Rec(f)
    BY <1>2, <1>4
  <1>6. Rec(CHOOSE f : Rec(f))
    <2> HIDE DEF Rec
    <2> QED BY <1>5
  <1> QED
    <2> HIDE DEF Rec
    <2> QED BY <1>1, <1>3, <1>6

\* f does n rounds of decryption, from x.
Rounds(f, x, keys, n) ==
  Upto(f, n) /\ f[0] = x /\ \A r \in 1 .. n : f[r] = AesDec(f[r - 1], keys[r])

\* Which is what InnerDec does.
LEMMA InnerDecIs ==
  ASSUME NEW x, NEW keys, NEW n \in Nat
  PROVE  \E f : Rounds(f, x, keys, n) /\ InnerDec(x, keys, n + 1) = f[n]
  <1> DEFINE f == Stages(0 .. n, "dec", keys, x)
  <1>1. InnerDec(x, keys, n + 1) = f[n]
    <2>1. InnerDec(x, keys, n + 1) = Stages(0 .. ((n + 1) - 1), "dec", keys, x)[(n + 1) - 1]
      BY DEF InnerDec, Stages, Stage
    <2>2. (n + 1) - 1 = n
      OBVIOUS
    <2> QED
      BY ONLY <2>1, <2>2
  <1>2. Staged(f, "dec", keys, x, n)
    BY StagesAre
  <1> HIDE DEF f
  <1>3. Rounds(f, x, keys, n)
    BY <1>2 DEF Rounds, Staged, Stage
  <1> QED
    BY <1>1, <1>3

\* The keys are those that do_aesni_prepare_decryption makes.
LEMMA DecKeysAre ==
  ASSUME NEW keys, NEW n \in {10, 12, 14}
  PROVE  /\ DecKeys(keys, n)[0] = keys[n]
         /\ DecKeys(keys, n)[n] = keys[0]
         /\ \A r \in 1 .. (n - 1) : DecKeys(keys, n)[r] = Mixed(keys[n - r], -1)
  BY DEF DecKeys, AesImc

\* Blocks stay blocks, and so the keys can be added before MixColumns is
\* undone, as FIPS 197 does it, or after.
LEMMA RoundsBlocks ==
  ASSUME NEW keys, NEW n \in {10, 12, 14}, \A r \in 0 .. n : IsBlock(keys[r]),
         NEW x, IsBlock(x), NEW f, Rounds(f, x, DecKeys(keys, n), n - 1)
  PROVE  /\ \A r \in 0 .. (n - 1) : IsBlock(f[r])
         /\ \A r \in 1 .. (n - 1) :
              f[r] = Mixed(Xor(InvSubShift(f[r - 1]), keys[n - r]), -1)
  <1>s. ASSUME NEW r \in 1 .. (n - 1), IsBlock(f[r - 1])
        PROVE  IsBlock(f[r]) /\ f[r] = Mixed(Xor(InvSubShift(f[r - 1]), keys[n - r]), -1)
    <2>0. DecKeys(keys, n)[r] = Mixed(keys[n - r], -1)
      BY DecKeysAre
    <2>1. f[r] = Xor(Mixed(InvSubShift(f[r - 1]), -1), Mixed(keys[n - r], -1))
      BY <2>0 DEF Rounds, AesDec
    <2>2. n - r \in 0 .. n
      OBVIOUS
    <2>3. IsBlock(keys[n - r])
      BY <2>2
    <2>4. IsBlock(InvSubShift(f[r - 1]))
      BY <1>s, BlockInvSub
    <2>5. Mixed(Xor(InvSubShift(f[r - 1]), keys[n - r]), -1)
            = Xor(Mixed(InvSubShift(f[r - 1]), -1), Mixed(keys[n - r], -1))
      BY ONLY <2>3, <2>4, MixedXor
    <2>6. IsBlock(Mixed(InvSubShift(f[r - 1]), -1)) /\ IsBlock(Mixed(keys[n - r], -1))
      BY ONLY <2>3, <2>4, BlockMixed, -1 \in Int
    <2>7. IsBlock(f[r])
      BY ONLY <2>1, <2>6, BlockXor
    <2> QED
      BY <2>1, <2>5, <2>7
  <1> DEFINE Good == {r \in Nat : r <= n - 1 => IsBlock(f[r])}
  <1>1. 0 \in Good
    BY DEF Rounds
  <1>2. \A r \in Nat : r \in Good => r + 1 \in Good
    <2> SUFFICES ASSUME NEW r \in Nat, r <= n - 1 => IsBlock(f[r]), r + 1 <= n - 1
                 PROVE  IsBlock(f[r + 1])
      OBVIOUS
    <2>1. r + 1 \in 1 .. (n - 1) /\ (r + 1) - 1 = r /\ r <= n - 1
      OBVIOUS
    <2>2. IsBlock(f[(r + 1) - 1])
      BY <2>1
    <2> QED
      BY ONLY <2>1, <2>2, <1>s
  <1> HIDE DEF Good
  <1>3. \A r \in Nat : r \in Good
    BY ONLY <1>1, <1>2, NatInSteps
  <1>4. \A r \in 0 .. (n - 1) : IsBlock(f[r])
    BY <1>3 DEF Good
  <1>5. \A r \in 1 .. (n - 1) : r - 1 \in 0 .. (n - 1)
    OBVIOUS
  <1>6. \A r \in 1 .. (n - 1) : f[r] = Mixed(Xor(InvSubShift(f[r - 1]), keys[n - r]), -1)
    BY ONLY <1>4, <1>5, <1>s
  <1> QED
    BY <1>4, <1>6

\* The inverse cipher of FIPS 197, under n + 1 round keys.
Fips197Inv(keys, n, x) ==
  LET y[r \in 0 .. (n - 1)] ==
        IF r = 0 THEN Xor(x, keys[n])
        ELSE Mixed(Xor(InvSubShift(y[r - 1]), keys[n - r]), -1)
  IN  Xor(InvSubShift(y[n - 1]), keys[0])

\* The equivalent inverse cipher computes the same, and what it puts out is a
\* block.
LEMMA InvIs ==
  ASSUME NEW keys, NEW n \in {10, 12, 14}, \A r \in 0 .. n : IsBlock(keys[r]),
         NEW x, IsBlock(x)
  PROVE  /\ Fips197Inv(keys, n, x)
              = AesDecLast(InnerDec(Xor(x, keys[n]), DecKeys(keys, n), n), keys[0])
         /\ IsBlock(Fips197Inv(keys, n, x))
  <1> DEFINE x0 == Xor(x, keys[n])
             Rec(f) == f = [r \in 0 .. (n - 1) |->
                 IF r = 0 THEN x0 ELSE Mixed(Xor(InvSubShift(f[r - 1]), keys[n - r]), -1)]
             y == CHOOSE f : Rec(f)
  <1>0. n - 1 \in Nat /\ (n - 1) + 1 = n /\ n \in 0 .. n /\ 0 \in 0 .. n
    OBVIOUS
  <1>1. PICK g : Rounds(g, x0, DecKeys(keys, n), n - 1)
                 /\ InnerDec(x0, DecKeys(keys, n), n) = g[n - 1]
    <2>1. \A m \in Nat : \E f : Rounds(f, x0, DecKeys(keys, n), m)
                                /\ InnerDec(x0, DecKeys(keys, n), m + 1) = f[m]
      BY InnerDecIs
    <2> HIDE DEF x0
    <2> QED
      BY ONLY <2>1, <1>0
  <1>2. IsBlock(x0)
    <2>1. IsBlock(keys[n])
      BY <1>0
    <2> QED
      BY ONLY <2>1, IsBlock(x), BlockXor
  <1>3. Fips197Inv(keys, n, x) = Xor(InvSubShift(y[n - 1]), keys[0])
    BY DEF Fips197Inv
  <1> HIDE DEF x0
  <1>4. /\ \A r \in 0 .. (n - 1) : IsBlock(g[r])
        /\ \A r \in 1 .. (n - 1) : g[r] = Mixed(Xor(InvSubShift(g[r - 1]), keys[n - r]), -1)
    BY <1>1, <1>2, RoundsBlocks
  <1>5. g[0] = x0 /\ Upto(g, n - 1)
    BY <1>1 DEF Rounds
  <1>6. Rec(g)
    <2>1. \A r \in 0 .. (n - 1) : g[r] =
            IF r = 0 THEN x0 ELSE Mixed(Xor(InvSubShift(g[r - 1]), keys[n - r]), -1)
      BY ONLY <1>0, <1>4, <1>5
    <2>2. [r \in 0 .. (n - 1) |-> g[r]] = [r \in 0 .. (n - 1) |->
            IF r = 0 THEN x0 ELSE Mixed(Xor(InvSubShift(g[r - 1]), keys[n - r]), -1)]
      BY ONLY <2>1
    <2> QED
      BY ONLY <2>2, <1>5, Zenon DEF Upto
  <1>7. \A f : Rec(f) => f = g
    <2> SUFFICES ASSUME NEW f, Rec(f) PROVE f = g
      OBVIOUS
    <2>1. Upto(f, n - 1) /\ f[0] = g[0]
      BY ONLY Rec(f), <1>0, <1>5 DEF Upto
    <2>2. Alike(f, g, n - 1)
      <3> SUFFICES ASSUME NEW r \in 1 .. (n - 1), f[r - 1] = g[r - 1] PROVE f[r] = g[r]
        BY DEF Alike
      <3>1. f[r] = Mixed(Xor(InvSubShift(f[r - 1]), keys[n - r]), -1)
        BY ONLY Rec(f), <1>0, r \in 1 .. (n - 1)
      <3> QED
        BY ONLY <3>1, <1>4, r \in 1 .. (n - 1), f[r - 1] = g[r - 1]
    <2> QED
      BY ONLY <2>1, <2>2, <1>5, <1>0, SameByStep
  <1>8. y = g
    <2> HIDE DEF Rec
    <2> QED BY <1>6, <1>7
  <1> HIDE DEF y
  <1>9. Fips197Inv(keys, n, x) = Xor(InvSubShift(g[n - 1]), keys[0])
    BY ONLY <1>3, <1>8
  <1>10. IsBlock(Xor(InvSubShift(g[n - 1]), keys[0]))
    <2>1. IsBlock(g[n - 1]) /\ IsBlock(keys[0])
      BY <1>0, <1>4
    <2>2. IsBlock(InvSubShift(g[n - 1]))
      BY <2>1, BlockInvSub
    <2> QED
      BY <2>1, <2>2, BlockXor
  <1> QED
    BY <1>1, <1>9, <1>10 DEF AesDecLast, x0

\* What is known of the keys.
BulkKeys ==
  /\ prepared \in BOOLEAN
  /\ prepared => keyschdec = DecKeys(keyschenc, rounds)
  /\ pc = "loop" /\ mode \in DecModes => prepared

\* With the keys prepared, the inverse cipher is that of FIPS 197, on
\* blocks.
LEMMA DecIs ==
  ASSUME BulkTypes, BulkKeys, pc = "loop", mode \in DecModes
  PROVE  /\ \A x : Dec(x) = AesDecLast(InvInner(x), keyschdec[rounds])
         /\ \A x : IsBlock(x) => Fips197InvCipher(rounds, x) = Dec(x)
  <1>1. LastKey(rounds) = rounds /\ rounds \in {10, 12, 14} /\ keyschdec = DecKeys(keyschenc, rounds)
    BY RoundsAre DEF BulkKeys
  <1>2. \A x : Dec(x) = AesDecLast(InvInner(x), keyschdec[rounds])
    BY <1>1 DEF Dec, DoDec, InvInner
  <1>3. keyschdec[0] = keyschenc[rounds] /\ keyschdec[rounds] = key0
    BY <1>1, DecKeysAre DEF key0
  <1>k. \A r \in 0 .. rounds : IsBlock(keyschenc[r])
    BY <1>1, BlockAtoms
  <1>4. \A x : IsBlock(x) => Fips197InvCipher(rounds, x)
           = AesDecLast(InnerDec(Xor(x, keyschenc[rounds]), keyschdec, rounds), key0)
    <2> SUFFICES ASSUME NEW x, IsBlock(x)
                 PROVE  Fips197InvCipher(rounds, x)
                   = AesDecLast(InnerDec(Xor(x, keyschenc[rounds]), keyschdec, rounds), key0)
      OBVIOUS
    <2>1. rounds \in {10, 12, 14} /\ keyschdec = DecKeys(keyschenc, rounds)
      BY <1>1
    <2>2. Fips197Inv(keyschenc, rounds, x)
            = AesDecLast(InnerDec(Xor(x, keyschenc[rounds]), keyschdec, rounds), keyschenc[0])
      BY ONLY <1>k, <2>1, IsBlock(x), InvIs
    <2>3. Fips197InvCipher(rounds, x) = Fips197Inv(keyschenc, rounds, x)
      BY DEF Fips197InvCipher, Fips197Inv, key0
    <2> QED
      BY <2>2, <2>3 DEF key0
  <1> QED
    BY <1>2, <1>3, <1>4 DEF InvInner

-----------------------------------------------------------------------------
(* The vectors.                                                            *)

\* Four and eight blocks are encrypted and decrypted as one is.
LEMMA VecAre ==
  ASSUME NEW xs
  PROVE  \A i \in 1 .. 4 : EncVec4(xs)[i] = Enc(xs[i]) /\ DecVec4(xs)[i] = Dec(xs[i])
  BY DEF EncVec4, DecVec4, DoEncVec4, DoDecVec4, Enc, Dec

\* Eight blocks with key 0 added before and the last round after: each is
\* encrypted, and what was folded into its last round is added.
LEMMA Vec8Is ==
  ASSUME BulkTypes, NEW xs, DOMAIN xs = 1 .. 8, NEW s
  PROVE  \A i \in 1 .. 8 : LastEnc(EncOf(xs), s)[i] = Xor(Enc(xs[i]), s[i])
  <1>1. LastKeyVec8(rounds) = rounds
    BY RoundsAre
  <1>2. ASSUME NEW i \in 1 .. 8 PROVE LastEnc(EncOf(xs), s)[i] = Xor(Enc(xs[i]), s[i])
    <2>1. AddKey0(xs, keyschenc)[i] = Xor(xs[i], key0)
      BY DEF AddKey0, key0
    <2>2. EncOf(xs).xs[i] = Inner(xs[i]) /\ EncOf(xs).xmm0 = keylast
      BY <1>1, <2>1 DEF EncOf, EncVec8, DoEncVec8, Inner, keylast
    <2>3. LastEnc(EncOf(xs), s)[i] = AesEncLast(Inner(xs[i]), Xor(s[i], keylast))
      BY <2>2 DEF LastEnc
    <2>4. AesEncLast(Inner(xs[i]), Xor(s[i], keylast)) = Xor(AesEncLast(Inner(xs[i]), keylast), s[i])
      BY LastRound
    <2> QED
      BY <2>3, <2>4, EncIs
  <1> QED
    BY <1>2

\* The same for decryption.
LEMMA InvVec8Is ==
  ASSUME BulkTypes, BulkKeys, pc = "loop", mode \in DecModes, NEW xs, DOMAIN xs = 1 .. 8, NEW s
  PROVE  \A i \in 1 .. 8 : LastDec(DecOf(xs), s)[i] = Xor(Dec(xs[i]), s[i])
  <1>1. LastKeyVec8(rounds) = rounds
    BY RoundsAre
  <1>2. ASSUME NEW i \in 1 .. 8 PROVE LastDec(DecOf(xs), s)[i] = Xor(Dec(xs[i]), s[i])
    <2>1. AddKey0(xs, keyschdec)[i] = Xor(xs[i], keyschdec[0])
      BY DEF AddKey0
    <2>2. DecOf(xs).xs[i] = InvInner(xs[i]) /\ DecOf(xs).xmm0 = keyschdec[rounds]
      BY <1>1, <2>1 DEF DecOf, DecVec8, DoDecVec8, InvInner
    <2>3. LastDec(DecOf(xs), s)[i] = AesDecLast(InvInner(xs[i]), Xor(s[i], keyschdec[rounds]))
      BY <2>2 DEF LastDec
    <2>4. AesDecLast(InvInner(xs[i]), Xor(s[i], keyschdec[rounds]))
            = Xor(AesDecLast(InvInner(xs[i]), keyschdec[rounds]), s[i])
      BY LastRound
    <2> QED
      BY <2>3, <2>4, DecIs
  <1> QED
    BY <1>2

-----------------------------------------------------------------------------
(* Tweaks.                                                                 *)

\* A tweak doubled, as the bits of it that come out.
LEMMA DoubleBits ==
  ASSUME NEW t \in SUBSET (0 .. 127)
  PROVE  /\ Abstract!Double(t) \in SUBSET (0 .. 127)
         /\ \A b \in 8 .. 127 : b \in Abstract!Double(t) <=> b - 1 \in t
  <1>1. Abstract!Double(t) = Xor({b + 1 : b \in t \ {127}}, IF 127 \in t THEN {0, 1, 2, 7} ELSE {})
    BY SameXor DEF Abstract!Double
  <1>2. \A b \in 8 .. 127 : b \in {c + 1 : c \in t \ {127}} <=> b - 1 \in t
    <2> SUFFICES ASSUME NEW b \in 8 .. 127 PROVE b \in {c + 1 : c \in t \ {127}} <=> b - 1 \in t
      OBVIOUS
    <2>1. b - 1 \in t => b - 1 \in t \ {127} /\ (b - 1) + 1 = b
      OBVIOUS
    <2>2. \A c \in t \ {127} : c \in Int /\ (b = c + 1 => c = b - 1)
      OBVIOUS
    <2> QED
      BY <2>1, <2>2
  <1>3. {b + 1 : b \in t \ {127}} \in SUBSET (0 .. 127)
    OBVIOUS
  <1> QED
    BY <1>1, <1>2, <1>3 DEF Xor

\* One step of the shifted signs: when they are those of the tweak, it is
\* doubled.
LEMMA NextDoubles ==
  ASSUME NEW t \in SUBSET (0 .. 127), NEW x, 31 \in x <=> 127 \in t, 95 \in x <=> 63 \in t
  PROVE  NextTweak([t |-> t, x |-> x]) = [t |-> Abstract!Double(t), x |-> DoubleWords(x)]
  <1> DEFINE S == SignMask(x) \cap xts_gfmul_const
             C == (IF 127 \in t THEN {0, 1, 2, 7} ELSE {})
             D == (IF 63 \in t THEN {64} ELSE {})
  <1>1. \A b \in {0, 1, 2, 7} : b \in SignMask(x) <=> 127 \in t
    BY DEF SignMask
  <1>2. 64 \in SignMask(x) <=> 63 \in t
    BY DEF SignMask
  <1>3. S = C \cup D
    BY <1>1, <1>2 DEF xts_gfmul_const
  <1>4. {b + 1 : b \in t \ {127}} = DoubleHalves(t) \cup D
    <2>1. \A c \in t : c \in 0 .. 127 /\ (c % 64 # 63 <=> c # 63 /\ c # 127)
      OBVIOUS
    <2>2. DoubleHalves(t) = {b + 1 : b \in {c \in t : c # 63 /\ c # 127}}
      BY <2>1 DEF DoubleHalves
    <2> QED
      BY <2>2
  <1>5. ~ (64 \in DoubleHalves(t))
    BY DEF DoubleHalves
  <1> HIDE DEF S
  <1>6. Xor(DoubleHalves(t), S) = Xor(DoubleHalves(t) \cup D, C)
    BY <1>3, <1>5 DEF Xor
  <1>7. Abstract!Double(t) = Xor(DoubleHalves(t) \cup D, C)
    BY <1>4, SameXor DEF Abstract!Double
  <1> QED
    BY <1>6, <1>7 DEF NextTweak, S

\* The signs x are those of the tweaks for n more steps.
Signed(t, x, n) ==
  \A j \in 0 .. n : (31 - j \in x <=> 127 - j \in t) /\ (95 - j \in x <=> 63 - j \in t)

\* The signs that a turn begins with are those of 24 more steps,
LEMMA SignsAre ==
  ASSUME NEW t
  PROVE  Signed(t, Signs(t), 24)
  <1> SUFFICES ASSUME NEW j \in 0 .. 24
               PROVE  (31 - j \in Signs(t) <=> 127 - j \in t) /\ (95 - j \in Signs(t) <=> 63 - j \in t)
    BY DEF Signed
  <1> DEFINE from == <<3, 0, 1, 0>>
  <1>1. /\ 31 - j \in 0 .. 127 /\ (31 - j) \div 32 = 0 /\ (31 - j) % 32 = 31 - j
        /\ 95 - j \in 0 .. 127 /\ (95 - j) \div 32 = 2 /\ (95 - j) % 32 = 31 - j
    OBVIOUS
  <1>2. from[0 + 1] = 3 /\ from[2 + 1] = 1
    OBVIOUS
  <1>3. 31 - j \in Signs(t) <=> (32 * from[0 + 1]) + (31 - j) \in t
    BY <1>1 DEF Signs
  <1>4. 95 - j \in Signs(t) <=> (32 * from[2 + 1]) + (31 - j) \in t
    BY <1>1 DEF Signs
  <1>5. (32 * 3) + (31 - j) = 127 - j /\ (32 * 1) + (31 - j) = 63 - j
    OBVIOUS
  <1> HIDE DEF from
  <1> QED
    BY ONLY <1>2, <1>3, <1>4, <1>5

\* and shifted, those of the doubled tweak.
LEMMA SignedNext ==
  ASSUME NEW t \in SUBSET (0 .. 127), NEW x \in SUBSET (0 .. 127), NEW n \in 1 .. 24, Signed(t, x, n)
  PROVE  Signed(Abstract!Double(t), DoubleWords(x), n - 1) /\ DoubleWords(x) \in SUBSET (0 .. 127)
  <1>d. DoubleWords(x) \in SUBSET (0 .. 127)
    BY DEF DoubleWords
  <1> SUFFICES ASSUME NEW j \in 0 .. (n - 1)
               PROVE  /\ 31 - j \in DoubleWords(x) <=> 127 - j \in Abstract!Double(t)
                      /\ 95 - j \in DoubleWords(x) <=> 63 - j \in Abstract!Double(t)
    BY <1>d DEF Signed
  <1>1. /\ 127 - j \in 8 .. 127 /\ 63 - j \in 8 .. 127 /\ j + 1 \in 0 .. n
        /\ (127 - j) - 1 = 127 - (j + 1) /\ (63 - j) - 1 = 63 - (j + 1)
        /\ (31 - (j + 1)) % 32 # 31 /\ (95 - (j + 1)) % 32 # 31
        /\ (31 - (j + 1)) + 1 = 31 - j /\ (95 - (j + 1)) + 1 = 95 - j
    OBVIOUS
  <1>2. /\ 127 - j \in Abstract!Double(t) <=> 127 - (j + 1) \in t
        /\ 63 - j \in Abstract!Double(t) <=> 63 - (j + 1) \in t
    BY <1>1, DoubleBits
  <1>3. \A b \in 0 .. 127 : b % 32 # 31 => (b + 1 \in DoubleWords(x) <=> b \in x)
    BY DEF DoubleWords
  <1>4. 31 - (j + 1) \in 0 .. 127 /\ 95 - (j + 1) \in 0 .. 127
    OBVIOUS
  <1>5. /\ 31 - (j + 1) \in x <=> 127 - (j + 1) \in t
        /\ 95 - (j + 1) \in x <=> 63 - (j + 1) \in t
    BY <1>1 DEF Signed
  <1>6. /\ 31 - j \in DoubleWords(x) <=> 31 - (j + 1) \in x
        /\ 95 - j \in DoubleWords(x) <=> 95 - (j + 1) \in x
    BY ONLY <1>1, <1>3, <1>4
  <1> QED
    BY ONLY <1>2, <1>5, <1>6

\* f makes n tweaks after t.
TweakSteps(f, t, n) ==
  Upto(f, n) /\ f[0] = [t |-> t, x |-> Signs(t)] /\ \A k \in 1 .. n : f[k] = NextTweak(f[k - 1])

\* There are steps of any number,
LEMMA TweakStepsExist ==
  ASSUME NEW t
  PROVE  \A n \in Nat : \E f : TweakSteps(f, t, n)
  <1> DEFINE Good == {n \in Nat : \E f : TweakSteps(f, t, n)}
             first == [t |-> t, x |-> Signs(t)]
  <1>1. 0 \in Good
    <2> DEFINE f == [k \in 0 .. 0 |-> first]
    <2>1. TweakSteps(f, t, 0)
      BY DEF TweakSteps, Upto
    <2> QED
      BY <2>1
  <1>2. \A n \in Nat : n \in Good => n + 1 \in Good
    <2> SUFFICES ASSUME NEW n \in Nat, n \in Good PROVE n + 1 \in Good
      OBVIOUS
    <2>1. PICK f : TweakSteps(f, t, n)
      OBVIOUS
    <2> DEFINE g == [k \in 0 .. (n + 1) |-> IF k = n + 1 THEN NextTweak(f[n]) ELSE f[k]]
    <2>2. Upto(g, n + 1) /\ g[0] = first
      BY <2>1 DEF TweakSteps, Upto
    <2>3. ASSUME NEW k \in 1 .. (n + 1) PROVE g[k] = NextTweak(g[k - 1])
      <3>0. k \in 0 .. (n + 1) /\ k - 1 \in 0 .. (n + 1) /\ k - 1 # n + 1
        OBVIOUS
      <3>1. CASE k = n + 1
        <4>1. k - 1 = n
          BY <3>1
        <4>2. g[k] = NextTweak(f[n])
          BY <3>0, <3>1
        <4>3. g[k - 1] = f[n]
          BY <3>0, <4>1
        <4> QED
          BY ONLY <4>2, <4>3, <3>1
      <3>2. CASE k # n + 1
        <4>1. k \in 1 .. n
          BY <3>2
        <4>2. f[k] = NextTweak(f[k - 1])
          BY <4>1, <2>1 DEF TweakSteps
        <4>3. g[k] = f[k] /\ g[k - 1] = f[k - 1]
          BY <3>0, <3>2
        <4> QED
          BY ONLY <4>2, <4>3
      <3> QED
        BY <3>1, <3>2
    <2> HIDE DEF g
    <2>4. TweakSteps(g, t, n + 1)
      BY <2>2, <2>3 DEF TweakSteps
    <2> QED
      BY <2>4
  <1> HIDE DEF Good
  <1>3. \A n \in Nat : n \in Good
    BY ONLY <1>1, <1>2, NatInSteps
  <1> QED
    BY <1>3 DEF Good

\* and Tweaks takes them.
LEMMA TweaksSteps ==
  ASSUME NEW n \in Nat
  PROVE  \E f : TweakSteps(f, reg.x5, n) /\ Tweaks(n) = [k \in 0 .. n |-> f[k].t]
  <1> DEFINE first == [t |-> reg.x5, x |-> Signs(reg.x5)]
             Rec(f) == f = [k \in 0 .. n |-> IF k = 0 THEN first ELSE NextTweak(f[k - 1])]
             s == CHOOSE f : Rec(f)
  <1>0. PICK g : TweakSteps(g, reg.x5, n)
    BY TweakStepsExist
  <1>1. Tweaks(n) = [k \in 0 .. n |-> s[k].t]
    BY DEF Tweaks
  <1>5. g[0] = first
    BY <1>0 DEF TweakSteps
  <1> HIDE DEF first
  <1>2. Rec(g)
    <2>1. \A k \in 0 .. n : g[k] = IF k = 0 THEN first ELSE NextTweak(g[k - 1])
      BY <1>0, <1>5 DEF TweakSteps
    <2>2. [k \in 0 .. n |-> g[k]] = [k \in 0 .. n |-> IF k = 0 THEN first ELSE NextTweak(g[k - 1])]
      BY ONLY <2>1
    <2>3. Upto(g, n)
      BY <1>0 DEF TweakSteps
    <2> QED
      BY ONLY <2>2, <2>3, Zenon DEF Upto
  <1>3. \A f : Rec(f) => f = g
    <2> SUFFICES ASSUME NEW f, Rec(f) PROVE f = g
      OBVIOUS
    <2>1. Upto(f, n) /\ f[0] = g[0]
      BY ONLY Rec(f), <1>5, n \in Nat DEF Upto
    <2>2. Alike(f, g, n)
      <3> SUFFICES ASSUME NEW k \in 1 .. n, f[k - 1] = g[k - 1] PROVE f[k] = g[k]
        BY DEF Alike
      <3>1. f[k] = NextTweak(f[k - 1])
        BY ONLY Rec(f), n \in Nat, k \in 1 .. n
      <3>2. g[k] = NextTweak(g[k - 1])
        BY <1>0 DEF TweakSteps
      <3> QED
        BY ONLY <3>1, <3>2, f[k - 1] = g[k - 1]
    <2>3. Upto(g, n)
      BY <1>0 DEF TweakSteps
    <2> QED
      BY ONLY <2>1, <2>2, <2>3, n \in Nat, SameByStep
  <1>4. s = g
    <2> HIDE DEF Rec
    <2> QED BY <1>2, <1>3
  <1> HIDE DEF s
  <1> QED
    BY ONLY <1>0, <1>1, <1>4

\* The tweaks of a turn are the doubles of each other.
LEMMA TweaksAre ==
  ASSUME reg.x5 \in SUBSET (0 .. 127), NEW n \in 0 .. 24
  PROVE  /\ Tweaks(n)[0] = reg.x5
         /\ \A k \in 0 .. n : Tweaks(n)[k] \in SUBSET (0 .. 127)
         /\ \A k \in 1 .. n : Tweaks(n)[k] = Abstract!Double(Tweaks(n)[k - 1])
  <1>0. n \in Nat
    OBVIOUS
  <1>1. PICK f : TweakSteps(f, reg.x5, n) /\ Tweaks(n) = [k \in 0 .. n |-> f[k].t]
    BY <1>0, TweaksSteps
  <1> DEFINE Right(k) == \E t, x \in SUBSET (0 .. 127) : f[k] = [t |-> t, x |-> x] /\ Signed(t, x, 24 - k)
             Good == {k \in Nat : k <= n => Right(k)}
  <1>2. Right(0)
    <2>1. Signs(reg.x5) \in SUBSET (0 .. 127)
      BY DEF Signs
    <2>2. Signed(reg.x5, Signs(reg.x5), 24 - 0)
      BY SignsAre
    <2> QED
      BY <1>1, <2>1, <2>2 DEF TweakSteps
  <1>3. ASSUME NEW k \in Nat, k + 1 <= n, Right(k)
        PROVE  Right(k + 1) /\ f[k + 1].t = Abstract!Double(f[k].t)
    <2>1. PICK t, x \in SUBSET (0 .. 127) : f[k] = [t |-> t, x |-> x] /\ Signed(t, x, 24 - k)
      BY <1>3
    <2>2. k + 1 \in 1 .. n /\ (k + 1) - 1 = k /\ 24 - k \in 1 .. 24 /\ 0 \in 0 .. (24 - k)
          /\ (24 - k) - 1 = 24 - (k + 1)
      BY <1>3
    <2>3. f[k + 1] = NextTweak(f[k])
      BY <1>1, <2>2 DEF TweakSteps
    <2>4. (31 \in x <=> 127 \in t) /\ (95 \in x <=> 63 \in t)
      <3>1. (31 - 0 \in x <=> 127 - 0 \in t) /\ (95 - 0 \in x <=> 63 - 0 \in t)
        BY ONLY <2>1, <2>2 DEF Signed
      <3> QED
        BY <3>1
    <2>5. f[k + 1] = [t |-> Abstract!Double(t), x |-> DoubleWords(x)]
      BY <2>1, <2>3, <2>4, NextDoubles
    <2>6. Signed(Abstract!Double(t), DoubleWords(x), (24 - k) - 1) /\ DoubleWords(x) \in SUBSET (0 .. 127)
      BY <2>1, <2>2, SignedNext
    <2>7. Abstract!Double(t) \in SUBSET (0 .. 127)
      BY DoubleBits
    <2> QED
      BY <2>1, <2>2, <2>5, <2>6, <2>7
  <1> HIDE DEF Right
  <1>4. 0 \in Good
    BY <1>2
  <1>5. \A k \in Nat : k \in Good => k + 1 \in Good
    <2> SUFFICES ASSUME NEW k \in Nat, k <= n => Right(k), k + 1 <= n PROVE Right(k + 1)
      OBVIOUS
    <2> QED
      BY <1>3
  <1> HIDE DEF Good
  <1>6. \A k \in Nat : k \in Good
    BY ONLY <1>4, <1>5, NatInSteps
  <1>7. \A k \in 0 .. n : Right(k)
    BY <1>6 DEF Good
  <1>8. Tweaks(n)[0] = reg.x5
    BY <1>1 DEF TweakSteps
  <1>9. \A k \in 0 .. n : Tweaks(n)[k] \in SUBSET (0 .. 127)
    <2> SUFFICES ASSUME NEW k \in 0 .. n PROVE Tweaks(n)[k] \in SUBSET (0 .. 127)
      OBVIOUS
    <2>1. PICK t, x \in SUBSET (0 .. 127) : f[k] = [t |-> t, x |-> x] /\ Signed(t, x, 24 - k)
      BY <1>7 DEF Right
    <2>2. Tweaks(n)[k] = t
      BY <1>1, <2>1
    <2> QED
      BY <2>2
  <1>10. ASSUME NEW k \in 1 .. n PROVE Tweaks(n)[k] = Abstract!Double(Tweaks(n)[k - 1])
    <2>1. k - 1 \in Nat /\ (k - 1) + 1 = k /\ k - 1 \in 0 .. n /\ k \in 0 .. n
      OBVIOUS
    <2>2. f[(k - 1) + 1].t = Abstract!Double(f[k - 1].t)
      BY <2>1, <1>3, <1>7
    <2> QED
      BY <1>1, <2>1, <2>2
  <1> QED
    BY <1>8, <1>9, <1>10

-----------------------------------------------------------------------------
(* Counters.                                                               *)

\* A number and what is left of it.
LEMMA Remainder ==
  ASSUME NEW m \in Nat \ {0}, NEW a \in Nat
  PROVE  /\ a % m \in 0 .. (m - 1) /\ a \div m \in Nat /\ a = m * (a \div m) + (a % m)
         /\ a < m => a % m = a
  OBVIOUS

\* What is left of whole rows and a rest.
LEMMA RemainderOf ==
  ASSUME NEW m \in Nat \ {0}, NEW q \in Nat, NEW r \in 0 .. (m - 1)
  PROVE  (m * q + r) % m = r
  OBVIOUS

\* Rows of m numbers, p of them: what follows c in its row,
LEMMA InRow ==
  ASSUME NEW m \in Nat \ {0}, NEW p \in Nat, NEW c \in Nat, c < m * p, NEW k \in Nat, (c % m) + k < m
  PROVE  (c + k) % m = (c % m) + k /\ c + k < m * p
  <1> DEFINE q == c \div m
             r == c % m
  <1>1. q \in Nat /\ r \in 0 .. (m - 1) /\ c = m * q + r /\ r + k < m
    BY Remainder
  <1> HIDE DEF q, r
  <1>2. m * q \in Nat /\ m * p \in Nat
    BY <1>1
  <1>3. q < p
    <2> SUFFICES ASSUME p <= q PROVE FALSE
      BY <1>1
    <2>1. m * p <= m * q
      BY <1>1
    <2> QED
      BY <1>1, <1>2, <2>1
  <1>4. m * q + m <= m * p
    BY <1>1, <1>3
  <1>5. c + k = m * q + (r + k) /\ r + k \in 0 .. (m - 1)
    BY <1>1, <1>2
  <1>6. (c + k) % m = r + k
    BY <1>1, <1>5, RemainderOf
  <1> QED
    BY <1>1, <1>2, <1>4, <1>5, <1>6 DEF r

\* and in the next one.
LEMMA InNextRow ==
  ASSUME NEW m \in Nat \ {0}, NEW c \in Nat, NEW k \in Nat, (c % m) + k >= m, k <= m
  PROVE  (c + k) % m = (c % m) + k - m
  <1> DEFINE q == c \div m
             r == c % m
  <1>1. q \in Nat /\ r \in 0 .. (m - 1) /\ c = m * q + r /\ r + k >= m
    BY Remainder
  <1> HIDE DEF q, r
  <1>2. m * (q + 1) = m * q + m /\ m * q \in Nat
    BY <1>1
  <1>3. c + k = m * (q + 1) + (r + k - m) /\ r + k - m \in 0 .. (m - 1) /\ q + 1 \in Nat
    BY <1>1, <1>2
  <1>4. (c + k) % m = r + k - m
    BY <1>3, RemainderOf
  <1> QED
    BY <1>4 DEF r

\* How many counters there are.
Ctrs == LowSize * HighSize

\* The sizes of a counter.
LEMMA CtrSizes ==
  /\ LowSize \in Nat \ {0} /\ HighSize \in Nat \ {0} /\ ByteSize \in Nat \ {0}
  /\ Ctrs \in Nat \ {0} /\ 8 < ByteSize /\ 8 < LowSize /\ LowSize <= Ctrs
  /\ \E p \in Nat : Ctrs = ByteSize * p
  <1>1. /\ LowSize \in Nat \ {0} /\ HighSize \in Nat \ {0} /\ ByteSize \in Nat \ {0}
        /\ 8 < ByteSize /\ LowSize % ByteSize = 0
    BY SizesAssumption
  <1> DEFINE q == LowSize \div ByteSize
  <1>2. LowSize = ByteSize * q /\ q \in Nat
    BY <1>1, Remainder
  <1> HIDE DEF q
  <1>3. q # 0
    BY <1>1, <1>2
  <1>4. LowSize >= ByteSize
    BY <1>1, <1>2, <1>3
  <1>5. Ctrs \in Nat \ {0} /\ LowSize <= Ctrs
    BY <1>1 DEF Ctrs
  <1>6. Ctrs = ByteSize * (q * HighSize) /\ q * HighSize \in Nat
    BY <1>1, <1>2 DEF Ctrs
  <1> QED
    BY <1>1, <1>4, <1>5, <1>6

\* addb, when the last byte does not overflow.
LEMMA AddByteIs ==
  ASSUME NEW c \in 0 .. (Ctrs - 1), NEW k \in 0 .. 8, (c % ByteSize) + k < ByteSize
  PROVE  AddByte(c, k) = (c + k) % Ctrs
  <1>1. PICK p \in Nat : Ctrs = ByteSize * p
    BY CtrSizes
  <1>2. c \in Nat /\ c < ByteSize * p /\ k \in Nat /\ ByteSize \in Nat \ {0}
    BY <1>1, CtrSizes
  <1>3. (c + k) % ByteSize = (c % ByteSize) + k /\ c + k < ByteSize * p
    BY <1>2, InRow
  <1>4. c % ByteSize \in Int
    BY <1>2, Remainder
  <1>5. AddByte(c, k) = c + k
    BY <1>2, <1>3, <1>4 DEF AddByte
  <1>6. (c + k) % Ctrs = c + k
    <2>1. c + k \in Nat /\ c + k < Ctrs /\ Ctrs \in Nat \ {0}
      BY <1>1, <1>2, <1>3, CtrSizes
    <2> QED
      BY ONLY <2>1, Remainder
  <1> QED
    BY <1>5, <1>6

\* The 32-bit additions, without a carry and with one.
LEMMA AddLowIs ==
  ASSUME NEW c \in 0 .. (Ctrs - 1), NEW k \in 0 .. 8
  PROVE  /\ Low(c) + k < LowSize => AddLow(c, k) = (c + k) % Ctrs
         /\ Low(c) + k >= LowSize => AddHigh(AddLow(c, k)) = (c + k) % Ctrs
  <1>0. c \in Nat /\ c < LowSize * HighSize /\ k \in Nat /\ LowSize \in Nat \ {0} /\ HighSize \in Nat
        /\ k <= LowSize /\ Ctrs \in Nat \ {0}
    BY CtrSizes DEF Ctrs
  <1>1. c % LowSize \in Int
    BY <1>0, Remainder
  <1>2. CASE Low(c) + k < LowSize
    <2>1. (c + k) % LowSize = (c % LowSize) + k /\ c + k < LowSize * HighSize
      BY <1>0, <1>2, InRow DEF Low
    <2>2. AddLow(c, k) = c + k
      BY <1>0, <1>1, <2>1 DEF AddLow, Low
    <2>3. (c + k) % Ctrs = c + k
      <3>1. c + k \in Nat /\ c + k < Ctrs
        BY <1>0, <2>1 DEF Ctrs
      <3> QED
        BY ONLY <1>0, <3>1, Remainder
    <2> QED
      BY <1>0, <1>1, <1>2, <2>2, <2>3 DEF Low
  <1>3. CASE Low(c) + k >= LowSize
    <2>1. (c + k) % LowSize = (c % LowSize) + k - LowSize
      BY <1>0, <1>3, InNextRow DEF Low
    <2>2. AddLow(c, k) + LowSize = c + k
      BY <1>0, <1>1, <2>1 DEF AddLow, Low
    <2>3. AddHigh(AddLow(c, k)) = (c + k) % Ctrs
      BY <2>2 DEF AddHigh, Ctrs
    <2> QED
      BY <1>0, <1>1, <1>3, <2>3 DEF Low
  <1> QED
    BY <1>0, <1>1, <1>2, <1>3 DEF Low

\* The 32-bit additions with their carry are the addition of the mode.
LEMMA CarriedIs ==
  ASSUME reg.x5 \in 0 .. (Ctrs - 1), NEW n \in {4, 8}
  PROVE  \A k \in 0 .. n : Carried(n)[k] = (reg.x5 + k) % Ctrs
  <1> SUFFICES ASSUME NEW k \in 0 .. n PROVE Carried(n)[k] = (reg.x5 + k) % Ctrs
    OBVIOUS
  <1> DEFINE c == reg.x5
  <1>0. c \in Nat /\ k \in 0 .. 8 /\ LowSize \in Nat \ {0}
    BY CtrSizes
  <1>1. Low(c) \in Nat
    BY <1>0, Remainder DEF Low
  <1>2. Carried(n)[k] = IF Low(c) >= LowSize - n /\ k >= LowSize - Low(c)
                        THEN AddHigh(AddLow(c, k)) ELSE AddLow(c, k)
    BY DEF Carried
  <1>3. (Low(c) >= LowSize - n /\ k >= LowSize - Low(c)) <=> Low(c) + k >= LowSize
    BY <1>0, <1>1
  <1>4. c \in 0 .. (Ctrs - 1)
    OBVIOUS
  <1> HIDE DEF c
  <1>5. /\ Low(c) + k < LowSize => AddLow(c, k) = (c + k) % Ctrs
        /\ Low(c) + k >= LowSize => AddHigh(AddLow(c, k)) = (c + k) % Ctrs
    BY <1>0, <1>4, AddLowIs
  <1>6. Carried(n)[k] = (c + k) % Ctrs
    BY <1>0, <1>1, <1>2, <1>3, <1>5
  <1> QED
    BY <1>6 DEF c

\* The counters of a turn are the next ones.
LEMMA CountersAre ==
  ASSUME reg.x5 \in 0 .. (Ctrs - 1), iv = reg.x5
  PROVE  /\ \A k \in 0 .. 4 : Ctr4Counters.x[k] = (reg.x5 + k) % Ctrs
         /\ Ctr4Counters.ctr = (reg.x5 + 4) % Ctrs
         /\ \A k \in 0 .. 8 : Ctr8Counters.x[k] = (reg.x5 + k) % Ctrs
         /\ Ctr8Counters.ctr = (reg.x5 + 8) % Ctrs
  <1> DEFINE c == reg.x5
  <1>0. c \in 0 .. (Ctrs - 1) /\ c \in Nat /\ iv = c /\ ByteSize \in Nat \ {0}
    BY CtrSizes
  <1>1. c % ByteSize \in Nat
    BY <1>0, Remainder
  <1>2. \A k \in 0 .. 4 : Carried(4)[k] = (c + k) % Ctrs
    BY CarriedIs
  <1>3. \A k \in 0 .. 8 : Carried(8)[k] = (c + k) % Ctrs
    BY CarriedIs
  <1>4. Ctr4Counters = IF (c % ByteSize) + 4 < ByteSize
          THEN [x |-> [k \in 0 .. 4 |-> AddByte(c, k)], ctr |-> AddByte(c, 4)]
          ELSE [x |-> Carried(4), ctr |-> Carried(4)[4]]
    BY DEF Ctr4Counters
  <1>5. Ctr8Counters = IF (c % ByteSize) + 8 < ByteSize
          THEN [x |-> [k \in 0 .. 8 |-> AddByte(c, k)], ctr |-> AddByte(c, 8)]
          ELSE [x |-> Carried(8), ctr |-> Carried(8)[8]]
    BY DEF Ctr8Counters
  <1> HIDE DEF c
  <1>6. \A k \in 0 .. 8 : (c % ByteSize) + k < ByteSize => AddByte(c, k) = (c + k) % Ctrs
    BY <1>0, AddByteIs
  <1>7. /\ \A k \in 0 .. 4 : Ctr4Counters.x[k] = (c + k) % Ctrs
        /\ Ctr4Counters.ctr = (c + 4) % Ctrs
    <2>1. CASE (c % ByteSize) + 4 < ByteSize
      <3>1. \A k \in 0 .. 4 : k \in 0 .. 8 /\ (c % ByteSize) + k < ByteSize
        BY <2>1, <1>0, <1>1
      <3>2. \A k \in 0 .. 4 : AddByte(c, k) = (c + k) % Ctrs
        BY ONLY <3>1, <1>6
      <3> QED
        BY ONLY <3>2, <2>1, <1>4
    <2>2. CASE ~ ((c % ByteSize) + 4 < ByteSize)
      BY ONLY <2>2, <1>2, <1>4
    <2> QED
      BY <2>1, <2>2
  <1>8. /\ \A k \in 0 .. 8 : Ctr8Counters.x[k] = (c + k) % Ctrs
        /\ Ctr8Counters.ctr = (c + 8) % Ctrs
    <2>1. CASE (c % ByteSize) + 8 < ByteSize
      <3>1. \A k \in 0 .. 8 : (c % ByteSize) + k < ByteSize
        BY <2>1, <1>0, <1>1
      <3>2. \A k \in 0 .. 8 : AddByte(c, k) = (c + k) % Ctrs
        BY ONLY <3>1, <1>6
      <3> QED
        BY ONLY <3>2, <2>1, <1>5
    <2>2. CASE ~ ((c % ByteSize) + 8 < ByteSize)
      BY ONLY <2>2, <1>3, <1>5
    <2> QED
      BY <2>1, <2>2
  <1> QED
    BY <1>7, <1>8 DEF c

\* And as the mode counts.
LEMMA CtrNext ==
  ASSUME NEW c \in 0 .. (Ctrs - 1), NEW k \in 0 .. 8
  PROVE  /\ (c + k) % Ctrs \in 0 .. (Ctrs - 1)
         /\ (((c + k) % Ctrs) + 1) % Ctrs = (c + (k + 1)) % Ctrs
         /\ c % Ctrs = c
  <1>0. Ctrs \in Nat \ {0} /\ c \in Nat /\ k \in Nat /\ c + k \in Nat
    BY CtrSizes
  <1> DEFINE r == (c + k) % Ctrs
             q == (c + k) \div Ctrs
  <1>1. r \in 0 .. (Ctrs - 1) /\ q \in Nat /\ c + k = Ctrs * q + r
    BY <1>0, Remainder
  <1>2. c % Ctrs = c
    BY <1>0, Remainder
  <1> HIDE DEF r, q
  <1>3. Ctrs * q \in Nat /\ Ctrs * (q + 1) = Ctrs * q + Ctrs
    BY <1>0, <1>1
  <1>4. CASE r + 1 < Ctrs
    <2>1. c + (k + 1) = Ctrs * q + (r + 1) /\ r + 1 \in 0 .. (Ctrs - 1)
      BY <1>0, <1>1, <1>3, <1>4
    <2>2. (c + (k + 1)) % Ctrs = r + 1
      BY <1>0, <1>1, <2>1, RemainderOf
    <2>3. (r + 1) % Ctrs = r + 1
      BY <1>0, <2>1, Remainder
    <2> QED
      BY <1>1, <1>2, <2>2, <2>3 DEF r
  <1>5. CASE ~ (r + 1 < Ctrs)
    <2>1. c + (k + 1) = Ctrs * (q + 1) + 0 /\ 0 \in 0 .. (Ctrs - 1) /\ q + 1 \in Nat /\ r + 1 = Ctrs * 1 + 0
      BY <1>0, <1>1, <1>3, <1>5
    <2>3. 1 \in Nat /\ 0 \in 0 .. (Ctrs - 1) /\ q + 1 \in Nat
      BY <2>1
    <2>4. (Ctrs * (q + 1) + 0) % Ctrs = 0 /\ (Ctrs * 1 + 0) % Ctrs = 0
      BY ONLY <1>0, <2>3, RemainderOf
    <2>2. (c + (k + 1)) % Ctrs = 0 /\ (r + 1) % Ctrs = 0
      BY ONLY <2>1, <2>4
    <2> QED
      BY <1>1, <1>2, <2>2 DEF r
  <1> QED
    BY <1>4, <1>5

\* The low 32 bits of ctr32le_enc.
LEMMA LaneNext ==
  ASSUME NEW c \in Nat, NEW k \in Nat
  PROVE  /\ AddLane(c, k) \in Nat
         /\ Abstract!LaneIncr(AddLane(c, k)) = AddLane(c, k + 1)
         /\ AddLane(c, 0) = c
  <1>0. LaneSize \in Nat \ {0}
    BY SizesAssumption
  <1> DEFINE q == c \div LaneSize
             r == c % LaneSize
             s == (c + k) % LaneSize
             p == (c + k) \div LaneSize
             d == LaneSize * q + s
  <1>1. /\ q \in Nat /\ r \in 0 .. (LaneSize - 1) /\ c = LaneSize * q + r
        /\ p \in Nat /\ s \in 0 .. (LaneSize - 1) /\ c + k = LaneSize * p + s
    <2>1. c + k \in Nat
      OBVIOUS
    <2> QED
      BY <2>1, <1>0, Remainder
  <1>2. AddLane(c, k) = (c - r) + s
    BY DEF AddLane
  <1>3. AddLane(c, k + 1) = (c - r) + ((c + (k + 1)) % LaneSize)
    BY DEF AddLane
  <1>4. AddLane(c, 0) = c
    BY <1>0, <1>1 DEF AddLane
  <1> HIDE DEF q, r, s, p, d
  <1>5. LaneSize * q \in Nat /\ LaneSize * p \in Nat /\ c - r = LaneSize * q /\ LaneSize * (p + 1) = LaneSize * p + LaneSize
        /\ LaneSize * (q + 1) = LaneSize * q + LaneSize
    BY <1>0, <1>1
  <1>6. AddLane(c, k) = d /\ d \in Nat /\ d % LaneSize = s
    <2>1. (LaneSize * q + s) % LaneSize = s
      BY <1>0, <1>1, RemainderOf
    <2> QED
      BY <1>1, <1>2, <1>5, <2>1 DEF d
  <1>7. Abstract!LaneIncr(d) = (d - (d % LaneSize)) + ((d + 1) % LaneSize)
    BY DEF Abstract!LaneIncr
  <1>8. d - s = LaneSize * q
    BY <1>1, <1>5 DEF d
  <1>9. (d + 1) % LaneSize = (c + (k + 1)) % LaneSize
    <2>1. CASE s + 1 < LaneSize
      <3>1. /\ d + 1 = LaneSize * q + (s + 1) /\ c + (k + 1) = LaneSize * p + (s + 1)
            /\ s + 1 \in 0 .. (LaneSize - 1)
        BY <1>0, <1>1, <1>5, <2>1 DEF d
      <3> QED
        BY <1>0, <1>1, <3>1, RemainderOf
    <2>2. CASE ~ (s + 1 < LaneSize)
      <3>1. /\ d + 1 = LaneSize * (q + 1) + 0 /\ c + (k + 1) = LaneSize * (p + 1) + 0
            /\ 0 \in 0 .. (LaneSize - 1) /\ q + 1 \in Nat /\ p + 1 \in Nat
        BY <1>0, <1>1, <1>5, <2>2 DEF d
      <3> QED
        BY <1>0, <3>1, RemainderOf
    <2> QED
      BY <2>1, <2>2
  <1> QED
    BY <1>3, <1>4, <1>5, <1>6, <1>7, <1>8, <1>9

-----------------------------------------------------------------------------
(* What the modes of operation say, for AES.                               *)

\* What the modes do with a block, with Apply expanded for each of them.
LEMMA ApplyIs ==
  ASSUME NEW k, NEW c, NEW x
  PROVE  /\ Abstract!Apply("ecb_enc", k, c, x) = [out |-> Fips197Cipher(k, x), chain |-> c]
         /\ Abstract!Apply("ecb_dec", k, c, x) = [out |-> Fips197InvCipher(k, x), chain |-> c]
         /\ \A m \in {"cbc_enc", "cbc_mac"} : Abstract!Apply(m, k, c, x)
              = [out |-> Fips197Cipher(k, Xor(c, x)), chain |-> Fips197Cipher(k, Xor(c, x))]
         /\ Abstract!Apply("cbc_dec", k, c, x)
              = [out |-> Xor(Fips197InvCipher(k, x), c), chain |-> x]
         /\ Abstract!Apply("cfb_enc", k, c, x)
              = [out |-> Xor(Fips197Cipher(k, c), x), chain |-> Xor(Fips197Cipher(k, c), x)]
         /\ Abstract!Apply("cfb_dec", k, c, x) = [out |-> Xor(Fips197Cipher(k, c), x), chain |-> x]
         /\ Abstract!Apply("ctr", k, c, x)
              = [out |-> Xor(Fips197Cipher(k, CtrBlock(c)), x), chain |-> (c + 1) % Ctrs]
         /\ Abstract!Apply("ctr32le", k, c, x)
              = [out |-> Xor(Fips197Cipher(k, CtrBlock(c)), x), chain |-> Abstract!LaneIncr(c)]
         /\ Abstract!Apply("xts_enc", k, c, x)
              = [out |-> Xor(Fips197Cipher(k, Xor(x, TweakBlock(c))), TweakBlock(c)),
                 chain |-> Abstract!Double(c)]
         /\ Abstract!Apply("xts_dec", k, c, x)
              = [out |-> Xor(Fips197InvCipher(k, Xor(x, TweakBlock(c))), TweakBlock(c)),
                 chain |-> Abstract!Double(c)]
  <1>1. \A a, b : Abstract!Xor(a, b) = Xor(a, b)
    BY SameXor
  <1>2. Abstract!Apply("ecb_enc", k, c, x) = [out |-> Fips197Cipher(k, x), chain |-> c]
    BY DEF Abstract!Apply
  <1>3. Abstract!Apply("ecb_dec", k, c, x) = [out |-> Fips197InvCipher(k, x), chain |-> c]
    BY DEF Abstract!Apply
  <1>4. \A m \in {"cbc_enc", "cbc_mac"} : Abstract!Apply(m, k, c, x)
              = [out |-> Fips197Cipher(k, Xor(c, x)), chain |-> Fips197Cipher(k, Xor(c, x))]
    BY <1>1 DEF Abstract!Apply
  <1>5. Abstract!Apply("cbc_dec", k, c, x)
              = [out |-> Xor(Fips197InvCipher(k, x), c), chain |-> x]
    BY <1>1 DEF Abstract!Apply
  <1>6. Abstract!Apply("cfb_enc", k, c, x)
              = [out |-> Xor(Fips197Cipher(k, c), x), chain |-> Xor(Fips197Cipher(k, c), x)]
    BY <1>1 DEF Abstract!Apply
  <1>7. Abstract!Apply("cfb_dec", k, c, x) = [out |-> Xor(Fips197Cipher(k, c), x), chain |-> x]
    BY <1>1 DEF Abstract!Apply
  <1>8. Abstract!Apply("ctr", k, c, x)
              = [out |-> Xor(Fips197Cipher(k, CtrBlock(c)), x), chain |-> (c + 1) % Ctrs]
    BY <1>1 DEF Abstract!Apply, Ctrs
  <1>9. Abstract!Apply("ctr32le", k, c, x)
              = [out |-> Xor(Fips197Cipher(k, CtrBlock(c)), x), chain |-> Abstract!LaneIncr(c)]
    BY <1>1 DEF Abstract!Apply
  <1>10. Abstract!Apply("xts_enc", k, c, x)
              = [out |-> Xor(Fips197Cipher(k, Xor(x, TweakBlock(c))), TweakBlock(c)),
                 chain |-> Abstract!Double(c)]
    BY <1>1 DEF Abstract!Apply
  <1>11. Abstract!Apply("xts_dec", k, c, x)
              = [out |-> Xor(Fips197InvCipher(k, Xor(x, TweakBlock(c))), TweakBlock(c)),
                 chain |-> Abstract!Double(c)]
    BY <1>1 DEF Abstract!Apply
  <1> QED
    BY <1>2, <1>3, <1>4, <1>5, <1>6, <1>7, <1>8, <1>9, <1>10, <1>11

\* The blocks xs after each other: os is what is put out, ys are the blocks,
\* and cs the chain values.
Applies(m, k, os, ys, cs, xs, n) ==
  \A i \in 1 .. n :
     /\ Abstract!Apply(m, k, cs[i - 1], xs[i]) = [out |-> ys[i], chain |-> cs[i]]
     /\ os[i] = Abstract!Emit(m, os[i - 1], ys[i])

\* A step of ApplyAll.
ApplyStep(m, k, p, x) ==
  LET a == Abstract!Apply(m, k, p.chain, x)
  IN  [out |-> Abstract!Emit(m, p.out, a.out), chain |-> a.chain]

\* What ApplyAll makes of blocks with given chain values and output.
LEMMA ApplyAllIs ==
  ASSUME NEW m, NEW k, NEW os, NEW ys, NEW n \in Nat, NEW cs,
         NEW xs, Len(xs) = n, Applies(m, k, os, ys, cs, xs, n)
  PROVE  Abstract!ApplyAll(m, k, os[0], cs[0], xs) = [out |-> os[n], chain |-> cs[n]]
  <1> DEFINE first == [out |-> os[0], chain |-> cs[0]]
             Rec(f) == f = [i \in 0 .. Len(xs) |->
                 IF i = 0 THEN first ELSE ApplyStep(m, k, f[i - 1], xs[i])]
             g == [i \in 0 .. n |-> [out |-> os[i], chain |-> cs[i]]]
             s == CHOOSE f : Rec(f)
  <1>0. \A i \in 1 .. n : g[i] = ApplyStep(m, k, g[i - 1], xs[i])
    <2> SUFFICES ASSUME NEW i \in 1 .. n PROVE g[i] = ApplyStep(m, k, g[i - 1], xs[i])
      OBVIOUS
    <2>1. i - 1 \in 0 .. n /\ i \in 0 .. n
      OBVIOUS
    <2>2. /\ Abstract!Apply(m, k, cs[i - 1], xs[i]) = [out |-> ys[i], chain |-> cs[i]]
          /\ os[i] = Abstract!Emit(m, os[i - 1], ys[i])
      BY DEF Applies
    <2>4. /\ g[i - 1] = [out |-> os[i - 1], chain |-> cs[i - 1]]
          /\ g[i] = [out |-> os[i], chain |-> cs[i]]
      BY <2>1
    <2> HIDE DEF g
    <2>5. g[i - 1].chain = cs[i - 1] /\ g[i - 1].out = os[i - 1]
      BY ONLY <2>4
    <2>6. ApplyStep(m, k, g[i - 1], xs[i])
            = [out |-> Abstract!Emit(m, os[i - 1], ys[i]), chain |-> cs[i]]
      BY ONLY <2>2, <2>5 DEF ApplyStep
    <2> QED
      BY ONLY <2>2, <2>4, <2>6
  <1>1. g[0] = first
    OBVIOUS
  <1>2. Upto(g, n)
    BY DEF Upto
  <1>9. g[n] = [out |-> os[n], chain |-> cs[n]]
    OBVIOUS
  <1>5. Abstract!ApplyAll(m, k, os[0], cs[0], xs) = s[Len(xs)]
    BY DEF Abstract!ApplyAll, ApplyStep
  <1> HIDE DEF g, first
  <1>n. Len(xs) = n
    OBVIOUS
  <1>3. Rec(g)
    <2>1. \A i \in 0 .. n : g[i] = IF i = 0 THEN first ELSE ApplyStep(m, k, g[i - 1], xs[i])
      BY ONLY <1>0, <1>1, n \in Nat
    <2>2. [i \in 0 .. n |-> g[i]]
            = [i \in 0 .. n |-> IF i = 0 THEN first ELSE ApplyStep(m, k, g[i - 1], xs[i])]
      BY ONLY <2>1
    <2> QED
      BY ONLY <2>2, <1>n, <1>2, Zenon DEF Upto
  <1>4. \A f : Rec(f) => f = g
    <2> SUFFICES ASSUME NEW f, Rec(f) PROVE f = g
      OBVIOUS
    <2>1. Upto(f, n) /\ f[0] = g[0]
      BY ONLY Rec(f), <1>n, <1>1, n \in Nat DEF Upto
    <2>2. Alike(f, g, n)
      <3> SUFFICES ASSUME NEW i \in 1 .. n, f[i - 1] = g[i - 1] PROVE f[i] = g[i]
        BY DEF Alike
      <3>1. f[i] = ApplyStep(m, k, f[i - 1], xs[i])
        BY ONLY Rec(f), <1>n, n \in Nat, i \in 1 .. n
      <3> QED
        BY <3>1, <1>0
    <2> QED
      BY ONLY <2>1, <2>2, <1>2, n \in Nat, SameByStep
  <1>6. s = g
    <2> HIDE DEF Rec
    <2> QED BY <1>3, <1>4
  <1> HIDE DEF s
  <1> QED
    BY ONLY <1>5, <1>6, <1>n, <1>9

\* A turn of n blocks, the blocks ys it puts out, and the chain values cs.
Turned(n, ys, cs) ==
  /\ Took(n, ys)
  /\ cs[0] = Chain /\ cs[n] = Chain'
  /\ \A i \in 1 .. n :
       Abstract!Apply(mode, rounds, cs[i - 1], Input(done + i)) = [out |-> ys[i], chain |-> cs[i]]

\* The message.
BulkIn == [i \in 1 .. MaxBlocks |-> Input(i)]

\* The blocks of the message that a turn takes.
LEMMA BulkPart ==
  ASSUME NEW d \in Nat, NEW n \in Nat, d + n <= MaxBlocks
  PROVE  /\ Len(SubSeq(BulkIn, d + 1, d + n)) = n
         /\ \A i \in 1 .. n : SubSeq(BulkIn, d + 1, d + n)[i] = Input(d + i)
  <1>0. MaxBlocks \in Nat
    BY SizesAssumption
  <1> DEFINE S == {Input(i) : i \in 1 .. MaxBlocks}
  <1>1. BulkIn \in Seq(S) /\ Len(BulkIn) = MaxBlocks
    BY <1>0 DEF BulkIn
  <1> HIDE DEF S
  <1>2. \A i \in 1 .. n : d + i \in 1 .. MaxBlocks /\ i + (d + 1) - 1 = d + i
    BY <1>0
  <1>3. \A i \in 1 .. n : BulkIn[d + i] = Input(d + i)
    BY <1>2 DEF BulkIn
  <1>4. Len(SubSeq(BulkIn, d + 1, d + n)) = n
    BY <1>0, <1>1
  <1>5. \A i \in 1 .. n : SubSeq(BulkIn, d + 1, d + n)[i] = BulkIn[d + i]
    <2>1. d + 1 \in Int /\ d + n \in Int /\ (d + n) - (d + 1) + 1 = n
      OBVIOUS
    <2>2. \A i \in (d + 1) .. (d + n) : BulkIn[i] \in S
      BY <1>0, <1>1
    <2>3. \A i \in 1 .. (d + n) - (d + 1) + 1 :
             SubSeq(BulkIn, d + 1, d + n)[i] = BulkIn[(d + 1) + i - 1]
      BY ONLY <2>1, <2>2, SubSeqProperties
    <2>4. \A i \in 1 .. n : (d + 1) + i - 1 = d + i
      OBVIOUS
    <2> QED
      BY ONLY <2>1, <2>3, <2>4
  <1> QED
    BY <1>3, <1>4, <1>5

\* What is put out after i blocks of a turn.
Emitted(i, ys) ==
  IF mode = "cbc_mac" THEN IF i = 0 THEN Output ELSE <<ys[i]>>
  ELSE FirstOf([j \in 1 .. (done + i) |-> mem'[dst + j - 1]], done + i)

\* The blocks of a turn come out one after the other.
LEMMA EmittedIs ==
  ASSUME BulkTypes, BulkMem, NEW n, NEW ys, Took(n, ys)
  PROVE  /\ Emitted(0, ys) = Output
         /\ Emitted(n, ys) = Output'
         /\ \A i \in 1 .. n : Emitted(i, ys) = Abstract!Emit(mode, Emitted(i - 1, ys), ys[i])
  <1>0. MaxBlocks \in Nat
    BY SizesAssumption
  <1>1. /\ n \in Nat \ {0} /\ n <= nblocks /\ (mode = "cbc_mac" => n = 1)
        /\ done' = done + n /\ mode' = mode /\ dst' = dst
        /\ mem' = Stored(mem, n, ys)
    BY DEF Took, BulkTypes
  <1>2. done + n <= MaxBlocks /\ done \in Nat /\ dst \in {0, MaxBlocks}
    <2>1. nblocks \in Nat /\ done \in Nat /\ done + nblocks <= MaxBlocks /\ dst \in {0, MaxBlocks}
      BY DEF BulkTypes
    <2> QED
      BY ONLY <1>0, <1>1, <2>1
  <1>3. CASE mode = "cbc_mac"
    <2>1. n = 1 /\ Out(0) = dst /\ dst = MaxBlocks
      BY <1>1, <1>3 DEF Out, BulkTypes
    <2>2. dst \in 0 .. (2 * MaxBlocks) /\ dst \in Out(0) .. Out(n - 1) /\ dst - Out(0) + 1 = 1
      BY <1>0, <2>1, <1>3 DEF Out
    <2>3. mem'[dst] = ys[1]
      BY <1>1, <2>2 DEF Stored
    <2>4. Output' = <<ys[1]>>
      BY <1>1, <1>2, <1>3, <2>1, <2>3 DEF Output
    <2>5. \A i \in 1 .. n : i = 1 /\ i # 0
      BY <2>1
    <2> QED
      BY <1>3, <2>1, <2>4, <2>5 DEF Emitted, Abstract!Emit
  <1>4. CASE mode # "cbc_mac"
    <2> DEFINE w == [j \in 1 .. (done + n) |-> mem'[dst + j - 1]]
    <2>1. \A i \in 0 .. n : Emitted(i, ys) = FirstOf(w, done + i)
      BY <1>1, <1>2, <1>4 DEF Emitted, FirstOf
    <2>2. \A i \in 1 .. n : w[done + i] = ys[i]
      <3> SUFFICES ASSUME NEW i \in 1 .. n PROVE w[done + i] = ys[i]
        OBVIOUS
      <3>1. /\ dst + (done + i) - 1 \in 0 .. (2 * MaxBlocks)
            /\ dst + (done + i) - 1 \in Out(0) .. Out(n - 1)
            /\ (dst + (done + i) - 1) - Out(0) + 1 = i
            /\ done + i \in 1 .. (done + n)
        BY <1>0, <1>1, <1>2, <1>4 DEF Out
      <3> QED
        BY <1>1, <3>1 DEF Stored
    <2>3. Output = FirstOf(w, done)
      <3> SUFFICES ASSUME NEW i \in 1 .. done PROVE mem[dst + i - 1] = w[i]
        BY <1>4 DEF FirstOf, Output
      <3>1. /\ dst + i - 1 \in 0 .. (2 * MaxBlocks)
            /\ ~ (dst + i - 1 \in Out(0) .. Out(n - 1))
            /\ i \in 1 .. (done + n)
        BY <1>0, <1>1, <1>2, <1>4 DEF Out
      <3> QED
        BY <1>1, <3>1 DEF Stored
    <2>4. Output' = FirstOf(w, done + n)
      BY <1>1, <1>4 DEF FirstOf, Output
    <2> HIDE DEF w
    <2>5. ASSUME NEW i \in 1 .. n
          PROVE  Emitted(i, ys) = Abstract!Emit(mode, Emitted(i - 1, ys), ys[i])
      <3>1. i - 1 \in 0 .. n /\ i \in 0 .. n /\ done + (i - 1) \in Nat /\ (done + (i - 1)) + 1 = done + i
        BY <1>1, <1>2
      <3>2. Append(FirstOf(w, done + (i - 1)), w[(done + (i - 1)) + 1]) = FirstOf(w, (done + (i - 1)) + 1)
        BY ONLY <3>1, FirstOfMore
      <3>3. Abstract!Emit(mode, Emitted(i - 1, ys), ys[i]) = Append(Emitted(i - 1, ys), ys[i])
        BY <1>4 DEF Abstract!Emit
      <3> QED
        BY ONLY <2>1, <2>2, <3>1, <3>2, <3>3, i \in 1 .. n
    <2>6. Emitted(0, ys) = Output /\ Emitted(n, ys) = Output'
      <3>1. 0 \in 0 .. n /\ n \in 0 .. n /\ done + 0 = done
        BY <1>1, <1>2
      <3> QED
        BY ONLY <2>1, <2>3, <2>4, <3>1
    <2> QED
      BY <2>5, <2>6
  <1> QED
    BY <1>3, <1>4

\* A turn with the blocks and chain values of the mode is a step of it.
LEMMA BulkProcess ==
  ASSUME BulkTypes, BulkMem, NEW n, NEW ys, NEW cs, Turned(n, ys, cs)
  PROVE  Abstract!Process
  <1>0. MaxBlocks \in Nat
    BY SizesAssumption
  <1>1. /\ n \in Nat \ {0} /\ n <= nblocks /\ Took(n, ys)
        /\ done' = done + n /\ mode' = mode /\ rounds' = rounds
    BY DEF Turned, Took, BulkTypes
  <1>2. done + n <= MaxBlocks /\ done \in Nat
    <2>1. nblocks \in Nat /\ done \in Nat /\ done + nblocks <= MaxBlocks
      BY DEF BulkTypes
    <2> QED
      BY ONLY <1>0, <1>1, <2>1
  <1> DEFINE xs == SubSeq(BulkIn, done + 1, done + n)
             os == [i \in 0 .. n |-> Emitted(i, ys)]
  <1>3. os[0] = Output /\ os[n] = Output'
    BY <1>1, EmittedIs
  <1>4. \A i \in 1 .. n : os[i] = Abstract!Emit(mode, os[i - 1], ys[i])
    <2>1. \A i \in 1 .. n : i \in 0 .. n /\ i - 1 \in 0 .. n
      BY <1>1
    <2>2. \A i \in 1 .. n : Emitted(i, ys) = Abstract!Emit(mode, Emitted(i - 1, ys), ys[i])
      BY <1>1, EmittedIs
    <2> QED
      BY <2>1, <2>2
  <1>6. Len(xs) = n /\ \A i \in 1 .. n : xs[i] = Input(done + i)
    BY <1>1, <1>2, BulkPart
  <1> HIDE DEF os, xs
  <1>7. Applies(mode, rounds, os, ys, cs, xs, n)
    BY <1>4, <1>6 DEF Applies, Turned
  <1>9. Abstract!ApplyAll(mode, rounds, os[0], cs[0], xs) = [out |-> os[n], chain |-> cs[n]]
    BY <1>1, <1>6, <1>7, ApplyAllIs
  <1>10. n \in 1 .. (Len(BulkIn) - done)
    <2>1. Len(BulkIn) = MaxBlocks
      BY <1>0 DEF BulkIn
    <2> QED
      BY <1>0, <1>1, <1>2, <2>1
  <1>11. cs[0] = Chain /\ cs[n] = Chain'
    BY DEF Turned
  <1>12. BulkIn' = BulkIn
    BY DEF BulkIn, Input, Atom
  <1>13. \E k \in 1 .. (Len(BulkIn) - done) :
           LET s == Abstract!ApplyAll(mode, rounds, Output, Chain, SubSeq(BulkIn, done + 1, done + k))
           IN  /\ done' = done + k
               /\ Output' = s.out
               /\ Chain' = s.chain
               /\ mode' = mode /\ rounds' = rounds /\ BulkIn' = BulkIn
    <2> DEFINE s == Abstract!ApplyAll(mode, rounds, Output, Chain, SubSeq(BulkIn, done + 1, done + n))
    <2>1. s = [out |-> os[n], chain |-> cs[n]]
      BY ONLY <1>3, <1>9, <1>11 DEF xs
    <2> HIDE DEF s
    <2>2. /\ done' = done + n
          /\ Output' = s.out
          /\ Chain' = s.chain
          /\ mode' = mode /\ rounds' = rounds /\ BulkIn' = BulkIn
      BY ONLY <1>1, <1>3, <1>11, <1>12, <2>1
    <2> QED
      BY ONLY <1>10, <2>2 DEF s
  <1> QED
    BY <1>13 DEF Abstract!Process, BulkIn

-----------------------------------------------------------------------------
(* AesBulk: the registers, and the turns of the modes.                     *)

\* What the registers hold in a call: key 0 folded into what cfb_enc chains,
\* the counter that ctr keeps in memory, and chain values of their kinds.
BulkRegs ==
  /\ pc = "loop" /\ mode = "cfb_enc" => reg.x0 = Xor(reg.x3, key0)
  /\ pc = "loop" /\ mode = "ctr" => reg.x5 = iv
  /\ mode = "ctr" => Chain \in 0 .. (Ctrs - 1)
  /\ mode = "ctr32le" => Chain \in Nat
  /\ mode \in {"xts_enc", "xts_dec"} => Chain \in SUBSET (0 .. 127)

\* The invariant of the refinement.
BulkRInv == BulkTypes /\ BulkMem /\ BulkKeys /\ BulkRegs

\* The modes with a key folded into what they chain.
Folded == {"cfb_enc", "cbc_enc", "cbc_mac"}

\* In the other modes the chain value is in xmm5.
LEMMA ChainThere ==
  /\ pc = "loop" /\ ~ (mode \in Folded) => Chain = reg.x5
  /\ pc' = "loop" /\ ~ (mode' \in Folded) => Chain' = reg'.x5
  BY DEF Chain, Folded

\* What a turn of n blocks loads.
LEMMA Loads ==
  ASSUME BulkTypes, BulkMem, NEW n \in Nat, n <= nblocks
  PROVE  /\ \A i \in 1 .. n : mem[In(i - 1)] = Input(done + i)
         /\ \A i \in 1 .. n : Blocks(mem, n)[i] = Input(done + i)
         /\ DOMAIN Blocks(mem, n) = 1 .. n
  <1>1. ASSUME NEW i \in 1 .. n PROVE mem[In(i - 1)] = Input(done + i)
    <2>1. i - 1 \in Nat /\ i - 1 < nblocks /\ done + (i - 1) + 1 = done + i
      BY DEF BulkTypes
    <2> QED
      BY <2>1, Unread
  <1> QED
    BY <1>1 DEF Blocks

\* The first block that a turn loads.
LEMMA FirstLoad ==
  ASSUME BulkTypes, BulkMem, 1 <= nblocks
  PROVE  mem[In(0)] = Input(done + 1)
  <1>1. 0 \in Nat /\ 0 < nblocks /\ done + 0 + 1 = done + 1
    BY DEF BulkTypes
  <1> QED
    BY <1>1, Unread

\* A turn of one block.
LEMMA OneBulkTurned ==
  ASSUME NEW y, Took(1, <<y>>),
         Abstract!Apply(mode, rounds, Chain, Input(done + 1)) = [out |-> y, chain |-> Chain']
  PROVE  \E n, ys, cs : Turned(n, ys, cs)
  <1> DEFINE ys == <<y>>
             cs == [i \in 0 .. 1 |-> IF i = 0 THEN Chain ELSE Chain']
  <1>1. cs[0] = Chain /\ cs[1] = Chain' /\ ys[1] = y
    OBVIOUS
  <1>2. Took(1, ys)
    OBVIOUS
  <1> HIDE DEF ys, cs
  <1>3. \A i \in 1 .. 1 :
       Abstract!Apply(mode, rounds, cs[i - 1], Input(done + i)) = [out |-> ys[i], chain |-> cs[i]]
    <2>1. \A i \in 1 .. 1 : i = 1 /\ i - 1 = 0
      OBVIOUS
    <2> QED
      BY <1>1, <2>1
  <1>4. Turned(1, ys, cs)
    BY <1>1, <1>2, <1>3 DEF Turned
  <1> QED
    BY <1>4

\* The counters of a turn.
LEMMA CtrTurned ==
  ASSUME BulkRInv, mode = "ctr", NEW n \in 1 .. 8, NEW ys, Took(n, ys),
         reg' = [x5 |-> (reg.x5 + n) % Ctrs], iv' = (reg.x5 + n) % Ctrs,
         \A i \in 1 .. n : ys[i] = Xor(Enc(CtrBlock((reg.x5 + (i - 1)) % Ctrs)), Input(done + i))
  PROVE  BulkRegs' /\ \E m, zs, cs : Turned(m, zs, cs)
  <1> DEFINE c == reg.x5
             cs == [i \in 0 .. n |-> (c + i) % Ctrs]
  <1>1. pc = "loop" /\ pc' = "loop" /\ mode' = mode /\ ~ (mode \in Folded)
    BY DEF Took, Folded
  <1>2. Chain = c /\ Chain' = (c + n) % Ctrs /\ c \in 0 .. (Ctrs - 1)
    BY <1>1, ChainThere DEF BulkRInv, BulkRegs
  <1> HIDE DEF c
  <1>n. \A k \in 0 .. 8 : /\ (c + k) % Ctrs \in 0 .. (Ctrs - 1)
                          /\ (((c + k) % Ctrs) + 1) % Ctrs = (c + (k + 1)) % Ctrs
                          /\ c % Ctrs = c
    BY <1>2, CtrNext
  <1>3. BulkRegs'
    <2>1. Chain' \in 0 .. (Ctrs - 1) /\ Ctrs' = Ctrs
      BY <1>2, <1>n DEF Ctrs
    <2> QED
      BY <1>1, <2>1 DEF BulkRegs, Folded
  <1>4. cs[0] = Chain /\ cs[n] = Chain'
    <2>1. c + 0 = c /\ 0 \in 0 .. n /\ n \in 0 .. n /\ c % Ctrs = c
      BY <1>2, <1>n, CtrSizes
    <2> QED
      BY <1>2, <2>1
  <1>5. ASSUME NEW i \in 1 .. n
        PROVE Abstract!Apply(mode, rounds, cs[i - 1], Input(done + i)) = [out |-> ys[i], chain |-> cs[i]]
    <2>1. i - 1 \in 0 .. n /\ i \in 0 .. n /\ i - 1 \in 0 .. 8 /\ (i - 1) + 1 = i
      OBVIOUS
    <2>2. cs[i - 1] = (c + (i - 1)) % Ctrs /\ cs[i] = (c + i) % Ctrs
      BY <2>1
    <2>3. cs[i] = (cs[i - 1] + 1) % Ctrs
      BY <1>n, <2>1, <2>2
    <2> HIDE DEF cs
    <2>4. Abstract!Apply("ctr", rounds, cs[i - 1], Input(done + i))
            = [out |-> Xor(Fips197Cipher(rounds, CtrBlock(cs[i - 1])), Input(done + i)),
               chain |-> (cs[i - 1] + 1) % Ctrs]
      BY ApplyIs
    <2>5. Fips197Cipher(rounds, CtrBlock(cs[i - 1])) = Enc(CtrBlock(cs[i - 1]))
      BY EncIs DEF BulkRInv
    <2>6. ys[i] = Xor(Enc(CtrBlock(cs[i - 1])), Input(done + i))
      BY <2>2 DEF c
    <2> QED
      BY <2>3, <2>4, <2>5, <2>6
  <1> HIDE DEF cs
  <1>6. Turned(n, ys, cs)
    BY <1>4, <1>5 DEF Turned
  <1> QED
    BY <1>3, <1>6

\* The counters of a turn of ctr32le.
LEMMA LaneTurned ==
  ASSUME BulkRInv, mode = "ctr32le", NEW n \in 1 .. 8, NEW ys, Took(n, ys),
         reg' = [x5 |-> AddLane(reg.x5, n)],
         \A i \in 1 .. n : ys[i] = Xor(Enc(CtrBlock(AddLane(reg.x5, i - 1))), Input(done + i))
  PROVE  BulkRegs' /\ \E m, zs, cs : Turned(m, zs, cs)
  <1> DEFINE c == reg.x5
             cs == [i \in 0 .. n |-> AddLane(c, i)]
  <1>1. pc = "loop" /\ pc' = "loop" /\ mode' = mode /\ ~ (mode \in Folded)
    BY DEF Took, Folded
  <1>2. Chain = c /\ Chain' = AddLane(c, n) /\ c \in Nat
    BY <1>1, ChainThere DEF BulkRInv, BulkRegs
  <1> HIDE DEF c
  <1>n. \A k \in Nat : /\ AddLane(c, k) \in Nat
                       /\ Abstract!LaneIncr(AddLane(c, k)) = AddLane(c, k + 1)
                       /\ AddLane(c, 0) = c
    BY <1>2, LaneNext
  <1>3. BulkRegs'
    <2>1. Chain' \in Nat
      BY <1>2, <1>n
    <2> QED
      BY <1>1, <2>1 DEF BulkRegs, Folded
  <1>4. cs[0] = Chain /\ cs[n] = Chain'
    BY <1>2, <1>n
  <1>5. ASSUME NEW i \in 1 .. n
        PROVE Abstract!Apply(mode, rounds, cs[i - 1], Input(done + i)) = [out |-> ys[i], chain |-> cs[i]]
    <2>1. i - 1 \in 0 .. n /\ i \in 0 .. n /\ i - 1 \in Nat /\ (i - 1) + 1 = i
      OBVIOUS
    <2>2. cs[i - 1] = AddLane(c, i - 1) /\ cs[i] = AddLane(c, i)
      BY <2>1
    <2>3. cs[i] = Abstract!LaneIncr(cs[i - 1])
      BY <1>n, <2>1, <2>2
    <2> HIDE DEF cs
    <2>4. Abstract!Apply("ctr32le", rounds, cs[i - 1], Input(done + i))
            = [out |-> Xor(Fips197Cipher(rounds, CtrBlock(cs[i - 1])), Input(done + i)),
               chain |-> Abstract!LaneIncr(cs[i - 1])]
      BY ApplyIs
    <2>5. Fips197Cipher(rounds, CtrBlock(cs[i - 1])) = Enc(CtrBlock(cs[i - 1]))
      BY EncIs DEF BulkRInv
    <2>6. ys[i] = Xor(Enc(CtrBlock(cs[i - 1])), Input(done + i))
      BY <2>2 DEF c
    <2> QED
      BY <2>3, <2>4, <2>5, <2>6
  <1> HIDE DEF cs
  <1>6. Turned(n, ys, cs)
    BY <1>4, <1>5 DEF Turned
  <1> QED
    BY <1>3, <1>6

\* What cfb_dec and cbc_dec chain: the blocks of the message.
InputsBefore(n) == [i \in 0 .. n |-> IF i = 0 THEN reg.x5 ELSE Input(done + i)]

\* A turn that chains the blocks of the message.
LEMMA BeforeTurned ==
  ASSUME BulkRInv, mode \in {"cfb_dec", "cbc_dec"}, NEW n \in Nat \ {0}, NEW ys, Took(n, ys),
         reg' = [x5 |-> mem[In(n - 1)]],
         mode = "cfb_dec" => \A i \in 1 .. n : ys[i] = Xor(Enc(InputsBefore(n)[i - 1]), Input(done + i)),
         mode = "cbc_dec" => \A i \in 1 .. n : ys[i] = Xor(Dec(Input(done + i)), InputsBefore(n)[i - 1])
  PROVE  BulkRegs' /\ \E m, zs, cs : Turned(m, zs, cs)
  <1> DEFINE cs == InputsBefore(n)
  <1>1. pc = "loop" /\ pc' = "loop" /\ mode' = mode /\ ~ (mode \in Folded) /\ n <= nblocks
    BY DEF Took, Folded, BulkRInv, BulkTypes
  <1>2. mem[In(n - 1)] = Input(done + n)
    BY <1>1, Loads DEF BulkRInv
  <1>3. Chain = reg.x5 /\ Chain' = Input(done + n)
    BY <1>1, <1>2, ChainThere
  <1>4. BulkRegs'
    BY <1>1 DEF BulkRegs
  <1>5. cs[0] = Chain /\ cs[n] = Chain' /\ \A i \in 1 .. n : cs[i] = Input(done + i)
    BY <1>3 DEF InputsBefore
  <1> HIDE DEF cs
  <1>6. ASSUME NEW i \in 1 .. n
        PROVE Abstract!Apply(mode, rounds, cs[i - 1], Input(done + i)) = [out |-> ys[i], chain |-> cs[i]]
    <2>1. CASE mode = "cfb_dec"
      <3>1. Abstract!Apply("cfb_dec", rounds, cs[i - 1], Input(done + i))
              = [out |-> Xor(Fips197Cipher(rounds, cs[i - 1]), Input(done + i)), chain |-> Input(done + i)]
        BY ApplyIs
      <3>2. Fips197Cipher(rounds, cs[i - 1]) = Enc(cs[i - 1])
        BY EncIs DEF BulkRInv
      <3>3. ys[i] = Xor(Enc(cs[i - 1]), Input(done + i))
        BY <2>1 DEF cs
      <3> QED
        BY <1>5, <2>1, <3>1, <3>2, <3>3
    <2>2. CASE mode = "cbc_dec"
      <3>1. Abstract!Apply("cbc_dec", rounds, cs[i - 1], Input(done + i))
              = [out |-> Xor(Fips197InvCipher(rounds, Input(done + i)), cs[i - 1]), chain |-> Input(done + i)]
        BY ApplyIs
      <3>2. mode \in DecModes /\ IsBlock(Input(done + i))
        BY <2>2, BlockAtoms DEF DecModes
      <3>3. Fips197InvCipher(rounds, Input(done + i)) = Dec(Input(done + i))
        BY <1>1, <3>2, DecIs DEF BulkRInv
      <3>4. ys[i] = Xor(Dec(Input(done + i)), cs[i - 1])
        BY <2>2 DEF cs
      <3> QED
        BY <1>5, <2>2, <3>1, <3>3, <3>4
    <2> QED
      BY <2>1, <2>2
  <1>7. Turned(n, ys, cs)
    BY <1>5, <1>6 DEF Turned
  <1> QED
    BY <1>4, <1>7

\* A turn with tweaks.
LEMMA TweaksTurned ==
  ASSUME BulkRInv, mode \in {"xts_enc", "xts_dec"}, NEW n \in 1 .. 8, NEW ys, Took(n, ys),
         reg' = [x5 |-> Tweaks(n)[n]],
         mode = "xts_enc" => \A i \in 1 .. n :
           ys[i] = Xor(Enc(Xor(Input(done + i), TweakBlock(Tweaks(n)[i - 1]))), TweakBlock(Tweaks(n)[i - 1])),
         mode = "xts_dec" => \A i \in 1 .. n :
           ys[i] = Xor(Dec(Xor(Input(done + i), TweakBlock(Tweaks(n)[i - 1]))), TweakBlock(Tweaks(n)[i - 1]))
  PROVE  BulkRegs' /\ \E m, zs, cs : Turned(m, zs, cs)
  <1> DEFINE cs == Tweaks(n)
  <1>1. pc = "loop" /\ pc' = "loop" /\ mode' = mode /\ ~ (mode \in Folded)
    BY DEF Took, Folded
  <1>2. Chain = reg.x5 /\ Chain' = cs[n] /\ reg.x5 \in SUBSET (0 .. 127)
    BY <1>1, ChainThere DEF BulkRInv, BulkRegs
  <1>3. n \in 0 .. 24
    OBVIOUS
  <1>4. /\ cs[0] = reg.x5
        /\ \A k \in 0 .. n : cs[k] \in SUBSET (0 .. 127)
        /\ \A k \in 1 .. n : cs[k] = Abstract!Double(cs[k - 1])
    BY <1>2, <1>3, TweaksAre
  <1>5. BulkRegs'
    <2>1. Chain' \in SUBSET (0 .. 127)
      BY <1>2, <1>4
    <2> QED
      BY <1>1, <2>1 DEF BulkRegs, Folded
  <1>6. ASSUME NEW i \in 1 .. n
        PROVE Abstract!Apply(mode, rounds, cs[i - 1], Input(done + i)) = [out |-> ys[i], chain |-> cs[i]]
    <2> DEFINE t == TweakBlock(cs[i - 1])
    <2>1. CASE mode = "xts_enc"
      <3>1. ys[i] = Xor(Enc(Xor(Input(done + i), t)), t)
        BY <2>1
      <3> HIDE DEF cs
      <3>2. Abstract!Apply("xts_enc", rounds, cs[i - 1], Input(done + i))
              = [out |-> Xor(Fips197Cipher(rounds, Xor(Input(done + i), t)), t),
                 chain |-> Abstract!Double(cs[i - 1])]
        BY ApplyIs
      <3>3. Fips197Cipher(rounds, Xor(Input(done + i), t)) = Enc(Xor(Input(done + i), t))
        BY EncIs DEF BulkRInv
      <3> QED
        BY <1>4, <2>1, <3>1, <3>2, <3>3
    <2>2. CASE mode = "xts_dec"
      <3>1. ys[i] = Xor(Dec(Xor(Input(done + i), t)), t)
        BY <2>2
      <3> HIDE DEF cs
      <3>2. Abstract!Apply("xts_dec", rounds, cs[i - 1], Input(done + i))
              = [out |-> Xor(Fips197InvCipher(rounds, Xor(Input(done + i), t)), t),
                 chain |-> Abstract!Double(cs[i - 1])]
        BY ApplyIs
      <3>3. mode \in DecModes /\ IsBlock(Xor(Input(done + i), t))
        BY <2>2, BlockAtoms, BlockXor DEF DecModes
      <3>4. Fips197InvCipher(rounds, Xor(Input(done + i), t)) = Dec(Xor(Input(done + i), t))
        BY <1>1, <3>3, DecIs DEF BulkRInv
      <3> QED
        BY <1>4, <2>2, <3>1, <3>2, <3>4
    <2> QED
      BY <2>1, <2>2
  <1> HIDE DEF cs
  <1>7. Turned(n, ys, cs)
    BY <1>2, <1>4, <1>6 DEF Turned
  <1> QED
    BY <1>5, <1>7

\* One block before those of a turn, as cfb_dec and cbc_dec put them in
\* their registers.
LEMMA ChainBlocks ==
  ASSUME BulkTypes, BulkMem, NEW n \in Nat \ {0}, n <= nblocks, NEW m, m = n - 1
  PROVE  /\ DOMAIN (<<reg.x5>> \o Blocks(mem, m)) = 1 .. n
         /\ \A i \in 1 .. n : (<<reg.x5>> \o Blocks(mem, m))[i] = InputsBefore(n)[i - 1]
         /\ \A i \in 1 .. n : Before(i - 1) = InputsBefore(n)[i - 1]
  <1> DEFINE S == {reg.x5} \cup {mem[In(i - 1)] : i \in 1 .. m}
             bs == Blocks(mem, m)
             x == reg.x5
  <1>0. bs \in [1 .. m -> S] /\ m \in Nat /\ x \in S
    <2>1. m \in Nat
      BY ONLY n \in Nat \ {0}, m = n - 1
    <2>2. bs = [i \in 1 .. m |-> mem[In(i - 1)]]
      BY DEF Blocks
    <2>3. x \in S /\ \A i \in 1 .. m : mem[In(i - 1)] \in S
      OBVIOUS
    <2> HIDE DEF S, bs, x
    <2> QED
      BY ONLY <2>1, <2>2, <2>3
  <1>l. \A i \in 1 .. n : mem[In(i - 1)] = Input(done + i)
    BY Loads
  <1>1. bs \in Seq(S) /\ Len(bs) = m /\ <<x>> \in Seq(S)
    <2> HIDE DEF S, bs
    <2> QED
      BY <1>0, FunctionIsSeq
  <1>2. \A i \in 1 .. m : bs[i] = mem[In(i - 1)]
    BY DEF Blocks
  <1> HIDE DEF S, bs
  <1>3. <<x>> \o bs \in Seq(S) /\ Len(<<x>> \o bs) = n
    BY <1>1, ConcatProperties
  <1>4. \A i \in 1 .. n : (<<x>> \o bs)[i] = IF i = 1 THEN x ELSE bs[i - 1]
    BY <1>1, ConcatProperties
  <1>5. \A i \in 1 .. n : i # 1 => i - 1 \in 1 .. m /\ i - 1 \in 1 .. n
    OBVIOUS
  <1>6. DOMAIN (<<x>> \o bs) = 1 .. n
    BY <1>3
  <1>7. \A i \in 1 .. n : i - 1 \in 0 .. n /\ (i - 1 = 0 <=> i = 1)
    OBVIOUS
  <1>8. \A i \in 1 .. n : InputsBefore(n)[i - 1] = IF i = 1 THEN x ELSE Input(done + (i - 1))
    BY <1>7 DEF InputsBefore
  <1>9. \A i \in 1 .. n : (<<x>> \o bs)[i] = InputsBefore(n)[i - 1]
    <2>1. \A i \in 1 .. n : i # 1 => bs[i - 1] = Input(done + (i - 1))
      BY <1>2, <1>5, <1>l
    <2> QED
      BY <1>4, <1>8, <2>1
  <1>10. \A i \in 1 .. n : Before(i - 1) = InputsBefore(n)[i - 1]
    <2>1. \A i \in 1 .. n : i # 1 => mem[In((i - 1) - 1)] = Input(done + (i - 1))
      BY <1>5, <1>l
    <2> QED
      BY <1>7, <1>8, <2>1 DEF Before
  <1> QED
    BY <1>6, <1>9, <1>10 DEF bs

-----------------------------------------------------------------------------
(* The turns, one after the other.                                         *)

\* One block, chained with nothing.
LEMMA EcbBulkTurned ==
  ASSUME BulkRInv, EcbEnc \/ EcbDec
  PROVE  BulkRegs' /\ \E n, ys, cs : Turned(n, ys, cs)
  <1>t. BulkTypes /\ BulkMem
    BY DEF BulkRInv
  <1> DEFINE y == IF EcbEnc THEN Enc(mem[In(0)]) ELSE Dec(mem[In(0)])
  <1>1. Took(1, <<y>>) /\ mode \in {"ecb_enc", "ecb_dec"} /\ UNCHANGED <<iv, reg>>
        /\ (EcbEnc => mode = "ecb_enc") /\ (~ EcbEnc => mode = "ecb_dec")
    <2>1. CASE EcbEnc
      <3>1. Took(1, <<Enc(mem[In(0)])>>)
        BY <1>t, <2>1, EcbEncTook
      <3> QED
        BY <2>1, <3>1 DEF EcbEnc
    <2>2. CASE ~ EcbEnc
      <3>1. Took(1, <<Dec(mem[In(0)])>>) /\ EcbDec
        BY <1>t, <2>2, EcbDecTook
      <3> QED
        BY <2>2, <3>1 DEF EcbDec
    <2> QED
      BY <2>1, <2>2
  <1>2. pc = "loop" /\ pc' = "loop" /\ mode' = mode /\ ~ (mode \in Folded) /\ 1 <= nblocks
    BY <1>1, <1>t DEF Took, Folded, BulkTypes
  <1>3. mem[In(0)] = Input(done + 1)
    BY <1>2, <1>t, FirstLoad
  <1>4. Chain' = Chain
    BY <1>1, <1>2, ChainThere
  <1>5. BulkRegs'
    BY <1>1, <1>2 DEF BulkRegs
  <1>6. Abstract!Apply(mode, rounds, Chain, Input(done + 1)) = [out |-> y, chain |-> Chain']
    <2>1. CASE EcbEnc
      <3>1. Fips197Cipher(rounds, Input(done + 1)) = Enc(Input(done + 1))
        BY <1>t, EncIs
      <3>2. Abstract!Apply("ecb_enc", rounds, Chain, Input(done + 1))
              = [out |-> Fips197Cipher(rounds, Input(done + 1)), chain |-> Chain]
        BY ApplyIs
      <3> QED
        BY <1>1, <1>3, <1>4, <2>1, <3>1, <3>2
    <2>2. CASE ~ EcbEnc
      <3>0. IsBlock(Input(done + 1)) /\ mode \in DecModes
        BY <1>1, <2>2, BlockAtoms DEF DecModes
      <3>1. Fips197InvCipher(rounds, Input(done + 1)) = Dec(Input(done + 1))
        BY <1>2, <3>0, DecIs DEF BulkRInv
      <3>2. Abstract!Apply("ecb_dec", rounds, Chain, Input(done + 1))
              = [out |-> Fips197InvCipher(rounds, Input(done + 1)), chain |-> Chain]
        BY ApplyIs
      <3> QED
        BY <1>1, <1>3, <1>4, <2>2, <3>1, <3>2
    <2> QED
      BY <2>1, <2>2
  <1> HIDE DEF y
  <1>7. \E n, ys, cs : Turned(n, ys, cs)
    BY <1>1, <1>6, OneBulkTurned
  <1> QED
    BY <1>5, <1>7

\* One block, with key 0 and the last key in what is added to it.
LEMMA CfbEncBulkTurned ==
  ASSUME BulkRInv, CfbEnc
  PROVE  BulkRegs' /\ \E n, ys, cs : Turned(n, ys, cs)
  <1>t. BulkTypes /\ BulkMem
    BY DEF BulkRInv
  <1> DEFINE y == Xor(key0, LastSum)
             x == Input(done + 1)
  <1>1. Took(1, <<y>>)
    BY <1>t, CfbEncTook
  <1>2. pc = "loop" /\ pc' = "loop" /\ mode' = mode /\ mode = "cfb_enc" /\ 1 <= nblocks
        /\ rounds' = rounds
    BY <1>1, <1>t DEF Took, BulkTypes, CfbEnc
  <1>3. mem[In(0)] = x
    BY <1>2, <1>t, FirstLoad
  <1>4. reg' = [x0 |-> LastSum, x3 |-> y]
    BY DEF CfbEnc, LastSum
  <1>5. Chain = reg.x3 /\ Chain' = y /\ reg.x0 = Xor(reg.x3, key0)
    BY <1>2, <1>4 DEF Chain, BulkRInv, BulkRegs
  <1>6. y = Xor(Enc(reg.x3), x)
    <2>1. Enc(reg.x3) = AesEncLast(Inner(reg.x3), keylast)
      BY <1>t, EncIs
    <2>2. Inner(reg.x3) = InnerEnc(reg.x0, keyschenc, LastKey(rounds))
      BY <1>5, <1>t, RoundsAre DEF Inner
    <2>3. LastSum = AesEncLast(Inner(reg.x3), Xor(x, Xor(key0, keylast)))
      BY <1>3, <2>2 DEF LastSum
    <2>4. Xor(x, Xor(key0, keylast)) = Xor(Xor(x, key0), keylast)
      BY XorAssoc
    <2>5. LastSum = Xor(Enc(reg.x3), Xor(x, key0))
      BY <2>1, <2>3, <2>4, LastRound
    <2>6. Xor(key0, Xor(Enc(reg.x3), Xor(x, key0))) = Xor(Enc(reg.x3), x)
      BY DEF Xor
    <2> QED
      BY <2>5, <2>6
  <1>7. Xor(y, key0) = LastSum
    BY XorComm, XorBack
  <1>8. BulkRegs'
    <2>1. reg'.x0 = Xor(reg'.x3, key0') /\ mode' = "cfb_enc"
      BY <1>2, <1>4, <1>7 DEF key0, keyschenc
    <2> QED
      BY <2>1 DEF BulkRegs
  <1>9. Abstract!Apply(mode, rounds, Chain, x) = [out |-> y, chain |-> Chain']
    <2>1. Fips197Cipher(rounds, reg.x3) = Enc(reg.x3)
      BY <1>t, EncIs
    <2>2. Abstract!Apply("cfb_enc", rounds, Chain, x)
            = [out |-> Xor(Fips197Cipher(rounds, Chain), x), chain |-> Xor(Fips197Cipher(rounds, Chain), x)]
      BY ApplyIs
    <2> QED
      BY ONLY <1>2, <1>5, <1>6, <2>1, <2>2
  <1> HIDE DEF y
  <1>10. \E n, ys, cs : Turned(n, ys, cs)
    BY <1>1, <1>9, OneBulkTurned
  <1> QED
    BY <1>8, <1>10

\* One block, with the next one and key 0 in what it leaves in xmm0.
LEMMA CbcEncBulkTurned ==
  ASSUME BulkRInv, CbcEnc
  PROVE  BulkRegs' /\ \E n, ys, cs : Turned(n, ys, cs)
  <1>t. BulkTypes /\ BulkMem
    BY DEF BulkRInv
  <1> DEFINE i0 == InnerEnc(reg.x0, keyschenc, LastKey(rounds))
             y == AesEncLast(i0, keylast)
             x == Input(done + 1)
  <1>1. Took(1, <<y>>)
    BY <1>t, CbcEncTook
  <1>2. /\ pc = "loop" /\ pc' = "loop" /\ mode' = mode /\ mode \in {"cbc_enc", "cbc_mac"}
        /\ nblocks \in Nat /\ 1 <= nblocks /\ done \in Nat
        /\ nblocks' = nblocks - 1 /\ done' = done + 1 /\ rounds' = rounds
        /\ mem' = Stored(mem, 1, <<y>>)
    <2>1. mode \in {"cbc_enc", "cbc_mac"}
      BY DEF CbcEnc
    <2>2. nblocks \in Nat /\ done \in Nat
      BY <1>t DEF BulkTypes
    <2>3. 1 \in 1 .. nblocks
      BY <1>1 DEF Took
    <2>4. mem' = Stored(mem, 1, <<y>>)
      BY <1>1 DEF Took
    <2>5. /\ pc = "loop" /\ pc' = "loop" /\ mode' = mode /\ rounds' = rounds
          /\ nblocks' = nblocks - 1 /\ done' = done + 1
      BY <1>1 DEF Took
    <2> QED
      BY <2>1, <2>2, <2>3, <2>4, <2>5
  <1>3. mem[In(0)] = x
    BY <1>2, <1>t, FirstLoad
  <1>4. Chain = Xor(Xor(reg.x0, key0), x)
    BY <1>2, <1>3 DEF Chain
  <1>5. y = Enc(Xor(Chain, x))
    <2>1. Xor(Chain, x) = Xor(reg.x0, key0)
      BY <1>4, XorBack
    <2>2. Xor(Xor(Chain, x), key0) = reg.x0
      BY <2>1, XorBack
    <2>3. Enc(Xor(Chain, x)) = AesEncLast(Inner(Xor(Chain, x)), keylast)
      BY <1>t, EncIs
    <2>4. Inner(Xor(Chain, x)) = i0
      BY <2>2, <1>t, RoundsAre DEF Inner
    <2> QED
      BY <2>3, <2>4
  <1>6. Chain' = y
    <2>1. CASE nblocks > 1
      <3>1. reg'.x0 = AesEncLast(i0, Xor(mem[In(1)], Xor(key0, keylast)))
        BY <2>1 DEF CbcEnc
      <3>2. Xor(mem[In(1)], Xor(key0, keylast)) = Xor(Xor(mem[In(1)], key0), keylast)
        BY XorAssoc
      <3>3. reg'.x0 = Xor(y, Xor(mem[In(1)], key0))
        BY <3>1, <3>2, LastRound
      <3>4. In(0)' = In(1)
        BY <1>2 DEF In
      <3>5. mem'[In(1)] = mem[In(1)]
        <4>1. 1 \in Nat /\ 1 < nblocks /\ 0 \in Nat /\ 0 < 1
          BY <2>1
        <4>2. In(1) \in DOMAIN mem
          BY <4>1, <1>t, Unread
        <4>3. Out(0) # In(1)
          BY <4>1, <1>t, Apart
        <4>4. Out(0) \in Nat
          BY <1>2, <1>t, Reached
        <4>5. DOMAIN mem = 0 .. (2 * MaxBlocks)
          BY <1>t DEF BulkMem
        <4>6. ~ (In(1) \in Out(0) .. Out(1 - 1))
          BY <4>3, <4>4
        <4> QED
          BY <1>2, <4>2, <4>5, <4>6 DEF Stored
      <3>6. Chain' = Xor(Xor(reg'.x0, key0), mem'[In(1)])
        <4>1. nblocks' > 0 /\ key0' = key0
          BY <1>2, <2>1 DEF key0, keyschenc
        <4>2. Chain' = Xor(Xor(reg'.x0, key0'), mem'[In(0)'])
          BY <1>2, <4>1 DEF Chain
        <4> QED
          BY <3>4, <4>1, <4>2
      <3>7. Xor(Xor(Xor(y, Xor(mem[In(1)], key0)), key0), mem[In(1)]) = y
        BY DEF Xor
      <3> QED
        BY ONLY <3>3, <3>5, <3>6, <3>7
    <2>2. CASE ~ (nblocks > 1)
      <3>1. nblocks' = 0
        BY <1>2, <2>2
      <3>2. reg'.x5 = y
        BY DEF CbcEnc
      <3> QED
        BY <1>2, <3>1, <3>2 DEF Chain
    <2> QED
      BY <2>1, <2>2
  <1>7. BulkRegs'
    BY <1>2 DEF BulkRegs
  <1>8. Abstract!Apply(mode, rounds, Chain, x) = [out |-> y, chain |-> Chain']
    <2>1. Fips197Cipher(rounds, Xor(Chain, x)) = Enc(Xor(Chain, x))
      BY <1>t, EncIs
    <2>2. \A m \in {"cbc_enc", "cbc_mac"} : Abstract!Apply(m, rounds, Chain, x)
            = [out |-> Fips197Cipher(rounds, Xor(Chain, x)), chain |-> Fips197Cipher(rounds, Xor(Chain, x))]
      BY ApplyIs
    <2> QED
      BY ONLY <1>2, <1>5, <1>6, <2>1, <2>2
  <1> HIDE DEF y
  <1>9. \E n, ys, cs : Turned(n, ys, cs)
    BY <1>1, <1>8, OneBulkTurned
  <1> QED
    BY <1>7, <1>9

\* The invariant in a turn that took n blocks.
LEMMA InTurn ==
  ASSUME BulkRInv, NEW n, NEW ys, Took(n, ys)
  PROVE  /\ pc = "loop" /\ pc' = "loop" /\ mode' = mode /\ n <= nblocks
         /\ n \in Nat /\ BulkTypes /\ BulkMem /\ BulkKeys /\ BulkRegs
  BY DEF Took, BulkRInv, BulkTypes

\* One, four and eight counters.
LEMMA CtrBulkTurned ==
  ASSUME BulkRInv, Ctr1 \/ Ctr4 \/ Ctr8
  PROVE  BulkRegs' /\ \E n, ys, cs : Turned(n, ys, cs)
  <1>t. BulkTypes /\ BulkMem /\ mode = "ctr" /\ pc = "loop"
    BY DEF BulkRInv, Ctr1, Ctr4, Ctr8, Turn1, Turn4, Turn8, Advance
  <1>c. reg.x5 \in 0 .. (Ctrs - 1) /\ iv = reg.x5
    BY <1>t, ChainThere DEF BulkRInv, BulkRegs, Folded
  <1>1. CASE Ctr1
    <2> DEFINE ys == <<Xor(Enc(CtrBlock(reg.x5)), mem[In(0)])>>
    <2>1. Took(1, ys)
      BY <1>t, <1>1, Ctr1Took
    <2>2. mem[In(0)] = Input(done + 1)
      BY <1>t, <2>1, InTurn, FirstLoad
    <2>3. reg.x5 % Ctrs = reg.x5 /\ reg.x5 + 0 = reg.x5
      BY <1>c, CtrSizes
    <2>4. \A i \in 1 .. 1 : ys[i] = Xor(Enc(CtrBlock((reg.x5 + (i - 1)) % Ctrs)), Input(done + i))
      <3>1. \A i \in 1 .. 1 : i = 1 /\ i - 1 = 0
        OBVIOUS
      <3>2. ys[1] = Xor(Enc(CtrBlock(reg.x5)), Input(done + 1))
        BY <2>2
      <3> HIDE DEF ys
      <3> QED
        BY <2>3, <3>1, <3>2
    <2> HIDE DEF ys
    <2>5. iv' = (reg.x5 + 1) % Ctrs /\ reg' = [x5 |-> (reg.x5 + 1) % Ctrs]
      <3> DEFINE next == IF Low(iv) = LowSize - 1 THEN AddHigh(AddLow(reg.x5, 1)) ELSE AddLow(reg.x5, 1)
      <3>1. iv' = next /\ reg' = [x5 |-> next]
        BY <1>1 DEF Ctr1
      <3>2. /\ Low(reg.x5) + 1 < LowSize => AddLow(reg.x5, 1) = (reg.x5 + 1) % Ctrs
            /\ Low(reg.x5) + 1 >= LowSize => AddHigh(AddLow(reg.x5, 1)) = (reg.x5 + 1) % Ctrs
        BY <1>c, AddLowIs
      <3>3. Low(reg.x5) \in 0 .. (LowSize - 1) /\ LowSize \in Nat
        BY <1>c, CtrSizes DEF Low
      <3>4. next = (reg.x5 + 1) % Ctrs
        <4>1. Low(iv) = Low(reg.x5)
          BY <1>c
        <4>2. CASE Low(reg.x5) = LowSize - 1
          <5>1. Low(reg.x5) + 1 >= LowSize
            BY <3>3, <4>2
          <5> QED
            BY <3>2, <4>1, <4>2, <5>1
        <4>3. CASE Low(reg.x5) # LowSize - 1
          <5>1. Low(reg.x5) + 1 < LowSize
            BY <3>3, <4>3
          <5> QED
            BY <3>2, <4>1, <4>3, <5>1
        <4> QED
          BY <4>2, <4>3
      <3> QED
        BY <3>1, <3>4
    <2>6. 1 \in 1 .. 8
      OBVIOUS
    <2> QED
      BY <1>t, <2>1, <2>4, <2>5, <2>6, CtrTurned
  <1>2. CASE Ctr4
    <2> DEFINE es == EncVec4([i \in 1 .. 4 |-> CtrBlock(Ctr4Counters.x[i - 1])])
               ys == Sums(es, 4)
    <2>1. Took(4, ys)
      BY <1>t, <1>2, Ctr4Took
    <2>2. \A i \in 1 .. 4 : mem[In(i - 1)] = Input(done + i)
      BY <1>t, <2>1, InTurn, Loads
    <2>3. /\ \A k \in 0 .. 4 : Ctr4Counters.x[k] = (reg.x5 + k) % Ctrs
          /\ Ctr4Counters.ctr = (reg.x5 + 4) % Ctrs
      BY <1>c, CountersAre
    <2>4. \A i \in 1 .. 4 : es[i] = Enc(CtrBlock((reg.x5 + (i - 1)) % Ctrs))
      <3>1. \A i \in 1 .. 4 : i - 1 \in 0 .. 4
        OBVIOUS
      <3>2. \A i \in 1 .. 4 : es[i] = Enc(CtrBlock(Ctr4Counters.x[i - 1]))
        BY VecAre
      <3> HIDE DEF es
      <3> QED
        BY <2>3, <3>1, <3>2
    <2> HIDE DEF es
    <2>5. \A i \in 1 .. 4 : ys[i] = Xor(Enc(CtrBlock((reg.x5 + (i - 1)) % Ctrs)), Input(done + i))
      BY <2>2, <2>4 DEF Sums
    <2> HIDE DEF ys
    <2>6. iv' = (reg.x5 + 4) % Ctrs /\ reg' = [x5 |-> (reg.x5 + 4) % Ctrs]
      <3>1. iv' = Ctr4Counters.ctr /\ reg' = [x5 |-> Ctr4Counters.x[4]]
        BY <1>2 DEF Ctr4
      <3> QED
        BY <2>3, <3>1
    <2>7. 4 \in 1 .. 8
      OBVIOUS
    <2> QED
      BY <1>t, <2>1, <2>5, <2>6, <2>7, CtrTurned
  <1>3. CASE Ctr8
    <2> DEFINE xs == [i \in 1 .. 8 |-> CtrBlock(Ctr8Counters.x[i - 1])]
               ys == LastEnc(EncOf(xs), Blocks(mem, 8))
    <2>1. Took(8, ys)
      BY <1>t, <1>3, Ctr8Took
    <2>2. \A i \in 1 .. 8 : Blocks(mem, 8)[i] = Input(done + i)
      BY <1>t, <2>1, InTurn, Loads
    <2>3. /\ \A k \in 0 .. 8 : Ctr8Counters.x[k] = (reg.x5 + k) % Ctrs
          /\ Ctr8Counters.ctr = (reg.x5 + 8) % Ctrs
      BY <1>c, CountersAre
    <2>4. DOMAIN xs = 1 .. 8 /\ \A i \in 1 .. 8 : xs[i] = CtrBlock((reg.x5 + (i - 1)) % Ctrs)
      <3>1. \A i \in 1 .. 8 : i - 1 \in 0 .. 8
        OBVIOUS
      <3> QED
        BY <2>3, <3>1
    <2> HIDE DEF xs
    <2>5. \A i \in 1 .. 8 : ys[i] = Xor(Enc(CtrBlock((reg.x5 + (i - 1)) % Ctrs)), Input(done + i))
      <3>1. \A i \in 1 .. 8 : ys[i] = Xor(Enc(xs[i]), Blocks(mem, 8)[i])
        BY <1>t, <2>4, Vec8Is
      <3> HIDE DEF ys
      <3> QED
        BY <2>2, <2>4, <3>1
    <2> HIDE DEF ys
    <2>6. iv' = (reg.x5 + 8) % Ctrs /\ reg' = [x5 |-> (reg.x5 + 8) % Ctrs]
      <3>1. iv' = Ctr8Counters.ctr /\ reg' = [x5 |-> Ctr8Counters.x[8]]
        BY <1>3 DEF Ctr8
      <3> QED
        BY <2>3, <3>1
    <2>7. 8 \in 1 .. 8
      OBVIOUS
    <2> QED
      BY <1>t, <2>1, <2>5, <2>6, <2>7, CtrTurned
  <1> QED
    BY <1>1, <1>2, <1>3

\* One, four and eight counters of 32 bits.
LEMMA LaneBulkTurned ==
  ASSUME BulkRInv, Ctr32le1 \/ Ctr32le4 \/ Ctr32le8
  PROVE  BulkRegs' /\ \E n, ys, cs : Turned(n, ys, cs)
  <1>t. BulkTypes /\ BulkMem /\ mode = "ctr32le" /\ pc = "loop"
    BY DEF BulkRInv, Ctr32le1, Ctr32le4, Ctr32le8, Turn1, Turn4, Turn8, Advance
  <1>c. reg.x5 \in Nat
    BY <1>t, ChainThere DEF BulkRInv, BulkRegs, Folded
  <1>1. CASE Ctr32le1
    <2> DEFINE ys == <<Xor(Enc(CtrBlock(reg.x5)), mem[In(0)])>>
    <2>1. Took(1, ys)
      BY <1>t, <1>1, Ctr32le1Took
    <2>2. mem[In(0)] = Input(done + 1)
      BY <1>t, <2>1, InTurn, FirstLoad
    <2>3. AddLane(reg.x5, 0) = reg.x5
      BY <1>c, LaneNext
    <2>4. \A i \in 1 .. 1 : ys[i] = Xor(Enc(CtrBlock(AddLane(reg.x5, i - 1))), Input(done + i))
      <3>1. \A i \in 1 .. 1 : i = 1 /\ i - 1 = 0
        OBVIOUS
      <3>2. ys[1] = Xor(Enc(CtrBlock(reg.x5)), Input(done + 1))
        BY <2>2
      <3> HIDE DEF ys
      <3> QED
        BY <2>3, <3>1, <3>2
    <2> HIDE DEF ys
    <2>5. reg' = [x5 |-> AddLane(reg.x5, 1)]
      BY <1>1 DEF Ctr32le1
    <2>6. 1 \in 1 .. 8
      OBVIOUS
    <2> QED
      BY <1>t, <2>1, <2>4, <2>5, <2>6, LaneTurned
  <1>2. CASE Ctr32le4
    <2> DEFINE es == EncVec4([i \in 1 .. 4 |-> LaneCounter(i)])
               ys == Sums(es, 4)
    <2>1. Took(4, ys)
      BY <1>t, <1>2, Ctr32le4Took
    <2>2. \A i \in 1 .. 4 : mem[In(i - 1)] = Input(done + i)
      BY <1>t, <2>1, InTurn, Loads
    <2>4. \A i \in 1 .. 4 : es[i] = Enc(CtrBlock(AddLane(reg.x5, i - 1)))
      BY VecAre DEF LaneCounter
    <2> HIDE DEF es
    <2>5. \A i \in 1 .. 4 : ys[i] = Xor(Enc(CtrBlock(AddLane(reg.x5, i - 1))), Input(done + i))
      BY <2>2, <2>4 DEF Sums
    <2> HIDE DEF ys
    <2>6. reg' = [x5 |-> AddLane(reg.x5, 4)]
      BY <1>2 DEF Ctr32le4
    <2>7. 4 \in 1 .. 8
      OBVIOUS
    <2> QED
      BY <1>t, <2>1, <2>5, <2>6, <2>7, LaneTurned
  <1>3. CASE Ctr32le8
    <2> DEFINE xs == [i \in 1 .. 8 |-> LaneCounter(i)]
               ys == LastEnc(EncOf(xs), Blocks(mem, 8))
    <2>1. Took(8, ys)
      BY <1>t, <1>3, Ctr32le8Took
    <2>2. \A i \in 1 .. 8 : Blocks(mem, 8)[i] = Input(done + i)
      BY <1>t, <2>1, InTurn, Loads
    <2>4. DOMAIN xs = 1 .. 8 /\ \A i \in 1 .. 8 : xs[i] = CtrBlock(AddLane(reg.x5, i - 1))
      BY DEF LaneCounter
    <2> HIDE DEF xs
    <2>5. \A i \in 1 .. 8 : ys[i] = Xor(Enc(CtrBlock(AddLane(reg.x5, i - 1))), Input(done + i))
      <3>1. \A i \in 1 .. 8 : ys[i] = Xor(Enc(xs[i]), Blocks(mem, 8)[i])
        BY <1>t, <2>4, Vec8Is
      <3> HIDE DEF ys
      <3> QED
        BY <2>2, <2>4, <3>1
    <2> HIDE DEF ys
    <2>6. reg' = [x5 |-> AddLane(reg.x5, 8)]
      BY <1>3 DEF Ctr32le8
    <2>7. 8 \in 1 .. 8
      OBVIOUS
    <2> QED
      BY <1>t, <2>1, <2>5, <2>6, <2>7, LaneTurned
  <1> QED
    BY <1>1, <1>2, <1>3

\* One, four and eight blocks, each with the one before it.
LEMMA CfbDecBulkTurned ==
  ASSUME BulkRInv, CfbDec1 \/ CfbDec4 \/ CfbDec8
  PROVE  BulkRegs' /\ \E n, ys, cs : Turned(n, ys, cs)
  <1>t. BulkTypes /\ BulkMem /\ mode = "cfb_dec" /\ pc = "loop"
    BY DEF BulkRInv, CfbDec1, CfbDec4, CfbDec8, Turn1, Turn4, Turn8, Advance
  <1>f. ASSUME NEW n \in Nat \ {0}, NEW ys, Took(n, ys), reg' = [x5 |-> mem[In(n - 1)]],
               \A i \in 1 .. n : ys[i] = Xor(Enc(InputsBefore(n)[i - 1]), Input(done + i))
        PROVE  BulkRegs' /\ \E m, zs, cs : Turned(m, zs, cs)
    BY <1>f, <1>t, BeforeTurned
  <1>1. CASE CfbDec1
    <2> DEFINE ys == <<Xor(mem[In(0)], Enc(reg.x5))>>
    <2>1. Took(1, ys)
      BY <1>t, <1>1, CfbDec1Took
    <2>2. mem[In(0)] = Input(done + 1)
      BY <1>t, <2>1, InTurn, FirstLoad
    <2>3. InputsBefore(1)[0] = reg.x5
      BY DEF InputsBefore
    <2>4. \A i \in 1 .. 1 : ys[i] = Xor(Enc(InputsBefore(1)[i - 1]), Input(done + i))
      <3>1. \A i \in 1 .. 1 : i = 1 /\ i - 1 = 0
        OBVIOUS
      <3>2. ys[1] = Xor(Enc(reg.x5), Input(done + 1))
        BY <2>2, XorComm
      <3> HIDE DEF ys
      <3> QED
        BY <2>3, <3>1, <3>2
    <2> HIDE DEF ys
    <2>5. reg' = [x5 |-> mem[In(1 - 1)]]
      BY <1>1 DEF CfbDec1
    <2>6. 1 \in Nat \ {0}
      OBVIOUS
    <2> QED
      BY <1>f, <2>1, <2>4, <2>5, <2>6
  <1>2. CASE CfbDec4
    <2> DEFINE xs == <<reg.x5>> \o Blocks(mem, 3)
               es == EncVec4(xs)
               ys == Sums(es, 4)
    <2>1. Took(4, ys)
      BY <1>t, <1>2, CfbDec4Took
    <2>2. \A i \in 1 .. 4 : mem[In(i - 1)] = Input(done + i)
      BY <1>t, <2>1, InTurn, Loads
    <2>3. \A i \in 1 .. 4 : xs[i] = InputsBefore(4)[i - 1]
      <3>1. 4 \in Nat \ {0} /\ 4 <= nblocks /\ 3 = 4 - 1
        BY <1>t, <2>1, InTurn
      <3> QED
        BY <1>t, <3>1, ChainBlocks
    <2> HIDE DEF xs
    <2>4. \A i \in 1 .. 4 : es[i] = Enc(InputsBefore(4)[i - 1])
      BY <2>3, VecAre
    <2> HIDE DEF es
    <2>5. \A i \in 1 .. 4 : ys[i] = Xor(Enc(InputsBefore(4)[i - 1]), Input(done + i))
      BY <2>2, <2>4 DEF Sums
    <2> HIDE DEF ys
    <2>6. reg' = [x5 |-> mem[In(4 - 1)]] /\ 4 \in Nat \ {0}
      BY <1>2 DEF CfbDec4
    <2> QED
      BY <1>f, <2>1, <2>5, <2>6
  <1>3. CASE CfbDec8
    <2> DEFINE xs == <<reg.x5>> \o Blocks(mem, 7)
               ys == LastEnc(EncOf(xs), Blocks(mem, 8))
    <2>1. Took(8, ys)
      BY <1>t, <1>3, CfbDec8Took
    <2>2. \A i \in 1 .. 8 : Blocks(mem, 8)[i] = Input(done + i)
      BY <1>t, <2>1, InTurn, Loads
    <2>3. DOMAIN xs = 1 .. 8 /\ \A i \in 1 .. 8 : xs[i] = InputsBefore(8)[i - 1]
      <3>1. 8 \in Nat \ {0} /\ 8 <= nblocks /\ 7 = 8 - 1
        BY <1>t, <2>1, InTurn
      <3> QED
        BY <1>t, <3>1, ChainBlocks
    <2> HIDE DEF xs
    <2>5. \A i \in 1 .. 8 : ys[i] = Xor(Enc(InputsBefore(8)[i - 1]), Input(done + i))
      <3>1. \A i \in 1 .. 8 : ys[i] = Xor(Enc(xs[i]), Blocks(mem, 8)[i])
        BY <1>t, <2>3, Vec8Is
      <3> HIDE DEF ys
      <3> QED
        BY <2>2, <2>3, <3>1
    <2> HIDE DEF ys
    <2>6. reg' = [x5 |-> mem[In(8 - 1)]] /\ 8 \in Nat \ {0}
      BY <1>3 DEF CfbDec8
    <2> QED
      BY <1>f, <2>1, <2>5, <2>6
  <1> QED
    BY <1>1, <1>2, <1>3

\* The same for cbc_dec.
LEMMA CbcDecBulkTurned ==
  ASSUME BulkRInv, CbcDec1 \/ CbcDec4 \/ CbcDec8
  PROVE  BulkRegs' /\ \E n, ys, cs : Turned(n, ys, cs)
  <1>t. /\ BulkTypes /\ BulkMem /\ BulkKeys
        /\ mode = "cbc_dec" /\ pc = "loop" /\ mode \in DecModes
    BY DEF BulkRInv, CbcDec1, CbcDec4, CbcDec8, Turn1, Turn4, Turn8, Advance, DecModes
  <1>f. ASSUME NEW n \in Nat \ {0}, NEW ys, Took(n, ys), reg' = [x5 |-> mem[In(n - 1)]],
               \A i \in 1 .. n : ys[i] = Xor(Dec(Input(done + i)), InputsBefore(n)[i - 1])
        PROVE  BulkRegs' /\ \E m, zs, cs : Turned(m, zs, cs)
    BY <1>f, <1>t, BeforeTurned
  <1>1. CASE CbcDec1
    <2> DEFINE ys == <<Xor(Dec(mem[In(0)]), reg.x5)>>
    <2>1. Took(1, ys)
      BY <1>t, <1>1, CbcDec1Took
    <2>2. mem[In(0)] = Input(done + 1)
      BY <1>t, <2>1, InTurn, FirstLoad
    <2>3. InputsBefore(1)[0] = reg.x5
      BY DEF InputsBefore
    <2>4. \A i \in 1 .. 1 : ys[i] = Xor(Dec(Input(done + i)), InputsBefore(1)[i - 1])
      <3>1. \A i \in 1 .. 1 : i = 1 /\ i - 1 = 0
        OBVIOUS
      <3>2. ys[1] = Xor(Dec(Input(done + 1)), reg.x5)
        BY <2>2
      <3> HIDE DEF ys
      <3> QED
        BY <2>3, <3>1, <3>2
    <2> HIDE DEF ys
    <2>5. reg' = [x5 |-> mem[In(1 - 1)]]
      BY <1>1 DEF CbcDec1
    <2>6. 1 \in Nat \ {0}
      OBVIOUS
    <2> QED
      BY <1>f, <2>1, <2>4, <2>5, <2>6
  <1>2. CASE CbcDec4
    <2> DEFINE ds == DecVec4(Blocks(mem, 4))
               ys == ChainedSums(ds, 4)
    <2>1. Took(4, ys)
      BY <1>t, <1>2, CbcDec4Took
    <2>2. /\ \A i \in 1 .. 4 : mem[In(i - 1)] = Input(done + i)
          /\ \A i \in 1 .. 4 : Blocks(mem, 4)[i] = Input(done + i)
      BY <1>t, <2>1, InTurn, Loads
    <2>3. \A i \in 1 .. 4 : Before(i - 1) = InputsBefore(4)[i - 1]
      <3>1. 4 \in Nat \ {0} /\ 4 <= nblocks /\ 3 = 4 - 1
        BY <1>t, <2>1, InTurn
      <3> QED
        BY <1>t, <3>1, ChainBlocks
    <2>4. \A i \in 1 .. 4 : ds[i] = Dec(Input(done + i))
      BY <2>2, VecAre
    <2> HIDE DEF ds
    <2>5. \A i \in 1 .. 4 : ys[i] = Xor(Dec(Input(done + i)), InputsBefore(4)[i - 1])
      BY <2>3, <2>4, XorComm DEF ChainedSums
    <2>6. reg' = [x5 |-> mem[In(4 - 1)]]
      <3>1. 4 <= nblocks /\ mode # "cbc_mac"
        BY <1>t, <2>1, InTurn
      <3> QED
        BY <1>2, <1>t, CbcDec4Is
    <2> HIDE DEF ys
    <2>7. 4 \in Nat \ {0}
      OBVIOUS
    <2> QED
      BY <1>f, <2>1, <2>5, <2>6, <2>7
  <1>3. CASE CbcDec8
    <2> DEFINE ivs == <<reg.x5>> \o Blocks(mem, 7)
               ys == LastDec(DecOf(Blocks(mem, 8)), ivs)
    <2>1. Took(8, ys)
      BY <1>t, <1>3, CbcDec8Took
    <2>2. DOMAIN Blocks(mem, 8) = 1 .. 8 /\ \A i \in 1 .. 8 : Blocks(mem, 8)[i] = Input(done + i)
      BY <1>t, <2>1, InTurn, Loads
    <2>3. \A i \in 1 .. 8 : ivs[i] = InputsBefore(8)[i - 1]
      <3>1. 8 \in Nat \ {0} /\ 8 <= nblocks /\ 7 = 8 - 1
        BY <1>t, <2>1, InTurn
      <3> QED
        BY <1>t, <3>1, ChainBlocks
    <2> HIDE DEF ivs
    <2>5. \A i \in 1 .. 8 : ys[i] = Xor(Dec(Input(done + i)), InputsBefore(8)[i - 1])
      <3>1. \A i \in 1 .. 8 : ys[i] = Xor(Dec(Blocks(mem, 8)[i]), ivs[i])
        BY <1>t, <2>2, InvVec8Is
      <3> HIDE DEF ys
      <3> QED
        BY <2>2, <2>3, <3>1
    <2> HIDE DEF ys
    <2>6. reg' = [x5 |-> mem[In(8 - 1)]] /\ 8 \in Nat \ {0}
      BY <1>3 DEF CbcDec8
    <2> QED
      BY <1>f, <2>1, <2>5, <2>6
  <1> QED
    BY <1>1, <1>2, <1>3

\* What a turn of XTS takes: blocks with their tweaks.
LEMMA XtsInIs ==
  ASSUME BulkTypes, BulkMem, NEW n \in Nat, n <= nblocks
  PROVE  /\ DOMAIN XtsIn(n) = 1 .. n
         /\ \A i \in 1 .. n : XtsIn(n)[i] = Xor(Input(done + i), TweakBlock(Tweaks(n)[i - 1]))
  <1>1. \A i \in 1 .. n : mem[In(i - 1)] = Input(done + i)
    BY Loads
  <1>2. \A i \in 1 .. n : i \in 1 .. nblocks
    BY DEF BulkTypes
  <1> DEFINE t == Tweaks(n)
  <1> HIDE DEF t
  <1>3. \A i \in 1 .. n : Tweaked(t)[i] = Xor(Input(done + i), TweakBlock(t[i - 1]))
    BY <1>1, <1>2 DEF Tweaked
  <1> QED
    BY <1>3 DEF XtsIn, FirstOf, t

\* One, four and eight blocks with tweaks,
LEMMA XtsEncBulkTurned ==
  ASSUME BulkRInv, XtsEnc1 \/ XtsEnc4 \/ XtsEnc8
  PROVE  BulkRegs' /\ \E n, ys, cs : Turned(n, ys, cs)
  <1>t. BulkTypes /\ BulkMem /\ mode = "xts_enc" /\ pc = "loop"
    BY DEF BulkRInv, XtsEnc1, XtsEnc4, XtsEnc8, Turn1, Turn4, Turn8, Advance
  <1>c. reg.x5 \in SUBSET (0 .. 127)
    BY <1>t, ChainThere DEF BulkRInv, BulkRegs, Folded
  <1>f. ASSUME NEW n \in 1 .. 8, NEW ys, Took(n, ys), reg' = [x5 |-> Tweaks(n)[n]],
               \A i \in 1 .. n : ys[i] = Xor(Enc(Xor(Input(done + i), TweakBlock(Tweaks(n)[i - 1]))),
                                             TweakBlock(Tweaks(n)[i - 1]))
        PROVE  BulkRegs' /\ \E m, zs, cs : Turned(m, zs, cs)
    BY <1>f, <1>t, TweaksTurned
  <1>1. CASE XtsEnc1
    <2> DEFINE x4 == TweakBlock(reg.x5)
               ys == <<Xor(x4, Enc(Xor(mem[In(0)], x4)))>>
    <2>1. Took(1, ys)
      BY <1>t, <1>1, XtsEnc1Took
    <2>2. mem[In(0)] = Input(done + 1)
      BY <1>t, <2>1, InTurn, FirstLoad
    <2>3. Tweaks(1)[0] = reg.x5
      <3>1. 1 \in 0 .. 24
        OBVIOUS
      <3> QED
        BY <1>c, <3>1, TweaksAre
    <2>4. \A i \in 1 .. 1 : ys[i] = Xor(Enc(Xor(Input(done + i), TweakBlock(Tweaks(1)[i - 1]))),
                                        TweakBlock(Tweaks(1)[i - 1]))
      <3>1. \A i \in 1 .. 1 : i = 1 /\ i - 1 = 0
        OBVIOUS
      <3>2. ys[1] = Xor(Enc(Xor(Input(done + 1), x4)), x4)
        BY <2>2, XorComm
      <3> HIDE DEF ys
      <3> QED
        BY <2>3, <3>1, <3>2
    <2> HIDE DEF ys
    <2>5. reg' = [x5 |-> Tweaks(1)[1]]
      BY <1>1 DEF XtsEnc1
    <2>6. 1 \in 1 .. 8
      OBVIOUS
    <2> QED
      BY <1>f, <2>1, <2>4, <2>5, <2>6
  <1>2. CASE XtsEnc4
    <2> DEFINE es == EncVec4(XtsIn(4))
               ys == XtsSums(4, es)
    <2>1. Took(4, ys)
      BY <1>t, <1>2, XtsEnc4Took
    <2>2. \A i \in 1 .. 4 : XtsIn(4)[i] = Xor(Input(done + i), TweakBlock(Tweaks(4)[i - 1]))
      BY <1>t, <2>1, InTurn, XtsInIs
    <2>3. \A i \in 1 .. 4 : es[i] = Enc(Xor(Input(done + i), TweakBlock(Tweaks(4)[i - 1])))
      BY <2>2, VecAre
    <2> HIDE DEF es
    <2>4. \A i \in 1 .. 4 : ys[i] = Xor(TweakBlock(Tweaks(4)[i - 1]), es[i])
      BY DEF XtsSums
    <2> HIDE DEF ys
    <2>5. \A i \in 1 .. 4 : ys[i] = Xor(Enc(Xor(Input(done + i), TweakBlock(Tweaks(4)[i - 1]))),
                                        TweakBlock(Tweaks(4)[i - 1]))
      BY <2>3, <2>4, XorComm
    <2>6. reg' = [x5 |-> Tweaks(4)[4]]
      BY <1>2 DEF XtsEnc4
    <2>7. 4 \in 1 .. 8
      OBVIOUS
    <2> QED
      BY <1>f, <2>1, <2>5, <2>6, <2>7
  <1>3. CASE XtsEnc8
    <2> DEFINE ys == LastEnc(EncOf(XtsIn(8)), TweakSums)
    <2>1. Took(8, ys)
      BY <1>t, <1>3, XtsEnc8Took
    <2>2. /\ DOMAIN XtsIn(8) = 1 .. 8
          /\ \A i \in 1 .. 8 : XtsIn(8)[i] = Xor(Input(done + i), TweakBlock(Tweaks(8)[i - 1]))
      BY <1>t, <2>1, InTurn, XtsInIs
    <2>3. \A i \in 1 .. 8 : TweakSums[i] = TweakBlock(Tweaks(8)[i - 1])
      BY DEF TweakSums
    <2>4. \A i \in 1 .. 8 : ys[i] = Xor(Enc(XtsIn(8)[i]), TweakSums[i])
      BY <1>t, <2>2, Vec8Is
    <2> HIDE DEF ys
    <2>5. \A i \in 1 .. 8 : ys[i] = Xor(Enc(Xor(Input(done + i), TweakBlock(Tweaks(8)[i - 1]))),
                                        TweakBlock(Tweaks(8)[i - 1]))
      BY <2>2, <2>3, <2>4
    <2>6. reg' = [x5 |-> Tweaks(8)[8]]
      BY <1>3 DEF XtsEnc8
    <2>7. 8 \in 1 .. 8
      OBVIOUS
    <2> QED
      BY <1>f, <2>1, <2>5, <2>6, <2>7
  <1> QED
    BY <1>1, <1>2, <1>3

\* and their decryption.
LEMMA XtsDecBulkTurned ==
  ASSUME BulkRInv, XtsDec1 \/ XtsDec4 \/ XtsDec8
  PROVE  BulkRegs' /\ \E n, ys, cs : Turned(n, ys, cs)
  <1>t. /\ BulkTypes /\ BulkMem /\ BulkKeys
        /\ mode = "xts_dec" /\ pc = "loop" /\ mode \in DecModes
    BY DEF DecModes, BulkRInv, XtsDec1, XtsDec4, XtsDec8, Turn1, Turn4, Turn8, Advance
  <1>c. reg.x5 \in SUBSET (0 .. 127)
    BY <1>t, ChainThere DEF BulkRInv, BulkRegs, Folded
  <1>f. ASSUME NEW n \in 1 .. 8, NEW ys, Took(n, ys), reg' = [x5 |-> Tweaks(n)[n]],
               \A i \in 1 .. n : ys[i] = Xor(Dec(Xor(Input(done + i), TweakBlock(Tweaks(n)[i - 1]))),
                                             TweakBlock(Tweaks(n)[i - 1]))
        PROVE  BulkRegs' /\ \E m, zs, cs : Turned(m, zs, cs)
    BY <1>f, <1>t, TweaksTurned
  <1>1. CASE XtsDec1
    <2> DEFINE x4 == TweakBlock(reg.x5)
               ys == <<Xor(x4, Dec(Xor(mem[In(0)], x4)))>>
    <2>1. Took(1, ys)
      BY <1>t, <1>1, XtsDec1Took
    <2>2. mem[In(0)] = Input(done + 1)
      BY <1>t, <2>1, InTurn, FirstLoad
    <2>3. Tweaks(1)[0] = reg.x5
      <3>1. 1 \in 0 .. 24
        OBVIOUS
      <3> QED
        BY <1>c, <3>1, TweaksAre
    <2>4. \A i \in 1 .. 1 : ys[i] = Xor(Dec(Xor(Input(done + i), TweakBlock(Tweaks(1)[i - 1]))),
                                        TweakBlock(Tweaks(1)[i - 1]))
      <3>1. \A i \in 1 .. 1 : i = 1 /\ i - 1 = 0
        OBVIOUS
      <3>2. ys[1] = Xor(Dec(Xor(Input(done + 1), x4)), x4)
        BY <2>2, XorComm
      <3> HIDE DEF ys
      <3> QED
        BY <2>3, <3>1, <3>2
    <2> HIDE DEF ys
    <2>5. reg' = [x5 |-> Tweaks(1)[1]]
      BY <1>1 DEF XtsDec1
    <2>6. 1 \in 1 .. 8
      OBVIOUS
    <2> QED
      BY <1>f, <2>1, <2>4, <2>5, <2>6
  <1>2. CASE XtsDec4
    <2> DEFINE es == DecVec4(XtsIn(4))
               ys == XtsSums(4, es)
    <2>1. Took(4, ys)
      BY <1>t, <1>2, XtsDec4Took
    <2>2. \A i \in 1 .. 4 : XtsIn(4)[i] = Xor(Input(done + i), TweakBlock(Tweaks(4)[i - 1]))
      BY <1>t, <2>1, InTurn, XtsInIs
    <2>3. \A i \in 1 .. 4 : es[i] = Dec(Xor(Input(done + i), TweakBlock(Tweaks(4)[i - 1])))
      BY <2>2, VecAre
    <2> HIDE DEF es
    <2>4. \A i \in 1 .. 4 : ys[i] = Xor(TweakBlock(Tweaks(4)[i - 1]), es[i])
      BY DEF XtsSums
    <2> HIDE DEF ys
    <2>5. \A i \in 1 .. 4 : ys[i] = Xor(Dec(Xor(Input(done + i), TweakBlock(Tweaks(4)[i - 1]))),
                                        TweakBlock(Tweaks(4)[i - 1]))
      BY <2>3, <2>4, XorComm
    <2>6. reg' = [x5 |-> Tweaks(4)[4]]
      BY <1>2 DEF XtsDec4
    <2>7. 4 \in 1 .. 8
      OBVIOUS
    <2> QED
      BY <1>f, <2>1, <2>5, <2>6, <2>7
  <1>3. CASE XtsDec8
    <2> DEFINE ys == LastDec(DecOf(XtsIn(8)), TweakSums)
    <2>1. Took(8, ys)
      BY <1>t, <1>3, XtsDec8Took
    <2>2. /\ DOMAIN XtsIn(8) = 1 .. 8
          /\ \A i \in 1 .. 8 : XtsIn(8)[i] = Xor(Input(done + i), TweakBlock(Tweaks(8)[i - 1]))
      BY <1>t, <2>1, InTurn, XtsInIs
    <2>3. \A i \in 1 .. 8 : TweakSums[i] = TweakBlock(Tweaks(8)[i - 1])
      BY DEF TweakSums
    <2>4. \A i \in 1 .. 8 : ys[i] = Xor(Dec(XtsIn(8)[i]), TweakSums[i])
      BY <1>t, <2>2, InvVec8Is
    <2> HIDE DEF ys
    <2>5. \A i \in 1 .. 8 : ys[i] = Xor(Dec(Xor(Input(done + i), TweakBlock(Tweaks(8)[i - 1]))),
                                        TweakBlock(Tweaks(8)[i - 1]))
      BY <2>2, <2>3, <2>4
    <2>6. reg' = [x5 |-> Tweaks(8)[8]]
      BY <1>3 DEF XtsDec8
    <2>7. 8 \in 1 .. 8
      OBVIOUS
    <2> QED
      BY <1>f, <2>1, <2>5, <2>6, <2>7
  <1> QED
    BY <1>1, <1>2, <1>3

\* Every turn takes blocks as the mode says.
LEMMA BulkTurnTurned ==
  ASSUME BulkRInv, Turn
  PROVE  BulkRegs' /\ \E n, ys, cs : Turned(n, ys, cs)
  <1>1. CASE EcbEnc \/ EcbDec BY <1>1, EcbBulkTurned
  <1>2. CASE CfbEnc BY <1>2, CfbEncBulkTurned
  <1>3. CASE CbcEnc BY <1>3, CbcEncBulkTurned
  <1>4. CASE Ctr1 \/ Ctr4 \/ Ctr8 BY <1>4, CtrBulkTurned
  <1>5. CASE Ctr32le1 \/ Ctr32le4 \/ Ctr32le8 BY <1>5, LaneBulkTurned
  <1>6. CASE CfbDec1 \/ CfbDec4 \/ CfbDec8 BY <1>6, CfbDecBulkTurned
  <1>7. CASE CbcDec1 \/ CbcDec4 \/ CbcDec8 BY <1>7, CbcDecBulkTurned
  <1>8. CASE XtsEnc1 \/ XtsEnc4 \/ XtsEnc8 BY <1>8, XtsEncBulkTurned
  <1>9. CASE XtsDec1 \/ XtsDec4 \/ XtsDec8 BY <1>9, XtsDecBulkTurned
  <1> QED
    BY <1>1, <1>2, <1>3, <1>4, <1>5, <1>6, <1>7, <1>8, <1>9 DEF Turn

\* A call takes over the chain value of the caller, and gives it back.
LEMMA CallChain ==
  ASSUME BulkTypes, NEW n \in Nat, Call(n)
  PROVE  Chain' = Chain /\ (mode = "cfb_enc" => reg'.x0 = Xor(reg'.x3, key0))
         /\ (mode = "ctr" => reg'.x5 = iv)
  <1>1. /\ pc = "idle" /\ pc' = "loop" /\ nblocks' = n /\ mode' = mode /\ done' = done
        /\ mem' = mem /\ iv' = iv /\ reg' = Loaded
        /\ ~ (n = 0 /\ mode \in {"cbc_enc", "cbc_mac"})
    BY DEF Call
  <1>2. Chain = iv
    BY <1>1 DEF Chain
  <1>3. CASE mode = "cfb_enc"
    <2>1. reg' = [x0 |-> Xor(iv, key0), x3 |-> iv]
      BY <1>1, <1>3 DEF Loaded, CfbEncLoad
    <2> QED
      BY <1>1, <1>2, <1>3, <2>1 DEF Chain
  <1>4. CASE mode \in {"cbc_enc", "cbc_mac"}
    <2>1. reg' = [x0 |-> Xor(Xor(iv, key0), mem[In(0)]), x4 |-> mem[In(0)], x5 |-> iv]
      BY <1>1, <1>4 DEF Loaded, CbcEncLoad
    <2>2. nblocks' > 0 /\ In(0)' = In(0) /\ key0' = key0
      BY <1>1, <1>4 DEF In, key0, keyschenc
    <2>3. Chain' = Xor(Xor(reg'.x0, key0'), mem'[In(0)'])
      BY <1>1, <1>4, <2>2 DEF Chain
    <2>4. Xor(Xor(Xor(Xor(iv, key0), mem[In(0)]), key0), mem[In(0)]) = iv
      BY DEF Xor
    <2>5. Chain' = iv
      BY <1>1, <2>1, <2>2, <2>3, <2>4
    <2> QED
      BY <1>2, <1>4, <2>5
  <1>5. CASE ~ (mode \in Folded)
    <2>1. reg' = [x5 |-> iv]
      BY <1>1, <1>5 DEF Loaded, Folded
    <2>2. Chain' = reg'.x5
      BY <1>1, <1>5, ChainThere
    <2> QED
      BY <1>2, <1>5, <2>1, <2>2 DEF Folded
  <1> QED
    BY <1>3, <1>4, <1>5 DEF Folded

\* A return leaves the chain value with the caller.
LEMMA ReturnChain ==
  ASSUME BulkRInv, Return
  PROVE  Chain' = Chain
  <1>1. /\ pc = "loop" /\ nblocks = 0 /\ pc' = "idle"
        /\ iv' = CASE mode = "cfb_enc" -> reg.x3
                   [] mode = "ctr" -> iv
                   [] OTHER -> reg.x5
    BY DEF Return
  <1>2. Chain' = iv'
    BY <1>1 DEF Chain
  <1>3. CASE mode = "cfb_enc"
    BY <1>1, <1>2, <1>3 DEF Chain
  <1>4. CASE mode = "ctr"
    BY <1>1, <1>2, <1>4, ChainThere DEF Folded, BulkRInv, BulkRegs
  <1>5. CASE mode \in {"cbc_enc", "cbc_mac"}
    BY <1>1, <1>2, <1>5 DEF Chain
  <1>6. CASE ~ (mode \in Folded) /\ mode # "ctr"
    BY <1>1, <1>2, <1>6, ChainThere DEF Folded
  <1> QED
    BY <1>3, <1>4, <1>5, <1>6 DEF Folded

\* The invariant and the mode's start hold at the start.
LEMMA BulkRStart == Init => BulkRInv /\ Abstract!Init
  <1> SUFFICES ASSUME Init PROVE BulkRInv /\ Abstract!Init
    OBVIOUS
  <1>1. BulkTypes /\ BulkMem
    BY BulkStart
  <1>2. prepared = FALSE /\ pc = "idle" /\ done = 0 /\ mode \in Modes
    BY DEF Init
  <1>3. BulkKeys
    BY <1>2 DEF BulkKeys
  <1>4. Chain = iv
    BY <1>2 DEF Chain
  <1>5. iv \in CASE mode \in {"ctr", "ctr32le"} -> CtrStarts
                 [] mode \in {"xts_enc", "xts_dec"} -> TweakStarts
                 [] OTHER -> {Atom("iv", 0)}
    BY DEF Init
  <1>6. CtrStarts \subseteq 0 .. (Ctrs - 1) /\ TweakStarts \subseteq SUBSET (0 .. 127)
        /\ Ctrs \in Nat
    BY SizesAssumption, CtrSizes DEF Ctrs
  <1>7. mode \in {"ctr", "ctr32le"} => iv \in 0 .. (Ctrs - 1) /\ iv \in Nat
    <2>1. mode \in {"ctr", "ctr32le"} => iv \in CtrStarts
      BY <1>5
    <2>2. \A c \in CtrStarts : c \in 0 .. (Ctrs - 1)
      BY ONLY <1>6
    <2>3. \A c \in 0 .. (Ctrs - 1) : c \in Nat
      BY ONLY <1>6
    <2> QED
      BY ONLY <2>1, <2>2, <2>3
  <1>8. mode \in {"xts_enc", "xts_dec"} => iv \in SUBSET (0 .. 127)
    <2>1. mode \in {"xts_enc", "xts_dec"} => iv \in TweakStarts
      BY <1>5
    <2> QED
      BY ONLY <1>6, <2>1
  <1>9. BulkRegs
    BY <1>2, <1>4, <1>7, <1>8 DEF BulkRegs
  <1>10. Abstract!Init
    <2>1. Output = <<>>
      BY <1>2 DEF Output
    <2> QED
      BY <1>2, <2>1 DEF Abstract!Init
  <1> QED
    BY <1>1, <1>3, <1>9, <1>10 DEF BulkRInv

\* The keys for decryption are those that belong to the others, once they
\* are prepared.
LEMMA BulkKeysStep ==
  ASSUME BulkRInv, [Next]_vars
  PROVE  BulkKeys'
  <1>k. DecKeys(keyschenc, rounds)' = DecKeys(keyschenc, rounds') /\ keyschenc' = keyschenc
    BY DEF keyschenc, DecKeys
  <1>1. CASE Turn
    <2>1. \E n, ys : Took(n, ys)
      BY <1>1, TurnTook DEF BulkRInv
    <2>2. UNCHANGED <<mode, rounds, prepared, keyschdec, pc>>
      BY <2>1 DEF Took
    <2> QED
      BY <1>k, <2>2 DEF BulkRInv, BulkKeys
  <1>2. ASSUME NEW n \in CallSizes, Call(n) PROVE BulkKeys'
    <2>1. Prepare /\ UNCHANGED <<mode, rounds>>
      BY <1>2 DEF Call
    <2>2. CASE mode \in DecModes /\ ~ prepared
      <3>1. prepared' = TRUE /\ keyschdec' = DecKeys(keyschenc, rounds)
        BY <2>1, <2>2 DEF Prepare
      <3> QED
        BY <1>k, <2>1, <3>1 DEF BulkKeys
    <2>3. CASE ~ (mode \in DecModes /\ ~ prepared)
      <3>1. UNCHANGED <<prepared, keyschdec>>
        BY <2>1, <2>3 DEF Prepare
      <3> QED
        BY <1>k, <2>1, <2>3, <3>1 DEF BulkRInv, BulkKeys
    <2> QED
      BY <2>2, <2>3
  <1>3. CASE Return
    <2>1. UNCHANGED <<mode, rounds, prepared, keyschdec>> /\ pc' = "idle"
      BY <1>3 DEF Return, ctx
    <2> QED
      BY <1>k, <2>1 DEF BulkRInv, BulkKeys
  <1>4. CASE UNCHANGED vars
    BY <1>4, <1>k DEF vars, BulkRInv, BulkKeys
  <1> QED
    BY <1>1, <1>2, <1>3, <1>4 DEF Next

\* A step that takes no blocks is not seen.
LEMMA BulkUnseen ==
  ASSUME UNCHANGED <<mode, rounds, dst, mem, done>>, Chain' = Chain
  PROVE  UNCHANGED Abstract!vars
  <1>1. Output' = Output
    BY DEF Output
  <1>2. [i \in 1 .. MaxBlocks |-> Input(i)]' = [i \in 1 .. MaxBlocks |-> Input(i)]
    BY DEF Input, Atom
  <1> QED
    BY <1>1, <1>2 DEF Abstract!vars

\* The invariant of the chain values is kept, and every step is one of the
\* mode of operation, or takes no blocks.
LEMMA BulkStep ==
  ASSUME BulkRInv, [Next]_vars
  PROVE  BulkRegs' /\ [Abstract!Process]_Abstract!vars
  <1>1. CASE Turn
    <2>1. BulkRegs' /\ \E n, ys, cs : Turned(n, ys, cs)
      BY <1>1, BulkTurnTurned
    <2>2. PICK n, ys, cs : Turned(n, ys, cs)
      BY <2>1
    <2>3. Abstract!Process
      BY <2>2, BulkProcess DEF BulkRInv
    <2> QED
      BY <2>1, <2>3
  <1>2. ASSUME NEW n \in CallSizes, Call(n) PROVE BulkRegs' /\ UNCHANGED Abstract!vars
    <2>1. n \in Nat /\ BulkTypes
      BY SizesAssumption DEF BulkRInv
    <2>2. /\ Chain' = Chain
          /\ mode = "cfb_enc" => reg'.x0 = Xor(reg'.x3, key0)
          /\ mode = "ctr" => reg'.x5 = iv
      BY <1>2, <2>1, CallChain
    <2>3. UNCHANGED <<mode, rounds, dst, mem, iv, done>>
      BY <1>2 DEF Call
    <2>4. key0' = key0 /\ Ctrs' = Ctrs
      BY DEF key0, keyschenc, Ctrs
    <2>5. BulkRegs'
      BY <2>2, <2>3, <2>4 DEF BulkRInv, BulkRegs
    <2> QED
      BY <2>2, <2>3, <2>5, BulkUnseen
  <1>3. CASE Return
    <2>1. Chain' = Chain
      BY <1>3, ReturnChain
    <2>2. UNCHANGED <<mode, rounds, dst, mem, done>> /\ pc' = "idle"
      BY <1>3 DEF Return, ctx
    <2>3. BulkRegs'
      BY <2>1, <2>2 DEF BulkRInv, BulkRegs, Ctrs
    <2> QED
      BY <2>1, <2>2, <2>3, BulkUnseen
  <1>4. CASE UNCHANGED vars
    <2>1. UNCHANGED <<mode, rounds, dst, mem, done, iv, reg, pc, nblocks>>
      BY <1>4 DEF vars
    <2>2. Chain' = Chain
      BY <2>1 DEF Chain, In, key0, keyschenc
    <2>3. BulkRegs'
      BY <2>1, <2>2 DEF BulkRInv, BulkRegs, Ctrs, key0, keyschenc
    <2> QED
      BY <2>1, <2>2, <2>3, BulkUnseen
  <1> QED
    BY <1>1, <1>2, <1>3, <1>4 DEF Next

\* A step of the run is one of AesBulk, or none.
LEMMA BulkStepOfRun ==
  [CiphersNext]_<<which, vars, contextVars, sm4Vars, sm3Vars>> => [Next]_vars
  <1> SUFFICES ASSUME [CiphersNext]_<<which, vars, contextVars, sm4Vars, sm3Vars>>
               PROVE  [Next]_vars
    OBVIOUS
  <1>1. CASE Next
    BY <1>1
  <1>2. CASE UNCHANGED vars
    BY <1>2
  <1> QED
    BY <1>1, <1>2 DEF CiphersNext

\* rijndael-aesni.c: for every length of the message and every way to split it
\* into calls, in place or not, whatever the number of rounds, the blocks that
\* come out, and the IV, counter or tweak that is left for the next call, are
\* those that the mode of operation gives with the cipher of FIPS 197.
THEOREM ModeImplemented == CiphersSpec => ImplementsMode
  <1>1. CiphersInit => Abstract!Init /\ BulkRInv
    BY BulkRStart DEF CiphersInit
  <1>2. BulkRInv /\ [CiphersNext]_<<which, vars, contextVars, sm4Vars, sm3Vars>> => BulkRInv'
    <2> SUFFICES ASSUME BulkRInv, [Next]_vars PROVE BulkRInv'
      BY BulkStepOfRun
    <2> QED
      BY BulkNext, BulkKeysStep, BulkStep DEF BulkRInv
  <1>3. BulkRInv /\ [CiphersNext]_<<which, vars, contextVars, sm4Vars, sm3Vars>>
          => [Abstract!Process]_Abstract!vars
    BY BulkStepOfRun, BulkStep
  <1> QED
    BY <1>1, <1>2, <1>3, PTL DEF CiphersSpec, ImplementsMode, Abstract!Spec

\* The modules' operators are the same: Xor,
LEMMA ContextXor == \A a, b : Context!Xor(a, b) = Xor(a, b)
  BY DEF Context!Xor, Xor

\* one round,
LEMMA ContextRounds ==
  /\ \A x, k : Context!AesEnc(x, k) = AesEnc(x, k) /\ Context!AesDec(x, k) = AesDec(x, k)
  /\ \A x, k : Context!AesEncLast(x, k) = AesEncLast(x, k) /\ Context!AesDecLast(x, k) = AesDecLast(x, k)
  /\ \A x, m : Context!Mixed(x, m) = Mixed(x, m)
  /\ \A x : Context!InvSubShift(x) = InvSubShift(x)
  BY DEF Context!Xor, Xor, Context!AesEnc, AesEnc, Context!AesDec, AesDec, Context!AesEncLast, AesEncLast,
    Context!AesDecLast, AesDecLast, Context!Mixed, Mixed, Context!InvSubShift, InvSubShift, Context!SubShift, SubShift

\* the rounds before the last one,
LEMMA ContextInner ==
  /\ \A x, keys, n : Context!InnerEnc(x, keys, n) = InnerEnc(x, keys, n)
  /\ \A x, keys, n : Context!InnerDec(x, keys, n) = InnerDec(x, keys, n)
  BY ContextRounds DEF Context!InnerEnc, InnerEnc, Context!InnerDec, InnerDec

\* all of them,
LEMMA ContextDo ==
  /\ \A x, keys, n : Context!DoEnc(x, keys, n) = DoEnc(x, keys, n)
  /\ \A x, keys, n : Context!DoDec(x, keys, n) = DoDec(x, keys, n)
  BY ContextInner, ContextRounds, ContextXor DEF Context!DoEnc, DoEnc, Context!DoDec, DoDec, Context!LastKey, LastKey

\* the round keys,
LEMMA ContextKeys ==
  /\ \A keysch : Context!EncKeys(keysch) = EncKeys(keysch)
  /\ \A keys, n : Context!DecKeys(keys, n) = DecKeys(keys, n)
  BY ContextRounds DEF Context!EncKeys, EncKeys, Context!AsBlock, AsBlock, Context!DecKeys, DecKeys, Context!AesImc, AesImc

\* the shifts and sums of words,
LEMMA ContextExpand ==
  /\ \A a, t : Context!Cascade(a, t) = Cascade(a, t)
  /\ \A a, r : Context!KeyGenAssist(a, r) = KeyGenAssist(a, r)
  /\ \A a, b : Context!XorWords(a, b) = XorWords(a, b)
  /\ \A a : Context!ShiftWords(a) = ShiftWords(a)
  /\ Context!Zero = Zero
  BY ContextXor DEF Context!Cascade, Cascade, Context!KeyGenAssist, KeyGenAssist, Context!XorWords, XorWords,
    Context!ShiftWords, ShiftWords, Context!Zero, Zero

\* and the key schedules.
LEMMA ContextSchedule128 == \A key : Context!Schedule128(key) = Schedule128(key)
  <1> SUFFICES ASSUME NEW key PROVE Context!Schedule128(key) = Schedule128(key)
    OBVIOUS
  <1> DEFINE rcon == <<1, 2, 4, 8, 16, 32, 64, 128, 27, 54>>
             RecC(k) == k = [r \in 0 .. 10 |->
               IF r = 0 THEN key ELSE Context!Expand128(k[r - 1], rcon[r])]
             Rec(k) == k = [r \in 0 .. 10 |->
               IF r = 0 THEN key ELSE Expand128(k[r - 1], rcon[r])]
             All(k) == [r \in 1 .. 11 |-> k[r - 1]]
  <1>0. \A x, r : Context!Expand128(x, r) = Expand128(x, r)
    BY ContextExpand DEF Context!Expand128, Expand128
  <1>1. \A k : RecC(k) <=> Rec(k)
    <2> HIDE DEF rcon
    <2> QED
      BY <1>0
  <1>2. Context!Schedule128(key) = All(CHOOSE k : RecC(k))
    BY DEF Context!Schedule128
  <1>3. Schedule128(key) = All(CHOOSE k : Rec(k))
    BY DEF Schedule128
  <1> HIDE DEF Rec, RecC, All
  <1>4. (CHOOSE k : RecC(k)) = (CHOOSE k : Rec(k))
    BY <1>1
  <1> QED
    BY <1>2, <1>3, <1>4

\* The one of eight words.
LEMMA ContextSchedule256 == \A key : Context!Schedule256(key) = Schedule256(key)
  <1> SUFFICES ASSUME NEW key PROVE Context!Schedule256(key) = Schedule256(key)
    OBVIOUS
  <1> DEFINE rcon == <<1, 2, 4, 8, 16, 32>>
             RecC(ks) == ks = [n \in 0 .. 6 |->
               IF n = 0 THEN <<SubSeq(key, 1, 4), SubSeq(key, 5, 8)>>
               ELSE LET p == ks[n - 1]
                        x3 == p[2 * n]
                        a == Context!Expand256A(p[2 * n - 1], x3, rcon[n])
                    IN  p \o <<a, Context!Expand256B(a, x3)>>]
             Rec(ks) == ks = [n \in 0 .. 6 |->
               IF n = 0 THEN <<SubSeq(key, 1, 4), SubSeq(key, 5, 8)>>
               ELSE LET p == ks[n - 1]
                        x3 == p[2 * n]
                        a == Expand256A(p[2 * n - 1], x3, rcon[n])
                    IN  p \o <<a, Expand256B(a, x3)>>]
             LastOf(ks) == Append(ks[6], Expand256A(ks[6][13], ks[6][14], 64))
  <1>0. /\ \A x, y, r : Context!Expand256A(x, y, r) = Expand256A(x, y, r)
        /\ \A x, y : Context!Expand256B(x, y) = Expand256B(x, y)
    BY ContextExpand DEF Context!Expand256A, Expand256A, Context!Expand256B, Expand256B
  <1>1. \A ks : RecC(ks) <=> Rec(ks)
    <2> HIDE DEF rcon
    <2> QED
      BY <1>0
  <1>2. Context!Schedule256(key) = LastOf(CHOOSE ks : RecC(ks))
    BY <1>0 DEF Context!Schedule256
  <1>3. Schedule256(key) = LastOf(CHOOSE ks : Rec(ks))
    BY DEF Schedule256
  <1> HIDE DEF Rec, RecC, LastOf
  <1>4. (CHOOSE ks : RecC(ks)) = (CHOOSE ks : Rec(ks))
    BY <1>1
  <1> QED
    BY <1>2, <1>3, <1>4

\* The one of six words.
LEMMA ContextSchedule192 == \A key : Context!Schedule192(key) = Schedule192(key)
  <1>1. \A k, r : Context!Expand192(k, r) = Expand192(k, r)
    BY ContextExpand DEF Context!Expand192, Expand192
  <1>2. \A ks, k, r : Context!Store192(ks, k, r) = Store192(ks, k, r)
    BY <1>1 DEF Context!Store192, Store192
  <1> QED
    BY <1>2, ContextExpand DEF Context!Schedule192, Schedule192

\* All of them.
LEMMA ContextSchedule == \A n, key : Context!Schedule(n, key) = Schedule(n, key)
  BY ContextSchedule128, ContextSchedule192, ContextSchedule256 DEF Context!Schedule, Schedule

-----------------------------------------------------------------------------
(* The key schedules.                                                      *)

\* What is added to the first of nk words: the S-box of the last one, rotated,
\* and a round constant;
RotSub(w, rcon) == {<<"rotsub", w>>, <<"rcon", rcon>>}
\* and with eight words to the fifth, without.
Sub(w) == {<<"sub", w>>}

\* What aeskeygenassist makes of its words.
LEMMA AssistIs ==
  /\ \A a, rcon : rcon # 0 => /\ KeyGenAssist(a, rcon)[2] = RotSub(a[2], rcon)
                              /\ KeyGenAssist(a, rcon)[4] = RotSub(a[4], rcon)
  /\ \A a : KeyGenAssist(a, 0)[3] = Sub(a[4])
  BY DEF KeyGenAssist, RotSub, Sub, Xor

\* Four words, each the sum of the one before it and of one of a; the first has
\* t added.
Summed(c, a, t) ==
  /\ c = [j \in 1 .. 4 |-> c[j]]
  /\ c[1] = Xor(a[1], t)
  /\ \A j \in 2 .. 4 : c[j] = Xor(a[j], c[j - 1])

\* Three shifts and four additions make each word such a sum.
LEMMA CascadeIs == \A a, t : Summed(Cascade(a, t), a, t)
  <1> SUFFICES ASSUME NEW a, NEW t PROVE Summed(Cascade(a, t), a, t)
    OBVIOUS
  <1> DEFINE c == Cascade(a, t)
  <1>0. \A x : Xor(x, Zero) = x /\ Xor(Zero, x) = x
    BY DEF Xor, Zero
  <1>1. /\ c[1] = Xor(Xor(Xor(a[1], Zero), Xor(Zero, Zero)), t)
        /\ c[2] = Xor(Xor(Xor(a[2], a[1]), Xor(Zero, Zero)), t)
        /\ c[3] = Xor(Xor(Xor(a[3], a[2]), Xor(a[1], Zero)), t)
        /\ c[4] = Xor(Xor(Xor(a[4], a[3]), Xor(a[2], a[1])), t)
        /\ c = [j \in 1 .. 4 |-> c[j]]
    BY DEF Cascade, XorWords, ShiftWords
  <1> HIDE DEF c
  <1>2. c[1] = Xor(a[1], t)
    BY <1>0, <1>1
  <1>3. c[2] = Xor(a[2], c[1])
    BY ONLY <1>0, <1>1, <1>2, XorComm, XorAssoc
  <1>4. c[3] = Xor(a[3], c[2])
    BY ONLY <1>0, <1>1, XorComm, XorAssoc
  <1>5. c[4] = Xor(a[4], c[3])
    BY ONLY <1>0, <1>1, XorComm, XorAssoc
  <1>6. Summed(c, a, t)
    BY <1>1, <1>2, <1>3, <1>4, <1>5 DEF Summed
  <1> QED
    BY <1>6 DEF c

\* The round constants of the three loops.
rcon128 == <<1, 2, 4, 8, 16, 32, 64, 128, 27, 54>>
rcon192 == <<1, 4, 16, 64>>
rcon256 == <<1, 2, 4, 8, 16, 32>>

\* The key schedules by their stages.
LEMMA Schedule128Is == \A key : Schedule128(key) =
    [r \in 1 .. 11 |-> Stages(0 .. 10, "128", rcon128, key)[r - 1]]
  BY DEF Schedule128, Stages, Stage, rcon128

\* What the loop for six words begins with,
First192(key) == [k |-> [x1 |-> SubSeq(key, 1, 4), x3 |-> <<key[5], key[6], Zero, Zero>>],
                  ks |-> <<SubSeq(key, 1, 4)>>]

\* and ends with.
LEMMA Schedule192Is == \A key : Schedule192(key) =
    Stages(0 .. 4, "192", rcon192, First192(key))[4].ks
  BY DEF Schedule192, Stages, Stage, rcon192, First192

\* What the loop for eight words begins with,
First256(key) == <<SubSeq(key, 1, 4), SubSeq(key, 5, 8)>>

\* and ends with, and one row more.
LEMMA Schedule256Is == \A key :
    LET ks == Stages(0 .. 6, "256", rcon256, First256(key))[6]
    IN  Schedule256(key) = Append(ks, Expand256A(ks[13], ks[14], 64))
  BY DEF Schedule256, Stages, Stage, rcon256, First256, KeyTurn256

-----------------------------------------------------------------------------
(* KeyExpansion of FIPS 197.                                               *)

\* What is added to a word.
FipsTemp(nk, i, prev) ==
  IF i % nk = 0 THEN RotSub(prev, rcon128[i \div nk])
  ELSE IF nk > 6 /\ i % nk = 4 THEN Sub(prev)
  ELSE prev

\* The first n words of v are those of the key expansion.
Expands(v, key, n) ==
  /\ \A i \in 1 .. Len(key) : v[i] = key[i]
  /\ \A i \in (Len(key) + 1) .. n :
       v[i] = Xor(v[i - Len(key)], FipsTemp(Len(key), i - 1, v[i - 1]))

\* Keys of four, six and eight words.
IsKey(key) == Len(key) \in {4, 6, 8} /\ key = FirstOf(key, Len(key))

\* Four words of a sequence.
LEMMA WordsOfKey ==
  ASSUME NEW v, NEW n \in Nat, NEW r \in Nat, r > 0, 4 * r <= n
  PROVE  SubSeq(FirstOf(v, n), 4 * r - 3, 4 * r) = [j \in 1 .. 4 |-> v[4 * r - 4 + j]]
  <1> DEFINE S == {v[i] : i \in 1 .. n}
             s == FirstOf(v, n)
             t == SubSeq(s, 4 * r - 3, 4 * r)
  <1>1. s \in Seq(S) /\ Len(s) = n
    BY FirstOfIsSeq
  <1>2. \A i \in 1 .. n : s[i] = v[i]
    BY DEF FirstOf
  <1> HIDE DEF s
  <1>3. t = [i \in 1 .. (4 * r - (4 * r - 3) + 1) |-> s[4 * r - 3 + i - 1]]
    BY <1>1
  <1>4. 4 * r - (4 * r - 3) + 1 = 4
    OBVIOUS
  <1>5. \A i \in 1 .. 4 : 4 * r - 3 + i - 1 = 4 * r - 4 + i /\ 4 * r - 4 + i \in 1 .. n
    OBVIOUS
  <1> HIDE DEF t
  <1>6. \A i \in 1 .. 4 : s[4 * r - 3 + i - 1] = v[4 * r - 4 + i]
    BY ONLY <1>2, <1>5
  <1>7. t = [i \in 1 .. 4 |-> s[4 * r - 3 + i - 1]]
    BY ONLY <1>3, <1>4
  <1>8. t = [i \in 1 .. 4 |-> v[4 * r - 4 + i]]
    BY ONLY <1>6, <1>7
  <1> QED
    BY <1>8 DEF t, s

\* With the right words, the key expansion is the one that has them in its
\* round keys.
LEMMA ExpansionIs ==
  ASSUME NEW n \in {10, 12, 14}, IsKey(aeskey), NEW v, Expands(v, aeskey, 4 * (n + 1))
  PROVE  Context!KeyExpansion(n)
           = EncKeys([r \in 1 .. (n + 1) |-> [j \in 1 .. 4 |-> v[4 * r - 4 + j]]])
  <1> DEFINE nk == Len(aeskey)
             N == 4 * (n + 1)
             Next1(p, m) == Append(p, Xor(p[m - nk], FipsTemp(nk, m - 1, p[m - 1])))
             Rec(f) == f = [m \in nk .. N |-> IF m = nk THEN aeskey ELSE Next1(f[m - 1], m)]
             w == CHOOSE f : Rec(f)
             g == [m \in nk .. N |-> FirstOf(v, m)]
  <1>0. nk \in Nat /\ N \in Nat /\ nk < N /\ nk > 0 /\ N \in nk .. N
    <2>1. nk \in {4, 6, 8}
      BY DEF IsKey
    <2>2. N \in {44, 52, 60}
      OBVIOUS
    <2> HIDE DEF nk, N
    <2> QED
      BY ONLY <2>1, <2>2
  <1>1. Context!KeyExpansion(n) = EncKeys([r \in 1 .. (n + 1) |-> SubSeq(w[N], 4 * r - 3, 4 * r)])
    <2> DEFINE Temp(i, prev) ==
                 IF i % nk = 0 THEN {<<"rotsub", prev>>, <<"rcon", rcon128[i \div nk]>>}
                 ELSE IF nk > 6 /\ i % nk = 4 THEN {<<"sub", prev>>}
                 ELSE prev
               RecC(f) == f = [m \in nk .. N |->
                 IF m = nk THEN aeskey
                 ELSE LET p == f[m - 1]
                      IN  Append(p, Context!Xor(p[m - nk], Temp(m - 1, p[m - 1])))]
               Cut(x) == [r \in 1 .. (n + 1) |-> SubSeq(x[N], 4 * r - 3, 4 * r)]
    <2>1. \A i, prev : Temp(i, prev) = FipsTemp(nk, i, prev)
      BY DEF FipsTemp, RotSub, Sub
    <2>2. \A f : RecC(f) <=> Rec(f)
      <3> HIDE DEF Temp, nk, N
      <3> QED
        BY <2>1, ContextXor
    <2>3. Context!KeyExpansion(n)
            = Context!EncKeys(Cut(CHOOSE f : RecC(f)))
      BY DEF Context!KeyExpansion, rcon128
    <2>4. (CHOOSE f : RecC(f)) = w
      <3> HIDE DEF Rec, RecC
      <3> QED
        BY <2>2
    <2> HIDE DEF Rec, RecC, w, Cut
    <2>5. Context!KeyExpansion(n) = EncKeys(Cut(w))
      BY ONLY <2>3, <2>4, ContextKeys
    <2> QED
      BY <2>5 DEF Cut
  <1>2. g[nk] = aeskey
    <2>1. \A i \in 1 .. nk : v[i] = aeskey[i]
      BY DEF Expands
    <2>2. FirstOf(v, nk) = FirstOf(aeskey, nk)
      BY ONLY <2>1 DEF FirstOf
    <2>3. g[nk] = FirstOf(v, nk)
      BY <1>0
    <2> QED
      BY ONLY <2>2, <2>3, IsKey(aeskey) DEF IsKey
  <1>3. ASSUME NEW m \in (nk + 1) .. N
        PROVE  g[m] = Next1(g[m - 1], m)
    <2>0. m - 1 \in nk .. N /\ m \in nk .. N /\ m - nk \in 1 .. (m - 1) /\ m - 1 \in 1 .. (m - 1)
          /\ m - 1 \in Nat /\ (m - 1) + 1 = m
      BY <1>0
    <2>1. g[m - 1] = FirstOf(v, m - 1) /\ g[m] = FirstOf(v, m)
      BY <2>0
    <2>2. FirstOf(v, m - 1)[m - nk] = v[m - nk] /\ FirstOf(v, m - 1)[m - 1] = v[m - 1]
      BY ONLY <2>0 DEF FirstOf
    <2>3. v[m] = Xor(v[m - nk], FipsTemp(nk, m - 1, v[m - 1]))
      BY DEF Expands
    <2>4. \A k \in Nat : Append(FirstOf(v, k), v[k + 1]) = FirstOf(v, k + 1)
      BY FirstOfMore
    <2>5. Append(FirstOf(v, m - 1), v[m]) = FirstOf(v, m)
      BY ONLY <2>0, <2>4
    <2> HIDE DEF g, nk, N
    <2> QED
      BY <2>1, <2>2, <2>3, <2>5
  <1> HIDE DEF Next1
  <1>4. Rec(g)
    <2>1. \A m \in nk .. N : FirstOf(v, m) = IF m = nk THEN aeskey ELSE Next1(g[m - 1], m)
      <3> SUFFICES ASSUME NEW m \in nk .. N
                   PROVE  g[m] = IF m = nk THEN aeskey ELSE Next1(g[m - 1], m)
        OBVIOUS
      <3>1. CASE m = nk
        BY <3>1, <1>2
      <3>2. CASE m # nk
        <4>1. m \in (nk + 1) .. N
          BY <1>0, <3>2
        <4> QED
          BY ONLY <4>1, <3>2, <1>3
      <3> QED
        BY <3>1, <3>2
    <2> DEFINE h(m) == IF m = nk THEN aeskey ELSE Next1(g[m - 1], m)
    <2>2. \A m \in nk .. N : FirstOf(v, m) = h(m)
      BY <2>1
    <2>3. g = [m \in nk .. N |-> h(m)]
      <3> HIDE DEF h
      <3> QED
        BY <2>2
    <2> HIDE DEF g
    <2> QED
      BY <2>3
  <1>5. \A f : Rec(f) => f = g
    <2> SUFFICES ASSUME NEW f, Rec(f) PROVE f = g
      OBVIOUS
    <2> DEFINE f1 == [i \in 0 .. (N - nk) |-> f[nk + i]]
               g1 == [i \in 0 .. (N - nk) |-> g[nk + i]]
    <2>0. N - nk \in Nat /\ nk + 0 = nk /\ nk \in nk .. N
      BY <1>0
    <2>1. f[nk] = aeskey
      BY ONLY <2>0, Rec(f)
    <2>2. f1[0] = g1[0]
      BY ONLY <1>2, <2>0, <2>1
    <2>3. Alike(f1, g1, N - nk)
      <3> SUFFICES ASSUME NEW i \in 1 .. (N - nk), f1[i - 1] = g1[i - 1] PROVE f1[i] = g1[i]
        BY DEF Alike
      <3>1. nk + i \in (nk + 1) .. N /\ nk + i \in nk .. N /\ nk + i # nk /\ (nk + i) - 1 = nk + (i - 1)
            /\ i - 1 \in 0 .. (N - nk) /\ i \in 0 .. (N - nk)
        <4> HIDE DEF nk, N
        <4> QED
          BY ONLY <1>0, <2>0, i \in 1 .. (N - nk)
      <3>2. g[nk + i] = Next1(g[nk + (i - 1)], nk + i)
        BY ONLY <3>1, <1>3
      <3>3. f[nk + i] = Next1(f[nk + (i - 1)], nk + i)
        BY ONLY <3>1, Rec(f)
      <3>4. f1[i - 1] = f[nk + (i - 1)] /\ f1[i] = f[nk + i] /\ g1[i - 1] = g[nk + (i - 1)] /\ g1[i] = g[nk + i]
        BY ONLY <3>1
      <3> QED
        BY ONLY <3>2, <3>3, <3>4, f1[i - 1] = g1[i - 1]
    <2>4. Upto(f1, N - nk) /\ Upto(g1, N - nk)
      BY DEF Upto
    <2>5. f1 = g1
      <3> HIDE DEF f1, g1
      <3> QED BY ONLY <2>0, <2>2, <2>3, <2>4, SameByStep
    <2>6. ASSUME NEW m \in nk .. N PROVE f[m] = g[m]
      <3>1. m - nk \in 0 .. (N - nk) /\ nk + (m - nk) = m
        BY <1>0
      <3>2. f1[m - nk] = f[m] /\ g1[m - nk] = g[m]
        BY ONLY <3>1
      <3> QED
        BY ONLY <2>5, <3>2
    <2>7. f = [m \in nk .. N |-> f[m]] /\ g = [m \in nk .. N |-> g[m]]
      BY ONLY Rec(f)
    <2> HIDE DEF g, Rec
    <2> QED
      BY ONLY <2>6, <2>7
  <1>6. w = g
    <2> HIDE DEF Rec, g
    <2> QED BY <1>4, <1>5
  <1>7. w[N] = FirstOf(v, N)
    <2>1. g[N] = FirstOf(v, N)
      BY ONLY <1>0
    <2> HIDE DEF w, g
    <2> QED
      BY ONLY <1>6, <2>1
  <1>8. \A r \in 1 .. (n + 1) : SubSeq(w[N], 4 * r - 3, 4 * r) = [j \in 1 .. 4 |-> v[4 * r - 4 + j]]
    <2> SUFFICES ASSUME NEW r \in 1 .. (n + 1)
                 PROVE  SubSeq(w[N], 4 * r - 3, 4 * r) = [j \in 1 .. 4 |-> v[4 * r - 4 + j]]
      OBVIOUS
    <2>1. r \in Nat /\ r > 0 /\ 4 * r <= N /\ N \in Nat
      OBVIOUS
    <2> HIDE DEF N, w
    <2>2. SubSeq(FirstOf(v, N), 4 * r - 3, 4 * r) = [j \in 1 .. 4 |-> v[4 * r - 4 + j]]
      BY ONLY <2>1, WordsOfKey
    <2> QED
      BY ONLY <1>7, <2>2
  <1> HIDE DEF w
  <1>9. [r \in 1 .. (n + 1) |-> SubSeq(w[N], 4 * r - 3, 4 * r)]
          = [r \in 1 .. (n + 1) |-> [j \in 1 .. 4 |-> v[4 * r - 4 + j]]]
    BY ONLY <1>8
  <1> QED
    BY ONLY <1>1, <1>9

\* A sequence, of whatever.
IsSequence(p) == Len(p) \in Nat /\ p = FirstOf(p, Len(p))

\* A sequence is one of the elements that it has,
LEMMA SequenceIsSeq ==
  ASSUME NEW p, IsSequence(p), NEW S, \A i \in 1 .. Len(p) : p[i] \in S
  PROVE  p \in Seq(S)
  <1>1. p \in [1 .. Len(p) -> S]
    BY Zenon DEF IsSequence, FirstOf
  <1> QED
    BY <1>1, FunctionIsSeq DEF IsSequence

\* and the other way around.
LEMMA SeqIsSequence ==
  ASSUME NEW S, NEW p \in Seq(S)
  PROVE  IsSequence(p)
  <1>1. Len(p) \in Nat /\ p \in [1 .. Len(p) -> S]
    OBVIOUS
  <1> QED
    BY <1>1 DEF IsSequence, FirstOf

\* What is in two sequences, put together.
LEMMA ConcatIs ==
  ASSUME NEW p, NEW t, IsSequence(p), IsSequence(t)
  PROVE  /\ IsSequence(p \o t) /\ Len(p \o t) = Len(p) + Len(t)
         /\ \A i \in 1 .. Len(p) : (p \o t)[i] = p[i]
         /\ \A i \in 1 .. Len(t) : (p \o t)[Len(p) + i] = t[i]
  <1> DEFINE S == {p[i] : i \in 1 .. Len(p)} \cup {t[i] : i \in 1 .. Len(t)}
  <1>1. p \in Seq(S) /\ t \in Seq(S)
    <2>1. (\A i \in 1 .. Len(p) : p[i] \in S) /\ (\A i \in 1 .. Len(t) : t[i] \in S)
      OBVIOUS
    <2> HIDE DEF S
    <2> QED
      BY <2>1, SequenceIsSeq
  <1> HIDE DEF S
  <1>2. p \o t \in Seq(S) /\ Len(p \o t) = Len(p) + Len(t)
    BY <1>1
  <1>3. IsSequence(p \o t)
    BY ONLY <1>2, SeqIsSequence
  <1>4. /\ \A i \in 1 .. Len(p) : (p \o t)[i] = p[i]
        /\ \A i \in 1 .. Len(t) : (p \o t)[Len(p) + i] = t[i]
    BY <1>1
  <1> QED
    BY <1>2, <1>3, <1>4

\* A schedule of n + 1 round keys, of four words each,
Rows(s, n) ==
  /\ IsSequence(s) /\ Len(s) = n + 1
  /\ \A r \in 1 .. (n + 1) : s[r] = [j \in 1 .. 4 |-> s[r][j]]

\* and all its words.
Words(s) == [i \in 1 .. (4 * Len(s)) |-> s[((i - 1) \div 4) + 1][((i - 1) % 4) + 1]]

\* Each of the words, and all of them as rows again.
LEMMA WordsAt ==
  ASSUME NEW n \in Nat, NEW s, Rows(s, n)
  PROVE  /\ \A r \in 1 .. (n + 1), j \in 1 .. 4 : Words(s)[4 * r - 4 + j] = s[r][j]
         /\ [r \in 1 .. (n + 1) |-> [j \in 1 .. 4 |-> Words(s)[4 * r - 4 + j]]] = s
  <1>1. ASSUME NEW r \in 1 .. (n + 1), NEW j \in 1 .. 4 PROVE Words(s)[4 * r - 4 + j] = s[r][j]
    <2>1. 4 * r - 4 + j \in 1 .. (4 * Len(s))
      BY DEF Rows
    <2>2. ((4 * r - 4 + j - 1) \div 4) + 1 = r /\ ((4 * r - 4 + j - 1) % 4) + 1 = j
      OBVIOUS
    <2>3. Words(s)[4 * r - 4 + j]
            = s[((4 * r - 4 + j - 1) \div 4) + 1][((4 * r - 4 + j - 1) % 4) + 1]
      BY ONLY <2>1 DEF Words
    <2> QED
      BY ONLY <2>2, <2>3
  <1>2. ASSUME NEW r \in 1 .. (n + 1)
        PROVE  [j \in 1 .. 4 |-> Words(s)[4 * r - 4 + j]] = s[r]
    <2>1. [j \in 1 .. 4 |-> Words(s)[4 * r - 4 + j]] = [j \in 1 .. 4 |-> s[r][j]]
      BY ONLY <1>1, r \in 1 .. (n + 1)
    <2> QED
      BY ONLY <2>1, Rows(s, n), r \in 1 .. (n + 1) DEF Rows
  <1>3. [r \in 1 .. (n + 1) |-> [j \in 1 .. 4 |-> Words(s)[4 * r - 4 + j]]]
          = [r \in 1 .. (n + 1) |-> s[r]]
    BY ONLY <1>2
  <1>4. s = [r \in 1 .. (n + 1) |-> s[r]]
    BY DEF Rows, IsSequence, FirstOf
  <1> QED
    BY ONLY <1>1, <1>3, <1>4

\* A place in the words is one in a row.
LEMMA PlaceOf ==
  ASSUME NEW i \in Nat, i > 0
  PROVE  \E r \in Nat, j \in 1 .. 4 : r > 0 /\ i = 4 * r - 4 + j
  <1> DEFINE r == ((i - 1) \div 4) + 1
             j == ((i - 1) % 4) + 1
  <1>1. r \in Nat /\ r > 0 /\ j \in 1 .. 4 /\ i = 4 * r - 4 + j
    OBVIOUS
  <1> QED
    BY <1>1

\* The schedule of the code is the key expansion.
Fits(s, key, n) == Rows(s, n) /\ Expands(Words(s), key, 4 * (n + 1))

-----------------------------------------------------------------------------
\* Keys of four words: every word of a row is the sum of the one before it and
\* the one in the row before.
LEMMA Fits128 ==
  ASSUME NEW key, IsKey(key), Len(key) = 4
  PROVE  Fits(Schedule128(key), key, 10)
  <1> DEFINE f == Stages(0 .. 10, "128", rcon128, key)
             s == Schedule128(key)
             w == Words(s)
  <1>1. /\ f[0] = key
        /\ \A r \in 1 .. 10 : f[r] = Expand128(f[r - 1], rcon128[r])
    <2>0. 10 \in Nat
      OBVIOUS
    <2>1. Staged(f, "128", rcon128, key, 10)
      BY ONLY <2>0, StagesAre
    <2> QED
      BY <2>1 DEF Staged, Stage
  <1>2. s = [r \in 1 .. 11 |-> f[r - 1]]
    BY Schedule128Is
  <1> HIDE DEF f, s
  <1>3. s[1] = key
    BY <1>1, <1>2
  <1>4. ASSUME NEW r \in 2 .. 11
        PROVE  Summed(s[r], s[r - 1], RotSub(s[r - 1][4], rcon128[r - 1]))
    <2>1. s[r] = f[r - 1] /\ s[r - 1] = f[(r - 1) - 1] /\ r - 1 \in 1 .. 10
      BY <1>2
    <2>2. s[r] = Expand128(s[r - 1], rcon128[r - 1])
      BY <1>1, <2>1
    <2>3. rcon128[r - 1] # 0
      BY <2>1 DEF rcon128
    <2>4. s[r] = Cascade(s[r - 1], RotSub(s[r - 1][4], rcon128[r - 1]))
      BY <2>2, <2>3, AssistIs DEF Expand128
    <2> QED
      BY <2>4, CascadeIs
  <1>5. Rows(s, 10)
    <2>1. IsSequence(s) /\ Len(s) = 11
      <3>1. s = FirstOf(s, 11)
        BY <1>2 DEF FirstOf
      <3>2. Len(FirstOf(s, 11)) = 11
        BY FirstOfIsSeq
      <3>3. Len(s) = 11 /\ 11 \in Nat
        BY ONLY <3>1, <3>2
      <3> QED
        BY ONLY <3>1, <3>3, Zenon DEF IsSequence
    <2>2. ASSUME NEW r \in 1 .. 11 PROVE s[r] = [j \in 1 .. 4 |-> s[r][j]]
      <3>1. CASE r = 1
        BY <1>3, <3>1 DEF IsKey, FirstOf
      <3>2. CASE r # 1
        <4>1. r \in 2 .. 11
          BY <3>2
        <4> QED
          BY <4>1, <1>4 DEF Summed
      <3> QED
        BY <3>1, <3>2
    <2>3. 10 + 1 = 11
      OBVIOUS
    <2> QED
      BY ONLY <2>1, <2>2, <2>3 DEF Rows
  <1>6. \A r \in 1 .. 11, j \in 1 .. 4 : w[4 * r - 4 + j] = s[r][j]
    <2>1. 10 \in Nat /\ 10 + 1 = 11
      OBVIOUS
    <2>2. \A n \in Nat : Rows(s, n) =>
            \A r \in 1 .. (n + 1), j \in 1 .. 4 : Words(s)[4 * r - 4 + j] = s[r][j]
      BY WordsAt
    <2> QED
      BY ONLY <2>1, <2>2, <1>5
  <1> HIDE DEF w
  <1>7. \A i \in 1 .. 4 : w[i] = key[i]
    <2> SUFFICES ASSUME NEW i \in 1 .. 4 PROVE w[i] = key[i]
      OBVIOUS
    <2>1. 1 \in 1 .. 11 /\ 4 * 1 - 4 + i = i
      OBVIOUS
    <2> QED
      BY ONLY <2>1, <1>3, <1>6, i \in 1 .. 4
  <1>8. ASSUME NEW i \in 5 .. 44
        PROVE  w[i] = Xor(w[i - 4], FipsTemp(4, i - 1, w[i - 1]))
    <2>1. PICK r \in Nat, j \in 1 .. 4 : r > 0 /\ i = 4 * r - 4 + j
      BY PlaceOf
    <2>2. r \in 2 .. 11 /\ r \in 1 .. 11 /\ r - 1 \in 1 .. 11 /\ i - 4 = 4 * (r - 1) - 4 + j
          /\ i - 1 = 4 * (r - 1) + (j - 1)
      BY <2>1
    <2>3. w[i] = s[r][j] /\ w[i - 4] = s[r - 1][j]
      BY ONLY <2>1, <2>2, <1>6
    <2>4. Summed(s[r], s[r - 1], RotSub(s[r - 1][4], rcon128[r - 1]))
      BY <2>2, <1>4
    <2>5. CASE j = 1
      <3>1. (i - 1) % 4 = 0 /\ (i - 1) \div 4 = r - 1 /\ i - 1 = 4 * (r - 1) - 4 + 4
        BY <2>2, <2>5
      <3>2. w[i - 1] = s[r - 1][4]
        <4>1. 4 \in 1 .. 4
          OBVIOUS
        <4> QED
          BY ONLY <3>1, <2>2, <4>1, <1>6
      <3>3. FipsTemp(4, i - 1, w[i - 1]) = RotSub(s[r - 1][4], rcon128[r - 1])
        BY ONLY <3>1, <3>2 DEF FipsTemp
      <3> QED
        BY ONLY <2>3, <2>4, <2>5, <3>3 DEF Summed
    <2>6. CASE j # 1
      <3>1. (i - 1) % 4 # 0 /\ ~ (4 > 6) /\ i - 1 = 4 * r - 4 + (j - 1) /\ j - 1 \in 1 .. 4 /\ j \in 2 .. 4
        BY <2>2, <2>6
      <3>2. w[i - 1] = s[r][j - 1]
        BY ONLY <3>1, <2>2, <1>6
      <3>3. FipsTemp(4, i - 1, w[i - 1]) = s[r][j - 1]
        BY ONLY <3>1, <3>2 DEF FipsTemp
      <3> QED
        BY ONLY <2>3, <2>4, <3>1, <3>3 DEF Summed
    <2> QED
      BY <2>5, <2>6
  <1>9. Expands(w, key, 4 * (10 + 1))
    <2>1. 4 * (10 + 1) = 44 /\ 4 + 1 = 5
      OBVIOUS
    <2> QED
      BY ONLY <2>1, <1>7, <1>8, Len(key) = 4 DEF Expands
  <1>10. Fits(s, key, 10)
    BY <1>5, <1>9 DEF Fits, w
  <1> QED
    BY <1>10 DEF s

\* p has the first two rows of a key of eight words, and n turns more.
Begun256(p, key, n) ==
  /\ IsSequence(p) /\ Len(p) = 2 * n + 2
  /\ p[1] = SubSeq(key, 1, 4) /\ p[2] = SubSeq(key, 5, 8)
  /\ \A m \in 1 .. n : /\ p[2 * m + 1] = Expand256A(p[2 * m - 1], p[2 * m], rcon256[m])
                       /\ p[2 * m + 2] = Expand256B(p[2 * m + 1], p[2 * m])

\* A turn makes one turn more,
LEMMA Turn256Is ==
  ASSUME NEW key, NEW n \in Nat, NEW p, Begun256(p, key, n)
  PROVE  Begun256(KeyTurn256(p, n + 1, rcon256[n + 1]), key, n + 1)
  <1> DEFINE a == Expand256A(p[2 * (n + 1) - 1], p[2 * (n + 1)], rcon256[n + 1])
             b == Expand256B(a, p[2 * (n + 1)])
             t == <<a, b>>
             q == p \o t
  <1>1. KeyTurn256(p, n + 1, rcon256[n + 1]) = q
    BY DEF KeyTurn256
  <1>2. IsSequence(t) /\ Len(t) = 2 /\ t[1] = a /\ t[2] = b
    <2>1. t \in Seq({a, b}) /\ Len(t) = 2 /\ t[1] = a /\ t[2] = b
      OBVIOUS
    <2> HIDE DEF t
    <2> QED
      BY <2>1, SeqIsSequence
  <1>3. a = Expand256A(p[2 * (n + 1) - 1], p[2 * (n + 1)], rcon256[n + 1])
        /\ b = Expand256B(a, p[2 * (n + 1)])
    OBVIOUS
  <1> HIDE DEF a, b, t
  <1>4. /\ IsSequence(q) /\ Len(q) = Len(p) + Len(t)
        /\ \A i \in 1 .. Len(p) : q[i] = p[i]
        /\ \A i \in 1 .. Len(t) : q[Len(p) + i] = t[i]
    <2>1. IsSequence(p)
      BY DEF Begun256
    <2>2. IsSequence(t)
      BY <1>2
    <2>3. /\ IsSequence(p \o t) /\ Len(p \o t) = Len(p) + Len(t)
          /\ \A i \in 1 .. Len(p) : (p \o t)[i] = p[i]
          /\ \A i \in 1 .. Len(t) : (p \o t)[Len(p) + i] = t[i]
      BY ONLY <2>1, <2>2, ConcatIs
    <2> QED
      BY ONLY <2>3
  <1> HIDE DEF q
  <1>5. Len(p) = 2 * n + 2 /\ p[1] = SubSeq(key, 1, 4) /\ p[2] = SubSeq(key, 5, 8)
    BY DEF Begun256
  <1>6. Len(q) = 2 * (n + 1) + 2
    BY <1>2, <1>4, <1>5
  <1>7. \A i \in 1 .. (2 * n + 2) : q[i] = p[i]
    BY <1>4, <1>5
  <1>8. q[2 * (n + 1) + 1] = a /\ q[2 * (n + 1) + 2] = b
    <2>1. 1 \in 1 .. Len(t) /\ 2 \in 1 .. Len(t)
      BY <1>2
    <2>2. q[Len(p) + 1] = a /\ q[Len(p) + 2] = b
      BY ONLY <2>1, <1>2, <1>4
    <2>3. Len(p) + 1 = 2 * (n + 1) + 1 /\ Len(p) + 2 = 2 * (n + 1) + 2
      BY <1>5
    <2> QED
      BY ONLY <2>2, <2>3
  <1>9. ASSUME NEW m \in 1 .. (n + 1)
        PROVE  /\ q[2 * m + 1] = Expand256A(q[2 * m - 1], q[2 * m], rcon256[m])
               /\ q[2 * m + 2] = Expand256B(q[2 * m + 1], q[2 * m])
    <2>1. 2 * m - 1 \in 1 .. (2 * n + 2) /\ 2 * m \in 1 .. (2 * n + 2)
      OBVIOUS
    <2>2. q[2 * m - 1] = p[2 * m - 1] /\ q[2 * m] = p[2 * m]
      BY ONLY <2>1, <1>7
    <2>3. CASE m = n + 1
      BY ONLY <2>2, <2>3, <1>3, <1>8
    <2>4. CASE m # n + 1
      <3>1. m \in 1 .. n /\ 2 * m + 1 \in 1 .. (2 * n + 2) /\ 2 * m + 2 \in 1 .. (2 * n + 2)
        BY <2>4
      <3>2. q[2 * m + 1] = p[2 * m + 1] /\ q[2 * m + 2] = p[2 * m + 2]
        BY ONLY <3>1, <1>7
      <3> QED
        BY ONLY <2>2, <3>1, <3>2, Begun256(p, key, n) DEF Begun256
    <2> QED
      BY <2>3, <2>4
  <1>10. q[1] = SubSeq(key, 1, 4) /\ q[2] = SubSeq(key, 5, 8)
    <2>1. 1 \in 1 .. (2 * n + 2) /\ 2 \in 1 .. (2 * n + 2)
      OBVIOUS
    <2> QED
      BY ONLY <2>1, <1>5, <1>7
  <1>11. Begun256(q, key, n + 1)
    BY ONLY <1>4, <1>6, <1>9, <1>10 DEF Begun256
  <1> QED
    BY <1>1, <1>11

\* and six turns six.
LEMMA Turns256Are ==
  ASSUME NEW key
  PROVE  Begun256(Stages(0 .. 6, "256", rcon256, First256(key))[6], key, 6)
  <1> DEFINE f == Stages(0 .. 6, "256", rcon256, First256(key))
             Good == {n \in Nat : n <= 6 => Begun256(f[n], key, n)}
  <1>1. /\ f[0] = First256(key)
        /\ \A n \in 1 .. 6 : f[n] = KeyTurn256(f[n - 1], n, rcon256[n])
    <2>0. 6 \in Nat
      OBVIOUS
    <2>1. Staged(f, "256", rcon256, First256(key), 6)
      BY ONLY <2>0, StagesAre
    <2> QED
      BY <2>1 DEF Staged, Stage
  <1> HIDE DEF f
  <1>2. 0 \in Good
    <2>1. First256(key) \in Seq({SubSeq(key, 1, 4), SubSeq(key, 5, 8)}) /\ Len(First256(key)) = 2
          /\ First256(key)[1] = SubSeq(key, 1, 4) /\ First256(key)[2] = SubSeq(key, 5, 8)
      BY DEF First256
    <2>2. IsSequence(First256(key))
      BY ONLY <2>1, SeqIsSequence
    <2>3. Begun256(f[0], key, 0)
      BY <1>1, <2>1, <2>2 DEF Begun256
    <2> QED
      BY <2>3
  <1>3. \A n \in Nat : n \in Good => n + 1 \in Good
    <2> SUFFICES ASSUME NEW n \in Nat, n <= 6 => Begun256(f[n], key, n), n + 1 <= 6
                 PROVE  Begun256(f[n + 1], key, n + 1)
      OBVIOUS
    <2>1. n + 1 \in 1 .. 6 /\ (n + 1) - 1 = n /\ n <= 6
      OBVIOUS
    <2>2. f[n + 1] = KeyTurn256(f[n], n + 1, rcon256[n + 1])
      BY ONLY <1>1, <2>1
    <2>3. Begun256(f[n], key, n)
      BY <2>1
    <2> QED
      BY ONLY <2>2, <2>3, n \in Nat, Turn256Is
  <1> HIDE DEF Good
  <1>4. \A n \in Nat : n \in Good
    BY ONLY <1>2, <1>3, NatInSteps
  <1>5. Begun256(f[6], key, 6)
    BY <1>4 DEF Good
  <1> QED
    BY <1>5 DEF f

\* The rows of the schedule of a key of eight words.
LEMMA Rows256 ==
  ASSUME NEW key, IsKey(key), Len(key) = 8
  PROVE  LET s == Schedule256(key)
         IN  /\ Rows(s, 14)
             /\ \A j \in 1 .. 4 : s[1][j] = key[j] /\ s[2][j] = key[4 + j]
             /\ \A m \in 1 .. 7 : Summed(s[2 * m + 1], s[2 * m - 1], RotSub(s[2 * m][4], rcon128[m]))
             /\ \A m \in 1 .. 6 : Summed(s[2 * m + 2], s[2 * m], Sub(s[2 * m + 1][4]))
  <1> DEFINE p == Stages(0 .. 6, "256", rcon256, First256(key))[6]
             a == Expand256A(p[13], p[14], 64)
             t == <<a>>
             s == Schedule256(key)
  <1>1. s = Append(p, a)
    BY Schedule256Is
  <1>2. Begun256(p, key, 6)
    BY Turns256Are
  <1> HIDE DEF p, s
  <1>3. IsSequence(p) /\ Len(p) = 14
    BY <1>2 DEF Begun256
  <1>4. /\ s = FirstOf(s, 15)
        /\ \A i \in 1 .. 14 : s[i] = p[i]
        /\ s[15] = a
    <2> DEFINE g == [i \in 1 .. 15 |-> IF i = 15 THEN a ELSE p[i]]
    <2>1. p = FirstOf(g, 14)
      BY <1>3 DEF IsSequence, FirstOf
    <2>2. Append(FirstOf(g, 14), g[14 + 1]) = FirstOf(g, 14 + 1)
      <3>1. \A n \in Nat : Append(FirstOf(g, n), g[n + 1]) = FirstOf(g, n + 1)
        BY FirstOfMore
      <3> HIDE DEF g
      <3> QED
        BY <3>1
    <2>3. g[14 + 1] = a /\ 14 + 1 = 15
      OBVIOUS
    <2>4. s = FirstOf(g, 15)
      BY ONLY <1>1, <2>1, <2>2, <2>3
    <2> QED
      BY ONLY <2>4 DEF FirstOf
  <1>5. IsSequence(s) /\ Len(s) = 15
    <2>1. Len(FirstOf(s, 15)) = 15 /\ 15 \in Nat
      BY FirstOfIsSeq
    <2>2. Len(s) = 15
      BY ONLY <2>1, <1>4
    <2> QED
      BY ONLY <2>1, <2>2, <1>4, Zenon DEF IsSequence
  <1>6. \A m \in 1 .. 6 : 2 * m + 1 \in 1 .. 14 /\ 2 * m - 1 \in 1 .. 14 /\ 2 * m \in 1 .. 14 /\ 2 * m + 2 \in 1 .. 14
    OBVIOUS
  <1>7. ASSUME NEW m \in 1 .. 7
        PROVE  Summed(s[2 * m + 1], s[2 * m - 1], RotSub(s[2 * m][4], rcon128[m]))
    <2>1. rcon128[m] # 0
      BY DEF rcon128
    <2>2. s[2 * m + 1] = Expand256A(s[2 * m - 1], s[2 * m], rcon128[m])
      <3>1. CASE m = 7
        <4>1. 2 * m + 1 = 15 /\ 2 * m - 1 = 13 /\ 2 * m = 14 /\ 13 \in 1 .. 14 /\ 14 \in 1 .. 14
          BY <3>1
        <4>2. rcon128[m] = 64
          BY <3>1 DEF rcon128
        <4>3. s[13] = p[13] /\ s[14] = p[14]
          BY ONLY <4>1, <1>4
        <4> QED
          BY ONLY <1>4, <4>1, <4>2, <4>3
      <3>2. CASE m # 7
        <4>1. m \in 1 .. 6
          BY <3>2
        <4>2. rcon256[m] = rcon128[m]
          BY <4>1 DEF rcon128, rcon256
        <4>3. p[2 * m + 1] = Expand256A(p[2 * m - 1], p[2 * m], rcon256[m])
          BY ONLY <1>2, <4>1 DEF Begun256
        <4> QED
          BY ONLY <1>4, <1>6, <4>1, <4>2, <4>3
      <3> QED
        BY <3>1, <3>2
    <2>3. s[2 * m + 1] = Cascade(s[2 * m - 1], RotSub(s[2 * m][4], rcon128[m]))
      BY <2>1, <2>2, AssistIs DEF Expand256A
    <2> QED
      BY <2>3, CascadeIs
  <1>8. ASSUME NEW m \in 1 .. 6
        PROVE  Summed(s[2 * m + 2], s[2 * m], Sub(s[2 * m + 1][4]))
    <2>1. p[2 * m + 2] = Expand256B(p[2 * m + 1], p[2 * m])
      BY ONLY <1>2, m \in 1 .. 6 DEF Begun256
    <2>2. s[2 * m + 2] = Expand256B(s[2 * m + 1], s[2 * m])
      BY ONLY <1>4, <1>6, m \in 1 .. 6, <2>1
    <2>3. s[2 * m + 2] = Cascade(s[2 * m], Sub(s[2 * m + 1][4]))
      BY <2>2, AssistIs DEF Expand256B
    <2> QED
      BY <2>3, CascadeIs
  <1>9. s[1] = [j \in 1 .. 4 |-> key[j]] /\ s[2] = [j \in 1 .. 4 |-> key[4 + j]]
    <2>1. s[1] = SubSeq(key, 1, 4) /\ s[2] = SubSeq(key, 5, 8)
      BY <1>2, <1>4 DEF Begun256
    <2>2. key = FirstOf(key, 8)
      BY DEF IsKey
    <2>3. SubSeq(FirstOf(key, 8), 4 * 1 - 3, 4 * 1) = [j \in 1 .. 4 |-> key[4 * 1 - 4 + j]]
          /\ SubSeq(FirstOf(key, 8), 4 * 2 - 3, 4 * 2) = [j \in 1 .. 4 |-> key[4 * 2 - 4 + j]]
      <3>1. \A n \in Nat, r \in Nat : r > 0 /\ 4 * r <= n =>
              SubSeq(FirstOf(key, n), 4 * r - 3, 4 * r) = [j \in 1 .. 4 |-> key[4 * r - 4 + j]]
        BY WordsOfKey
      <3>2. 8 \in Nat /\ 1 \in Nat /\ 2 \in Nat /\ 1 > 0 /\ 2 > 0 /\ 4 * 1 <= 8 /\ 4 * 2 <= 8
        OBVIOUS
      <3> QED
        BY ONLY <3>1, <3>2
    <2>4. 4 * 1 - 3 = 1 /\ 4 * 1 = 4 /\ 4 * 2 - 3 = 5 /\ 4 * 2 = 8
          /\ (\A j \in 1 .. 4 : 4 * 1 - 4 + j = j /\ 4 * 2 - 4 + j = 4 + j)
      OBVIOUS
    <2> QED
      BY ONLY <2>1, <2>2, <2>3, <2>4
  <1>10. ASSUME NEW r \in 1 .. 15 PROVE s[r] = [j \in 1 .. 4 |-> s[r][j]]
    <2>1. CASE r \in {1, 2}
      BY <1>9, <2>1
    <2>2. CASE \E m \in 1 .. 7 : r = 2 * m + 1
      BY <1>7, <2>2 DEF Summed
    <2>3. CASE \E m \in 1 .. 6 : r = 2 * m + 2
      BY <1>8, <2>3 DEF Summed
    <2>4. r \in {1, 2} \/ (\E m \in 1 .. 7 : r = 2 * m + 1) \/ (\E m \in 1 .. 6 : r = 2 * m + 2)
      <3>1. r = 2 * ((r - 1) \div 2) + 1 \/ r = 2 * ((r - 2) \div 2) + 2
        OBVIOUS
      <3>2. CASE r \notin {1, 2} /\ r = 2 * ((r - 1) \div 2) + 1
        <4>1. (r - 1) \div 2 \in 1 .. 7
          BY <3>2
        <4> QED
          BY <3>2, <4>1
      <3>3. CASE r \notin {1, 2} /\ r = 2 * ((r - 2) \div 2) + 2
        <4>1. (r - 2) \div 2 \in 1 .. 6
          BY <3>3
        <4> QED
          BY <3>3, <4>1
      <3> QED
        BY <3>1, <3>2, <3>3
    <2> QED
      BY <2>1, <2>2, <2>3, <2>4
  <1>11. Rows(s, 14)
    <2>1. 14 + 1 = 15
      OBVIOUS
    <2> QED
      BY ONLY <1>5, <1>10, <2>1 DEF Rows
  <1>12. \A j \in 1 .. 4 : s[1][j] = key[j] /\ s[2][j] = key[4 + j]
    BY ONLY <1>9
  <1> QED
    BY <1>7, <1>8, <1>11, <1>12 DEF s

\* Keys of eight words: the row before the last one, and the odd rows with the
\* S-box alone.
LEMMA Fits256 ==
  ASSUME NEW key, IsKey(key), Len(key) = 8
  PROVE  Fits(Schedule256(key), key, 14)
  <1> DEFINE s == Schedule256(key)
             w == Words(s)
  <1>1. /\ Rows(s, 14)
        /\ \A j \in 1 .. 4 : s[1][j] = key[j] /\ s[2][j] = key[4 + j]
        /\ \A m \in 1 .. 7 : Summed(s[2 * m + 1], s[2 * m - 1], RotSub(s[2 * m][4], rcon128[m]))
        /\ \A m \in 1 .. 6 : Summed(s[2 * m + 2], s[2 * m], Sub(s[2 * m + 1][4]))
    BY Rows256
  <1> HIDE DEF s
  <1>2. \A r \in 1 .. 15, j \in 1 .. 4 : w[4 * r - 4 + j] = s[r][j]
    <2>1. 14 \in Nat /\ 14 + 1 = 15
      OBVIOUS
    <2>2. \A n \in Nat : Rows(s, n) =>
            \A r \in 1 .. (n + 1), j \in 1 .. 4 : Words(s)[4 * r - 4 + j] = s[r][j]
      BY WordsAt
    <2> QED
      BY ONLY <2>1, <2>2, <1>1
  <1> HIDE DEF w
  <1>3. ASSUME NEW i \in 1 .. 8 PROVE w[i] = key[i]
    <2>1. PICK r \in Nat, j \in 1 .. 4 : r > 0 /\ i = 4 * r - 4 + j
      BY PlaceOf
    <2>2. r \in 1 .. 15 /\ (r = 1 \/ r = 2)
      BY <2>1
    <2>3. w[i] = s[r][j]
      BY ONLY <2>1, <2>2, <1>2
    <2>4. CASE r = 1
      <3>1. i = j
        BY <2>1, <2>4
      <3> QED
        BY ONLY <1>1, <2>3, <2>4, <3>1, j \in 1 .. 4
    <2>5. CASE r = 2
      <3>1. i = 4 + j
        BY <2>1, <2>5
      <3> QED
        BY ONLY <1>1, <2>3, <2>5, <3>1, j \in 1 .. 4
    <2> QED
      BY <2>2, <2>4, <2>5
  \* The same for a row r with what is added to its first word.
  <1>4. ASSUME NEW r \in 3 .. 15, NEW t, Summed(s[r], s[r - 2], t), NEW j \in 1 .. 4,
               FipsTemp(8, 4 * (r - 1), s[r - 1][4]) = t,
               NEW i \in 9 .. 60, i = 4 * r - 4 + j
        PROVE  w[i] = Xor(w[i - 8], FipsTemp(8, i - 1, w[i - 1]))
    <2>2. r \in 1 .. 15 /\ r - 1 \in 1 .. 15 /\ r - 2 \in 1 .. 15 /\ i - 8 = 4 * (r - 2) - 4 + j
          /\ i - 1 = 4 * (r - 1) + (j - 1)
      BY <1>4
    <2>3. w[i] = s[r][j] /\ w[i - 8] = s[r - 2][j]
      BY ONLY <1>4, <2>2, <1>2
    <2>5. CASE j = 1
      <3>1. i - 1 = 4 * (r - 1) /\ i - 1 = 4 * (r - 1) - 4 + 4
        BY <2>2, <2>5
      <3>2. w[i - 1] = s[r - 1][4]
        <4>1. 4 \in 1 .. 4
          OBVIOUS
        <4> QED
          BY ONLY <3>1, <2>2, <4>1, <1>2
      <3>3. FipsTemp(8, i - 1, w[i - 1]) = t
        BY ONLY <1>4, <3>1, <3>2
      <3> QED
        BY ONLY <1>4, <2>3, <2>5, <3>3 DEF Summed
    <2>6. CASE j # 1
      <3>1. (i - 1) % 8 # 0 /\ (i - 1) % 8 # 4 /\ i - 1 = 4 * r - 4 + (j - 1) /\ j - 1 \in 1 .. 4 /\ j \in 2 .. 4
        <4>1. i - 1 \in Int /\ r - 1 \in Int /\ j \in {2, 3, 4}
          BY <2>6
        <4>2. (i - 1) % 8 # 0 /\ (i - 1) % 8 # 4
          BY ONLY <2>2, <4>1
        <4>3. i - 1 = 4 * r - 4 + (j - 1) /\ j - 1 \in 1 .. 4 /\ j \in 2 .. 4
          BY <2>2, <2>6
        <4> QED
          BY ONLY <4>2, <4>3
      <3>2. w[i - 1] = s[r][j - 1]
        BY ONLY <3>1, <2>2, <1>2
      <3>3. FipsTemp(8, i - 1, w[i - 1]) = s[r][j - 1]
        BY ONLY <3>1, <3>2 DEF FipsTemp
      <3> QED
        BY ONLY <1>4, <2>3, <3>1, <3>3 DEF Summed
    <2> QED
      BY <2>5, <2>6
  <1>5. ASSUME NEW i \in 9 .. 60
        PROVE  w[i] = Xor(w[i - 8], FipsTemp(8, i - 1, w[i - 1]))
    <2>1. PICK r \in Nat, j \in 1 .. 4 : r > 0 /\ i = 4 * r - 4 + j
      BY PlaceOf
    <2>2. r \in 3 .. 15
      BY <2>1
    <2>3. CASE \E m \in 1 .. 7 : r = 2 * m + 1
      <3>1. PICK m \in 1 .. 7 : r = 2 * m + 1
        BY <2>3
      <3>2. (4 * (r - 1)) % 8 = 0 /\ (4 * (r - 1)) \div 8 = m /\ r - 1 = 2 * m /\ r - 2 = 2 * m - 1
        BY <3>1
      <3>3. FipsTemp(8, 4 * (r - 1), s[r - 1][4]) = RotSub(s[r - 1][4], rcon128[m])
        BY ONLY <3>2 DEF FipsTemp
      <3>4. Summed(s[r], s[r - 2], RotSub(s[r - 1][4], rcon128[m]))
        BY ONLY <1>1, <3>1, <3>2
      <3> QED
        BY ONLY <1>4, <2>1, <2>2, <3>3, <3>4, i \in 9 .. 60
    <2>4. CASE \E m \in 1 .. 6 : r = 2 * m + 2
      <3>1. PICK m \in 1 .. 6 : r = 2 * m + 2
        BY <2>4
      <3>2. (4 * (r - 1)) % 8 = 4 /\ 8 > 6 /\ r - 1 = 2 * m + 1 /\ r - 2 = 2 * m
        BY <3>1
      <3>3. FipsTemp(8, 4 * (r - 1), s[r - 1][4]) = Sub(s[r - 1][4])
        BY ONLY <3>2 DEF FipsTemp
      <3>4. Summed(s[r], s[r - 2], Sub(s[r - 1][4]))
        BY ONLY <1>1, <3>1, <3>2
      <3> QED
        BY ONLY <1>4, <2>1, <2>2, <3>3, <3>4, i \in 9 .. 60
    <2>5. (\E m \in 1 .. 7 : r = 2 * m + 1) \/ (\E m \in 1 .. 6 : r = 2 * m + 2)
      <3>1. \/ r = 2 * ((r - 1) \div 2) + 1 /\ (r - 1) \div 2 \in 1 .. 7
            \/ r = 2 * ((r - 2) \div 2) + 2 /\ (r - 2) \div 2 \in 1 .. 6
        BY <2>2
      <3> QED
        BY <3>1
    <2> QED
      BY <2>3, <2>4, <2>5
  <1>6. Expands(w, key, 4 * (14 + 1))
    <2>1. 4 * (14 + 1) = 60 /\ 8 + 1 = 9
      OBVIOUS
    <2> QED
      BY ONLY <2>1, <1>3, <1>5, Len(key) = 8 DEF Expands
  <1>7. Fits(s, key, 14)
    BY <1>1, <1>6 DEF Fits, w
  <1> QED
    BY <1>7 DEF s

\* Six words more.
LEMMA Expand192Is ==
  ASSUME NEW k, NEW rcon, rcon # 0
  PROVE  LET a == Expand192(k, rcon)
         IN  /\ Summed(a.x1, k.x1, RotSub(k.x3[2], rcon))
             /\ a.x3[1] = Xor(k.x3[1], a.x1[4])
             /\ a.x3[2] = Xor(k.x3[2], a.x3[1])
  <1> DEFINE a == Expand192(k, rcon)
  <1>1. a.x1 = Cascade(k.x1, KeyGenAssist(k.x3, rcon)[2])
    BY DEF Expand192
  <1>2. a.x3 = XorWords(XorWords(k.x3, ShiftWords(k.x3)), <<a.x1[4], a.x1[4], a.x1[4], a.x1[4]>>)
    BY DEF Expand192
  <1> HIDE DEF a
  <1>3. KeyGenAssist(k.x3, rcon)[2] = RotSub(k.x3[2], rcon)
    BY AssistIs
  <1>4. Summed(a.x1, k.x1, RotSub(k.x3[2], rcon))
    BY ONLY <1>1, <1>3, CascadeIs
  <1>5. /\ a.x3[1] = Xor(Xor(k.x3[1], Zero), a.x1[4])
        /\ a.x3[2] = Xor(Xor(k.x3[2], k.x3[1]), a.x1[4])
    BY <1>2 DEF XorWords, ShiftWords
  <1>6. \A x : Xor(x, Zero) = x
    BY DEF Xor, Zero
  <1>7. a.x3[1] = Xor(k.x3[1], a.x1[4])
    BY <1>5, <1>6
  <1>8. a.x3[2] = Xor(k.x3[2], a.x3[1])
    BY ONLY <1>5, <1>7, XorAssoc
  <1> QED
    BY <1>4, <1>7, <1>8 DEF a

\* The two words that come after n turns: of the key, or the end of six.
Next192(x, q, key, n) ==
  IF n = 0 THEN x[1] = key[5] /\ x[2] = key[6]
  ELSE x[1] = Xor(q[3 * n][3], q[3 * n + 1][4]) /\ x[2] = Xor(q[3 * n][4], x[1])

\* The other words of the rows of a turn.
Row192(q, m) ==
  /\ q[3 * m - 1][3] = Xor(q[3 * m - 2][1], RotSub(q[3 * m - 1][2], rcon128[2 * m - 1]))
  /\ q[3 * m - 1][4] = Xor(q[3 * m - 2][2], q[3 * m - 1][3])
  /\ q[3 * m][1] = Xor(q[3 * m - 2][3], q[3 * m - 1][4])
  /\ q[3 * m][2] = Xor(q[3 * m - 2][4], q[3 * m][1])
  /\ q[3 * m][3] = Xor(q[3 * m - 1][1], q[3 * m][2])
  /\ q[3 * m][4] = Xor(q[3 * m - 1][2], q[3 * m][3])
  /\ q[3 * m + 1][1] = Xor(q[3 * m - 1][3], RotSub(q[3 * m][4], rcon128[2 * m]))
  /\ q[3 * m + 1][2] = Xor(q[3 * m - 1][4], q[3 * m + 1][1])
  /\ q[3 * m + 1][3] = Xor(q[3 * m][1], q[3 * m + 1][2])
  /\ q[3 * m + 1][4] = Xor(q[3 * m][2], q[3 * m + 1][3])

\* p has the first row of a key of six words and n turns, of three rows each;
\* and what the registers have is the last row, and the next two words.
Begun192(p, key, n) ==
  /\ IsSequence(p.ks) /\ Len(p.ks) = 3 * n + 1
  /\ \A r \in 1 .. (3 * n + 1) : p.ks[r] = [j \in 1 .. 4 |-> p.ks[r][j]]
  /\ \A j \in 1 .. 4 : p.ks[1][j] = key[j]
  /\ p.ks[3 * n + 1] = p.k.x1
  /\ Next192(p.k.x3, p.ks, key, n)
  /\ \A m \in 1 .. n : Next192(p.ks[3 * m - 1], p.ks, key, m - 1) /\ Row192(p.ks, m)

\* A turn makes one turn more,
LEMMA Turn192Is ==
  ASSUME NEW key, NEW n \in 0 .. 3, NEW p, Begun192(p, key, n)
  PROVE  Begun192(Store192(p.ks, p.k, rcon192[n + 1]), key, n + 1)
  <1> DEFINE k == p.k
             rc == rcon192[n + 1]
             a == Expand192(k, rc)
             b == Expand192(a, 2 * rc)
             r1 == <<k.x3[1], k.x3[2], a.x1[1], a.x1[2]>>
             r2 == <<a.x1[3], a.x1[4], a.x3[1], a.x3[2]>>
             t == <<r1, r2, b.x1>>
             q == Store192(p.ks, p.k, rcon192[n + 1])
             u == p.ks \o t
  <1>1. q.k = b /\ q.ks = u
    BY DEF Store192
  <1>2. rc # 0 /\ 2 * rc # 0 /\ rc = rcon128[2 * (n + 1) - 1] /\ 2 * rc = rcon128[2 * (n + 1)]
    <2>1. n = 0 \/ n = 1 \/ n = 2 \/ n = 3
      OBVIOUS
    <2> QED
      BY <2>1 DEF rcon128, rcon192
  <1>3. /\ Summed(a.x1, k.x1, RotSub(k.x3[2], rcon128[2 * (n + 1) - 1]))
        /\ a.x3[1] = Xor(k.x3[1], a.x1[4])
        /\ a.x3[2] = Xor(k.x3[2], a.x3[1])
    <2> HIDE DEF k, rc
    <2>1. rc # 0
      BY <1>2
    <2>2. /\ Summed(a.x1, k.x1, RotSub(k.x3[2], rc))
          /\ a.x3[1] = Xor(k.x3[1], a.x1[4])
          /\ a.x3[2] = Xor(k.x3[2], a.x3[1])
      BY ONLY <2>1, Expand192Is
    <2> QED
      BY ONLY <1>2, <2>2
  <1>4. /\ Summed(b.x1, a.x1, RotSub(a.x3[2], rcon128[2 * (n + 1)]))
        /\ b.x3[1] = Xor(a.x3[1], b.x1[4])
        /\ b.x3[2] = Xor(a.x3[2], b.x3[1])
    <2> HIDE DEF k, rc, a
    <2>1. 2 * rc # 0
      BY <1>2
    <2>2. /\ Summed(b.x1, a.x1, RotSub(a.x3[2], 2 * rc))
          /\ b.x3[1] = Xor(a.x3[1], b.x1[4])
          /\ b.x3[2] = Xor(a.x3[2], b.x3[1])
      BY ONLY <2>1, Expand192Is
    <2> QED
      BY ONLY <1>2, <2>2
  <1>5. IsSequence(t) /\ Len(t) = 3 /\ t[1] = r1 /\ t[2] = r2 /\ t[3] = b.x1
    <2> HIDE DEF r1, r2, b
    <2>1. t \in Seq({r1, r2, b.x1}) /\ Len(t) = 3 /\ t[1] = r1 /\ t[2] = r2 /\ t[3] = b.x1
      OBVIOUS
    <2> HIDE DEF t
    <2> QED
      BY <2>1, SeqIsSequence
  <1>6. /\ r1 = [j \in 1 .. 4 |-> r1[j]] /\ r2 = [j \in 1 .. 4 |-> r2[j]]
        /\ r1[1] = k.x3[1] /\ r1[2] = k.x3[2] /\ r1[3] = a.x1[1] /\ r1[4] = a.x1[2]
        /\ r2[1] = a.x1[3] /\ r2[2] = a.x1[4] /\ r2[3] = a.x3[1] /\ r2[4] = a.x3[2]
    <2> HIDE DEF k, a
    <2> QED
      OBVIOUS
  <1> HIDE DEF rc, a, b, r1, r2, t
  <1>7. IsSequence(p.ks) /\ Len(p.ks) = 3 * n + 1
    BY DEF Begun192
  <1>8. /\ IsSequence(u) /\ Len(u) = Len(p.ks) + Len(t)
        /\ \A i \in 1 .. Len(p.ks) : u[i] = p.ks[i]
        /\ \A i \in 1 .. Len(t) : u[Len(p.ks) + i] = t[i]
    <2>1. IsSequence(p.ks) /\ IsSequence(t)
      BY <1>5, <1>7
    <2> QED
      BY ONLY <2>1, ConcatIs
  <1> HIDE DEF u
  <1>9. Len(u) = 3 * (n + 1) + 1
    BY <1>5, <1>7, <1>8
  <1>10. \A i \in 1 .. (3 * n + 1) : u[i] = p.ks[i]
    BY <1>7, <1>8
  <1>11. /\ u[3 * (n + 1) - 1] = r1 /\ u[3 * (n + 1)] = r2 /\ u[3 * (n + 1) + 1] = b.x1
         /\ u[3 * (n + 1) - 2] = k.x1
    <2>1. 1 \in 1 .. Len(t) /\ 2 \in 1 .. Len(t) /\ 3 \in 1 .. Len(t)
      BY <1>5
    <2>2. u[Len(p.ks) + 1] = r1 /\ u[Len(p.ks) + 2] = r2 /\ u[Len(p.ks) + 3] = b.x1
      BY ONLY <2>1, <1>5, <1>8
    <2>3. Len(p.ks) + 1 = 3 * (n + 1) - 1 /\ Len(p.ks) + 2 = 3 * (n + 1) /\ Len(p.ks) + 3 = 3 * (n + 1) + 1
      BY <1>7
    <2>4. 3 * (n + 1) - 2 = 3 * n + 1 /\ 3 * n + 1 \in 1 .. (3 * n + 1)
      OBVIOUS
    <2>5. u[3 * n + 1] = k.x1
      BY ONLY <2>4, <1>10, Begun192(p, key, n) DEF Begun192
    <2>6. u[3 * (n + 1) - 1] = r1 /\ u[3 * (n + 1)] = r2 /\ u[3 * (n + 1) + 1] = b.x1
      BY ONLY <2>2, <2>3
    <2>7. u[3 * (n + 1) - 2] = k.x1
      BY ONLY <2>4, <2>5
    <2> QED
      BY ONLY <2>6, <2>7
  <1>12. Row192(u, n + 1)
    <2> DEFINE m == n + 1
    <2>0. /\ \A j \in 2 .. 4 : a.x1[j] = Xor(k.x1[j], a.x1[j - 1])
          /\ \A j \in 2 .. 4 : b.x1[j] = Xor(a.x1[j], b.x1[j - 1])
          /\ a.x1[1] = Xor(k.x1[1], RotSub(k.x3[2], rcon128[2 * m - 1]))
          /\ b.x1[1] = Xor(a.x1[1], RotSub(a.x3[2], rcon128[2 * m]))
      BY ONLY <1>3, <1>4 DEF Summed
    <2>01. 2 \in 2 .. 4 /\ 3 \in 2 .. 4 /\ 4 \in 2 .. 4 /\ 2 - 1 = 1 /\ 3 - 1 = 2 /\ 4 - 1 = 3
      OBVIOUS
    <2>1. /\ a.x1[2] = Xor(k.x1[2], a.x1[1]) /\ a.x1[3] = Xor(k.x1[3], a.x1[2])
          /\ a.x1[4] = Xor(k.x1[4], a.x1[3]) /\ b.x1[2] = Xor(a.x1[2], b.x1[1])
          /\ b.x1[3] = Xor(a.x1[3], b.x1[2]) /\ b.x1[4] = Xor(a.x1[4], b.x1[3])
      BY ONLY <2>0, <2>01
    <2>2. a.x3[1] = Xor(k.x3[1], a.x1[4]) /\ a.x3[2] = Xor(k.x3[2], a.x3[1])
      BY ONLY <1>3
    <2> HIDE DEF m, k
    <2>3. u[3 * m - 1] = r1 /\ u[3 * m] = r2 /\ u[3 * m + 1] = b.x1 /\ u[3 * m - 2] = k.x1
      BY ONLY <1>11 DEF m
    <2>4. Row192(u, m)
      BY ONLY <1>6, <2>0, <2>1, <2>2, <2>3 DEF Row192
    <2> QED
      BY <2>4 DEF m
  <1>13. ASSUME NEW m \in 1 .. n PROVE Row192(u, m) /\ Next192(u[3 * m - 1], u, key, m - 1)
    <2>1. /\ 3 * m - 1 \in 1 .. (3 * n + 1) /\ 3 * m - 2 \in 1 .. (3 * n + 1)
          /\ 3 * m \in 1 .. (3 * n + 1) /\ 3 * m + 1 \in 1 .. (3 * n + 1)
          /\ m - 1 # 0 => 3 * (m - 1) \in 1 .. (3 * n + 1) /\ 3 * (m - 1) + 1 \in 1 .. (3 * n + 1)
      OBVIOUS
    <2>2. u[3 * m - 1] = p.ks[3 * m - 1] /\ u[3 * m - 2] = p.ks[3 * m - 2]
          /\ u[3 * m] = p.ks[3 * m] /\ u[3 * m + 1] = p.ks[3 * m + 1]
          /\ (m - 1 # 0 => u[3 * (m - 1)] = p.ks[3 * (m - 1)] /\ u[3 * (m - 1) + 1] = p.ks[3 * (m - 1) + 1])
      BY ONLY <2>1, <1>10
    <2>3. Next192(p.ks[3 * m - 1], p.ks, key, m - 1) /\ Row192(p.ks, m)
      BY DEF Begun192
    <2>4. Row192(u, m)
      BY ONLY <2>2, <2>3 DEF Row192
    <2>5. Next192(u[3 * m - 1], u, key, m - 1)
      BY ONLY <2>2, <2>3 DEF Next192
    <2> QED
      BY ONLY <2>4, <2>5
  <1>14. Next192(u[3 * (n + 1) - 1], u, key, n)
    <2>1. Next192(k.x3, p.ks, key, n)
      BY DEF Begun192
    <2>2. n # 0 => 3 * n \in 1 .. (3 * n + 1) /\ 3 * n + 1 \in 1 .. (3 * n + 1)
      OBVIOUS
    <2>3. n # 0 => u[3 * n] = p.ks[3 * n] /\ u[3 * n + 1] = p.ks[3 * n + 1]
      BY ONLY <2>2, <1>10
    <2>4. u[3 * (n + 1) - 1][1] = k.x3[1] /\ u[3 * (n + 1) - 1][2] = k.x3[2]
      BY ONLY <1>6, <1>11
    <2> HIDE DEF k
    <2> QED
      BY ONLY <2>1, <2>3, <2>4 DEF Next192
  <1>15. Next192(b.x3, u, key, n + 1)
    <2>1. n + 1 # 0
      OBVIOUS
    <2>2. u[3 * (n + 1)][3] = a.x3[1] /\ u[3 * (n + 1)][4] = a.x3[2] /\ u[3 * (n + 1) + 1][4] = b.x1[4]
      BY ONLY <1>6, <1>11
    <2> QED
      BY ONLY <1>4, <2>1, <2>2 DEF Next192
  <1>16. ASSUME NEW r \in 1 .. (3 * (n + 1) + 1) PROVE u[r] = [j \in 1 .. 4 |-> u[r][j]]
    <2>1. r \in 1 .. (3 * n + 1) \/ r = 3 * (n + 1) - 1 \/ r = 3 * (n + 1) \/ r = 3 * (n + 1) + 1
      OBVIOUS
    <2>2. CASE r \in 1 .. (3 * n + 1)
      <3>1. p.ks[r] = [j \in 1 .. 4 |-> p.ks[r][j]]
        BY <2>2 DEF Begun192
      <3> QED
        BY ONLY <3>1, <2>2, <1>10
    <2>3. CASE r = 3 * (n + 1) - 1
      BY ONLY <2>3, <1>6, <1>11
    <2>4. CASE r = 3 * (n + 1)
      BY ONLY <2>4, <1>6, <1>11
    <2>5. CASE r = 3 * (n + 1) + 1
      <3>1. b.x1 = [j \in 1 .. 4 |-> b.x1[j]]
        BY ONLY <1>4 DEF Summed
      <3> QED
        BY ONLY <2>5, <3>1, <1>11
    <2> QED
      BY ONLY <2>1, <2>2, <2>3, <2>4, <2>5
  <1>17. \A j \in 1 .. 4 : u[1][j] = key[j]
    <2>1. 1 \in 1 .. (3 * n + 1)
      OBVIOUS
    <2>2. u[1] = p.ks[1]
      BY ONLY <2>1, <1>10
    <2>3. \A j \in 1 .. 4 : p.ks[1][j] = key[j]
      BY DEF Begun192
    <2> QED
      BY ONLY <2>2, <2>3
  <1>18. ASSUME NEW m \in 1 .. (n + 1)
         PROVE  Next192(u[3 * m - 1], u, key, m - 1) /\ Row192(u, m)
    <2>1. CASE m = n + 1
      <3>1. (n + 1) - 1 = n
        OBVIOUS
      <3> QED
        BY ONLY <1>12, <1>14, <2>1, <3>1
    <2>2. CASE m # n + 1
      <3>1. m \in 1 .. n
        BY <2>2
      <3> QED
        BY ONLY <1>13, <3>1
    <2> QED
      BY ONLY <2>1, <2>2
  <1> HIDE DEF q
  <1>19. Begun192(q, key, n + 1)
    <2>1. IsSequence(q.ks) /\ Len(q.ks) = 3 * (n + 1) + 1
      BY ONLY <1>1, <1>8, <1>9
    <2>2. q.ks[3 * (n + 1) + 1] = q.k.x1 /\ Next192(q.k.x3, q.ks, key, n + 1)
      BY ONLY <1>1, <1>11, <1>15
    <2>3. /\ \A r \in 1 .. (3 * (n + 1) + 1) : q.ks[r] = [j \in 1 .. 4 |-> q.ks[r][j]]
          /\ \A j \in 1 .. 4 : q.ks[1][j] = key[j]
          /\ \A m \in 1 .. (n + 1) : Next192(q.ks[3 * m - 1], q.ks, key, m - 1) /\ Row192(q.ks, m)
      BY ONLY <1>1, <1>16, <1>17, <1>18
    <2> QED
      BY ONLY <2>1, <2>2, <2>3 DEF Begun192
  <1> QED
    BY <1>19 DEF q

\* and four turns four.
LEMMA Turns192Are ==
  ASSUME NEW key, IsKey(key), Len(key) = 6
  PROVE  Begun192(Stages(0 .. 4, "192", rcon192, First192(key))[4], key, 4)
  <1> DEFINE f == Stages(0 .. 4, "192", rcon192, First192(key))
             Good == {n \in Nat : n <= 4 => Begun192(f[n], key, n)}
             first == First192(key)
  <1>1. /\ f[0] = first
        /\ \A n \in 1 .. 4 : f[n] = Store192(f[n - 1].ks, f[n - 1].k, rcon192[n])
    <2>0. 4 \in Nat
      OBVIOUS
    <2>1. Staged(f, "192", rcon192, first, 4)
      BY ONLY <2>0, StagesAre
    <2> QED
      BY <2>1 DEF Staged, Stage
  <1> HIDE DEF f
  <1>2. 0 \in Good
    <2> DEFINE k1 == SubSeq(key, 1, 4)
    <2>1. k1 = [j \in 1 .. 4 |-> key[j]]
      <3>1. key = FirstOf(key, 6)
        BY DEF IsKey
      <3>2. SubSeq(FirstOf(key, 6), 4 * 1 - 3, 4 * 1) = [j \in 1 .. 4 |-> key[4 * 1 - 4 + j]]
        <4>1. \A n \in Nat, r \in Nat : r > 0 /\ 4 * r <= n =>
                SubSeq(FirstOf(key, n), 4 * r - 3, 4 * r) = [j \in 1 .. 4 |-> key[4 * r - 4 + j]]
          BY WordsOfKey
        <4>2. 6 \in Nat /\ 1 \in Nat /\ 1 > 0 /\ 4 * 1 <= 6
          OBVIOUS
        <4> QED
          BY ONLY <4>1, <4>2
      <3>3. 4 * 1 - 3 = 1 /\ 4 * 1 = 4 /\ (\A j \in 1 .. 4 : 4 * 1 - 4 + j = j)
        OBVIOUS
      <3> QED
        BY ONLY <3>1, <3>2, <3>3
    <2> HIDE DEF k1
    <2>2. /\ first.k.x1 = k1 /\ first.ks = <<k1>>
          /\ first.k.x3[1] = key[5] /\ first.k.x3[2] = key[6]
      BY DEF First192, k1
    <2> HIDE DEF first
    <2>3. <<k1>> \in Seq({k1}) /\ Len(<<k1>>) = 1 /\ <<k1>>[1] = k1
      OBVIOUS
    <2>4. IsSequence(<<k1>>)
      BY ONLY <2>3, SeqIsSequence
    <2>5. IsSequence(first.ks) /\ Len(first.ks) = 1 /\ first.ks[1] = k1
      BY ONLY <2>2, <2>3, <2>4
    <2>6. Next192(first.k.x3, first.ks, key, 0)
      BY ONLY <2>2 DEF Next192
    <2>7. /\ \A r \in 1 .. 1 : first.ks[r] = [j \in 1 .. 4 |-> first.ks[r][j]]
          /\ \A j \in 1 .. 4 : first.ks[1][j] = key[j]
      BY ONLY <2>1, <2>5
    <2>8. 3 * 0 + 1 = 1 /\ 1 .. 0 = {}
      OBVIOUS
    <2>9. Begun192(first, key, 0)
      BY ONLY <2>2, <2>5, <2>6, <2>7, <2>8 DEF Begun192
    <2>10. Begun192(f[0], key, 0)
      BY ONLY <1>1, <2>9
    <2> QED
      BY <2>10
  <1>3. \A n \in Nat : n \in Good => n + 1 \in Good
    <2> SUFFICES ASSUME NEW n \in Nat, n <= 4 => Begun192(f[n], key, n), n + 1 <= 4
                 PROVE  Begun192(f[n + 1], key, n + 1)
      OBVIOUS
    <2>1. n + 1 \in 1 .. 4 /\ (n + 1) - 1 = n /\ n <= 4 /\ n \in 0 .. 3
      OBVIOUS
    <2>2. f[n + 1] = Store192(f[n].ks, f[n].k, rcon192[n + 1])
      BY ONLY <1>1, <2>1
    <2>3. Begun192(f[n], key, n)
      BY <2>1
    <2>4. Begun192(Store192(f[n].ks, f[n].k, rcon192[n + 1]), key, n + 1)
      BY ONLY <2>1, <2>3, Turn192Is
    <2> QED
      BY ONLY <2>2, <2>4
  <1> HIDE DEF Good
  <1>4. \A n \in Nat : n \in Good
    BY ONLY <1>2, <1>3, NatInSteps
  <1>5. Begun192(f[4], key, 4)
    BY <1>4 DEF Good
  <1> QED
    BY <1>5 DEF f

\* Keys of six words: twice six words in three rows.
LEMMA Fits192 ==
  ASSUME NEW key, IsKey(key), Len(key) = 6
  PROVE  Fits(Schedule192(key), key, 12)
  <1> DEFINE s == Schedule192(key)
             w == Words(s)
  <1>1. /\ Rows(s, 12)
        /\ \A j \in 1 .. 4 : s[1][j] = key[j]
        /\ \A m \in 1 .. 4 : Next192(s[3 * m - 1], s, key, m - 1) /\ Row192(s, m)
    <2> DEFINE p == Stages(0 .. 4, "192", rcon192, First192(key))[4]
    <2>1. Begun192(p, key, 4)
      BY Turns192Are
    <2>2. s = p.ks
      BY Schedule192Is
    <2> HIDE DEF p, s
    <2>3. 3 * 4 + 1 = 13 /\ 12 + 1 = 13
      OBVIOUS
    <2> QED
      BY ONLY <2>1, <2>2, <2>3 DEF Begun192, Rows
  <1> HIDE DEF s
  <1>2. \A r \in 1 .. 13, j \in 1 .. 4 : w[4 * r - 4 + j] = s[r][j]
    <2>1. 12 \in Nat /\ 12 + 1 = 13
      OBVIOUS
    <2>2. \A n \in Nat : Rows(s, n) =>
            \A r \in 1 .. (n + 1), j \in 1 .. 4 : Words(s)[4 * r - 4 + j] = s[r][j]
      BY WordsAt
    <2> QED
      BY ONLY <2>1, <2>2, <1>1
  <1> HIDE DEF w
  <1>3. ASSUME NEW i \in 1 .. 6 PROVE w[i] = key[i]
    <2>1. CASE i \in 1 .. 4
      <3>1. 1 \in 1 .. 13 /\ 4 * 1 - 4 + i = i
        BY <2>1
      <3> QED
        BY ONLY <3>1, <2>1, <1>1, <1>2
    <2>2. CASE i \in {5, 6}
      <3>1. 2 \in 1 .. 13 /\ i = 4 * 2 - 4 + (i - 4) /\ i - 4 \in 1 .. 4
        BY <2>2
      <3>2. w[i] = s[2][i - 4]
        BY ONLY <3>1, <1>2
      <3>3. 1 \in 1 .. 4 /\ 3 * 1 - 1 = 2 /\ 1 - 1 = 0
        OBVIOUS
      <3>4. Next192(s[2], s, key, 0)
        BY ONLY <1>1, <3>3
      <3>5. s[2][1] = key[5] /\ s[2][2] = key[6]
        BY ONLY <3>4 DEF Next192
      <3>6. (i = 5 /\ i - 4 = 1) \/ (i = 6 /\ i - 4 = 2)
        BY <2>2
      <3> QED
        BY ONLY <3>2, <3>5, <3>6
    <2>3. i \in 1 .. 4 \/ i \in {5, 6}
      OBVIOUS
    <2> QED
      BY <2>1, <2>2, <2>3
  <1>4. ASSUME NEW i \in 7 .. 52
        PROVE  w[i] = Xor(w[i - 6], FipsTemp(6, i - 1, w[i - 1]))
    <2>1. PICK m \in 1 .. 4, q \in 1 .. 12 : i = 12 * m - 8 + q /\ (m = 1 => q > 2)
      <3> DEFINE m0 == ((i - 5) \div 12) + 1
                 q0 == ((i - 5) % 12) + 1
      <3>1. m0 \in 1 .. 4 /\ q0 \in 1 .. 12 /\ i = 12 * m0 - 8 + q0 /\ (m0 = 1 => q0 > 2)
        OBVIOUS
      <3> HIDE DEF m0, q0
      <3> QED
        BY ONLY <3>1
    <2>2. /\ 3 * m - 2 \in 1 .. 13 /\ 3 * m - 1 \in 1 .. 13 /\ 3 * m \in 1 .. 13 /\ 3 * m + 1 \in 1 .. 13
          /\ 1 \in 1 .. 4 /\ 2 \in 1 .. 4 /\ 3 \in 1 .. 4 /\ 4 \in 1 .. 4
      OBVIOUS
    <2>3. /\ \A j \in 1 .. 4 : w[12 * m - 12 + j] = s[3 * m - 2][j]
          /\ \A j \in 1 .. 4 : w[12 * m - 8 + j] = s[3 * m - 1][j]
          /\ \A j \in 1 .. 4 : w[12 * m - 4 + j] = s[3 * m][j]
          /\ \A j \in 1 .. 4 : w[12 * m + j] = s[3 * m + 1][j]
      <3>1. \A j \in 1 .. 4 : /\ 4 * (3 * m - 2) - 4 + j = 12 * m - 12 + j
                              /\ 4 * (3 * m - 1) - 4 + j = 12 * m - 8 + j
                              /\ 4 * (3 * m) - 4 + j = 12 * m - 4 + j
                              /\ 4 * (3 * m + 1) - 4 + j = 12 * m + j
        OBVIOUS
      <3> QED
        BY ONLY <2>2, <3>1, <1>2
    <2>4. q < 3 => \A j \in 1 .. 4 : w[12 * m - 16 + j] = s[3 * m - 3][j]
      <3> SUFFICES ASSUME q < 3, NEW j \in 1 .. 4
                   PROVE  w[12 * m - 16 + j] = s[3 * m - 3][j]
        OBVIOUS
      <3>1. 3 * m - 3 \in 1 .. 13 /\ 4 * (3 * m - 3) - 4 + j = 12 * m - 16 + j
        BY <2>1
      <3> QED
        BY ONLY <3>1, <1>2, j \in 1 .. 4
    <2>5. Row192(s, m)
      BY ONLY <1>1, m \in 1 .. 4
    <2>6. q < 3 => /\ s[3 * m - 1][1] = Xor(s[3 * m - 3][3], s[3 * m - 2][4])
                   /\ s[3 * m - 1][2] = Xor(s[3 * m - 3][4], s[3 * m - 1][1])
      <3>1. Next192(s[3 * m - 1], s, key, m - 1)
        BY ONLY <1>1, m \in 1 .. 4
      <3>2. q < 3 => m - 1 # 0
        BY <2>1
      <3>3. 3 * (m - 1) = 3 * m - 3 /\ 3 * (m - 1) + 1 = 3 * m - 2
        OBVIOUS
      <3> QED
        BY ONLY <3>1, <3>2, <3>3 DEF Next192
    <2>q1. CASE q = 1
      <3>1. i = 12 * m - 8 + 1 /\ i - 6 = 12 * m - 16 + 3 /\ i - 1 = 12 * m - 12 + 4
        BY <2>1, <2>q1
      <3>2. (i - 1) % 6 # 0
        BY <2>1, <2>q1
      <3>3. w[i] = s[3 * m - 1][1] /\ w[i - 6] = s[3 * m - 3][3] /\ w[i - 1] = s[3 * m - 2][4]
        BY ONLY <3>1, <2>2, <2>3, <2>4, <2>q1
      <3>4. FipsTemp(6, i - 1, w[i - 1]) = s[3 * m - 2][4]
        BY ONLY <3>2, <3>3, ~ (6 > 6) DEF FipsTemp
      <3> QED
        BY ONLY <2>4, <2>6, <2>q1, <3>3, <3>4 
    <2>q2. CASE q = 2
      <3>1. i = 12 * m - 8 + 2 /\ i - 6 = 12 * m - 16 + 4 /\ i - 1 = 12 * m - 8 + 1
        BY <2>1, <2>q2
      <3>2. (i - 1) % 6 # 0
        BY <2>1, <2>q2
      <3>3. w[i] = s[3 * m - 1][2] /\ w[i - 6] = s[3 * m - 3][4] /\ w[i - 1] = s[3 * m - 1][1]
        BY ONLY <3>1, <2>2, <2>3, <2>4, <2>q2
      <3>4. FipsTemp(6, i - 1, w[i - 1]) = s[3 * m - 1][1]
        BY ONLY <3>2, <3>3, ~ (6 > 6) DEF FipsTemp
      <3> QED
        BY ONLY <2>4, <2>6, <2>q2, <3>3, <3>4 
    <2>q3. CASE q = 3
      <3>1. i = 12 * m - 8 + 3 /\ i - 6 = 12 * m - 12 + 1 /\ i - 1 = 12 * m - 8 + 2
        BY <2>1, <2>q3
      <3>2. (i - 1) % 6 = 0 /\ (i - 1) \div 6 = 2 * m - 1
        BY <2>1, <2>q3
      <3>3. w[i] = s[3 * m - 1][3] /\ w[i - 6] = s[3 * m - 2][1] /\ w[i - 1] = s[3 * m - 1][2]
        BY ONLY <3>1, <2>2, <2>3
      <3>4. FipsTemp(6, i - 1, w[i - 1]) = RotSub(s[3 * m - 1][2], rcon128[2 * m - 1])
        BY ONLY <3>2, <3>3 DEF FipsTemp
      <3> QED
        BY ONLY <2>5, <3>3, <3>4 DEF Row192
    <2>q4. CASE q = 4
      <3>1. i = 12 * m - 8 + 4 /\ i - 6 = 12 * m - 12 + 2 /\ i - 1 = 12 * m - 8 + 3
        BY <2>1, <2>q4
      <3>2. (i - 1) % 6 # 0
        BY <2>1, <2>q4
      <3>3. w[i] = s[3 * m - 1][4] /\ w[i - 6] = s[3 * m - 2][2] /\ w[i - 1] = s[3 * m - 1][3]
        BY ONLY <3>1, <2>2, <2>3
      <3>4. FipsTemp(6, i - 1, w[i - 1]) = s[3 * m - 1][3]
        BY ONLY <3>2, <3>3, ~ (6 > 6) DEF FipsTemp
      <3> QED
        BY ONLY <2>5, <3>3, <3>4 DEF Row192
    <2>q5. CASE q = 5
      <3>1. i = 12 * m - 4 + 1 /\ i - 6 = 12 * m - 12 + 3 /\ i - 1 = 12 * m - 8 + 4
        BY <2>1, <2>q5
      <3>2. (i - 1) % 6 # 0
        BY <2>1, <2>q5
      <3>3. w[i] = s[3 * m][1] /\ w[i - 6] = s[3 * m - 2][3] /\ w[i - 1] = s[3 * m - 1][4]
        BY ONLY <3>1, <2>2, <2>3
      <3>4. FipsTemp(6, i - 1, w[i - 1]) = s[3 * m - 1][4]
        BY ONLY <3>2, <3>3, ~ (6 > 6) DEF FipsTemp
      <3> QED
        BY ONLY <2>5, <3>3, <3>4 DEF Row192
    <2>q6. CASE q = 6
      <3>1. i = 12 * m - 4 + 2 /\ i - 6 = 12 * m - 12 + 4 /\ i - 1 = 12 * m - 4 + 1
        BY <2>1, <2>q6
      <3>2. (i - 1) % 6 # 0
        BY <2>1, <2>q6
      <3>3. w[i] = s[3 * m][2] /\ w[i - 6] = s[3 * m - 2][4] /\ w[i - 1] = s[3 * m][1]
        BY ONLY <3>1, <2>2, <2>3
      <3>4. FipsTemp(6, i - 1, w[i - 1]) = s[3 * m][1]
        BY ONLY <3>2, <3>3, ~ (6 > 6) DEF FipsTemp
      <3> QED
        BY ONLY <2>5, <3>3, <3>4 DEF Row192
    <2>q7. CASE q = 7
      <3>1. i = 12 * m - 4 + 3 /\ i - 6 = 12 * m - 8 + 1 /\ i - 1 = 12 * m - 4 + 2
        BY <2>1, <2>q7
      <3>2. (i - 1) % 6 # 0
        BY <2>1, <2>q7
      <3>3. w[i] = s[3 * m][3] /\ w[i - 6] = s[3 * m - 1][1] /\ w[i - 1] = s[3 * m][2]
        BY ONLY <3>1, <2>2, <2>3
      <3>4. FipsTemp(6, i - 1, w[i - 1]) = s[3 * m][2]
        BY ONLY <3>2, <3>3, ~ (6 > 6) DEF FipsTemp
      <3> QED
        BY ONLY <2>5, <3>3, <3>4 DEF Row192
    <2>q8. CASE q = 8
      <3>1. i = 12 * m - 4 + 4 /\ i - 6 = 12 * m - 8 + 2 /\ i - 1 = 12 * m - 4 + 3
        BY <2>1, <2>q8
      <3>2. (i - 1) % 6 # 0
        BY <2>1, <2>q8
      <3>3. w[i] = s[3 * m][4] /\ w[i - 6] = s[3 * m - 1][2] /\ w[i - 1] = s[3 * m][3]
        BY ONLY <3>1, <2>2, <2>3
      <3>4. FipsTemp(6, i - 1, w[i - 1]) = s[3 * m][3]
        BY ONLY <3>2, <3>3, ~ (6 > 6) DEF FipsTemp
      <3> QED
        BY ONLY <2>5, <3>3, <3>4 DEF Row192
    <2>q9. CASE q = 9
      <3>1. i = 12 * m + 1 /\ i - 6 = 12 * m - 8 + 3 /\ i - 1 = 12 * m - 4 + 4
        BY <2>1, <2>q9
      <3>2. (i - 1) % 6 = 0 /\ (i - 1) \div 6 = 2 * m
        BY <2>1, <2>q9
      <3>3. w[i] = s[3 * m + 1][1] /\ w[i - 6] = s[3 * m - 1][3] /\ w[i - 1] = s[3 * m][4]
        BY ONLY <3>1, <2>2, <2>3
      <3>4. FipsTemp(6, i - 1, w[i - 1]) = RotSub(s[3 * m][4], rcon128[2 * m])
        BY ONLY <3>2, <3>3 DEF FipsTemp
      <3> QED
        BY ONLY <2>5, <3>3, <3>4 DEF Row192
    <2>q10. CASE q = 10
      <3>1. i = 12 * m + 2 /\ i - 6 = 12 * m - 8 + 4 /\ i - 1 = 12 * m + 1
        BY <2>1, <2>q10
      <3>2. (i - 1) % 6 # 0
        BY <2>1, <2>q10
      <3>3. w[i] = s[3 * m + 1][2] /\ w[i - 6] = s[3 * m - 1][4] /\ w[i - 1] = s[3 * m + 1][1]
        BY ONLY <3>1, <2>2, <2>3
      <3>4. FipsTemp(6, i - 1, w[i - 1]) = s[3 * m + 1][1]
        BY ONLY <3>2, <3>3, ~ (6 > 6) DEF FipsTemp
      <3> QED
        BY ONLY <2>5, <3>3, <3>4 DEF Row192
    <2>q11. CASE q = 11
      <3>1. i = 12 * m + 3 /\ i - 6 = 12 * m - 4 + 1 /\ i - 1 = 12 * m + 2
        BY <2>1, <2>q11
      <3>2. (i - 1) % 6 # 0
        BY <2>1, <2>q11
      <3>3. w[i] = s[3 * m + 1][3] /\ w[i - 6] = s[3 * m][1] /\ w[i - 1] = s[3 * m + 1][2]
        BY ONLY <3>1, <2>2, <2>3
      <3>4. FipsTemp(6, i - 1, w[i - 1]) = s[3 * m + 1][2]
        BY ONLY <3>2, <3>3, ~ (6 > 6) DEF FipsTemp
      <3> QED
        BY ONLY <2>5, <3>3, <3>4 DEF Row192
    <2>q12. CASE q = 12
      <3>1. i = 12 * m + 4 /\ i - 6 = 12 * m - 4 + 2 /\ i - 1 = 12 * m + 3
        BY <2>1, <2>q12
      <3>2. (i - 1) % 6 # 0
        BY <2>1, <2>q12
      <3>3. w[i] = s[3 * m + 1][4] /\ w[i - 6] = s[3 * m][2] /\ w[i - 1] = s[3 * m + 1][3]
        BY ONLY <3>1, <2>2, <2>3
      <3>4. FipsTemp(6, i - 1, w[i - 1]) = s[3 * m + 1][3]
        BY ONLY <3>2, <3>3, ~ (6 > 6) DEF FipsTemp
      <3> QED
        BY ONLY <2>5, <3>3, <3>4 DEF Row192
    <2> QED
      BY <2>q1, <2>q2, <2>q3, <2>q4, <2>q5, <2>q6, <2>q7, <2>q8, <2>q9, <2>q10, <2>q11, <2>q12
  <1>5. Expands(w, key, 4 * (12 + 1))
    <2>1. 4 * (12 + 1) = 52 /\ 6 + 1 = 7
      OBVIOUS
    <2> QED
      BY ONLY <2>1, <1>3, <1>4, Len(key) = 6 DEF Expands
  <1>6. Fits(s, key, 12)
    BY <1>1, <1>5 DEF Fits, w
  <1> QED
    BY <1>6 DEF s

-----------------------------------------------------------------------------
(* The cipher of the context.                                              *)

\* The schedule that the code makes of the key is that of FIPS 197.
LEMMA ExpansionFits ==
  ASSUME IsKey(aeskey), NEW n, n = Len(aeskey) + 6
  PROVE  /\ n \in {10, 12, 14}
         /\ Len(Schedule(n, aeskey)) = n + 1
         /\ Context!KeyExpansion(n) = EncKeys(Schedule(n, aeskey))
  <1>1. n \in {10, 12, 14}
    <2>1. Len(aeskey) \in {4, 6, 8}
      BY DEF IsKey
    <2>2. \A l \in {4, 6, 8} : l + 6 \in {10, 12, 14}
      OBVIOUS
    <2> QED
      BY ONLY <2>1, <2>2, n = Len(aeskey) + 6
  <1>2. Fits(Schedule(n, aeskey), aeskey, n)
    <2>1. CASE Len(aeskey) = 4
      <3>1. n = 10
        BY <2>1
      <3>2. Schedule(n, aeskey) = Schedule128(aeskey)
        BY <3>1 DEF Schedule
      <3> QED
        BY <2>1, <3>1, <3>2, Fits128
    <2>2. CASE Len(aeskey) = 6
      <3>1. n = 12
        BY <2>2
      <3>2. Schedule(n, aeskey) = Schedule192(aeskey)
        BY <3>1 DEF Schedule
      <3> QED
        BY <2>2, <3>1, <3>2, Fits192
    <2>3. CASE Len(aeskey) = 8
      <3>1. n = 14
        BY <2>3
      <3>2. Schedule(n, aeskey) = Schedule256(aeskey)
        BY <3>1 DEF Schedule
      <3> QED
        BY <2>3, <3>1, <3>2, Fits256
    <2> QED
      BY <2>1, <2>2, <2>3 DEF IsKey
  <1> DEFINE s == Schedule(n, aeskey)
  <1> HIDE DEF s
  <1>3. Rows(s, n) /\ Expands(Words(s), aeskey, 4 * (n + 1))
    BY <1>2 DEF Fits, s
  <1>4. Context!KeyExpansion(n)
          = EncKeys([r \in 1 .. (n + 1) |-> [j \in 1 .. 4 |-> Words(s)[4 * r - 4 + j]]])
    BY ONLY <1>1, <1>3, IsKey(aeskey), ExpansionIs
  <1>5. [r \in 1 .. (n + 1) |-> [j \in 1 .. 4 |-> Words(s)[4 * r - 4 + j]]] = s
    <2>1. n \in Nat
      BY <1>1
    <2> QED
      BY ONLY <2>1, <1>3, WordsAt
  <1>6. Len(s) = n + 1
    BY <1>3 DEF Rows
  <1>7. Context!KeyExpansion(n) = EncKeys(s)
    BY ONLY <1>4, <1>5
  <1> QED
    BY <1>1, <1>6, <1>7 DEF s

\* The cipher of FIPS 197, under n + 1 round keys.
Fips197Enc(keys, n, x) ==
  LET y[r \in 0 .. (n - 1)] == IF r = 0 THEN Xor(x, keys[0]) ELSE AesEnc(y[r - 1], keys[r])
  IN  AesEncLast(y[n - 1], keys[n])

\* AesContext's cipher is the one of FIPS 197, and so is its inverse.
LEMMA ContextCipher ==
  LET n == Len(aeskey) + 6
      keys == Context!KeyExpansion(n)
  IN  /\ \A x : Context!Cipher(x) = Fips197Enc(keys, n, x)
      /\ \A x : Context!InvCipher(x) = Fips197Inv(keys, n, x)
  <1> DEFINE n == Len(aeskey) + 6
             keys == Context!KeyExpansion(n)
  <1> HIDE DEF keys
  <1>1. ASSUME NEW x PROVE Context!Cipher(x) = Fips197Enc(keys, n, x)
    <2> DEFINE RecC(y) == y = [r \in 0 .. (n - 1) |->
                 IF r = 0 THEN Context!Xor(x, keys[0]) ELSE Context!AesEnc(y[r - 1], keys[r])]
               Rec(y) == y = [r \in 0 .. (n - 1) |->
                 IF r = 0 THEN Xor(x, keys[0]) ELSE AesEnc(y[r - 1], keys[r])]
               LastOf(y) == AesEncLast(y[n - 1], keys[n])
    <2>1. \A y : RecC(y) <=> Rec(y)
      <3> HIDE DEF n
      <3> QED
        BY ContextXor, ContextRounds
    <2>2. Context!Cipher(x) = LastOf(CHOOSE y : RecC(y))
      BY ContextRounds DEF Context!Cipher, Context!Nr, keys
    <2>3. Fips197Enc(keys, n, x) = LastOf(CHOOSE y : Rec(y))
      BY DEF Fips197Enc
    <2> HIDE DEF Rec, RecC, LastOf
    <2>4. (CHOOSE y : RecC(y)) = (CHOOSE y : Rec(y))
      BY <2>1
    <2> QED
      BY <2>2, <2>3, <2>4
  <1>2. ASSUME NEW x PROVE Context!InvCipher(x) = Fips197Inv(keys, n, x)
    <2> DEFINE RecC(y) == y = [r \in 0 .. (n - 1) |->
                 IF r = 0 THEN Context!Xor(x, keys[n])
                 ELSE Context!Mixed(Context!Xor(Context!InvSubShift(y[r - 1]), keys[n - r]), -1)]
               Rec(y) == y = [r \in 0 .. (n - 1) |->
                 IF r = 0 THEN Xor(x, keys[n])
                 ELSE Mixed(Xor(InvSubShift(y[r - 1]), keys[n - r]), -1)]
               LastOf(y) == Xor(InvSubShift(y[n - 1]), keys[0])
    <2>1. \A y : RecC(y) <=> Rec(y)
      <3> HIDE DEF n
      <3> QED
        BY ContextXor, ContextRounds
    <2>2. Context!InvCipher(x) = LastOf(CHOOSE y : RecC(y))
      BY ContextXor, ContextRounds DEF Context!InvCipher, Context!Nr, keys
    <2>3. Fips197Inv(keys, n, x) = LastOf(CHOOSE y : Rec(y))
      BY DEF Fips197Inv
    <2> HIDE DEF Rec, RecC, LastOf
    <2>4. (CHOOSE y : RecC(y)) = (CHOOSE y : Rec(y))
      BY <2>1
    <2> QED
      BY <2>2, <2>3, <2>4
  <1> QED
    BY <1>1, <1>2 DEF keys

\* Round keys are blocks.
LEMMA EncKeysAre ==
  ASSUME NEW s, NEW n \in Nat, Len(s) = n + 1
  PROVE  \A r \in 0 .. n : IsBlock(EncKeys(s)[r])
  <1> SUFFICES ASSUME NEW r \in 0 .. n PROVE IsBlock(EncKeys(s)[r])
    OBVIOUS
  <1> DEFINE t == <<"words", s[r + 1]>>
  <1>1. EncKeys(s)[r] = {<<t, 0>>}
    BY DEF EncKeys, AsBlock
  <1>2. t[1] # "sub"
    OBVIOUS
  <1> HIDE DEF t
  <1> QED
    BY ONLY <1>1, <1>2, BlockAtom

\* The code's rounds are those of the cipher,
LEMMA DoEncIs ==
  ASSUME NEW keys, NEW n \in {10, 12, 14}, \A r \in 0 .. n : IsBlock(keys[r]),
         NEW x, IsBlock(x)
  PROVE  DoEnc(x, keys, n) = Fips197Enc(keys, n, x) /\ IsBlock(DoEnc(x, keys, n))
  <1>1. LastKey(n) = n
    BY DEF LastKey
  <1>2. DoEnc(x, keys, n) = Fips197Enc(keys, n, x)
    BY <1>1 DEF DoEnc, Fips197Enc, InnerEnc
  <1> DEFINE x0 == Xor(x, keys[0])
             f == Stages(0 .. (n - 1), "enc", keys, x0)
             Good == {r \in Nat : r <= n - 1 => IsBlock(f[r])}
  <1>3. InnerEnc(x0, keys, n) = f[n - 1]
    BY DEF InnerEnc, Stages, Stage
  <1>4. /\ f[0] = x0
        /\ \A r \in 1 .. (n - 1) : f[r] = Xor(Mixed(SubShift(f[r - 1]), 1), keys[r])
    <2>1. n - 1 \in Nat
      OBVIOUS
    <2>2. Staged(f, "enc", keys, x0, n - 1)
      BY ONLY <2>1, StagesAre
    <2> QED
      BY <2>2 DEF Staged, Stage, AesEnc
  <1> HIDE DEF f
  <1>5. 0 \in Good
    <2>1. 0 \in 0 .. n
      OBVIOUS
    <2>2. IsBlock(keys[0])
      BY <2>1
    <2>3. IsBlock(x0)
      BY <2>2, BlockXor
    <2> QED
      BY <1>4, <2>3
  <1>6. \A r \in Nat : r \in Good => r + 1 \in Good
    <2> SUFFICES ASSUME NEW r \in Nat, r <= n - 1 => IsBlock(f[r]), r + 1 <= n - 1
                 PROVE  IsBlock(f[r + 1])
      OBVIOUS
    <2>1. r + 1 \in 1 .. (n - 1) /\ (r + 1) - 1 = r /\ r <= n - 1 /\ r + 1 \in 0 .. n
      OBVIOUS
    <2>2. f[r + 1] = Xor(Mixed(SubShift(f[r]), 1), keys[r + 1])
      BY ONLY <1>4, <2>1
    <2>3. IsBlock(f[r]) /\ IsBlock(keys[r + 1])
      BY <2>1
    <2>4. IsBlock(SubShift(f[r]))
      BY <2>3, BlockSub
    <2>5. IsBlock(Mixed(SubShift(f[r]), 1))
      BY ONLY <2>4, 1 \in Int, BlockMixed
    <2> QED
      BY ONLY <2>2, <2>3, <2>5, BlockXor
  <1> HIDE DEF Good
  <1>7. \A r \in Nat : r \in Good
    BY ONLY <1>5, <1>6, NatInSteps
  <1>8. IsBlock(f[n - 1])
    <2>1. n - 1 \in Nat /\ n - 1 <= n - 1
      OBVIOUS
    <2> QED
      BY ONLY <1>7, <2>1 DEF Good
  <1>9. DoEnc(x, keys, n) = Xor(SubShift(f[n - 1]), keys[n])
    BY <1>1, <1>3 DEF DoEnc, AesEncLast
  <1>10. IsBlock(keys[n])
    <2>1. n \in 0 .. n
      OBVIOUS
    <2> QED
      BY <2>1
  <1>11. IsBlock(DoEnc(x, keys, n))
    <2>1. IsBlock(SubShift(f[n - 1]))
      BY <1>8, BlockSub
    <2> QED
      BY ONLY <1>9, <1>10, <2>1, BlockXor
  <1> QED
    BY <1>2, <1>11

\* and of its inverse, with the keys that were made for it.
LEMMA DoDecIs ==
  ASSUME NEW keys, NEW n \in {10, 12, 14}, \A r \in 0 .. n : IsBlock(keys[r]),
         NEW x, IsBlock(x)
  PROVE  /\ DoDec(x, DecKeys(keys, n), n) = Fips197Inv(keys, n, x)
         /\ IsBlock(DoDec(x, DecKeys(keys, n), n))
  <1>1. LastKey(n) = n
    BY DEF LastKey
  <1>2. DecKeys(keys, n)[0] = keys[n] /\ DecKeys(keys, n)[n] = keys[0]
    BY DecKeysAre
  <1>3. DoDec(x, DecKeys(keys, n), n)
          = AesDecLast(InnerDec(Xor(x, keys[n]), DecKeys(keys, n), n), keys[0])
    BY <1>1, <1>2 DEF DoDec
  <1> QED
    BY <1>3, InvIs

-----------------------------------------------------------------------------
(* The context.                                                            *)

\* The fields of the context, and the buffer.
ContextTypes ==
  /\ aesctx = [rounds |-> aesctx.rounds, keysch |-> aesctx.keysch,
               keyschdec |-> aesctx.keyschdec,
               decryption_prepared |-> aesctx.decryption_prepared]
  /\ aesctx.decryption_prepared \in BOOLEAN
  /\ IsBlock(scratch)

\* Once a key is set: the rounds are those of its size, the schedule is its own,
\* and so is the one for decryption, if it is said to be prepared.
ContextKeyed ==
  /\ IsKey(aeskey)
  /\ aesctx.rounds = Len(aeskey) + 6
  /\ aesctx.keysch = Schedule(aesctx.rounds, aeskey)
  /\ aesctx.decryption_prepared =>
       aesctx.keyschdec = DecKeys(EncKeys(aesctx.keysch), aesctx.rounds)

\* The invariant of the context.
ContextIInv ==
  ContextTypes /\ (ContextKeyed \/ (aesctx.rounds = 0 /\ ~ aesctx.decryption_prepared))

\* What the property says of a step.
ContextUsed ==
  /\ Context!Encrypt => scratch' = Context!Cipher(scratch)
  /\ Context!Decrypt => scratch' = Context!InvCipher(scratch)

\* The keys that do_setkey takes.
LEMMA KeyIs ==
  ASSUME NEW name, NEW keylen \in {16, 24, 32}
  PROVE  IsKey(Context!Key(name, keylen)) /\ Len(Context!Key(name, keylen)) = keylen \div 4
  <1> DEFINE k == Context!Key(name, keylen)
             n == keylen \div 4
             g == [i \in 1 .. n |-> {<<name, i>>}]
  <1>1. n \in {4, 6, 8}
    OBVIOUS
  <1> HIDE DEF n
  <1>2. k = g
    BY DEF Context!Key, n
  <1>3. g \in Seq({g[i] : i \in 1 .. n}) /\ Len(g) = n
    BY <1>1
  <1>4. g = FirstOf(g, n)
    BY DEF FirstOf
  <1> HIDE DEF g, k
  <1>5. IsKey(k) /\ Len(k) = n
    BY ONLY <1>1, <1>2, <1>3, <1>4 DEF IsKey
  <1> QED
    BY <1>5 DEF k, n

\* The invariant holds at the start,
LEMMA ContextStart == Context!Init => ContextIInv
  <1> SUFFICES ASSUME Context!Init PROVE ContextIInv
    OBVIOUS
  <1>1. ContextTypes
    <2>1. scratch = {<<<<"plaintext", 0>>, 0>>} /\ <<"plaintext", 0>>[1] # "sub"
      BY DEF Context!Init
    <2>2. IsBlock(scratch)
      BY <2>1, BlockAtom
    <2> QED
      BY <2>2 DEF ContextTypes, Context!Init
  <1> QED
    BY <1>1 DEF ContextIInv, Context!Init

\* when a key is set or refused,
LEMMA SetKeyStep ==
  ASSUME ContextIInv, NEW name, NEW keylen, Context!SetKey(name, keylen)
  PROVE  ContextIInv'
  <1>0. scratch' = scratch
    BY DEF Context!SetKey
  <1>1. CASE keylen \notin {16, 24, 32}
    <2>1. aesctx' = aesctx /\ aeskey' = aeskey
      BY <1>1 DEF Context!SetKey
    <2> QED
      BY <1>0, <2>1 DEF ContextIInv, ContextTypes, ContextKeyed
  <1>2. CASE keylen \in {16, 24, 32}
    <2> DEFINE n == (keylen \div 4) + 6
               k == Context!Key(name, keylen)
    <2>1. aesctx' = Context!WithKey(aesctx, n, k) /\ aeskey' = k
      <3>1. CASE keylen = 16
        <4>1. n = 10
          BY <3>1
        <4> HIDE DEF n
        <4> QED
          BY <3>1, <4>1 DEF Context!SetKey
      <3>2. CASE keylen = 24
        <4>1. n = 12
          BY <3>2
        <4> HIDE DEF n
        <4> QED
          BY <3>2, <4>1 DEF Context!SetKey
      <3>3. CASE keylen = 32
        <4>1. n = 14
          BY <3>3
        <4> HIDE DEF n
        <4> QED
          BY <3>3, <4>1 DEF Context!SetKey
      <3> QED
        BY <1>2, <3>1, <3>2, <3>3
    <2>2. IsKey(k) /\ Len(k) = keylen \div 4
      BY <1>2, KeyIs
    <2>3. n = Len(k) + 6
      BY <2>2
    <2> HIDE DEF n, k
    <2>4. aesctx' = [aesctx EXCEPT !.rounds = n, !.decryption_prepared = FALSE, !.keysch = Schedule(n, k)]
      BY <2>1, ContextSchedule DEF Context!WithKey
    <2>5. aesctx' = [rounds |-> n, keysch |-> Schedule(n, k), keyschdec |-> aesctx.keyschdec,
                     decryption_prepared |-> FALSE]
      BY <2>4 DEF ContextIInv, ContextTypes
    <2>6. /\ aesctx'.rounds = n /\ aesctx'.keysch = Schedule(n, k) /\ aesctx'.decryption_prepared = FALSE
          /\ aesctx'.keyschdec = aesctx.keyschdec
      BY ONLY <2>5
    <2>7. ContextTypes'
      <3>1. IsBlock(scratch')
        BY <1>0 DEF ContextIInv, ContextTypes
      <3> QED
        BY ONLY <2>5, <2>6, <3>1 DEF ContextTypes
    <2>8. ContextKeyed'
      BY ONLY <2>1, <2>2, <2>3, <2>6 DEF ContextKeyed
    <2> QED
      BY <2>7, <2>8 DEF ContextIInv
  <1> QED
    BY <1>1, <1>2

\* With a key, the round keys.
LEMMA KeyedIs ==
  ASSUME ContextKeyed
  PROVE  /\ aesctx.rounds \in {10, 12, 14}
         /\ aesctx.rounds = Len(aeskey) + 6
         /\ Context!KeyExpansion(Len(aeskey) + 6) = EncKeys(aesctx.keysch)
         /\ \A r \in 0 .. aesctx.rounds : IsBlock(EncKeys(aesctx.keysch)[r])
  <1> DEFINE n == aesctx.rounds
  <1>1. n = Len(aeskey) + 6 /\ IsKey(aeskey) /\ aesctx.keysch = Schedule(n, aeskey)
    BY DEF ContextKeyed
  <1> HIDE DEF n
  <1>2. /\ n \in {10, 12, 14}
        /\ Len(Schedule(n, aeskey)) = n + 1
        /\ Context!KeyExpansion(n) = EncKeys(Schedule(n, aeskey))
    BY ONLY <1>1, ExpansionFits
  <1>3. n \in Nat /\ Len(aesctx.keysch) = n + 1
    BY <1>1, <1>2
  <1>4. \A r \in 0 .. n : IsBlock(EncKeys(aesctx.keysch)[r])
    BY ONLY <1>3, EncKeysAre
  <1>5. Context!KeyExpansion(Len(aeskey) + 6) = EncKeys(aesctx.keysch)
    BY ONLY <1>1, <1>2
  <1> QED
    BY <1>1, <1>2, <1>4, <1>5 DEF n

\* when a block is encrypted, with the cipher,
LEMMA EncryptStep ==
  ASSUME ContextIInv, Context!Encrypt
  PROVE  ContextIInv' /\ scratch' = Context!Cipher(scratch)
  <1> DEFINE n == aesctx.rounds
             keys == EncKeys(aesctx.keysch)
  <1>1. /\ n > 0 /\ aesctx' = aesctx /\ aeskey' = aeskey
        /\ scratch' = DoEnc(scratch, keys, n)
    BY ContextDo, ContextKeys DEF Context!Encrypt
  <1>2. ContextTypes /\ ContextKeyed /\ IsBlock(scratch)
    BY <1>1 DEF ContextIInv, ContextTypes
  <1>3. /\ n \in {10, 12, 14} /\ n = Len(aeskey) + 6
        /\ Context!KeyExpansion(Len(aeskey) + 6) = keys
        /\ \A r \in 0 .. n : IsBlock(keys[r])
    BY <1>2, KeyedIs
  <1>4. Context!Cipher(scratch) = Fips197Enc(keys, n, scratch)
    BY <1>3, ContextCipher
  <1> HIDE DEF n, keys
  <1>5. DoEnc(scratch, keys, n) = Fips197Enc(keys, n, scratch) /\ IsBlock(DoEnc(scratch, keys, n))
    BY ONLY <1>2, <1>3, DoEncIs
  <1>6. scratch' = Context!Cipher(scratch) /\ IsBlock(scratch')
    BY ONLY <1>1, <1>4, <1>5
  <1>7. ContextTypes' /\ ContextKeyed'
    BY <1>1, <1>2, <1>6 DEF ContextTypes, ContextKeyed
  <1> QED
    BY <1>6, <1>7 DEF ContextIInv

\* and when it is decrypted, with the inverse.
LEMMA DecryptStep ==
  ASSUME ContextIInv, Context!Decrypt
  PROVE  ContextIInv' /\ scratch' = Context!InvCipher(scratch)
  <1> DEFINE n == aesctx.rounds
             keys == EncKeys(aesctx.keysch)
  <1>1. /\ n > 0 /\ aesctx' = Context!Prepared(aesctx) /\ aeskey' = aeskey
        /\ scratch' = DoDec(scratch, aesctx'.keyschdec, n)
    BY ContextDo DEF Context!Decrypt
  <1>2. ContextTypes /\ ContextKeyed /\ IsBlock(scratch)
    BY <1>1 DEF ContextIInv, ContextTypes
  <1>3. /\ n \in {10, 12, 14} /\ n = Len(aeskey) + 6
        /\ Context!KeyExpansion(Len(aeskey) + 6) = keys
        /\ \A r \in 0 .. n : IsBlock(keys[r])
    BY <1>2, KeyedIs
  <1>4. Context!InvCipher(scratch) = Fips197Inv(keys, n, scratch)
    BY <1>3, ContextCipher
  <1>5. aesctx' = [rounds |-> n, keysch |-> aesctx.keysch, keyschdec |-> DecKeys(keys, n),
                   decryption_prepared |-> TRUE]
    <2>1. CASE aesctx.decryption_prepared
      <3>1. aesctx' = aesctx
        BY <1>1, <2>1 DEF Context!Prepared
      <3>2. aesctx.keyschdec = DecKeys(keys, n) /\ aesctx.decryption_prepared = TRUE
        BY <1>2, <2>1 DEF ContextKeyed, ContextTypes
      <3> QED
        BY <1>2, <3>1, <3>2 DEF ContextTypes
    <2>2. CASE ~ aesctx.decryption_prepared
      <3>1. aesctx' = [aesctx EXCEPT !.decryption_prepared = TRUE, !.keyschdec = DecKeys(keys, n)]
        BY <1>1, <2>2, ContextKeys DEF Context!Prepared
      <3> QED
        BY <1>2, <3>1 DEF ContextTypes
    <2> QED
      BY <2>1, <2>2
  <1>6. /\ aesctx'.rounds = n /\ aesctx'.keysch = aesctx.keysch
        /\ aesctx'.keyschdec = DecKeys(keys, n) /\ aesctx'.decryption_prepared = TRUE
    BY ONLY <1>5
  <1> HIDE DEF n, keys
  <1>7. /\ DoDec(scratch, DecKeys(keys, n), n) = Fips197Inv(keys, n, scratch)
        /\ IsBlock(DoDec(scratch, DecKeys(keys, n), n))
    BY ONLY <1>2, <1>3, DoDecIs
  <1>8. scratch' = Context!InvCipher(scratch) /\ IsBlock(scratch')
    BY ONLY <1>1, <1>4, <1>6, <1>7
  <1>9. ContextTypes'
    BY ONLY <1>5, <1>6, <1>8 DEF ContextTypes
  <1>10. ContextKeyed'
    BY ONLY <1>1, <1>2, <1>6 DEF ContextKeyed, n, keys
  <1> QED
    BY <1>8, <1>9, <1>10 DEF ContextIInv

\* So every step keeps it, and is what the property says.
LEMMA ContextStep ==
  ASSUME ContextIInv, [Context!Next]_(Context!vars)
  PROVE  ContextIInv' /\ [ContextUsed]_(Context!vars)
  <1>1. ASSUME Context!Encrypt PROVE ContextIInv' /\ scratch' = Context!Cipher(scratch)
    BY <1>1, EncryptStep
  <1>2. ASSUME Context!Decrypt PROVE ContextIInv' /\ scratch' = Context!InvCipher(scratch)
    BY <1>2, DecryptStep
  <1>3. ASSUME NEW name, NEW keylen, Context!SetKey(name, keylen) PROVE ContextIInv'
    BY <1>3, SetKeyStep
  <1>4. CASE UNCHANGED Context!vars
    BY <1>4 DEF Context!vars, ContextIInv, ContextTypes, ContextKeyed
  <1>5. ContextUsed
    BY ONLY <1>1, <1>2 DEF ContextUsed
  <1> QED
    BY <1>1, <1>2, <1>3, <1>4, <1>5 DEF Context!Next

\* The steps of the run, as steps of AesContext.
LEMMA ContextStepOfRun ==
  [CiphersNext]_<<which, vars, contextVars, sm4Vars, sm3Vars>> => [Context!Next]_(Context!vars)
  <1> SUFFICES ASSUME [CiphersNext]_<<which, vars, contextVars, sm4Vars, sm3Vars>>
               PROVE  [Context!Next]_(Context!vars)
    OBVIOUS
  <1>1. CASE Context!Next
    BY <1>1
  <1>2. CASE UNCHANGED contextVars
    BY <1>2 DEF contextVars, Context!vars
  <1> QED
    BY <1>1, <1>2 DEF CiphersNext

\* Whatever keys were set and refused before, and whatever was encrypted and
\* decrypted, a block is encrypted and decrypted under the last key that
\* do_setkey took: the key schedules of the three sizes, as the macros of
\* rijndael-aesni.c make them with shifts and sums of whole registers, are the
\* key expansion of FIPS 197 word by word, and the equivalent inverse cipher,
\* with the schedule that is made when it is first needed, is its inverse.
THEOREM CurrentKeyUsedHolds == CiphersSpec => CurrentKeyUsed
  <1>1. CiphersInit => ContextIInv
    BY ContextStart DEF CiphersInit
  <1>2. ContextIInv /\ [CiphersNext]_<<which, vars, contextVars, sm4Vars, sm3Vars>>
          => ContextIInv' /\ [ContextUsed]_(Context!vars)
    BY ContextStepOfRun, ContextStep
  <1>3. [ContextUsed]_(Context!vars)
          => [ /\ Context!Encrypt => scratch' = Context!Cipher(scratch)
               /\ Context!Decrypt => scratch' = Context!InvCipher(scratch) ]_(Context!vars)
    BY DEF ContextUsed
  <1> QED
    BY <1>1, <1>2, <1>3, PTL DEF CiphersSpec, CurrentKeyUsed, Context!CurrentKeyUsed

=============================================================================
