------------------------------- MODULE AesNi -------------------------------
(***************************************************************************)
(* The key schedule and the cipher of                                      *)
(* src/c/linux/common/aes_opt/rijndael-aesni.c, down to the instructions   *)
(* of the processor, which are external.                                   *)
(*                                                                         *)
(* Data is symbolic.  A word and a block are sets of terms that stand for  *)
(* their exclusive or, so that pxor is the symmetric difference and every  *)
(* trick the code plays with it (a key folded into a block, a block folded *)
(* into the last round) is computed and not assumed.  A term of a block is *)
(* a pair <<term, m>>, where m counts the MixColumns that were applied to  *)
(* it, less the inverse ones: MixColumns is linear.  The S-box and the     *)
(* rotation of rows are opaque, and inverse to each other.                 *)
(***************************************************************************)
EXTENDS Integers, Sequences

Xor(x, y) == (x \ y) \union (y \ x)

Zero == {}

(***************************************************************************)
(* The processor's instructions, on words and on blocks of four words.     *)
(***************************************************************************)
\* pxor of registers that hold four words.
XorWords(a, b) == [i \in 1..4 |-> Xor(a[i], b[i])]

\* pslldq $4: every word moves up by one.
ShiftWords(a) == <<Zero, a[1], a[2], a[3]>>

\* aeskeygenassist: the S-box on words 1 and 3, rotated and with the round
\* constant in the odd places.
KeyGenAssist(a, rcon) ==
    LET Sub(w) == {<<"sub", w>>}
        RotSub(w) == Xor({<<"rotsub", w>>},
                         IF rcon = 0 THEN Zero ELSE {<<"rcon", rcon>>})
    IN  <<Sub(a[2]), RotSub(a[2]), Sub(a[4]), RotSub(a[4])>>

Mixed(x, m) == {<<e[1], e[2] + m>> : e \in x}

SubShift(x) == {<<<<"sub", x>>, 0>>}

\* The inverse of SubShift where the block is the result of one.
InvSubShift(x) ==
    IF \E e \in x : x = {e} /\ e[1][1] = "sub" /\ e[2] = 0
    THEN (CHOOSE e \in x : TRUE)[1][2]
    ELSE {<<<<"invsub", x>>, 0>>}

AesEnc(x, k) == Xor(Mixed(SubShift(x), 1), k)
AesEncLast(x, k) == Xor(SubShift(x), k)
AesDec(x, k) == Xor(Mixed(InvSubShift(x), -1), k)
AesDecLast(x, k) == Xor(InvSubShift(x), k)
AesImc(x) == Mixed(x, -1)

\* Four words of the schedule, seen as the block that they are in memory.
AsBlock(words) == {<<<<"words", words>>, 0>>}

(***************************************************************************)
(* _gcry_aes_aesni_do_setkey.  A schedule is a sequence of round keys,     *)
(* keysch[r + 1] for round r, a key the sequence of its words.             *)
(***************************************************************************)
\* The four shifts and additions that three of the four macros share: every
\* word becomes the sum of itself and of those below it, and of t.
Cascade(a, t) ==
    LET s1 == ShiftWords(a)
        s2 == ShiftWords(s1)
        s3 == ShiftWords(s2)
    IN  XorWords(XorWords(XorWords(a, s1), XorWords(s2, s3)),
                 <<t, t, t, t>>)

\* AESKEY_EXPAND128.
Expand128(x1, rcon) == Cascade(x1, KeyGenAssist(x1, rcon)[4])

Schedule128(key) ==
    LET rcon == <<1, 2, 4, 8, 16, 32, 64, 128, 27, 54>>
        k[r \in 0..10] == IF r = 0 THEN key ELSE Expand128(k[r - 1], rcon[r])
    IN  [r \in 1..11 |-> k[r - 1]]

\* AESKEY_EXPAND192: six words, in xmm1 and the lower half of xmm3.
Expand192(k, rcon) ==
    LET x1 == Cascade(k.x1, KeyGenAssist(k.x3, rcon)[2])
        t == x1[4]
    IN  [x1 |-> x1,
         x3 |-> XorWords(XorWords(k.x3, ShiftWords(k.x3)), <<t, t, t, t>>)]

\* shufpd $0 and $1, and the three stores of one turn.
Store192(ks, k, rcon) ==
    LET a == Expand192(k, rcon)
        b == Expand192(a, 2 * rcon)
    IN  [k |-> b,
         ks |-> ks \o <<<<k.x3[1], k.x3[2], a.x1[1], a.x1[2]>>,
                        <<a.x1[3], a.x1[4], a.x3[1], a.x3[2]>>, b.x1>>]

Schedule192(key) ==
    LET first == [k |-> [x1 |-> SubSeq(key, 1, 4),
                         x3 |-> <<key[5], key[6], Zero, Zero>>],
                  ks |-> <<SubSeq(key, 1, 4)>>]
        rcon == <<1, 4, 16, 64>>
        s[n \in 0..4] == IF n = 0 THEN first
                         ELSE LET p == s[n - 1] IN Store192(p.ks, p.k, rcon[n])
    IN  s[4].ks

\* Mutant: the word that is rotated, as in the other macro.
Expand256BRotated(x1, x3) == Cascade(x3, KeyGenAssist(x1, 0)[4])

\* AESKEY_EXPAND256_A and AESKEY_EXPAND256_B.
Expand256A(x1, x3, rcon) == Cascade(x1, KeyGenAssist(x3, rcon)[4])
Expand256B(x1, x3) == Cascade(x3, KeyGenAssist(x1, 0)[3])

Schedule256(key) ==
    LET rcon == <<1, 2, 4, 8, 16, 32>>
        ks[n \in 0..6] ==
            IF n = 0 THEN <<SubSeq(key, 1, 4), SubSeq(key, 5, 8)>>
            ELSE LET p == ks[n - 1]
                     x3 == p[2 * n]
                     a == Expand256A(p[2 * n - 1], x3, rcon[n])
                 IN  p \o <<a, Expand256B(a, x3)>>
    IN  Append(ks[6], Expand256A(ks[6][13], ks[6][14], 64))

Schedule(rounds, key) ==
    IF rounds < 12 THEN Schedule128(key)
    ELSE IF rounds = 12 THEN Schedule192(key)
    ELSE Schedule256(key)

\* The keys as the blocks that the rounds read.
EncKeys(keysch) == [r \in 0..(Len(keysch) - 1) |-> AsBlock(keysch[r + 1])]

\* do_aesni_prepare_decryption: aesimc 9, 11 or 13 times, between the two
\* keys that are copied.
DecKeys(ekeys, rounds) ==
    LET n == 9 + (IF rounds > 10 THEN 2 ELSE 0)
               + (IF rounds > 12 THEN 2 ELSE 0)
    IN  [r \in 0..(n + 1) |->
            IF r = 0 THEN ekeys[rounds]
            ELSE IF r = n + 1 THEN ekeys[0]
            ELSE AesImc(ekeys[rounds - r])]

(***************************************************************************)
(* The rounds.  The single block and the four block versions stop after    *)
(* the key at 0xa0 or 0xc0 when rounds is 10 or 12, the eight block        *)
(* versions when it is below 12 or equal to it.                            *)
(***************************************************************************)
LastKey(rounds) == IF rounds = 10 THEN 10 ELSE IF rounds = 12 THEN 12 ELSE 14
LastKeyVec8(rounds) ==
    IF rounds < 12 THEN 10 ELSE IF rounds = 12 THEN 12 ELSE 14

\* Rounds 1 to last - 1 on a block that has key 0 in it already.
InnerEnc(x, keys, last) ==
    LET y[r \in 0..(last - 1)] == IF r = 0 THEN x ELSE AesEnc(y[r - 1], keys[r])
    IN  y[last - 1]

InnerDec(x, keys, last) ==
    LET y[r \in 0..(last - 1)] == IF r = 0 THEN x ELSE AesDec(y[r - 1], keys[r])
    IN  y[last - 1]

\* do_aesni_enc, do_aesni_dec.
DoEnc(x, keys, rounds) ==
    LET last == LastKey(rounds)
    IN  AesEncLast(InnerEnc(Xor(x, keys[0]), keys, last), keys[last])
DoDec(x, keys, rounds) ==
    LET last == LastKey(rounds)
    IN  AesDecLast(InnerDec(Xor(x, keys[0]), keys, last), keys[last])

\* do_aesni_enc_vec4, do_aesni_dec_vec4.
DoEncVec4(xs, keys, rounds) == [i \in 1..4 |-> DoEnc(xs[i], keys, rounds)]
DoDecVec4(xs, keys, rounds) == [i \in 1..4 |-> DoDec(xs[i], keys, rounds)]

\* do_aesni_enc_vec8, do_aesni_dec_vec8: the caller adds key 0 before, and
\* does the last round, with the key that is left in xmm0.
DoEncVec8(xs, keys, rounds) ==
    [xs |-> [i \in 1..8 |-> InnerEnc(xs[i], keys, LastKeyVec8(rounds))],
     xmm0 |-> keys[LastKeyVec8(rounds)]]
DoDecVec8(xs, keys, rounds) ==
    [xs |-> [i \in 1..8 |-> InnerDec(xs[i], keys, LastKeyVec8(rounds))],
     xmm0 |-> keys[LastKeyVec8(rounds)]]
=============================================================================
