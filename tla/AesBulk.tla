------------------------------ MODULE AesBulk ------------------------------
(***************************************************************************)
(* The bulk functions of src/c/linux/common/aes_opt/rijndael-aesni.c: a    *)
(* message is processed by any number of calls, each with some blocks of   *)
(* it, in place or from one buffer to another.  A call loads what the mode *)
(* chains into registers, takes eight blocks at a time, then four, then    *)
(* one, and stores the chain value for the next call.  One action is one   *)
(* turn of one of these loops.                                             *)
(*                                                                         *)
(* Counters are numbers whose low byte, low 32 bits, low half and whole    *)
(* have the sizes that the constants give, so that a few blocks carry from *)
(* one into the next.  Tweaks are sets of bit positions, at full width.    *)
(***************************************************************************)
EXTENDS AesNi, FiniteSets

CONSTANTS
    MaxBlocks,  \* the length of the message: bounds the model
    CallSizes,  \* how many blocks a call may have
    RoundNumbers,   \* 10, 12, 14: the key sizes
    ByteSize,   \* 2^8: values of the last byte of a counter
    LaneSize,   \* 2^32: of the 32 bits that ctr32le adds to
    LowSize,    \* 2^64: of the low half of a counter
    HighSize,   \* 2^64: of its high half
    CtrStarts,  \* the counters messages start with
    TweakStarts \* the tweaks they start with

ASSUME SizesAssumption ==
    /\ MaxBlocks \in Nat
    /\ CallSizes \subseteq Nat
    /\ RoundNumbers \subseteq {10, 12, 14}
    /\ {ByteSize, LaneSize, LowSize, HighSize} \subseteq Nat \ {0}
    /\ 8 < ByteSize /\ 8 < LaneSize
    /\ LowSize % ByteSize = 0
    /\ CtrStarts \subseteq 0..(LowSize * HighSize - 1)
    /\ TweakStarts \subseteq SUBSET (0..127)

VARIABLES
    mode,       \* which of the functions the message is for
    rounds,     \* ctx->rounds
    prepared,   \* ctx->decryption_prepared
    keyschdec,  \* ctx->keyschdec
    dst,        \* where outbuf of the first call points to; inbuf is 0
    mem,        \* the blocks of both buffers
    iv,         \* the IV, counter or tweak of the caller
    reg,        \* the registers that live from one turn to the next
    pc,         \* "idle" between the calls, "loop" in one
    nblocks,    \* the parameter, counted down
    done        \* how far inbuf has moved, over all calls

ctx == <<rounds, prepared, keyschdec>>
vars == <<mode, rounds, prepared, keyschdec, dst, mem, iv, reg, pc, nblocks, done>>

EncModes == {"ecb_enc", "cfb_enc", "cfb_dec", "cbc_enc", "cbc_mac", "ctr",
             "ctr32le", "xts_enc"}
DecModes == {"ecb_dec", "cbc_dec", "xts_dec"}
Modes == EncModes \union DecModes

Atom(name, n) == {<<<<name, n>>, 0>>}
keyschenc == [r \in 0..14 |-> Atom("key", r)]
Input(i) == Atom("in", i)
CtrBlock(n) == Atom("ctr", n)
TweakBlock(t) == Atom("tweak", t)

key0 == keyschenc[0]
keylast == keyschenc[rounds]

Enc(x) == DoEnc(x, keyschenc, rounds)
Dec(x) == DoDec(x, keyschdec, rounds)
EncVec4(xs) == DoEncVec4(xs, keyschenc, rounds)
DecVec4(xs) == DoDecVec4(xs, keyschdec, rounds)
EncVec8(xs) == DoEncVec8(xs, keyschenc, rounds)
DecVec8(xs) == DoDecVec8(xs, keyschdec, rounds)

Init ==
    /\ mode \in Modes
    /\ rounds \in RoundNumbers
    /\ prepared = FALSE
    /\ keyschdec = <<>>
    /\ dst \in IF mode = "cbc_mac" THEN {MaxBlocks} ELSE {0, MaxBlocks}
    /\ mem = [a \in 0..(2 * MaxBlocks) |->
                 IF a < MaxBlocks THEN Input(a + 1) ELSE Atom("old", a)]
    /\ iv \in CASE mode \in {"ctr", "ctr32le"} -> CtrStarts
                [] mode \in {"xts_enc", "xts_dec"} -> TweakStarts
                [] OTHER -> {Atom("iv", 0)}    \* unused in ecb
    /\ reg = <<>>
    /\ pc = "idle" /\ nblocks = 0 /\ done = 0

(***************************************************************************)
(* The buffers.  Block k of a turn, from 0, is In(k) and goes to Out(k).   *)
(***************************************************************************)
In(k) == done + k
Out(k) == IF mode = "cbc_mac" THEN dst ELSE dst + done + k

Blocks(m, n) == [i \in 1..n |-> m[In(i - 1)]]

\* All stores of a turn after all its loads.
StoreAll(m, xs) ==
    [a \in DOMAIN m |-> IF a \in Out(0)..Out(Len(xs) - 1)
                        THEN xs[a - Out(0) + 1] ELSE m[a]]

\* Load a block, add it to the next of xs, store the sum; and so on.
XorEach(m, xs) ==
    LET mm[i \in 0..Len(xs)] ==
            IF i = 0 THEN m
            ELSE LET prev == mm[i - 1]
                 IN  [prev EXCEPT ![Out(i - 1)] = Xor(xs[i], prev[In(i - 1)])]
    IN  mm[Len(xs)]

(***************************************************************************)
(* A call begins: the parameters, the keys for decryption, the registers.  *)
(***************************************************************************)
\* Decryption with the blocks' function pointers (rijndael.c), with cbc_dec
\* and with xts_dec prepares its keys when they are not.
Prepare ==
    IF mode \in DecModes /\ ~prepared
    THEN /\ prepared' = TRUE
         /\ keyschdec' = DecKeys(keyschenc, rounds)
    ELSE UNCHANGED <<prepared, keyschdec>>

\* What each function loads before its loops.
CfbEncLoad == [x0 |-> Xor(iv, key0), x3 |-> iv]
CbcEncLoad == [x0 |-> Xor(Xor(iv, key0), mem[In(0)]), x4 |-> mem[In(0)], x5 |-> iv]

Loaded ==
    CASE mode = "cfb_enc" -> CfbEncLoad
      [] mode \in {"cbc_enc", "cbc_mac"} -> CbcEncLoad
      [] OTHER -> [x5 |-> iv]

\* cbc_enc returns at once when there are no blocks.
Call(n) ==
    /\ pc = "idle"
    /\ done + n <= MaxBlocks
    /\ ~(n = 0 /\ mode \in {"cbc_enc", "cbc_mac"})
    /\ pc' = "loop"
    /\ nblocks' = n
    /\ reg' = Loaded
    /\ Prepare
    /\ UNCHANGED <<mode, rounds, dst, mem, iv, done>>

\* The chain value that a function leaves in memory: ctr_enc keeps its
\* counter there all the time.
Return ==
    /\ pc = "loop" /\ nblocks = 0
    /\ iv' = CASE mode = "cfb_enc" -> reg.x3
               [] mode = "ctr" -> iv
               [] OTHER -> reg.x5
    /\ reg' = <<>>
    /\ pc' = "idle"
    /\ UNCHANGED <<mode, ctx, dst, mem, nblocks, done>>

\* The end of a turn that took n blocks.
Advance(n) ==
    /\ pc = "loop"
    /\ nblocks >= n
    /\ nblocks' = nblocks - n
    /\ done' = done + n
    /\ UNCHANGED <<mode, ctx, dst, pc>>

Turn8 == Advance(8)
Turn4 == Advance(4) /\ nblocks < 8
Turn1 == Advance(1) /\ nblocks < 4

AddKey0(xs, keys) == [i \in DOMAIN xs |-> Xor(xs[i], keys[0])]

(***************************************************************************)
(* ECB: rijndael_encrypt and rijndael_decrypt, one block at a time.        *)
(***************************************************************************)
EcbEnc ==
    /\ mode = "ecb_enc" /\ Advance(1)
    /\ mem' = [mem EXCEPT ![Out(0)] = Enc(mem[In(0)])]
    /\ UNCHANGED <<iv, reg>>

EcbDec ==
    /\ mode = "ecb_dec" /\ Advance(1)
    /\ mem' = [mem EXCEPT ![Out(0)] = Dec(mem[In(0)])]
    /\ UNCHANGED <<iv, reg>>

(***************************************************************************)
(* The chaining modes that cannot be done in parallel.  The keys of the    *)
(* first and of the last round are folded into what is added in the last   *)
(* round, so that the next block starts with key 0 in it already.          *)
(***************************************************************************)
CfbEnc ==
    /\ mode = "cfb_enc" /\ Advance(1)
    /\ LET x5 == Xor(mem[In(0)], Xor(key0, keylast))
           x0 == AesEncLast(InnerEnc(reg.x0, keyschenc, LastKey(rounds)), x5)
           x3 == Xor(key0, x0)
       IN  /\ mem' = [mem EXCEPT ![Out(0)] = x3]
           /\ reg' = [x0 |-> x0, x3 |-> x3]
    /\ UNCHANGED iv

\* The block after this one is loaded before this one is stored.
CbcEnc ==
    /\ mode \in {"cbc_enc", "cbc_mac"} /\ Advance(1)
    /\ LET x4 == IF nblocks > 1 THEN Xor(mem[In(1)], Xor(key0, keylast))
                 ELSE reg.x4
           x0 == InnerEnc(reg.x0, keyschenc, LastKey(rounds))
           x5 == AesEncLast(x0, keylast)
       IN  /\ mem' = [mem EXCEPT ![Out(0)] = x5]
           /\ reg' = [x0 |-> AesEncLast(x0, x4), x4 |-> x4, x5 |-> x5]
    /\ UNCHANGED iv

(***************************************************************************)
(* CTR.  Counters are added to byte by byte when the last byte does not    *)
(* overflow, else half by half, with a carry into the high half.           *)
(***************************************************************************)
Low(c) == c % LowSize
AddByte(c, k) == (c - (c % ByteSize)) + ((c + k) % ByteSize)
AddLow(c, k) == (c - Low(c)) + Low(c + k)
AddHigh(c) == (c + LowSize) % (LowSize * HighSize)

\* do_aesni_ctr: the counter in memory tells whether there is a carry.
Ctr1 ==
    /\ mode = "ctr" /\ Turn1
    /\ LET incremented == AddLow(reg.x5, 1)
           next == IF Low(iv) = LowSize - 1 THEN AddHigh(incremented)
                   ELSE incremented
       IN  /\ iv' = next
           /\ reg' = [x5 |-> next]
    /\ mem' = [mem EXCEPT ![Out(0)] =
                  Xor(Enc(CtrBlock(reg.x5)), mem[In(0)])]

\* Mutant: a counter that has just reached the end of the low half does not
\* carry.
CarriedLate(n) ==
    LET esi == Low(reg.x5)
    IN  [k \in 0..n |->
            IF esi > LowSize - n /\ k > LowSize - esi
            THEN AddHigh(AddLow(reg.x5, k)) ELSE AddLow(reg.x5, k)]

\* The 32-bit additions: counter k, for k from 0 to n, and a carry for the
\* counters that passed the end of the low half.
Carried(n) ==
    LET esi == Low(reg.x5)
    IN  [k \in 0..n |->
            IF esi >= LowSize - n /\ k >= LowSize - esi
            THEN AddHigh(AddLow(reg.x5, k)) ELSE AddLow(reg.x5, k)]

\* The counters of the blocks of a turn, with the next one after them, and
\* what the counter in memory becomes: addb changes it in any case, and on
\* a carry it is restored first and set last.
Ctr4Counters ==
    IF (iv % ByteSize) + 4 < ByteSize
    THEN [x |-> [k \in 0..4 |-> AddByte(reg.x5, k)], ctr |-> AddByte(iv, 4)]
    ELSE [x |-> Carried(4), ctr |-> Carried(4)[4]]

Ctr8Counters ==
    IF (iv % ByteSize) + 8 < ByteSize
    THEN [x |-> [k \in 0..8 |-> AddByte(reg.x5, k)], ctr |-> AddByte(iv, 8)]
    ELSE [x |-> Carried(8), ctr |-> Carried(8)[8]]

Ctr4Crypt(x) ==
    XorEach(mem, EncVec4([i \in 1..4 |-> CtrBlock(x[i - 1])]))

\* The last key is added to the input, and the sum in the last round.
Ctr8Crypt(x) ==
    LET v == EncVec8(AddKey0([i \in 1..8 |-> CtrBlock(x[i - 1])], keyschenc))
    IN  StoreAll(mem, [i \in 1..8 |->
            AesEncLast(v.xs[i], Xor(mem[In(i - 1)], v.xmm0))])

Ctr4 ==
    /\ mode = "ctr" /\ Turn4
    /\ LET c == Ctr4Counters
       IN  /\ iv' = c.ctr
           /\ reg' = [x5 |-> c.x[4]]
           /\ mem' = Ctr4Crypt(c.x)

Ctr8 ==
    /\ mode = "ctr" /\ Turn8
    /\ LET c == Ctr8Counters
       IN  /\ iv' = c.ctr
           /\ reg' = [x5 |-> c.x[8]]
           /\ mem' = Ctr8Crypt(c.x)

\* ctr32le: paddd in the low 32 bits only; the counter stays in xmm5.
AddLane(c, k) == (c - (c % LaneSize)) + ((c + k) % LaneSize)

Ctr32le1 ==
    /\ mode = "ctr32le" /\ Turn1
    /\ mem' = [mem EXCEPT ![Out(0)] =
                  Xor(Enc(CtrBlock(reg.x5)), mem[In(0)])]
    /\ reg' = [x5 |-> AddLane(reg.x5, 1)]
    /\ UNCHANGED iv

Ctr32le4 ==
    /\ mode = "ctr32le" /\ Turn4
    /\ LET es == EncVec4([i \in 1..4 |-> CtrBlock(AddLane(reg.x5, i - 1))])
       IN  mem' = StoreAll(mem, [i \in 1..4 |-> Xor(es[i], mem[In(i - 1)])])
    /\ reg' = [x5 |-> AddLane(reg.x5, 4)]
    /\ UNCHANGED iv

Ctr32le8 ==
    /\ mode = "ctr32le" /\ Turn8
    /\ LET cs == [i \in 1..8 |-> CtrBlock(AddLane(reg.x5, i - 1))]
           v == EncVec8(AddKey0(cs, keyschenc))
       IN  mem' = StoreAll(mem, [i \in 1..8 |->
                      AesEncLast(v.xs[i], Xor(mem[In(i - 1)], v.xmm0))])
    /\ reg' = [x5 |-> AddLane(reg.x5, 8)]
    /\ UNCHANGED iv

(***************************************************************************)
(* CFB and CBC decryption: every block is done with the ciphertext before  *)
(* it, which in place is the block that the turn overwrites.  The IV of    *)
(* cfb_dec is in xmm6 or xmm0, that of cbc_dec in xmm5.                    *)
(***************************************************************************)
CfbDec1 ==
    /\ mode = "cfb_dec" /\ Turn1
    /\ mem' = [mem EXCEPT ![Out(0)] = Xor(mem[In(0)], Enc(reg.x5))]
    /\ reg' = [x5 |-> mem[In(0)]]
    /\ UNCHANGED iv

CfbDec4 ==
    /\ mode = "cfb_dec" /\ Turn4
    /\ mem' = XorEach(mem, EncVec4(<<reg.x5>> \o Blocks(mem, 3)))
    /\ reg' = [x5 |-> mem[In(3)]]
    /\ UNCHANGED iv

CfbDec8 ==
    /\ mode = "cfb_dec" /\ Turn8
    /\ LET v == EncVec8(AddKey0(<<reg.x5>> \o Blocks(mem, 7), keyschenc))
       IN  mem' = StoreAll(mem, [i \in 1..8 |->
                      AesEncLast(v.xs[i], Xor(mem[In(i - 1)], v.xmm0))])
    /\ reg' = [x5 |-> mem[In(7)]]
    /\ UNCHANGED iv

CbcDec1 ==
    /\ mode = "cbc_dec" /\ Turn1
    /\ mem' = [mem EXCEPT ![Out(0)] = Xor(Dec(mem[In(0)]), reg.x5)]
    /\ reg' = [x5 |-> mem[In(0)]]
    /\ UNCHANGED iv

\* The IV of a block is loaded from inbuf just before the block before it
\* is stored.
CbcDec4 ==
    /\ mode = "cbc_dec" /\ Turn4
    /\ LET ds == DecVec4(Blocks(mem, 4))
           s[i \in 0..4] ==
               IF i = 0 THEN [mem |-> mem, x5 |-> reg.x5]
               ELSE LET p == s[i - 1]
                    IN  [mem |-> [p.mem EXCEPT ![Out(i - 1)] = Xor(p.x5, ds[i])],
                         x5 |-> p.mem[In(i - 1)]]
       IN  /\ mem' = s[4].mem
           /\ reg' = [x5 |-> s[4].x5]
    /\ UNCHANGED iv

CbcDec8 ==
    /\ mode = "cbc_dec" /\ Turn8
    /\ LET v == DecVec8(AddKey0(Blocks(mem, 8), keyschdec))
           ivs == <<reg.x5>> \o Blocks(mem, 7)
       IN  mem' = StoreAll(mem, [i \in 1..8 |->
                      AesDecLast(v.xs[i], Xor(ivs[i], v.xmm0))])
    /\ reg' = [x5 |-> mem[In(7)]]
    /\ UNCHANGED iv

(***************************************************************************)
(* XTS.  A register is the set of the positions of its bits.               *)
(***************************************************************************)
\* pshufd $0x13, paddd and paddq of a register with itself, psrad $31.
Signs(t) == LET from == <<3, 0, 1, 0>>
            IN  {b \in 0..127 : (32 * from[(b \div 32) + 1]) + (b % 32) \in t}
DoubleWords(x) == {b + 1 : b \in {c \in x : c % 32 # 31}}
DoubleHalves(t) == {b + 1 : b \in {c \in t : c % 64 # 63}}
SignMask(x) == {b \in 0..127 : (32 * (b \div 32)) + 31 \in x}
xts_gfmul_const == {0, 1, 2, 7, 64}

\* The tweaks of n blocks and the one after them: the signs are taken from
\* the first and shifted along.
NextTweak(s) ==
    [t |-> Xor(DoubleHalves(s.t), SignMask(s.x) \intersect xts_gfmul_const),
     x |-> DoubleWords(s.x)]

Tweaks(n) ==
    LET s[k \in 0..n] == IF k = 0 THEN [t |-> reg.x5, x |-> Signs(reg.x5)]
                         ELSE NextTweak(s[k - 1])
    IN  [k \in 0..n |-> s[k].t]

\* Load n blocks and add their tweaks; the tweaks for which no register is
\* left are kept in outbuf.
XtsLoad(n, spilled) ==
    LET t == Tweaks(n)
        s[k \in 0..n] ==
            IF k = 0 THEN [xs |-> <<>>, mem |-> mem]
            ELSE LET p == s[k - 1]
                     x == TweakBlock(t[k - 1])
                 IN  [xs |-> Append(p.xs, Xor(p.mem[In(k - 1)], x)),
                      mem |-> IF k - 1 \in spilled
                              THEN [p.mem EXCEPT ![Out(k - 1)] = x] ELSE p.mem]
    IN  s[n]

\* Mutant: the four block version keeps its tweaks where the other one does.
Xts4LoadHigh ==
    [XtsLoad(4, 0..3) EXCEPT !.mem[Out(5)] = TweakBlock(Tweaks(4)[0])]

Xts8Load == XtsLoad(8, 5..7)
Xts4Load == XtsLoad(4, 0..3)

\* The tweak of block k of a turn, once more: from a register or outbuf.
Tweak8(l, k) == IF k < 5 THEN TweakBlock(Tweaks(8)[k]) ELSE l.mem[Out(k)]

XtsEnc8Rounds(xs) == EncVec8(AddKey0(xs, keyschenc))
XtsDec8Rounds(xs) == DecVec8(AddKey0(xs, keyschdec))

\* The last key goes to the tweak, and the sum into the last round.
XtsEnc8Last(l, v) ==
    StoreAll(l.mem, [i \in 1..8 |->
        AesEncLast(v.xs[i], Xor(v.xmm0, Tweak8(l, i - 1)))])
XtsDec8Last(l, v) ==
    StoreAll(l.mem, [i \in 1..8 |->
        AesDecLast(v.xs[i], Xor(v.xmm0, Tweak8(l, i - 1)))])

\* The four blocks are added to the tweaks that are in outbuf.
Xts4Store(l, ys) ==
    StoreAll(l.mem, [i \in 1..4 |-> Xor(l.mem[Out(i - 1)], ys[i])])

XtsEnc8 ==
    /\ mode = "xts_enc" /\ Turn8
    /\ mem' = XtsEnc8Last(Xts8Load, XtsEnc8Rounds(Xts8Load.xs))
    /\ reg' = [x5 |-> Tweaks(8)[8]]
    /\ UNCHANGED iv

XtsEnc4 ==
    /\ mode = "xts_enc" /\ Turn4
    /\ mem' = Xts4Store(Xts4Load, EncVec4(Xts4Load.xs))
    /\ reg' = [x5 |-> Tweaks(4)[4]]
    /\ UNCHANGED iv

XtsEnc1 ==
    /\ mode = "xts_enc" /\ Turn1
    /\ LET x4 == TweakBlock(reg.x5)
       IN  mem' = [mem EXCEPT ![Out(0)] = Xor(x4, Enc(Xor(mem[In(0)], x4)))]
    /\ reg' = [x5 |-> Tweaks(1)[1]]
    /\ UNCHANGED iv

XtsDec8 ==
    /\ mode = "xts_dec" /\ Turn8
    /\ mem' = XtsDec8Last(Xts8Load, XtsDec8Rounds(Xts8Load.xs))
    /\ reg' = [x5 |-> Tweaks(8)[8]]
    /\ UNCHANGED iv

XtsDec4 ==
    /\ mode = "xts_dec" /\ Turn4
    /\ mem' = Xts4Store(Xts4Load, DecVec4(Xts4Load.xs))
    /\ reg' = [x5 |-> Tweaks(4)[4]]
    /\ UNCHANGED iv

XtsDec1 ==
    /\ mode = "xts_dec" /\ Turn1
    /\ LET x4 == TweakBlock(reg.x5)
       IN  mem' = [mem EXCEPT ![Out(0)] = Xor(x4, Dec(Xor(mem[In(0)], x4)))]
    /\ reg' = [x5 |-> Tweaks(1)[1]]
    /\ UNCHANGED iv

Turn ==
    \/ EcbEnc \/ EcbDec \/ CfbEnc \/ CbcEnc
    \/ Ctr1 \/ Ctr4 \/ Ctr8
    \/ Ctr32le1 \/ Ctr32le4 \/ Ctr32le8
    \/ CfbDec1 \/ CfbDec4 \/ CfbDec8
    \/ CbcDec1 \/ CbcDec4 \/ CbcDec8
    \/ XtsEnc1 \/ XtsEnc4 \/ XtsEnc8
    \/ XtsDec1 \/ XtsDec4 \/ XtsDec8

Next == (\E n \in CallSizes : Call(n)) \/ Turn \/ Return

Spec == Init /\ [][Next]_vars

-----------------------------------------------------------------------------
(***************************************************************************)
(* Properties.                                                             *)
(***************************************************************************)

\* The cipher and its inverse as FIPS 197 gives them: the rounds in a row,
\* without prepared keys and without vectors.
Fips197Cipher(n, x) ==
    LET y[r \in 0..(n - 1)] == IF r = 0 THEN Xor(x, key0)
                               ELSE AesEnc(y[r - 1], keyschenc[r])
    IN  AesEncLast(y[n - 1], keyschenc[n])
Fips197InvCipher(n, x) ==
    LET y[r \in 0..(n - 1)] ==
            IF r = 0 THEN Xor(x, keyschenc[n])
            ELSE Mixed(Xor(InvSubShift(y[r - 1]), keyschenc[n - r]), -1)
    IN  Xor(InvSubShift(y[n - 1]), key0)

\* The chain value, wherever it is: with the caller, or in registers that
\* the folded keys hide it in.
Chain ==
    IF pc = "idle" THEN iv
    ELSE CASE mode = "cfb_enc" -> reg.x3
           [] mode \in {"cbc_enc", "cbc_mac"} ->
                 IF nblocks > 0 THEN Xor(Xor(reg.x0, key0), mem[In(0)]) ELSE reg.x5
           [] OTHER -> reg.x5

Output ==
    IF mode = "cbc_mac" THEN IF done = 0 THEN <<>> ELSE <<mem[dst]>>
    ELSE [i \in 1..done |-> mem[dst + i - 1]]

Abstract ==
    INSTANCE CipherMode WITH
        Enc <- Fips197Cipher, Dec <- Fips197InvCipher,
        CtrSize <- LowSize * HighSize, key <- rounds,
        in <- [i \in 1..MaxBlocks |-> Input(i)], out <- Output, chain <- Chain

\* Whatever calls a message is split into, in place or not, eight, four or
\* one block at a time: the blocks that come out and the IV, counter or
\* tweak that is left for the next call are those of the mode.
ImplementsMode == Abstract!Spec

\* A turn writes the blocks that it has done and nothing else: not even the
\* tweaks that XTS keeps in outbuf stay, or reach past the turn.
OnlyOutputWritten ==
    \A a \in DOMAIN mem :
        (a \in dst..(dst + done - 1)) \/ (mode = "cbc_mac" /\ a = dst)
        \/ mem[a] = IF a < MaxBlocks THEN Input(a + 1) ELSE Atom("old", a)
=============================================================================
