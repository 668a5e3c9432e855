------------------------------ MODULE Sm4Modes ------------------------------
(***************************************************************************)
(* The modes of operation of src/c/linux/common/sm4_opt/sm4_core.c: a key  *)
(* is set, and a message processed by any number of calls, in place or     *)
(* from one buffer to another.  One action is one turn of a loop of these  *)
(* functions.  Unlike those of AesBulk, they take bytes: a call may end    *)
(* with part of a block.                                                   *)
(*                                                                         *)
(* Blocks are symbolic, as in AesNi: sets of terms that stand for their    *)
(* exclusive or.  The block cipher is the assembler's, and opaque; all     *)
(* that is known is that it undoes itself when the round keys are          *)
(* reversed.                                                               *)
(***************************************************************************)
EXTENDS Integers, Sequences

CONSTANTS
    MaxBlocks,      \* the length of the message: bounds the model
    CallSizes,      \* how many bytes a call may have
    BlockSize,      \* SM4_BLOCK_SIZE; any size above 1 shows the same
    Rounds          \* 32; any multiple of 4 shows the same

VARIABLES
    mode,       \* which of the functions the message is for
    ctx,        \* rkey_enc and rkey_dec
    dst,        \* where out of the first call points to; in is 0
    mem,        \* the blocks of both buffers
    iv,         \* the caller's IV
    walk_iv,    \* what walk_iv points to
    keystream,  \* the local block of cfb_encrypt and ofb
    pc,         \* "unkeyed", "idle" between the calls, "loop" in one
    nbytes,     \* how many bytes of the call are left
    done,       \* how many blocks of the message are done
    tail        \* how many bytes after them: then the message is over

vars == <<mode, ctx, dst, mem, iv, walk_iv, keystream, pc, nbytes, done, tail>>

CryptAll == {"ecb_enc", "ecb_dec"}
Streams == {"cfb_enc", "cfb_dec", "ofb_enc", "ofb_dec"}
Modes == CryptAll \union Streams \union {"cbc_enc", "cbc_dec"}

Atom(name, n) == {<<name, n>>}
Input(i) == Atom("in", i)
Xor(x, y) == (x \ y) \union (y \ x)

Reversed(rk) == [i \in 0..(Rounds - 1) |-> rk[Rounds - 1 - i]]

\* sm4_aesni_avx_crypt4 and _crypt8, of one block.
Crypt(rk, x) ==
    IF \E e \in x : x = {e} /\ e[1] = "crypt" /\ e[2] = Reversed(rk)
    THEN (CHOOSE e \in x : TRUE)[3]
    ELSE {<<"crypt", rk, x>>}

\* The r-th value that the loop of sm4_skcipher_setkey computes, and where in
\* rkey_dec it goes.
RoundKey(r) == <<"rk", r>>
DecIndex(r) == Rounds - 1 - r

Init ==
    /\ mode \in Modes
    /\ ctx = [rkey_enc |-> <<>>, rkey_dec |-> <<>>]
    /\ dst \in {0, MaxBlocks}
    /\ mem = [a \in 0..(2 * MaxBlocks) |->
                 IF a < MaxBlocks THEN Input(a + 1) ELSE Atom("old", a)]
    /\ iv = Atom("iv", 0)
    /\ walk_iv = <<"iv">>
    /\ keystream = {}
    /\ pc = "unkeyed" /\ nbytes = 0 /\ done = 0 /\ tail = 0

\* sm4_skcipher_setkey, with a key of 16 bytes: with any other it returns at
\* once.
SetKey ==
    /\ pc = "unkeyed"
    /\ ctx' = [rkey_enc |-> [n \in 0..(Rounds - 1) |-> RoundKey(n)],
               rkey_dec |-> [n \in 0..(Rounds - 1) |->
                   RoundKey(CHOOSE r \in 0..(Rounds - 1) : DecIndex(r) = n)]]
    /\ pc' = "idle"
    /\ UNCHANGED <<mode, dst, mem, iv, walk_iv, keystream, nbytes, done, tail>>

In(k) == done + k
Out(k) == dst + done + k
WalkIv == CASE walk_iv[1] = "iv" -> iv
            [] walk_iv[1] = "keystream" -> keystream
            [] walk_iv[1] = "out" -> mem[walk_iv[2]]

\* A call with n bytes; none at all and the function returns at once.
Call(n) ==
    /\ pc = "idle" /\ tail = 0
    /\ n > 0 /\ done * BlockSize + n <= MaxBlocks * BlockSize
    /\ nbytes' = n
    /\ pc' = "loop"
    /\ walk_iv' = <<"iv">>
    /\ UNCHANGED <<mode, ctx, dst, mem, iv, keystream, done, tail>>

\* n blocks are done, and the function stays in its loops.
Advance(n) ==
    /\ pc = "loop"
    /\ nbytes' = nbytes - n * BlockSize
    /\ done' = done + n
    /\ UNCHANGED <<mode, ctx, dst, pc, tail>>

\* Mutant: the loops go on while there is more than a block.
WholeBlocksButLast == (nbytes - 1) \div BlockSize

WholeBlocks == nbytes \div BlockSize
AtMost(n) == IF WholeBlocks < n THEN WholeBlocks ELSE n

\* crypto_xor_cpy: block by block, from the first to the last.
XorCopy(m, xs) ==
    LET mm[i \in 0..Len(xs)] ==
            IF i = 0 THEN m
            ELSE LET prev == mm[i - 1]
                 IN  [prev EXCEPT ![Out(i - 1)] = Xor(prev[In(i - 1)], xs[i])]
    IN  mm[Len(xs)]
CryptBlocks(rk, xs) == [i \in DOMAIN xs |-> Crypt(rk, xs[i])]
Blocks(n) == [i \in 1..n |-> mem[In(i - 1)]]
StoreAll(m, xs) ==
    [a \in DOMAIN m |-> IF \E i \in DOMAIN xs : a = Out(i - 1)
                        THEN xs[a - Out(0) + 1] ELSE m[a]]

(***************************************************************************)
(* The loops, the ones that take eight blocks first.                       *)
(***************************************************************************)
Ecb(name, rk) ==
    /\ mode = name
    /\ \E n \in {IF WholeBlocks >= 8 THEN 8 ELSE AtMost(4)} :
           /\ n > 0
           /\ mem' = StoreAll(mem, CryptBlocks(rk, Blocks(n)))
           /\ Advance(n)
    /\ UNCHANGED <<iv, walk_iv, keystream>>

EcbEnc == Ecb("ecb_enc", ctx.rkey_enc)
EcbDec == Ecb("ecb_dec", ctx.rkey_dec)

CbcEnc ==
    /\ mode = "cbc_enc" /\ WholeBlocks > 0
    /\ mem' = [mem EXCEPT ![Out(0)] =
                  Crypt(ctx.rkey_enc, Xor(mem[In(0)], WalkIv))]
    /\ walk_iv' = <<"out", Out(0)>>
    /\ Advance(1)
    /\ UNCHANGED <<iv, keystream>>

CbcDec8 ==
    /\ mode = "cbc_dec" /\ WholeBlocks >= 8
    /\ LET ivs == <<iv>> \o Blocks(7)
           ds == CryptBlocks(ctx.rkey_dec, Blocks(8))
       IN  mem' = StoreAll(mem, [i \in 1..8 |-> Xor(ds[i], ivs[i])])
    /\ iv' = mem[In(7)]
    /\ Advance(8)
    /\ UNCHANGED <<walk_iv, keystream>>

\* Mutant: the blocks from the first to the last.
BackwardsForward(n, ds) ==
    LET m[i \in 1..n] ==
            IF i = 1 THEN mem
            ELSE LET prev == m[i - 1]
                 IN  [prev EXCEPT ![Out(i - 1)] = Xor(prev[In(i - 2)], ds[i])]
    IN  m[n]

\* The blocks but the first one get the block before them added, which in
\* place is about to be overwritten: from the last one back.
Backwards(n, ds) ==
    LET m[i \in 1..n] ==    \* the blocks from the i-th on are done
            IF i = n THEN mem
            ELSE LET next == m[i + 1]
                 IN  [next EXCEPT ![Out(i)] = Xor(next[In(i - 1)], ds[i + 1])]
    IN  m[1]

CbcDecRest ==
    /\ mode = "cbc_dec" /\ WholeBlocks \in 1..7
    /\ LET n == AtMost(8)
           ds == CryptBlocks(ctx.rkey_dec, Blocks(n))
       IN  /\ mem' = [Backwards(n, ds) EXCEPT ![Out(0)] = Xor(iv, ds[1])]
           /\ iv' = mem[In(n - 1)]
           /\ Advance(n)
    /\ UNCHANGED <<walk_iv, keystream>>

CfbEnc ==
    /\ mode = "cfb_enc" /\ WholeBlocks > 0
    /\ keystream' = Crypt(ctx.rkey_enc, WalkIv)
    /\ mem' = XorCopy(mem, <<keystream'>>)
    /\ walk_iv' = <<"out", Out(0)>>
    /\ Advance(1)
    /\ UNCHANGED iv

CfbDec8 ==
    /\ mode = "cfb_dec" /\ WholeBlocks >= 8
    /\ LET es == CryptBlocks(ctx.rkey_enc, <<iv>> \o Blocks(7))
       IN  mem' = StoreAll(mem, [i \in 1..8 |-> Xor(es[i], mem[In(i - 1)])])
    /\ iv' = mem[In(7)]
    /\ Advance(8)
    /\ UNCHANGED <<walk_iv, keystream>>

\* The blocks to encrypt are copied, and the next IV saved, before any block
\* is written.
CfbDecRest ==
    /\ mode = "cfb_dec" /\ WholeBlocks \in 1..7
    /\ LET n == AtMost(8)
       IN  /\ mem' = XorCopy(mem, CryptBlocks(ctx.rkey_enc, <<iv>> \o Blocks(n - 1)))
           /\ iv' = mem[In(n - 1)]
           /\ Advance(n)
    /\ UNCHANGED <<walk_iv, keystream>>

Ofb(name) ==
    /\ mode = name /\ WholeBlocks > 0
    /\ keystream' = Crypt(ctx.rkey_enc, WalkIv)
    /\ mem' = XorCopy(mem, <<keystream'>>)
    /\ walk_iv' = <<"keystream">>
    /\ Advance(1)
    /\ UNCHANGED iv

OfbEnc == Ofb("ofb_enc")
OfbDec == Ofb("ofb_dec")

\* Mutant: the key stream that is there already.
TailKeystreamOld == keystream

TailKeystream == Crypt(ctx.rkey_enc, WalkIv)

\* Part of a block: n bytes of x, and what was there after them.
Part(n, x, old) == {<<"part", n, x, old>>}

\* The loops are over.  The IV is saved if it moved, the stream modes do the
\* rest of the bytes, and the others have nothing that could make nbytes 0:
\* the outer loop begins again.
EndOfBlocks ==
    /\ pc = "loop" /\ WholeBlocks = 0
    /\ iv' = WalkIv
    /\ walk_iv' = <<"iv">>
    /\ IF mode \in Streams /\ nbytes > 0
       THEN /\ keystream' = TailKeystream
            /\ mem' = [mem EXCEPT ![Out(0)] =
                          Part(nbytes, Xor(mem[In(0)], keystream'), mem[Out(0)])]
            /\ tail' = nbytes
            /\ nbytes' = 0
       ELSE UNCHANGED <<keystream, mem, tail, nbytes>>
    /\ pc' = IF nbytes' > 0 THEN "loop" ELSE "idle"
    /\ UNCHANGED <<mode, ctx, dst, done>>

Turn ==
    \/ EcbEnc \/ EcbDec \/ CbcEnc \/ CbcDec8 \/ CbcDecRest
    \/ CfbEnc \/ CfbDec8 \/ CfbDecRest \/ OfbEnc \/ OfbDec
    \/ EndOfBlocks

Next == SetKey \/ (\E n \in CallSizes : Call(n)) \/ Turn

\* A call runs on until it returns.
Spec == Init /\ [][Next]_vars /\ WF_vars(Turn)

-----------------------------------------------------------------------------
(***************************************************************************)
(* Properties.                                                             *)
(***************************************************************************)
Encrypted(k, x) == Crypt(k, x)
Decrypted(k, x) == Crypt(Reversed(k), x)

AbstractMode == IF mode \in {"ofb_enc", "ofb_dec"} THEN "ofb" ELSE mode

Abstract ==
    INSTANCE CipherMode WITH
        Enc <- Encrypted, Dec <- Decrypted,
        CtrBlock <- Input, TweakBlock <- Input, CtrSize <- 1, LaneSize <- 1,
        mode <- AbstractMode,
        key <- [r \in 0..(Rounds - 1) |-> RoundKey(r)],
        in <- [i \in 1..MaxBlocks |-> Input(i)],
        out <- [i \in 1..done |-> mem[dst + i - 1]],
        chain <- WalkIv

\* The whole blocks of a message come out as its mode has them, and the IV
\* goes on where the last call stopped, in place or not, whichever loop of
\* sm4_core.c takes them.
ImplementsMode == Abstract!Spec

\* The bytes after the last whole block are the beginning of what the mode
\* would have put out for that block, and the bytes after them stay.
TailExact ==
    tail > 0 =>
        mem[dst + done] =
            Part(tail, Abstract!Apply(AbstractMode, ctx.rkey_enc, iv, Input(done + 1)).out,
                 IF dst = 0 THEN Input(done + 1) ELSE Atom("old", dst + done))

\* A call of a stream mode returns, and so does one with whole blocks.
CallsReturn ==
    (pc = "loop" /\ (mode \in Streams \/ nbytes % BlockSize = 0)) ~> (pc = "idle")
=============================================================================
