----------------------------- MODULE CipherMode -----------------------------
(***************************************************************************)
(* What a mode of operation promises: a message is a sequence of blocks,   *)
(* and whoever processes it, however many blocks at a time, puts out the   *)
(* blocks that the mode's recurrence gives, one after the other.           *)
(*                                                                         *)
(* This is the abstract specification that AesBulk and Sm4Modes implement. *)
(* It knows nothing of vectors, of folded keys, of carries between bytes,  *)
(* of buffers or of calls: a call that ends and the next one that goes on  *)
(* where it stopped are invisible here.                                    *)
(***************************************************************************)
EXTENDS Integers, Sequences

CONSTANTS
    Enc(_, _), Dec(_, _),   \* the block cipher: a key and a block
    CtrBlock(_),        \* the block of a counter
    TweakBlock(_),      \* the block of a tweak
    CtrSize,            \* number of values of a counter
    LaneSize            \* number of values of its low 32 bits

VARIABLES
    mode,   \* the mode of the message
    key,    \* the key it is processed under
    in,     \* the blocks of the message
    done,   \* how many of them are processed
    out,    \* the blocks put out so far; for cbc_mac, the last of them only
    chain   \* what the next block needs: an IV, a counter or a tweak

vars == <<mode, key, in, done, out, chain>>

Xor(x, y) == (x \ y) \union (y \ x)

\* A tweak is the set of the positions of its bits; doubling it in GF(2^128)
\* moves every bit up, and the highest one to bits 0, 1, 2 and 7.
Double(t) == Xor({b + 1 : b \in t \ {127}}, IF 127 \in t THEN {0, 1, 2, 7} ELSE {})

LaneIncr(c) == (c - (c % LaneSize)) + ((c + 1) % LaneSize)

\* The block that goes out for x, and the chain value after it.
Apply(m, k, c, x) ==
    LET o == CASE m \in {"cfb_enc", "cfb_dec"} -> Xor(Enc(k, c), x)
               [] m \in {"cbc_enc", "cbc_mac"} -> Enc(k, Xor(c, x))
               [] m = "cbc_dec" -> Xor(Dec(k, x), c)
               [] m = "ofb" -> Xor(Enc(k, c), x)
               [] m \in {"ctr", "ctr32le"} -> Xor(Enc(k, CtrBlock(c)), x)
               [] m = "xts_enc" -> Xor(Enc(k, Xor(x, TweakBlock(c))), TweakBlock(c))
               [] m = "xts_dec" -> Xor(Dec(k, Xor(x, TweakBlock(c))), TweakBlock(c))
               [] m = "ecb_enc" -> Enc(k, x)
               [] m = "ecb_dec" -> Dec(k, x)
        n == CASE m \in {"cfb_enc", "cbc_enc", "cbc_mac"} -> o
               [] m \in {"cfb_dec", "cbc_dec"} -> x
               [] m = "ofb" -> Enc(k, c)
               [] m = "ctr" -> (c + 1) % CtrSize
               [] m = "ctr32le" -> LaneIncr(c)
               [] m \in {"xts_enc", "xts_dec"} -> Double(c)
               [] m \in {"ecb_enc", "ecb_dec"} -> c
    IN  [out |-> o, chain |-> n]

\* A MAC is the last block, the other modes keep them all.
Emit(m, os, o) == IF m = "cbc_mac" THEN <<o>> ELSE Append(os, o)

\* The blocks xs after each other, from the output os and the chain value c.
ApplyAll(m, k, os, c, xs) ==
    LET s[i \in 0..Len(xs)] ==
            IF i = 0 THEN [out |-> os, chain |-> c]
            ELSE LET p == s[i - 1]
                     a == Apply(m, k, p.chain, xs[i])
                 IN  [out |-> Emit(m, p.out, a.out), chain |-> a.chain]
    IN  s[Len(xs)]

Process ==
    \E n \in 1..(Len(in) - done) :
        LET s == ApplyAll(mode, key, out, chain, SubSeq(in, done + 1, done + n))
        IN  /\ done' = done + n
            /\ out' = s.out
            /\ chain' = s.chain
            /\ UNCHANGED <<mode, key, in>>

Init == done = 0 /\ out = <<>>

Spec == Init /\ [][Process]_vars
=============================================================================
