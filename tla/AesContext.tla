----------------------------- MODULE AesContext -----------------------------
(***************************************************************************)
(* The context of src/c/linux/common/aes_opt/rijndael.c: keys are set, and *)
(* a buffer encrypted and decrypted in place, in any order, as its self    *)
(* tests do in the one order that they test.  The schedule for decryption  *)
(* is made when it is first needed, and remembered until the next key.     *)
(*                                                                         *)
(* Keys are symbolic words; the schedule is the one that AesNi computes.   *)
(***************************************************************************)
EXTENDS AesNi

CONSTANTS
    KeyNames,   \* different keys of the same length
    KeyLens,    \* the lengths that do_setkey is called with, in bytes
    MaxCalls    \* bounds the model

VARIABLES
    ctx,        \* the RIJNDAEL_context
    scratch,    \* the buffer, of one block
    key,        \* history: the key of the last call that returned 0
    calls       \* how many calls there were

vars == <<ctx, scratch, key, calls>>

Key(name, keylen) == [i \in 1..(keylen \div 4) |-> {<<name, i>>}]

\* RIJNDAEL_context context = {0}.
Init ==
    /\ ctx = [rounds |-> 0, keysch |-> <<>>, keyschdec |-> <<>>,
              decryption_prepared |-> FALSE]
    /\ scratch = {<<<<"plaintext", 0>>, 0>>}
    /\ key = <<>>
    /\ calls = 0

\* Mutant: a new key leaves the schedule for decryption as it is.
WithKeyPrepared(c, rounds, k) ==
    [c EXCEPT !.rounds = rounds, !.keysch = Schedule(rounds, k)]

WithKey(c, rounds, k) ==
    [c EXCEPT !.rounds = rounds, !.decryption_prepared = FALSE,
              !.keysch = Schedule(rounds, k)]

\* do_setkey: any other length and it returns -1.
SetKey(name, keylen) ==
    /\ calls < MaxCalls
    /\ calls' = calls + 1
    /\ ctx' = CASE keylen = 16 -> WithKey(ctx, 10, Key(name, keylen))
                [] keylen = 24 -> WithKey(ctx, 12, Key(name, keylen))
                [] keylen = 32 -> WithKey(ctx, 14, Key(name, keylen))
                [] OTHER -> ctx
    /\ key' = IF keylen \in {16, 24, 32} THEN Key(name, keylen) ELSE key
    /\ UNCHANGED scratch

\* rijndael_encrypt, of one block; without a key its function pointer is
\* NULL, and no caller does that.
Encrypt ==
    /\ calls < MaxCalls /\ ctx.rounds > 0
    /\ calls' = calls + 1
    /\ scratch' = DoEnc(scratch, EncKeys(ctx.keysch), ctx.rounds)
    /\ UNCHANGED <<ctx, key>>

\* check_decryption_preparation.
Prepared(c) ==
    IF c.decryption_prepared THEN c
    ELSE [c EXCEPT !.decryption_prepared = TRUE,
                   !.keyschdec = DecKeys(EncKeys(c.keysch), c.rounds)]

\* rijndael_decrypt.
Decrypt ==
    /\ calls < MaxCalls /\ ctx.rounds > 0
    /\ calls' = calls + 1
    /\ ctx' = Prepared(ctx)
    /\ scratch' = DoDec(scratch, ctx'.keyschdec, ctx.rounds)
    /\ UNCHANGED key

Next ==
    \/ \E name \in KeyNames, keylen \in KeyLens : SetKey(name, keylen)
    \/ Encrypt
    \/ Decrypt

Spec == Init /\ [][Next]_vars

-----------------------------------------------------------------------------
(***************************************************************************)
(* Properties.                                                             *)
(***************************************************************************)

\* KeyExpansion of FIPS 197: every word is the sum of the one before it and
\* the one nk before it, with the S-box at the places that nk gives.
KeyExpansion(rounds) ==
    LET nk == Len(key)
        rcon == <<1, 2, 4, 8, 16, 32, 64, 128, 27, 54>>
        Temp(i, prev) ==
            IF i % nk = 0 THEN {<<"rotsub", prev>>, <<"rcon", rcon[i \div nk]>>}
            ELSE IF nk > 6 /\ i % nk = 4 THEN {<<"sub", prev>>}
            ELSE prev
        w[n \in nk..(4 * (rounds + 1))] ==     \* the first n words
            IF n = nk THEN key
            ELSE LET p == w[n - 1]
                 IN  Append(p, Xor(p[n - nk], Temp(n - 1, p[n - 1])))
        words == w[4 * (rounds + 1)]
    IN  EncKeys([r \in 1..(rounds + 1) |-> SubSeq(words, 4 * r - 3, 4 * r)])

\* The number of rounds of the key's size.
Nr == Len(key) + 6

\* The cipher of FIPS 197 and its inverse: the same rounds, backwards.
Cipher(x) ==
    LET w == KeyExpansion(Nr)
        y[r \in 0..(Nr - 1)] == IF r = 0 THEN Xor(x, w[0])
                                ELSE AesEnc(y[r - 1], w[r])
    IN  AesEncLast(y[Nr - 1], w[Nr])
InvCipher(x) ==
    LET w == KeyExpansion(Nr)
        y[r \in 0..(Nr - 1)] ==
            IF r = 0 THEN Xor(x, w[Nr])
            ELSE Mixed(Xor(InvSubShift(y[r - 1]), w[Nr - r]), -1)
    IN  Xor(InvSubShift(y[Nr - 1]), w[0])

\* Whatever keys were set and whatever was encrypted and decrypted before, a
\* call encrypts or decrypts under the last key that do_setkey took, with the
\* key expansion and the rounds that FIPS 197 has for its size.
CurrentKeyUsed ==
    [][ /\ Encrypt => scratch' = Cipher(scratch)
        /\ Decrypt => scratch' = InvCipher(scratch) ]_vars
=============================================================================
