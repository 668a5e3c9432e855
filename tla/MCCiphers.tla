----------------------------- MODULE MCCiphers -----------------------------
(***************************************************************************)
(* Small instances of AesBulk, AesContext, Sm4Modes and Sm3 for TLC, in    *)
(* one run: at the start one of the four is chosen, and the others stay in *)
(* an initial state of theirs.                                             *)
(***************************************************************************)
EXTENDS AesBulk

CONSTANTS
    HashBlock, HashCount,           \* BlockSize and CountSize of Sm3
    HashPieces, HashLength, HashBranches,   \* Pieces, MaxLength and MaxBranches
    Sm4Calls, Sm4Block, Sm4Rounds,          \* CallSizes, BlockSize, Rounds of Sm4Modes
    KeyNames, KeyLens, MaxCalls             \* of AesContext

\* After a block there is room for a mark and the length.
ASSUME HashAssumption ==
    /\ HashBlock \in Nat /\ HashCount \in Nat /\ HashCount < HashBlock
    /\ HashPieces \subseteq Nat /\ HashLength \in Nat /\ HashBranches \in Nat

VARIABLES
    which,                              \* "bulk", "context", "sm4" or "sm3"
    aesctx, scratch, aeskey, calls,     \* of AesContext
    sm4mode, sm4ctx, sm4dst, sm4mem, sm4iv, walk_iv, keystream, sm4pc,
    nbytes, sm4done, tail,              \* of Sm4Modes
    digest, sm3blocks, num, block, message, exported, branch, result  \* of Sm3

contextVars == <<aesctx, scratch, aeskey, calls>>
sm4Vars == <<sm4mode, sm4ctx, sm4dst, sm4mem, sm4iv, walk_iv, keystream, sm4pc,
             nbytes, sm4done, tail>>
sm3Vars == <<digest, sm3blocks, num, block, message, exported, branch, result>>

ASSUME Sm4Assumption ==
    Sm4Calls \subseteq Nat /\ Sm4Block \in Nat \ {0} /\ Sm4Rounds \in Nat \ {0}

\* Counters around every carry that the sizes of Ciphers.cfg have.
Counters == {0, 7, 8, 9, 12, 15, 23, 24, 25, 28, 31, 57, 63}

\* Tweaks whose bits leave their half during eight or four blocks, one bit
\* at a time, two together, and all of them.
TweakSets == {{b} : b \in {0, 31} \union 55..63 \union 119..127}
                 \union {{62, 126}, {63, 127}, 0..127}

Context == INSTANCE AesContext WITH
    ctx <- aesctx, key <- aeskey

Sm4 == INSTANCE Sm4Modes WITH
    mode <- sm4mode, ctx <- sm4ctx, dst <- sm4dst, mem <- sm4mem, iv <- sm4iv,
    pc <- sm4pc, done <- sm4done,
    CallSizes <- Sm4Calls, BlockSize <- Sm4Block, Rounds <- Sm4Rounds

Hash == INSTANCE Sm3 WITH
    nblocks <- sm3blocks,
    BlockSize <- HashBlock, CountSize <- HashCount, Pieces <- HashPieces,
    MaxLength <- HashLength, MaxBranches <- HashBranches

CiphersInit ==
    /\ which \in {"bulk", "context", "sm4", "sm3"}
    /\ Init
    /\ which # "bulk" => mode = "ecb_enc" /\ rounds = 10 /\ dst = 0
    /\ Context!Init
    /\ Sm4!Init
    /\ which # "sm4" => sm4mode = "ecb_enc" /\ sm4dst = 0
    /\ Hash!Init

CiphersNext ==
    /\ UNCHANGED which
    /\ \/ which = "bulk" /\ Next /\ UNCHANGED <<contextVars, sm4Vars, sm3Vars>>
       \/ which = "context" /\ Context!Next /\ UNCHANGED <<vars, sm4Vars, sm3Vars>>
       \/ which = "sm4" /\ Sm4!Next /\ UNCHANGED <<vars, contextVars, sm3Vars>>
       \/ which = "sm3" /\ Hash!Next /\ UNCHANGED <<vars, contextVars, sm4Vars>>

CiphersSpec ==
    /\ CiphersInit
    /\ [][CiphersNext]_<<which, vars, contextVars, sm4Vars, sm3Vars>>
    /\ WF_sm4Vars(which = "sm4" /\ Sm4!Turn)

-----------------------------------------------------------------------------
\* What the callers of the bulk functions and of the SM4 modes get beside whole
\* blocks: nothing after the output of a call is written, and a part of a block
\* is the beginning of the whole one.
OutputExact == OnlyOutputWritten /\ Sm4!TailExact

\* Calls on an AES context use the key that was set last, all of it.
CurrentKeyUsed == Context!CurrentKeyUsed

\* The modes of sm4_core.c put out what the modes of operation say.
ImplementsSm4Mode == Sm4!ImplementsMode

\* Calls of sm4_core.c return: those of the stream modes, and those with
\* whole blocks.
CallsReturn == Sm4!CallsReturn

\* SM3 digests are those of the message.
DigestRight == Hash!DigestRight
=============================================================================
