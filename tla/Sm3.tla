-------------------------------- MODULE Sm3 --------------------------------
(***************************************************************************)
(* The hash of c/linux/kernel/sm3_sm4/sm3/sm3.c: a message goes through    *)
(* sm3_update in pieces of any length, the state may be exported on the    *)
(* way and imported again, and sm3_final pads what is left.                *)
(*                                                                         *)
(* sm3_compress is opaque: the digest is the sequence of the blocks that   *)
(* went into it.  A byte of a message is known by a tag that is not used   *)
(* twice, so that old bytes in the block are never taken for new ones.     *)
(***************************************************************************)
EXTENDS Naturals, Sequences, SequencesExt

CONSTANTS BlockSize,    \* SM3_BLOCK_SIZE, 64
          CountSize,    \* bytes of the length at the end of the padding, 8
          Pieces,       \* lengths of the data of sm3_update
          MaxLength,    \* of a message (bound)
          MaxBranches   \* how often the state is imported or initialized (bound)

VARIABLES digest, nblocks, num, block,  \* struct sm3_ctx
          message,                      \* all the data so far
          exported,                     \* of sm3_export, and the message then:
                                        \* empty before the first export
          branch,                       \* how often it was imported or initialized
          result                        \* of sm3_final, empty before it

ctx == <<digest, nblocks, num, block>>
vars == <<ctx, message, exported, branch, result>>

Mark == <<"0x80">>
Zeros(n) == [k \in 1 .. n |-> <<"0">>]

\* sm3_init.  It leaves the block as it was.
Init == /\ digest = <<>> /\ nblocks = 0 /\ num = 0
        /\ block = [k \in 1 .. BlockSize |-> <<"old">>]
        /\ message = <<>> /\ exported = <<>> /\ branch = 0
        /\ result = <<>>

\* memcpy and memset, to the bytes of b after the first k.
Copied(b, k, src) == [j \in 1 .. BlockSize |->
                        IF j \in k + 1 .. k + Len(src) THEN src[j - k] ELSE b[j]]

Whole(data) == Len(data) \div BlockSize
BlockOf(data, k) == SubSeq(data, k * BlockSize + 1, (k + 1) * BlockSize)

\* The loop over whole blocks, and what is kept for the next call; before is
\* what the first block of the call was completed to.
Absorb(before, b, data) ==
  LET blocks == before \o [k \in 1 .. Whole(data) |-> BlockOf(data, k - 1)]
      rest == SubSeq(data, Whole(data) * BlockSize + 1, Len(data))
  IN  /\ digest' = digest \o blocks
      /\ nblocks' = nblocks + Len(blocks)
      /\ num' = Len(rest)
      /\ block' = Copied(b, 0, rest)

Update(n) ==
  LET data == [k \in 1 .. n |-> <<"data", branch, Len(message) + k>>]
      left == BlockSize - num
      full == Copied(block, num, SubSeq(data, 1, left))
  IN  /\ result = <<>> /\ Len(message) + n <= MaxLength
      /\ IF num = 0 THEN Absorb(<<>>, block, data)
         ELSE IF n < left
         THEN /\ block' = Copied(block, num, data)
              /\ num' = num + n
              /\ UNCHANGED <<digest, nblocks>>
         ELSE Absorb(<<full>>, full, SubSeq(data, left + 1, n))
      /\ message' = message \o data
      /\ UNCHANGED <<exported, branch, result>>

\* Mutant: there is room for the length when there is room for its bytes.
CountFitsTight == num + CountSize <= BlockSize

CountFits == num + 1 + CountSize <= BlockSize

\* sm3_final.  The last bytes of the last block are the length of the message,
\* in bits, of all its blocks and of what is left.
Final ==
  LET marked == Copied(block, num, <<Mark>>)
      rest == BlockSize - num - 1
      last == IF CountFits THEN Copied(marked, num + 1, Zeros(rest - CountSize))
              ELSE Zeros(BlockSize - CountSize)
      count == [k \in 1 .. CountSize |-> <<"count", nblocks * BlockSize + num, k>>]
  IN  /\ result = <<>>
      /\ result' = digest \o (IF CountFits THEN <<>>
                              ELSE <<Copied(marked, num + 1, Zeros(rest))>>)
                          \o <<SubSeq(last, 1, BlockSize - CountSize) \o count>>
      /\ digest' = result'
      /\ block' = result'[Len(result')]
      /\ UNCHANGED <<nblocks, num, message, exported, branch>>

\* Mutant: the part of the block that is used is all that is kept.
SavedShort == <<digest, nblocks, 0, block>>

Saved == ctx

Export == /\ result = <<>> /\ exported = <<>>
          /\ exported' = <<Saved, message>>
          /\ UNCHANGED <<ctx, message, branch, result>>

\* At any time, also after sm3_final.
Import == /\ exported # <<>> /\ branch < MaxBranches
          /\ digest' = exported[1][1] /\ nblocks' = exported[1][2]
          /\ num' = exported[1][3] /\ block' = exported[1][4]
          /\ message' = exported[2]
          /\ branch' = branch + 1
          /\ result' = <<>>
          /\ UNCHANGED exported

\* sm3_init for the next message.
InitAgain == /\ result # <<>> /\ branch < MaxBranches
             /\ digest' = <<>> /\ nblocks' = 0 /\ num' = 0
             /\ message' = <<>>
             /\ branch' = branch + 1
             /\ result' = <<>>
             /\ UNCHANGED <<block, exported>>

Next == (\E n \in Pieces : Update(n)) \/ Final \/ Export \/ Import \/ InitAgain

-----------------------------------------------------------------------------
\* The padding of the standard: a mark, zeros, and the length, up to the next
\* end of a block.
PaddedLength(n) == CHOOSE k \in n + 1 + CountSize .. n + CountSize + BlockSize :
                     k % BlockSize = 0
Padded(m) ==
  m \o <<Mark>> \o Zeros(PaddedLength(Len(m)) - Len(m) - 1 - CountSize)
    \o [k \in 1 .. CountSize |-> <<"count", Len(m), k>>]

\* The digest is that of the message, however it was cut into pieces, whatever
\* earlier data is left in the block, and also for a state that was imported.
DigestRight ==
  result # <<>> => FlattenSeq(result) = Padded(message)
=============================================================================
