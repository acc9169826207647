------------------------------- MODULE Verity -------------------------------
(***************************************************************************)
(* nbd/verity: the check of a region of a squashfs image against the       *)
(* leaves of the dm-verity hash tree that follows the image.  Lengths are  *)
(* in units of one hash; a block, of data or of hashes, has HashesPerBlock *)
(* of them, and squashfs is padded to whole blocks.                        *)
(*                                                                         *)
(* The image is what veritysetup makes (external): the data blocks, one    *)
(* block for the superblock, then the levels of the tree from the root     *)
(* down, each as long as it takes to hold the hashes of the one below.     *)
(***************************************************************************)
EXTENDS Naturals, Sequences, FiniteSets

CONSTANTS HashesPerBlock,  \* HashBlockSize / hash.Size()
          MaxUsed,         \* bound on the length of squashfs
          MaxDamage        \* bound on the places where an image is damaged

ASSUME VerityAssumption ==
    /\ HashesPerBlock \in Nat /\ HashesPerBlock > 1
    /\ MaxUsed \in Nat

VARIABLES
    used,     \* squashfs.BytesUsed
    damaged,  \* damaged blocks of data and hashes: <<"data", i>>, <<"leaf", i>>
    super,    \* superblockOffset, 0 before Open
    leaf,     \* leafHashOffset, 0 before it was looked for
    vblock,   \* block: the one to verify next
    region,   \* the offset and size given to Verify
    vleft,    \* size: what is left to verify
    vpc,      \* "open", "idle", "verify" or "returned"
    verr      \* the result of Verify: "nil", "error", or "unread"

verityVars == <<used, damaged, super, leaf, vblock, region, vleft, vpc, verr>>

CeilDiv(a, b) == (a + b - 1) \div b

-----------------------------------------------------------------------------
(* The image *)

DataBlockCount == CeilDiv(used, HashesPerBlock)

\* The data blocks that one hash of level k stands for: the leaves are level 0.
Power[k \in Nat] == IF k = 0 THEN 1 ELSE HashesPerBlock * Power[k - 1]

\* The tree of an image with this many data blocks: hashes in level k, and
\* levels under the root.
LevelHashes(blocks, k) == CeilDiv(blocks, Power[k])
Levels(blocks) == CHOOSE l \in 0..blocks :
    LevelHashes(blocks, l) = 1 /\ \A k \in 0..l-1 : LevelHashes(blocks, k) > 1

\* Where level 0 begins: after the data, the superblock and the levels above.
LeafOffset(blocks) ==
    LET top == Levels(blocks) - 1
        start[j \in 0..top] ==  \* where the level j levels below the highest one begins
            IF j = 0 THEN (blocks + 1) * HashesPerBlock
            ELSE start[j - 1]
                 + CeilDiv(LevelHashes(blocks, top - (j - 1)), HashesPerBlock) * HashesPerBlock
    IN start[top]

\* The hash at an offset of the image is that of the data block with this index.
IsLeafOf(offset, index) == offset = LeafOffset(DataBlockCount) + index

Places == {"data", "leaf"} \X (0..DataBlockCount - 1)

-----------------------------------------------------------------------------
VerityInit ==
    /\ used \in HashesPerBlock + 1 .. MaxUsed
    /\ damaged \in {d \in SUBSET Places : Cardinality(d) <= MaxDamage}
    /\ super = 0 /\ leaf = 0
    /\ region = [offset |-> 0, size |-> 0]
    /\ vblock = 0 /\ vleft = 0
    /\ vpc = "open"
    /\ verr = "nil"

\* verityAfterSquashfs: the superblocks are there and valid.
OpenVerity ==
    /\ vpc = "open"
    /\ super' = (used \div HashesPerBlock) * HashesPerBlock
                + IF used % HashesPerBlock # 0 THEN HashesPerBlock ELSE 0
    /\ vpc' = "idle"
    /\ UNCHANGED <<used, damaged, leaf, vblock, region, vleft, verr>>

\* findFirstLeafHash: how long the layers are, from the leaves up.
Layer(count) ==
    LET blocks[i \in Nat] ==
            IF i = 0 THEN count
            ELSE blocks[i - 1] \div HashesPerBlock
                 + IF blocks[i - 1] % HashesPerBlock # 0 THEN 1 ELSE 0
        len == CHOOSE n \in 0..count : blocks[n] <= 1 /\ \A i \in 0..n-1 : blocks[i] > 1
    IN [i \in 1..len |-> blocks[i]]

\* A wrong sum: the leaves themselves are counted.
AboveAndLeaves(layer) ==
    LET offset[i \in 0..Len(layer)] ==
            IF i = 0 THEN 0 ELSE offset[i - 1] + layer[i] * HashesPerBlock
    IN offset[Len(layer)]

\* The length of all layers but the first.
Above(layer) ==
    LET offset[i \in 0..Len(layer)] ==
            IF i <= 1 THEN 0 ELSE offset[i - 1] + layer[i] * HashesPerBlock
    IN offset[Len(layer)]

FirstLeafHash == super + HashesPerBlock + Above(Layer(DataBlockCount))

\* Verify(r, offset, size), for a chunk or any other region that begins with
\* a block.
Verify(offset, size) ==
    /\ vpc = "idle"
    /\ region' = [offset |-> offset, size |-> size]
    /\ leaf' = IF leaf < super THEN FirstLeafHash ELSE leaf
    /\ vblock' = offset \div HashesPerBlock
    /\ vleft' = size
    /\ vpc' = "verify"
    /\ verr' = "nil"
    /\ UNCHANGED <<used, damaged, super>>

\* verifyBlock: the hash of the block is compared with the leaf.
Matches(index) ==
    /\ IsLeafOf(leaf + index, index)
    /\ <<"leaf", index>> \notin damaged /\ <<"data", index>> \notin damaged

VerifyNext ==
    /\ vpc = "verify"
    /\ vleft > 0 /\ vblock < DataBlockCount
    /\ IF Matches(vblock)
       THEN /\ vblock' = vblock + 1
            /\ vleft' = IF vleft < HashesPerBlock THEN 0 ELSE vleft - HashesPerBlock
            /\ UNCHANGED <<vpc, verr>>
       ELSE vpc' = "returned" /\ verr' = "error" /\ UNCHANGED <<vblock, vleft>>
    /\ UNCHANGED <<used, damaged, super, leaf, region>>

\* The hash or the block cannot be read.
VerifyUnread ==
    /\ vpc = "verify"
    /\ vleft > 0 /\ vblock < DataBlockCount
    /\ vpc' = "returned" /\ verr' = "unread"
    /\ UNCHANGED <<used, damaged, super, leaf, vblock, region, vleft>>

VerifyEnd ==
    /\ vpc = "verify"
    /\ ~(vleft > 0 /\ vblock < DataBlockCount)
    /\ vpc' = "returned"
    /\ UNCHANGED <<used, damaged, super, leaf, vblock, region, vleft, verr>>

\* The caller goes on to the next chunk.
VerifyAgain ==
    /\ vpc = "returned"
    /\ vpc' = "idle"
    /\ UNCHANGED <<used, damaged, super, leaf, vblock, region, vleft, verr>>

VerityNext ==
    \/ OpenVerity
    \/ \E block \in 0..DataBlockCount, size \in 0..MaxUsed :
           Verify(block * HashesPerBlock, size)
    \/ VerifyNext \/ VerifyUnread \/ VerifyEnd
    \/ VerifyAgain

VeritySpec == VerityInit /\ [][VerityNext]_verityVars

-----------------------------------------------------------------------------
(* Properties *)

\* Data blocks that have something in the region.
InRegion ==
    {i \in 0..DataBlockCount - 1 :
        /\ (i + 1) * HashesPerBlock > region.offset
        /\ i * HashesPerBlock < region.offset + region.size}

\* Verify finds every damaged block of the region it is given, and nothing
\* else: the leaves are where it looks for them, for trees of any height, and
\* the loop covers the region and ends with the data.
VerifyExact ==
    vpc = "returned" /\ verr # "unread" =>
        (verr = "error" <=> \E i \in InRegion :
                                <<"data", i>> \in damaged \/ <<"leaf", i>> \in damaged)
=============================================================================
