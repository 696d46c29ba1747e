------------------------------- MODULE Arena -------------------------------
(***************************************************************************)
(* The region allocator (arena/arena.c): a chain of blocks from malloc,    *)
(* requests served by moving a cursor through the newest block, everything *)
(* released at once.                                                       *)
(*                                                                         *)
(* Memory is a row of addresses 0 .. SizeMax, and SIZE_MAX and UINTPTR_MAX *)
(* are the same number, as where the program runs.  malloc is external: it *)
(* answers with any free region that its own alignment allows, or refuses. *)
(***************************************************************************)
EXTENDS Naturals, Sequences

CONSTANTS
  SizeMax,           \* SIZE_MAX and UINTPTR_MAX
  HeaderSize,        \* sizeof(qcc_arena_block)
  MallocAlign,       \* what malloc aligns its regions to
  DefaultAlign,      \* QCC_ARENA_DEFAULT_ALIGN
  DefaultBlockSize,  \* QCC_ARENA_DEFAULT_BLOCK_SIZE
  RequestSizes,      \* the sizes and counts that are asked for
  Alignments,        \* the alignments that are asked for
  Null

ASSUME ArenaAssumption ==
  /\ SizeMax \in Nat /\ HeaderSize \in Nat /\ MallocAlign \in Nat
  /\ DefaultAlign \in Nat \ {0} /\ DefaultBlockSize \in Nat
  /\ DefaultBlockSize <= SizeMax
  /\ RequestSizes \subseteq 0 .. SizeMax /\ Alignments \subseteq 0 .. SizeMax
  /\ Null \notin Nat

VARIABLES
  blocks,            \* the chain, the newest (head) last; [at, capacity, used]
  block_size,
  bytes_used,
  bytes_reserved,
  block_count,
  objects            \* what was handed out and not released, the latest
                     \* last; [at, size, align]

figures == <<bytes_used, bytes_reserved, block_count>>
arenaVars == <<blocks, block_size, figures, objects>>

-----------------------------------------------------------------------------
(* Arithmetic                                                              *)

PowerOfTwo(v) == v # 0 /\ \E k \in 0 .. v : v = 2 ^ k

(* Sums of size_t.                                                         *)
Wrap(x) == x % (SizeMax + 1)

(* Faulty: the address is rounded down.                                    *)
AlignDown(v, align) == (v \div align) * align

(* align_up_uintptr where nothing wraps.                                   *)
AlignUp(v, align) == ((v + align - 1) \div align) * align

(* The capacity that serves a request wherever the payload starts.         *)
Needed(bump, align) == Wrap(bump + (align - 1))

(* A request of no bytes still takes one.                                  *)
Bump(size) == IF size # 0 THEN size ELSE 1

-----------------------------------------------------------------------------
(* One block                                                               *)

Cursor(block) == block.at + block.used

Place(block, align) == AlignUp(Cursor(block), align)
Pad(block, align) == Place(block, align) - Cursor(block)

(* block_try_alloc finds room.                                             *)
Fits(block, bump, align) ==
  /\ Cursor(block) <= SizeMax - (align - 1)
  /\ Pad(block, align) <= block.capacity - block.used
  /\ bump <= block.capacity - block.used - Pad(block, align)

(* What a request takes from a block.                                      *)
Taken(block, bump, align) == Pad(block, align) + bump

Newest == blocks[Len(blocks)]

NewestFits(bump, align) == blocks # <<>> /\ Fits(Newest, bump, align)

(* malloc(n): where a region of n bytes can go.                            *)
FreeAt(n) ==
  {a \in 1 .. SizeMax :
     /\ a % MallocAlign = 0
     /\ a + n <= SizeMax
     /\ \A i \in DOMAIN blocks :
          \/ a + n <= blocks[i].at - HeaderSize
          \/ blocks[i].at + blocks[i].capacity <= a}

-----------------------------------------------------------------------------
Larger(a, b) == IF a > b THEN a ELSE b

Capacity(bump, align) == Larger(Needed(bump, align), block_size)

(* Faulty: the padding may wrap.                                           *)
TooLargeUnpadded(bump, align) == Capacity(bump, align) > SizeMax - HeaderSize

(* The sums in grow that would wrap.                                       *)
TooLarge(bump, align) ==
  \/ bump > SizeMax - (align - 1)
  \/ Capacity(bump, align) > SizeMax - HeaderSize

(* Faulty: the arena does not hear of the padding.                         *)
ServeUncounted(bs, bump, align) ==
  LET block == bs[Len(bs)] IN
    /\ blocks' = [bs EXCEPT
                    ![Len(bs)].used = @ + Taken(block, bump, align)]
    /\ bytes_used' = bytes_used + bump
    /\ objects' = Append(objects, [at |-> Place(block, align), size |-> bump,
                                   align |-> align])

(* The newest of the blocks bs serves the request.                         *)
Serve(bs, bump, align) ==
  LET block == bs[Len(bs)] IN
    /\ blocks' = [bs EXCEPT
                    ![Len(bs)].used = @ + Taken(block, bump, align)]
    /\ bytes_used' = bytes_used + Taken(block, bump, align)
    /\ objects' = Append(objects, [at |-> Place(block, align), size |-> bump,
                                   align |-> align])

Refuse == UNCHANGED arenaVars

(* The pointer a request returns: NULL unless it adds an object.           *)
Returned ==
  IF Len(objects') > Len(objects) THEN objects'[Len(objects')].at ELSE Null

(* qcc_arena_alloc, with the alignment that is meant.                      *)
AllocInvalid(align) == ~PowerOfTwo(align) /\ Refuse

AllocHere(bump, align) ==
  /\ PowerOfTwo(align)
  /\ NewestFits(bump, align)
  /\ Serve(blocks, bump, align)
  /\ UNCHANGED <<block_size, bytes_reserved, block_count>>

(* grow refuses a size, or malloc does.                                    *)
AllocFails(bump, align) ==
  /\ PowerOfTwo(align)
  /\ ~NewestFits(bump, align)
  /\ Refuse

(* grow pushes a block, and the request is tried once more on that.        *)
AllocGrows(bump, align) ==
  /\ PowerOfTwo(align)
  /\ ~NewestFits(bump, align)
  /\ ~TooLarge(bump, align)
  /\ \E a \in FreeAt(HeaderSize + Capacity(bump, align)) :
       LET fresh == [at |-> a + HeaderSize, capacity |-> Capacity(bump, align),
                     used |-> 0] IN
         /\ bytes_reserved' = bytes_reserved + fresh.capacity
         /\ block_count' = block_count + 1
         /\ IF Fits(fresh, bump, align)
            THEN Serve(Append(blocks, fresh), bump, align)
            ELSE /\ blocks' = Append(blocks, fresh)
                 /\ UNCHANGED <<bytes_used, objects>>
  /\ UNCHANGED block_size

Meant(align) == IF align = 0 THEN DefaultAlign ELSE align

AllocAt(bump, align) ==
  \/ AllocInvalid(align)
  \/ AllocHere(bump, align)
  \/ AllocFails(bump, align)
  \/ AllocGrows(bump, align)

Alloc(size, align) == AllocAt(Bump(size), Meant(align))

(* qcc_arena_calloc: count * size, unless that would wrap.                 *)
Calloc(count, size, align) ==
  IF count # 0 /\ size > SizeMax \div count
  THEN Refuse
  ELSE Alloc(count * size, align)

(* qcc_arena_memdup, from a buffer or from none.                           *)
Memdup(source, size, align) ==
  IF source = Null /\ size # 0 THEN Refuse ELSE Alloc(size, align)

Released ==
  /\ blocks' = <<>>
  /\ bytes_used' = 0
  /\ bytes_reserved' = 0
  /\ block_count' = 0
  /\ objects' = <<>>

Reset == Released /\ UNCHANGED block_size

(* qcc_arena_dispose; qcc_arena_init may follow.                           *)
DisposeArena == Released /\ block_size' = 0

Configured(size) == IF size # 0 THEN size ELSE DefaultBlockSize

(* qcc_arena_init of an arena that owns nothing.                           *)
Configure(size) ==
  /\ blocks = <<>>
  /\ block_size' = Configured(size)
  /\ UNCHANGED <<blocks, figures, objects>>

ArenaInit ==
  /\ blocks = <<>>
  /\ block_size = DefaultBlockSize
  /\ bytes_used = 0
  /\ bytes_reserved = 0
  /\ block_count = 0
  /\ objects = <<>>

(* A call that asks for memory, and one that gives it all back.            *)
Request ==
  \E align \in Alignments, size \in RequestSizes :
    \/ Alloc(size, align)
    \/ \E count \in RequestSizes : Calloc(count, size, align)
    \/ \E source \in {Null, 0} : Memdup(source, size, align)

Recycle == Reset \/ DisposeArena \/ \E size \in RequestSizes : Configure(size)

ArenaNext == Request \/ Recycle

ArenaSpec == ArenaInit /\ [][ArenaNext]_arenaVars

-----------------------------------------------------------------------------
(* Properties                                                              *)

(* Two spans of addresses have none in common.                             *)
Apart(x, xsize, y, ysize) == x + xsize <= y \/ y + ysize <= x

(* The promise of arena.h: what is handed out is aligned as was asked,     *)
(* lies in the used part of one block and shares no byte with anything     *)
(* else handed out, a header or another block, a request of no bytes       *)
(* included.                                                               *)
ObjectsApart ==
  /\ \A i, j \in DOMAIN objects :
       i # j => Apart(objects[i].at, objects[i].size,
                      objects[j].at, objects[j].size)
  /\ \A i \in DOMAIN objects : objects[i].at % objects[i].align = 0
  /\ \A i \in DOMAIN objects : \E k \in DOMAIN blocks :
       /\ blocks[k].at <= objects[i].at
       /\ objects[i].at + objects[i].size <= blocks[k].at + blocks[k].used
  /\ \A k, l \in DOMAIN blocks :
       k # l => Apart(blocks[k].at - HeaderSize, HeaderSize + blocks[k].capacity,
                      blocks[l].at - HeaderSize, HeaderSize + blocks[l].capacity)

SumOf(s) ==
  LET to[n \in 0 .. Len(s)] == IF n = 0 THEN 0 ELSE to[n - 1] + s[n]
  IN  to[Len(s)]

UsedOf(bs) == [k \in DOMAIN bs |-> bs[k].used]
CapacitiesOf(bs) == [k \in DOMAIN bs |-> bs[k].capacity]

(* The figures of the arena are sums over its blocks, whose cursors never  *)
(* pass their capacity (the invariant block_try_alloc subtracts by).       *)
Accounted ==
  /\ \A k \in DOMAIN blocks : blocks[k].used <= blocks[k].capacity
  /\ bytes_used = SumOf(UsedOf(blocks))
  /\ bytes_reserved = SumOf(CapacitiesOf(blocks))
  /\ block_count = Len(blocks)

(* A block is reserved for a request only if it then serves it             *)
(* (arena.c:151-152), wherever malloc puts the block and however close to  *)
(* SIZE_MAX the request comes: none is left behind by a refusal.           *)
GrowsToServe ==
  [][Len(blocks') > Len(blocks) => Len(objects') = Len(objects) + 1]_arenaVars
=============================================================================
