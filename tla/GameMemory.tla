----------------------------- MODULE GameMemory ------------------------------
(***************************************************************************)
(* The memory of the game module (src/src/game/bg_alloc.c): one pool, its  *)
(* free blocks in a doubly linked list whose nodes lie in the blocks       *)
(* themselves.  A block that is freed is merged with the one before it, or *)
(* becomes the head of the list; BG_DefragmentMemory merges the rest.      *)
(*                                                                         *)
(* Addresses and sizes are in units of ROUNDBITS + 1 bytes.                *)
(***************************************************************************)
EXTENDS Integers, FiniteSets

CONSTANTS PoolSize,     \* POOLSIZE
          Null

Addresses == 0..PoolSize - 1

ASSUME PoolAssumption == PoolSize \in Nat \ {0} /\ Null \notin Addresses

VARIABLES heap,     \* freeHead, and the free blocks: their sizes and links
          used,     \* the sizes of the blocks handed out, by address
          freeMem,
          crashed   \* a null pointer was written through

memVars == <<heap, used, freeMem, crashed>>

Block == [size : 1..PoolSize, prev : Addresses \cup {Null}, next : Addresses \cup {Null}]
Free(h) == DOMAIN h.block

MemTypeOK ==
    /\ heap = [head |-> heap.head, block |-> heap.block]
    /\ heap.head \in Addresses \cup {Null}
    /\ DOMAIN heap.block \subseteq Addresses
    /\ \A a \in Free(heap) : heap.block[a] \in Block
    /\ DOMAIN used \subseteq Addresses /\ \A a \in DOMAIN used : used[a] \in 1..PoolSize
    /\ freeMem \in Int /\ crashed \in BOOLEAN
-----------------------------------------------------------------------------
(* The list from its head: its k-th block, or Null. *)
Nth(h) == LET nth[k \in Nat] == IF k = 0 THEN h.head
                                ELSE IF nth[k - 1] \in Free(h) THEN h.block[nth[k - 1]].next
                                ELSE Null
          IN  [k \in 0..PoolSize - 1 |-> nth[k]]
(* The first block in the list that is in S. *)
FirstOf(h, S) == LET list == Nth(h)
                 IN  list[CHOOSE k \in DOMAIN list : list[k] \in S /\ \A j \in 0..k - 1 : list[j] \notin S]

Without(f, a) == [b \in DOMAIN f \ {a} |-> f[b]]
Added(f, a, v) == [b \in DOMAIN f \cup {a} |-> IF b = a THEN v ELSE f[b]]

(* Block a leaves the list. *)
Unlinked(h, a) ==
    LET p == h.block[a].prev  n == h.block[a].next
    IN  [head |-> IF h.head = a THEN n ELSE h.head,
         block |-> [b \in Free(h) \ {a} |->
                      [h.block[b] EXCEPT !.next = IF b = p THEN n ELSE @,
                                         !.prev = IF b = n THEN p ELSE @]]]

(* BG_Alloc of n units: the first block of that size, or the end of the    *)
(* smallest larger one.                                                    *)
Large(n) == {a \in Free(heap) : heap.block[a].size >= n}
Exact(n) == {a \in Large(n) : heap.block[a].size = n}
Smallest(n) == {a \in Large(n) : \A b \in Large(n) : heap.block[a].size <= heap.block[b].size}

BG_Alloc(n) ==
    /\ Large(n) # {}
    /\ IF Exact(n) # {}
       THEN LET a == FirstOf(heap, Exact(n))
            IN  heap' = Unlinked(heap, a) /\ used' = Added(used, a, n)
       ELSE LET a == FirstOf(heap, Smallest(n))
                left == heap.block[a].size - n
            IN  heap' = [heap EXCEPT !.block[a].size = left] /\ used' = Added(used, a + left, n)
    /\ freeMem' = freeMem - n
    /\ UNCHANGED crashed

(* BG_Free.  With no free block at all the new head is linked with a null  *)
(* one: a crash, or, in the game's virtual machine, a write to where       *)
(* nothing is looked for.                                                  *)
Before_After(a) == {b \in Free(heap) : a + used[a] = b}
Before(a) == {b \in Free(heap) : b + heap.block[b].size = a}

BG_Free(a) ==
    /\ a \in DOMAIN used
    /\ freeMem' = freeMem + used[a]
    /\ used' = Without(used, a)
    /\ IF Before(a) # {}
       THEN heap' = [heap EXCEPT !.block[FirstOf(heap, Before(a))].size = @ + used[a]]
       ELSE LET linked == [b \in Free(heap) |-> IF b = heap.head THEN [heap.block[b] EXCEPT !.prev = a]
                                                ELSE heap.block[b]]
            IN  heap' = [head |-> a,
                         block |-> Added(linked, a, [size |-> used[a], prev |-> Null, next |-> heap.head])]
    /\ crashed' \in IF Before(a) = {} /\ heap.head = Null THEN BOOLEAN ELSE {FALSE}

(* BG_DefragmentMemory: the first block in the list that ends where        *)
(* another begins takes that one in, and the search begins again.          *)
Adjoining(h) == {a \in Free(h) : a + h.block[a].size \in Free(h)}
Absorbed(h, a) ==
    LET b == a + h.block[a].size
    IN  [Unlinked(h, b) EXCEPT !.block[a].size = @ + h.block[b].size]
Defragmented(h) ==
    LET round[k \in Nat] ==
          IF k = 0 THEN h
          ELSE IF Adjoining(round[k - 1]) = {} THEN round[k - 1]
          ELSE Absorbed(round[k - 1], FirstOf(round[k - 1], Adjoining(round[k - 1])))
    IN  round[Cardinality(Free(h))]

BG_DefragmentMemory ==
    /\ heap' = Defragmented(heap)
    /\ UNCHANGED <<used, freeMem, crashed>>
-----------------------------------------------------------------------------
(* BG_InitMemory *)
MemInit ==
    /\ heap = [head |-> 0, block |-> [a \in {0} |-> [size |-> PoolSize, prev |-> Null, next |-> Null]]]
    /\ used = [a \in {} |-> 0]
    /\ freeMem = PoolSize
    /\ crashed = FALSE

MemNext ==
    /\ ~crashed
    /\ \/ \E n \in 1..PoolSize : BG_Alloc(n)
       \/ \E a \in DOMAIN used : BG_Free(a)
       \/ BG_DefragmentMemory

MemSpec == MemInit /\ [][MemNext]_memVars
-----------------------------------------------------------------------------
Units(a, size) == a..a + size - 1

(* Every free block is in the list, which reads the same in both           *)
(* directions, though blocks leave and join it anywhere.                   *)
ListKept ==
    /\ {Nth(heap)[k] : k \in DOMAIN Nth(heap)} \ {Null} = Free(heap)
    /\ heap.head # Null => heap.block[heap.head].prev = Null
    /\ \A a, b \in Free(heap) : heap.block[a].next = b <=> heap.block[b].prev = a

(* The free blocks and those handed out that unit u lies in. *)
FreeAt(u) == {a \in Free(heap) : u \in Units(a, heap.block[a].size)}
UsedAt(u) == {a \in DOMAIN used : u \in Units(a, used[a])}

(* Whatever is allocated, freed and merged, the free blocks and those      *)
(* handed out cover the pool, none overlaps another, and freeMem is what   *)
(* is free: no allocation is given memory in use, and none is lost.  To    *)
(* defragment it (bg_alloc.c:164) would at any time leave no two free      *)
(* blocks side by side, so that an allocation then fails only for want of  *)
(* a gap that is large enough.                                             *)
PoolInv ==
    /\ MemTypeOK
    /\ ListKept
    /\ \A u \in Addresses : Cardinality(FreeAt(u)) + Cardinality(UsedAt(u)) = 1
    /\ \A a \in Free(heap) : a + heap.block[a].size <= PoolSize
    /\ freeMem = Cardinality({u \in Addresses : FreeAt(u) # {}})
    /\ Adjoining(Defragmented(heap)) = {}
==============================================================================
