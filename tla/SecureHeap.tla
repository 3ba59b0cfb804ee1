----------------------------- MODULE SecureHeap -----------------------------
(***************************************************************************)
(* OpenSSL's heap for keys, crypto/mem_sec.c: a buddy allocator over a     *)
(* fixed arena.  Two bit tables say which blocks there are and which of    *)
(* them are allocated; the free blocks of each size are on a list whose    *)
(* links lie in the blocks themselves.  Allocating and freeing hold        *)
(* sec_malloc_lock, so that each is one step here; the calls that set the  *)
(* heap up and give it back hold no lock and are taken to run alone.       *)
(*                                                                         *)
(* Addresses and sizes are counted in units of minsize.  List 0 has the    *)
(* whole arena, and the blocks of list l are half as large as those of     *)
(* list l - 1.                                                             *)
(***************************************************************************)
EXTENDS Integers, Sequences, FiniteSets, SequencesExt, FiniteSetsExt

CONSTANTS
    LEVELS,      \* freelist_size - 1
    Sizes,       \* the sizes the program asks for
    MAX_PLAIN    \* bound: allocations from the plain heap

\* sh_init fails for an arena of fewer than four units.
ASSUME HeapAssumption == LEVELS \in Nat /\ LEVELS >= 2
                         /\ Sizes \subseteq Nat /\ MAX_PLAIN \in Nat

VARIABLES
    sh,           \* the allocator's state
    used,         \* secure_mem_used
    initialized,  \* secure_mem_initialized
    owned,        \* pointers the program has, with the size it asked for
    plain         \* how many of its pointers are not in the arena

vars == <<sh, used, initialized, owned, plain>>

\* ONE << n.
Pow2[n \in Nat] == IF n = 0 THEN 1 ELSE 2 * Pow2[n - 1]

Lists == 0..LEVELS
ARENA == Pow2[LEVELS]
Units == 0..ARENA - 1

\* The size of the blocks of a list.
SizeOf(list) == Pow2[LEVELS - list]

Block(ptr, list) == ptr..ptr + SizeOf(list) - 1

\* The bit of a block in both tables.
Bit(ptr, list) == Pow2[list] + ptr \div SizeOf(list)

\* OPENSSL_assert: a condition that fails is remembered.
Assert_(h, cond) == [h EXCEPT !.ok = @ /\ cond]

-----------------------------------------------------------------------------
(***************************************************************************)
(* The allocator, as operations on its state h.                            *)
(***************************************************************************)

Fill(h, units, v) ==
    [h EXCEPT !.mem = [u \in Units |-> IF u \in units THEN v ELSE @[u]]]

\* sh_testbit(ptr, list, sh.bittable) and sh_testbit(..., sh.bitmalloc).
IsBlock(h, ptr, list) == Bit(ptr, list) \in h.bittable
IsMalloced(h, ptr, list) == Bit(ptr, list) \in h.bitmalloc

\* sh_setbit and sh_clearbit of the two tables, with their assertions and
\* those of their callers.
SetBlock(h, ptr, list) ==
    [Assert_(h, /\ ptr % SizeOf(list) = 0
                /\ ~IsBlock(h, ptr, list)
                /\ ~IsMalloced(h, ptr, list))
       EXCEPT !.bittable = @ \cup {Bit(ptr, list)}]

ClearBlock(h, ptr, list) ==
    [Assert_(h, ptr % SizeOf(list) = 0 /\ IsBlock(h, ptr, list))
       EXCEPT !.bittable = @ \ {Bit(ptr, list)}]

SetMalloced(h, ptr, list) ==
    [Assert_(h, IsBlock(h, ptr, list) /\ ~IsMalloced(h, ptr, list))
       EXCEPT !.bitmalloc = @ \cup {Bit(ptr, list)}]

ClearMalloced(h, ptr, list) ==
    [Assert_(h, /\ ptr % SizeOf(list) = 0
                /\ IsBlock(h, ptr, list)
                /\ IsMalloced(h, ptr, list))
       EXCEPT !.bitmalloc = @ \ {Bit(ptr, list)}]

\* The links take the first unit of the block.
sh_add_to_list(h, list, ptr) ==
    Fill([h EXCEPT !.freelist[list] = <<ptr>> \o @], {ptr}, "link")

\* The links of the block itself stay in it.
sh_remove_from_list(h, list, ptr) ==
    [Assert_(h, h.mem[ptr] = "link") EXCEPT !.freelist[list] = RemoveFirst(@, ptr)]

\* From the smallest size upwards, the first block that starts here.
sh_getlist(h, ptr) ==
    CHOOSE list \in Lists :
        /\ IsBlock(h, ptr, list)
        /\ \A l \in list + 1..LEVELS : ~IsBlock(h, ptr, l)

sh_actual_size(h, ptr) == SizeOf(sh_getlist(h, ptr))

\* A buddy is taken for free whenever it is a block.
FindMyBuddyAllocated(h, ptr, list) ==
    LET bit == Bit(ptr, list)
        other == IF bit % 2 = 0 THEN bit + 1 ELSE bit - 1
    IN  IF other \in h.bittable THEN {(other % Pow2[list]) * SizeOf(list)} ELSE {}

\* A buddy is never found.
FindMyBuddyNever(h, ptr, list) == {}

\* The block next to this one, if there is one of the same size and it is
\* free: the set is empty for NULL.
sh_find_my_buddy(h, ptr, list) ==
    LET bit == Bit(ptr, list)
        other == IF bit % 2 = 0 THEN bit + 1 ELSE bit - 1
    IN  IF other \in h.bittable /\ other \notin h.bitmalloc
          THEN {(other % Pow2[list]) * SizeOf(list)} ELSE {}

\* The list that serves a size of at most the arena's.
ListFor(size) == Max({l \in Lists : SizeOf(l) >= size})

\* One round of the loop that splits a larger entry.
Split(h, slist) ==
    LET temp == Head(h.freelist[slist])
        a == sh_remove_from_list(
               ClearBlock(Assert_(h, ~IsMalloced(h, temp, slist)), temp, slist),
               slist, temp)
        low == sh_add_to_list(SetBlock(a, temp, slist + 1), slist + 1, temp)
        upper == temp + SizeOf(slist + 1)
        both == sh_add_to_list(SetBlock(low, upper, slist + 1),
                               slist + 1, upper)
    IN  Assert_(both, sh_find_my_buddy(both, upper, slist + 1) = {temp})

\* "peel off memory to hand back", and zero its links.
Take(h, list) ==
    LET chunk == Head(h.freelist[list])
    IN  Fill(sh_remove_from_list(SetMalloced(h, chunk, list), list, chunk),
             {chunk}, "zero")

\* Where sh_malloc finds an entry for a list: the nearest larger size.
Sources(h, list) == {l \in 0..list : h.freelist[l] # <<>>}

\* The heap with a block of the list at the head of it.
Ready(h, list) ==
    LET slist == Max(Sources(h, list))
        split[l \in slist..list] == IF l = slist THEN h ELSE Split(split[l - 1], l - 1)
    IN  split[list]

\* The higher of the two keeps its links.
MergeUncleared(h, ptr, buddy, list) ==
    LET a == sh_remove_from_list(ClearBlock(h, ptr, list), list, ptr)
        b == sh_remove_from_list(ClearBlock(a, buddy, list), list, buddy)
        low == IF ptr > buddy THEN buddy ELSE ptr
    IN  sh_add_to_list(SetBlock(b, low, list - 1), list - 1, low)

\* One round of the loop that coalesces two free blocks.
Merge(h, ptr, buddy, list) ==
    LET a == sh_remove_from_list(
               ClearBlock(Assert_(h, /\ sh_find_my_buddy(h, buddy, list) = {ptr}
                                     /\ ~IsMalloced(h, ptr, list)),
                          ptr, list),
               list, ptr)
        b == sh_remove_from_list(ClearBlock(a, buddy, list), list, buddy)
        low == IF ptr > buddy THEN buddy ELSE ptr
        high == IF ptr > buddy THEN ptr ELSE buddy
    IN  sh_add_to_list(SetBlock(Fill(b, {high}, "zero"), low, list - 1),
                       list - 1, low)

\* The loop goes on with the merged block as long as there is a buddy.
Coalesce(x, list) ==
    LET buddy == sh_find_my_buddy(x.heap, x.at, list)
    IN  IF ~x.more \/ buddy = {}
          THEN [heap |-> x.heap, at |-> x.at, more |-> FALSE]
          ELSE LET b == CHOOSE y \in buddy : TRUE
               IN  [heap |-> Merge(x.heap, x.at, b, list),
                    at |-> IF x.at > b THEN b ELSE x.at,
                    more |-> TRUE]

sh_free(h, ptr) ==
    LET list == sh_getlist(h, ptr)
        freed == sh_add_to_list(ClearMalloced(h, ptr, list), list, ptr)
        \* the heap and the block after n rounds
        after[n \in 0..list] ==
          IF n = 0
            THEN [heap |-> freed, at |-> ptr, more |-> TRUE]
            ELSE Coalesce(after[n - 1], list - (n - 1))
    IN  after[list].heap

\* sh_done: nothing is left of the heap.
Gone == [bittable |-> {}, bitmalloc |-> {},
         freelist |-> [l \in Lists |-> <<>>],
         mem |-> [u \in Units |-> "zero"], ok |-> TRUE]

\* sh_init: one block, the arena.
Fresh == sh_add_to_list(SetBlock(Gone, 0, 0), 0, 0)

-----------------------------------------------------------------------------
(***************************************************************************)
(* The calls.                                                              *)
(***************************************************************************)

CRYPTO_secure_malloc_init ==
    /\ ~initialized
    /\ initialized' = TRUE
    /\ sh' = Fresh
    /\ UNCHANGED <<used, owned, plain>>

\* Refused while secure memory is in use.
CRYPTO_secure_malloc_done ==
    /\ used = 0
    /\ sh' = Gone
    /\ initialized' = FALSE
    /\ UNCHANGED <<used, owned, plain>>

\* sh_malloc, and the accounting around it.
CRYPTO_secure_malloc(num) ==
    LET list == ListFor(num)
    IN  /\ initialized
        /\ num <= ARENA
        /\ Sources(sh, list) # {}
        /\ LET h == Ready(sh, list)
               chunk == Head(h.freelist[list])
           IN  /\ sh' = Take(h, list)
               /\ used' = used + sh_actual_size(sh', chunk)
               /\ owned' = [p \in DOMAIN owned \cup {chunk} |->
                              IF p = chunk THEN num ELSE owned[p]]
        /\ UNCHANGED <<initialized, plain>>

\* Without a secure heap the memory comes from the plain one.
PlainMalloc ==
    /\ ~initialized
    /\ plain < MAX_PLAIN
    /\ plain' = plain + 1
    /\ UNCHANGED <<sh, used, initialized, owned>>

\* The program writes to its memory, all that it was given.
Write(ptr) ==
    /\ ptr \in DOMAIN owned
    /\ sh' = Fill(sh, ptr..ptr + sh_actual_size(sh, ptr) - 1, "data")
    /\ UNCHANGED <<used, initialized, owned, plain>>

\* CRYPTO_secure_free and CRYPTO_secure_clear_free of a pointer into the
\* arena: wiped, counted, freed.
SecureFree(ptr) ==
    LET n == sh_actual_size(sh, ptr)
    IN  /\ sh' = sh_free(Fill(sh, ptr..ptr + n - 1, "zero"), ptr)
        /\ used' = used - n

CRYPTO_secure_free(ptr) ==
    /\ ptr \in DOMAIN owned
    /\ SecureFree(ptr)
    /\ owned' = [p \in DOMAIN owned \ {ptr} |-> owned[p]]
    /\ UNCHANGED <<initialized, plain>>

\* A pointer that is not in the arena goes back to the plain heap, also when
\* there is a secure heap by now.
PlainFree ==
    /\ plain > 0
    /\ plain' = plain - 1
    /\ UNCHANGED <<sh, used, initialized, owned>>

Init ==
    /\ sh = Gone
    /\ used = 0
    /\ initialized = FALSE
    /\ owned = <<>>
    /\ plain = 0

Next ==
    \/ CRYPTO_secure_malloc_init
    \/ CRYPTO_secure_malloc_done
    \/ \E num \in Sizes : CRYPTO_secure_malloc(num)
    \/ PlainMalloc
    \/ \E ptr \in Units : Write(ptr) \/ CRYPTO_secure_free(ptr)
    \/ PlainFree

Spec == Init /\ [][Next]_vars

-----------------------------------------------------------------------------
(***************************************************************************)
(* What the heap promises.                                                 *)
(***************************************************************************)

\* The blocks there are, with their lists, and those of them that are free.
Blocks(h) == {b \in Units \X Lists : /\ b[1] % SizeOf(b[2]) = 0
                                     /\ IsBlock(h, b[1], b[2])}
FreeBlocks(h) == {b \in Blocks(h) : ~IsMalloced(h, b[1], b[2])}
Allocated(h) == Blocks(h) \ FreeBlocks(h)

\* The tables, the lists and the program's pointers have their types.
TypeOK ==
    /\ sh.bittable \subseteq 1..2 * ARENA - 1
    /\ sh.bitmalloc \subseteq sh.bittable
    /\ \A l \in Lists : sh.freelist[l] \in Seq(Units)
    /\ sh.mem \in [Units -> {"zero", "link", "data"}]
    /\ used \in 0..ARENA
    /\ initialized \in BOOLEAN
    /\ DOMAIN owned \subseteq Units
    /\ plain \in 0..MAX_PLAIN

\* The blocks cover the arena and none of them overlap.
BlocksPartitionTheArena ==
    initialized => \A u \in Units :
        Cardinality({b \in Blocks(sh) : u \in Block(b[1], b[2])}) = 1

\* The list of a size has the free blocks of that size, each of them once,
\* and its links are in them.
FreeListsAreExact ==
    \A l \in Lists :
        /\ IsInjective(sh.freelist[l])
        /\ \A p \in ToSet(sh.freelist[l]) : sh.mem[p] = "link"
        /\ ToSet(sh.freelist[l]) = {b[1] : b \in {f \in FreeBlocks(sh) : f[2] = l}}

\* Each pointer of the program is an allocated block that is as large as it
\* asked for, there are no other allocated blocks, and secure_mem_used is
\* their size.
OwnedAreTheAllocated ==
    /\ DOMAIN owned # {} => initialized
    /\ \A p \in DOMAIN owned : LET l == sh_getlist(sh, p)
                              IN  /\ <<p, l>> \in Allocated(sh)
                                  /\ owned[p] <= SizeOf(l)
    /\ Cardinality(Allocated(sh)) = Cardinality(DOMAIN owned)
    /\ used = Cardinality(UNION {Block(b[1], b[2]) : b \in Allocated(sh)})

\* Whatever sequence of allocations and frees splits and coalesces blocks,
\* the two bit tables, the lists in the arena, the pointers of the program
\* and the accounting of mem_sec.c agree, and no OPENSSL_assert of it fails.
HeapInvariant ==
    /\ TypeOK
    /\ sh.ok
    /\ BlocksPartitionTheArena
    /\ FreeListsAreExact
    /\ OwnedAreTheAllocated

\* sh_free coalesces all it can: an aligned region without any memory in use
\* is found by sh_malloc, however the arena was split before.
EveryFitIsFound ==
    initialized =>
        \A list \in Lists :
            (\E i \in 0..Pow2[list] - 1 :
                \A p \in DOMAIN owned :
                    Block(p, sh_getlist(sh, p))
                      \cap Block(i * SizeOf(list), list) = {})
            => Sources(sh, list) # {}

\* "CRYPTO_secure_malloc() zeroes allocations": the block a call hands out has
\* neither links of the lists nor what an earlier owner wrote, although only
\* the first links of it are wiped when it is taken.
AllocatedIsZero ==
    [][\A p \in DOMAIN owned' \ DOMAIN owned :
          \A u \in Block(p, sh_getlist(sh', p)) : sh'.mem[u] = "zero"]_vars

=============================================================================
