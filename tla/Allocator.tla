----------------------------- MODULE Allocator ------------------------------
(***************************************************************************)
(* The allocator of libclap (clap_allocator.c): three function pointers    *)
(* and a lock.  The client may replace the functions until the library     *)
(* allocates for the first time.  Memory is a number of live blocks for    *)
(* each family of functions, the C library's and the client's; the modules *)
(* that allocate say in each action how many blocks they take and release. *)
(***************************************************************************)
EXTENDS Integers, FiniteSetsExt

VARIABLES
    mallocFn,    \* the family of g_allocator.malloc_fn
    freeFn,      \* of g_allocator.free_fn
    reallocFn,   \* of g_allocator.realloc_fn
    locked,      \* g_allocator.locked
    live         \* of each malloc, the blocks it gave and free did not take

allocator == <<mallocFn, freeFn, reallocFn, locked, live>>

Family == {"default", "client"}

AllocatorTypeOK ==
    /\ {mallocFn, freeFn, reallocFn} \subseteq Family
    /\ locked \in BOOLEAN
    /\ live \in [Family -> Nat]

AllocatorInit ==
    /\ mallocFn = "default" /\ freeFn = "default" /\ reallocFn = "default"
    /\ locked = FALSE
    /\ live = [f \in Family |-> 0]

OrDefault(fn) == IF fn = "NULL" THEN "default" ELSE fn

\* Mutation for OneFamily: the lock is not looked at.
SetAllocatorAnytime(malloc, free, realloc) ==
    /\ mallocFn' = OrDefault(malloc)
    /\ freeFn' = OrDefault(free)
    /\ reallocFn' = OrDefault(realloc)
    /\ locked' = TRUE
    /\ UNCHANGED live

\* clap_set_allocator, which does nothing once the allocator is locked.
SetAllocator(malloc, free, realloc) ==
    /\ ~locked
    /\ mallocFn' = OrDefault(malloc)
    /\ freeFn' = OrDefault(free)
    /\ reallocFn' = OrDefault(realloc)
    /\ locked' = TRUE
    /\ UNCHANGED live

(***************************************************************************)
(* A call of the library that gets made blocks of clap_malloc, clap_calloc *)
(* or clap_strdup and hands freed blocks to clap_free; both may be zero.   *)
(* A block that is released is taken from the count of free's family.  A   *)
(* block that clap_realloc replaces stays one block here; that another     *)
(* family's realloc replaced it, the module that reallocates keeps.        *)
(***************************************************************************)
Allocates(made, freed) ==
    /\ locked' = TRUE
    /\ live' = [[live EXCEPT ![mallocFn] = @ + made] EXCEPT ![freeFn] = @ - freed]
    /\ UNCHANGED <<mallocFn, freeFn, reallocFn>>

Live == MapThenSumSet(LAMBDA f : live[f], Family)

\* clap_realloc would call the function of another family than the block's.
ReallocIsForeign == \E f \in Family : live[f] # 0 /\ reallocFn # f
=============================================================================
