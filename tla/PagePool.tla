------------------------------ MODULE PagePool ------------------------------
(***************************************************************************)
(* A memory pool of a fixed number of pages with a bitmap                  *)
(* (misc/page_pool.c), with the operations of LinkedPool.  What does not   *)
(* fit, and what comes when every page is taken, goes to the system.  The  *)
(* bitmap is the set of the pages that are out; there is no lock.          *)
(***************************************************************************)
EXTENDS Integers, FiniteSetsExt

CONSTANTS
    Pages,        (* pages of all blocks of the pool *)
    NULL

Page == 1 .. Pages

(* paged_mem_pool_new_raw. *)
NewPool ==
    [kind |-> "paged", chain |-> <<>>, out |-> {}, large |-> 0, cores |-> 1,
     torn |-> FALSE, refused |-> FALSE,
     used |-> 0, free |-> Pages, total |-> Pages, extra |-> 0, prev |-> 0]

(* The fallback: nothing but the header says that it is not in the pool. *)
Fallback(p) ==
    {[got |-> NULL, pool |-> p], [got |-> NULL, pool |-> [p EXCEPT !.large = @ + 1]]}

(* paged_mem_pool_malloc: the lowest page that is free. *)
Malloc(p, size) ==
    IF size = "large" \/ p.free = 0 THEN Fallback(p)
    ELSE LET page == Min(Page \ p.out)
         IN {[got |-> page, pool |-> [p EXCEPT !.out = @ \union {page},
                                               !.used = @ + 1, !.free = @ - 1]]}

(* paged_mem_pool_free, of a page and of what the system gave. *)
Free(p, b) == [p EXCEPT !.out = @ \ {b}, !.used = @ - 1, !.free = @ + 1]
FreeLarge(p) == [p EXCEPT !.large = @ - 1]

(* virtual_machine_resource_pool_page_lack: more than half is used. *)
Lacks(p) == 2 * p.used > p.total
=============================================================================
