----------------------------- MODULE LinkedPool -----------------------------
(***************************************************************************)
(* A memory pool of blocks of one size (misc/linked_pool.c), as a record   *)
(* and operations that return the set of their outcomes, one for each      *)
(* answer of the system's malloc.  Every operation of the code holds the   *)
(* lock of the pool from start to end.  Blocks are numbered; sizes are     *)
(* counted in blocks, and wrap at Width as a size_t does.                  *)
(***************************************************************************)
EXTENDS Integers, Sequences, FiniteSets

CONSTANTS
    BlockCount,   (* pool->block_count: blocks of one core *)
    MaxCores,     (* bound: the cores the system has memory for *)
    Large,        (* size of a request that does not fit into a block *)
    Width,        (* a size_t counts modulo Width *)
    NULL

Block == 1 .. MaxCores * BlockCount

(* The blocks of the core that is made when there are n cores. *)
CoreBlocks(n) == [i \in 1 .. BlockCount |-> n * BlockCount + i]

(* torn: a core was given back while its blocks are in the chain; refused: *)
(* the system refused memory for a core once (history).                    *)
Empty ==
    [kind |-> "linked", chain |-> <<>>, out |-> {}, large |-> 0, cores |-> 0,
     torn |-> FALSE, refused |-> FALSE,
     used |-> 0, free |-> 0, total |-> 0, extra |-> 0, prev |-> 0]

(* linked_mem_pool_generate_new_core: refused for the core or its nodes it *)
(* leaves the pool as it was; refused for the record of the core it frees  *)
(* core and nodes, but the nodes are already in the chain.                 *)
Generate(p) ==
    LET filled == [p EXCEPT !.chain = @ \o CoreBlocks(p.cores)]
    IN {[ok |-> FALSE, pool |-> [p EXCEPT !.refused = TRUE]],
        [ok |-> FALSE, pool |-> [filled EXCEPT !.refused = TRUE, !.torn = TRUE]]}
       \union (IF p.cores < MaxCores
               THEN {[ok |-> TRUE, pool |-> [filled EXCEPT !.cores = @ + 1]]} ELSE {})

(* The counters follow each of the two cores. *)
Count(p) == [p EXCEPT !.total = (@ + BlockCount) % Width, !.free = (@ + BlockCount) % Width]

(* linked_mem_pool_new_raw: the pools there may be at the start. *)
NewPool == {Count(g.pool) : g \in {h \in Generate(Empty) : h.ok}}

(* Mutant: the counters are only brought up to date once. *)
ExtendCountsOnce(p) ==
    LET first == Generate(p)
    IN {g \in first : ~g.ok}
       \union UNION {{IF h.ok THEN [h EXCEPT !.pool = Count(@)] ELSE h : h \in Generate(g.pool)} :
                     g \in {h \in first : h.ok}}

(* linked_mem_pool_extend: two new cores, the counters after each. *)
Extend(p) ==
    LET first == Generate(p)
    IN {g \in first : ~g.ok}
       \union UNION {{IF h.ok THEN [h EXCEPT !.pool = Count(@)] ELSE h :
                         h \in Generate(Count(g.pool))} : g \in {h \in first : h.ok}}

(* Mutant: the chain is emptied although there are more blocks. *)
PickLosesRest(p) ==
    [got |-> Head(p.chain),
     pool |-> [p EXCEPT !.chain = <<>>, !.out = @ \union {Head(p.chain)},
                        !.used = (@ + 1) % Width, !.free = (@ - 1) % Width]]

(* linked_mem_pool_chain_pick and the bookkeeping of linked_mem_pool_malloc. *)
Pick(p) ==
    [got |-> Head(p.chain),
     pool |-> [p EXCEPT !.chain = Tail(@), !.out = @ \union {Head(p.chain)},
                        !.used = (@ + 1) % Width, !.free = (@ - 1) % Width]]

(* linked_mem_pool_malloc.  A large request goes to the system and is only *)
(* added up; a small one takes the head of the chain, which is extended    *)
(* when it is empty: extension that fails, half of it too, fails the       *)
(* request.                                                                *)
Malloc(p, size) ==
    IF size = "large"
    THEN {[got |-> NULL, pool |-> p],
          [got |-> NULL, pool |-> [p EXCEPT !.large = @ + 1, !.extra = (@ + Large) % Width]]}
    ELSE IF p.chain # <<>> THEN {Pick(p)}
    ELSE {IF e.ok THEN Pick(e.pool) ELSE [got |-> NULL, pool |-> e.pool] : e \in Extend(p)}

(* linked_mem_pool_free of block b: to the end of the chain. *)
Free(p, b) ==
    [p EXCEPT !.chain = Append(@, b), !.out = @ \ {b},
              !.used = (@ - 1) % Width, !.free = (@ + 1) % Width]

(* linked_mem_pool_free of a large block: given back, still added up. *)
FreeLarge(p) == [p EXCEPT !.large = @ - 1]

(* linked_mem_pool_lack: more than three quarters are used, or eight times *)
(* the pool was asked for outside of it. *)
Lacks(p) == 4 * p.used > 3 * p.total \/ p.extra > 8 * p.total

(* The use of the pool is recorded for the feedback if it lacks. *)
Lack(p) == IF Lacks(p) THEN [p EXCEPT !.prev = p.used] ELSE p

(* Mutant: the comparison of the feedback is the other way round. *)
FeedbackInverted(p) ==
    IF 4 * ((p.prev - p.used) % Width) >= p.total THEN {e.pool : e \in Extend(p)} ELSE {p}

(* linked_mem_pool_feedback: extended if less than a quarter was collected *)
(* since the use was recorded. *)
Feedback(p) ==
    IF 4 * ((p.prev - p.used) % Width) < p.total THEN {e.pool : e \in Extend(p)} ELSE {p}
=============================================================================
