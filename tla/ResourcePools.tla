---------------------------- MODULE ResourcePools ----------------------------
(***************************************************************************)
(* The memory of a virtual machine (gc/vm_res.c): one source per region,   *)
(* of the type the startup settings name, and the collection that is made  *)
(* when a source lacks memory and told the source about afterwards         *)
(* (virtual_machine_garbage_collect_and_feedback, gc/vm_gc.c).  Requests   *)
(* come from the loop, from the collector (threads for destructors) and    *)
(* from host threads that make arguments of external events without the    *)
(* global lock, so also between the two ends of a collection.              *)
(***************************************************************************)
EXTENDS Integers, Sequences, FiniteSets

CONSTANTS
    Settings,     (* the functions from regions to types of sources *)
    BlockCount, MaxCores, Large, Width, Pages, NULL,
    MaxLarge      (* bound, per setting: blocks of the system that are out *)

Linked == INSTANCE LinkedPool
Paged == INSTANCE PagePool

(* Regions whose objects the collector frees: the only ones that are asked *)
(* and told.  INFRASTRUCTURE is the third one.                             *)
Collected == {"PRIMITIVE", "REFERENCE"}
Region == Collected \union {"INFRASTRUCTURE"}

ASSUME PoolAssumption ==
    /\ BlockCount \in Nat \ {0} /\ MaxCores \in Nat \ {0} /\ Pages \in Nat \ {0}
    /\ Large \in Nat \ {0} /\ Width \in Nat \ {0}
    /\ Width > MaxCores * BlockCount /\ Width > Pages
    /\ NULL \notin Int

ASSUME SettingsAssumption ==
    /\ Settings \subseteq [Region -> {"plain", "linked", "paged"}]
    /\ MaxLarge \in [Settings -> Nat]

VARIABLES
    pool,      (* per region: the pool of its source *)
    mode,      (* run, or collect between the question and the feedback *)
    asked,     (* history: the regions that said that they lack *)
    before     (* history: what was out when it began *)

vars == <<pool, mode, asked, before>>

(* virtual_machine_resource_pool_plain_init: malloc and free of the system. *)
PlainPool == [Linked!Empty EXCEPT !.kind = "plain"]

(* Outside a collection nothing is remembered. *)
Unasked == [r \in Region |-> [used |-> 0]]

(* virtual_machine_resource_new. *)
Init ==
    /\ \E s \in Settings :
        pool \in {p \in [Region -> {PlainPool, Paged!NewPool} \union Linked!NewPool] :
                     \A r \in Region : p[r].kind = s[r]}
    /\ mode = "run"
    /\ asked = {}
    /\ before = Unasked

(* A core that was given back while its blocks are in the chain: whatever  *)
(* comes next touches freed memory, and the model ends here.               *)
Torn == \E r \in Region : pool[r].torn

Plain(p) ==
    {[got |-> NULL, pool |-> p], [got |-> NULL, pool |-> [p EXCEPT !.large = @ + 1]]}

SystemBlocks == pool["INFRASTRUCTURE"].large + pool["PRIMITIVE"].large + pool["REFERENCE"].large
Setting == [r \in Region |-> pool[r].kind]

(* virtual_machine_resource_malloc, _malloc_primitive, _malloc_reference. *)
Outcomes(p, size) ==
    CASE p.kind = "linked" -> Linked!Malloc(p, size)
      [] p.kind = "paged" -> Paged!Malloc(p, size)
      [] OTHER -> Plain(p)

Request(r, size) ==
    /\ ~Torn
    /\ \E o \in Outcomes(pool[r], size) :
        /\ o.pool.large > pool[r].large => SystemBlocks < MaxLarge[Setting]
        /\ pool' = [pool EXCEPT ![r] = o.pool]
    /\ UNCHANGED <<mode, asked, before>>

(* virtual_machine_resource_free, _free_primitive, _free_reference. *)
GiveBack(r) ==
    /\ ~Torn
    /\ \E b \in pool[r].out :
        pool' = [pool EXCEPT ![r] = IF @.kind = "linked" THEN Linked!Free(@, b)
                                    ELSE Paged!Free(@, b)]
    /\ UNCHANGED <<mode, asked, before>>

GiveBackLarge(r) ==
    /\ ~Torn /\ pool[r].large > 0
    /\ pool' = [pool EXCEPT ![r] = Linked!FreeLarge(@)]
    /\ UNCHANGED <<mode, asked, before>>

Lacks(p) ==
    CASE p.kind = "linked" -> Linked!Lacks(p)
      [] p.kind = "paged" -> Paged!Lacks(p)
      [] OTHER -> FALSE

(* The regions that virtual_machine_resource_lack asks and that say yes:   *)
(* REFERENCE is asked when PRIMITIVE says no.                              *)
Asked ==
    IF Lacks(pool["PRIMITIVE"]) THEN {"PRIMITIVE"}
    ELSE IF Lacks(pool["REFERENCE"]) THEN {"REFERENCE"} ELSE {}

(* The end of a time slice: a collection begins if a region lacks memory. *)
AskForCollection ==
    /\ ~Torn /\ mode = "run"
    /\ Asked # {}
    /\ mode' = "collect"
    /\ asked' = Asked
    /\ pool' = [r \in Region |-> IF r \in Asked /\ pool[r].kind = "linked"
                                 THEN Linked!Lack(pool[r]) ELSE pool[r]]
    /\ before' = [r \in Region |-> [used |-> pool[r].used]]

(* virtual_machine_resource_feedback: only linked sources have a feedback. *)
EndCollection ==
    /\ ~Torn /\ mode = "collect"
    /\ mode' = "run"
    /\ \E fed \in [Collected -> UNION {Linked!Feedback(pool[r]) : r \in Collected}
                                \union {pool[r] : r \in Collected}] :
        /\ \A r \in Collected :
              fed[r] \in IF pool[r].kind = "linked" THEN Linked!Feedback(pool[r]) ELSE {pool[r]}
        /\ pool' = [r \in Region |-> IF r \in Collected THEN fed[r] ELSE pool[r]]
    /\ asked' = {}
    /\ before' = Unasked

Next ==
    \/ AskForCollection \/ EndCollection
    \/ \E r \in Region : Request(r, "small") \/ Request(r, "large")
                         \/ GiveBack(r) \/ GiveBackLarge(r)

Spec == Init /\ [][Next]_vars
-----------------------------------------------------------------------------
ChainSet(p) == {p.chain[i] : i \in 1 .. Len(p.chain)}

TypeOK ==
    /\ \A r \in Region :
        /\ pool[r].kind \in {"plain", "linked", "paged"}
        /\ pool[r].out \union ChainSet(pool[r]) \subseteq
              IF pool[r].kind = "paged" THEN Paged!Page ELSE 1 .. (MaxCores + 1) * BlockCount
        /\ {pool[r].used, pool[r].free, pool[r].total, pool[r].extra, pool[r].prev}
              \subseteq 0 .. Width - 1
        /\ pool[r].large \in 0 .. MaxLarge[Setting]
    /\ mode \in {"run", "collect"}
    /\ asked \subseteq Collected

(* No block is given to two holders: a block of a linked pool is in the    *)
(* chain once or out, never both.                                          *)
EveryBlockOnce ==
    \A r \in Region :
        /\ \A i, j \in 1 .. Len(pool[r].chain) : i # j => pool[r].chain[i] # pool[r].chain[j]
        /\ ChainSet(pool[r]) \intersect pool[r].out = {}

(* The counters that decide on collections say what is out and what there  *)
(* is, however requests, growth that fails half way and frees follow each  *)
(* other (a page pool never runs dry of pages it counts as free).          *)
CountersExact ==
    \A r \in Region :
        pool[r].kind # "plain" /\ ~pool[r].torn =>
            /\ pool[r].used = Cardinality(pool[r].out)
            /\ pool[r].free + pool[r].used = pool[r].total
            /\ pool[r].kind = "linked" =>
                  pool[r].free = Len(pool[r].chain) /\ pool[r].total = pool[r].cores * BlockCount

(* A quarter of the pool was collected since the collection began, or the  *)
(* pool grew, or the system had no memory for that.                        *)
Satisfied(r) ==
    \/ 4 * (before[r].used - pool[r].used) >= pool[r].total
    \/ pool'[r].total > pool[r].total
    \/ pool'[r].refused

(* A region that is asked and says that it lacks has room for more when    *)
(* the collection ends, if the others did not ask for more than they gave  *)
(* back meanwhile: a collection that finds nothing is not repeated for     *)
(* ever at the end of every slice.                                         *)
CollectionHelps ==
    [][mode = "collect" /\ mode' = "run" =>
        \A r \in asked :
            pool[r].kind = "linked" /\ pool[r].used <= before[r].used => Satisfied(r)]_vars

(* Every source gives blocks as the abstract allocator promises. *)
Promise ==
    INSTANCE Allocator WITH
        Blocks <- 1 .. Pages + (MaxCores + 1) * BlockCount,
        held <- [r \in Region |-> pool[r].out],
        stock <- [r \in Region |-> pool[r].out \union
                     IF pool[r].kind = "paged" THEN Paged!Page ELSE ChainSet(pool[r])]

ImplementsAllocator == Promise!Spec

(* A block has one place, in its pool or with its holder, and the counters *)
(* that decide on growth and on collections say how many are where.        *)
Consistent == TypeOK /\ EveryBlockOnce /\ CountersExact
=============================================================================
