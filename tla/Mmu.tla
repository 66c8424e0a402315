--------------------------------- MODULE Mmu ----------------------------------
(***************************************************************************)
(* The MMU of Lab/Ideal_Indirection (mmu.c, page_table.c, kernel.c, tlb.c) *)
(* under simulator.c: one thread per process translates its addresses over *)
(* and over. A translation runs with m held, so it is one action.          *)
(*                                                                         *)
(* What malloc and calloc return is a number that was never returned       *)
(* before; a frame f spans the addresses f * 2^OFFSET_LENGTH onwards.      *)
(***************************************************************************)
EXTENDS Tlb, FiniteSets

CONSTANTS Processes,            \* the threads of the simulator
          num_addresses, num_iterations,
          VirtualAddresses,     \* the values rand() gives for an address
          MAX_PROCESS_ID, PAGE_NUMBER_LENGTH, OFFSET_LENGTH

VARIABLES
    process,           \* the pid and the virtual_addresses of each thread
    done,              \* how many translations each thread has made
    tlb,               \* mmu->tlb
    base_pts,          \* mmu->base_pts
    tables, frames,    \* the page tables and the frames that are allocated
    num_page_faults, num_tlb_misses,
    deleted,           \* MMU_delete has run
    double_free,       \* it freed something twice
    last,              \* history: the page asked for last, and of which process
    answers            \* history: who asked for what and was told what

counters == <<num_page_faults, num_tlb_misses>>
vars == <<process, done, tlb, base_pts, tables, frames, counters, deleted,
          double_free, last, answers>>

Pids == 0 .. MAX_PROCESS_ID - 1
FrameSize == 2 ^ OFFSET_LENGTH
Fan == 2 ^ PAGE_NUMBER_LENGTH        \* PAGETABLE_SIZE

-----------------------------------------------------------------------------
\* How many addresses an entry spans in a table of the third, the second and the
\* first level.
Span == <<FrameSize, Fan * FrameSize, Fan * Fan * FrameSize>>

\* The parts of a virtual address.
key(va)    == (va % (Fan * Span[3])) \div Span[1]
vpn1(va)   == (va % (Fan * Span[3])) \div Span[3]
vpn2(va)   == (va % Span[3]) \div Span[2]

\* Variant: shifted by one page number too many.
vpn3_WrongShift(va) == (va % Span[3]) \div Span[2]

vpn3(va)   == (va % Span[2]) \div Span[1]
offset(va) == va % FrameSize

\* The tables have room for every address, and NULL is nobody's.
ASSUME SpanAssumption ==
    /\ Fan \in Nat \ {0} /\ FrameSize \in Nat \ {0}
    /\ VirtualAddresses \subseteq 0 .. Fan * Span[3] - 1
    /\ MAX_PROCESS_ID \in Nat /\ MAX_NODES \in Nat \ {0, 1}
    /\ num_addresses \in Nat /\ num_iterations \in Nat /\ NULL \notin Nat

PageTable_create == [i \in 0 .. Fan - 1 |-> NULL]

\* The memory while a translation walks the tables.
Memory == [tables |-> tables, frames |-> frames, faults |-> num_page_faults]

fresh(mem) == 1 + Cardinality(DOMAIN mem.tables \cup mem.frames)

\* Entry i of the table pt, after a page fault if it was NULL: it then holds
\* an empty page table, or a frame if pt is of the third level.
Resolve(mem, pt, i, is_frame) ==
    LET new == fresh(mem)
        set == [mem.tables EXCEPT ![pt][i] = new]
    IN  IF mem.tables[pt][i] # NULL THEN mem
        ELSE [tables |-> IF is_frame THEN set
                         ELSE [x \in DOMAIN set \cup {new} |->
                                 IF x = new THEN PageTable_create ELSE set[x]],
              frames |-> IF is_frame THEN mem.frames \cup {new} ELSE mem.frames,
              faults |-> mem.faults + 1]

Hit(va, pid) ==
    /\ TLB_get_physical_address(tlb, key(va), pid) # NULL
    /\ UNCHANGED <<tables, frames, counters>>
    /\ tlb' = Promoted(tlb, key(va), pid)

Miss(va, pid) ==
    /\ TLB_get_physical_address(tlb, key(va), pid) = NULL
    /\ LET pt1  == base_pts[pid]
           mem1 == Resolve(Memory, pt1, vpn1(va), FALSE)
           pt2  == mem1.tables[pt1][vpn1(va)]
           mem2 == Resolve(mem1, pt2, vpn2(va), FALSE)
           pt3  == mem2.tables[pt2][vpn2(va)]
           mem3 == Resolve(mem2, pt3, vpn3(va), TRUE)
       IN  /\ tables' = mem3.tables
           /\ frames' = mem3.frames
           /\ num_page_faults' = mem3.faults
           /\ tlb' = TLB_add_physical_address(Promoted(tlb, key(va), pid), key(va), pid,
                                              mem3.tables[pt3][vpn3(va)])
    /\ num_tlb_misses' = num_tlb_misses + 1

\* After a hit and after a miss the node of the page is in front.
MMU_get_physical_address(va, pid) ==
    /\ Hit(va, pid) \/ Miss(va, pid)
    /\ last' = <<pid, va \div FrameSize>>
    /\ answers' = answers \cup
         {[pid |-> pid, va |-> va, pa |-> tlb'[1].value * FrameSize + offset(va)]}
    /\ UNCHANGED <<process, base_pts, deleted, double_free>>

-----------------------------------------------------------------------------
\* MMU_create gives every process its first level table.
MMU_create ==
    /\ base_pts = [pid \in Pids |-> pid + 1]
    /\ tables = [t \in 1 .. MAX_PROCESS_ID |-> PageTable_create]
    /\ frames = {}
    /\ tlb = TLB_create
    /\ num_page_faults = 0 /\ num_tlb_misses = 0

Init ==
    /\ MMU_create
    /\ process \in [Processes -> [pid : Pids,
                                  virtual_addresses : [1 .. num_addresses -> VirtualAddresses]]]
    /\ done = [p \in Processes |-> 0]
    /\ deleted = FALSE /\ double_free = FALSE
    /\ last = NULL /\ answers = {}

\* One turn of the inner loop of a thread.
get_physical_addresses(p) ==
    /\ done[p] < num_iterations * num_addresses
    /\ done' = [done EXCEPT ![p] = @ + 1]
    /\ MMU_get_physical_address(
           process[p].virtual_addresses[1 + (done[p] % num_addresses)], process[p].pid)

Children(pt) == {tables[pt][i] : i \in {j \in DOMAIN tables[pt] : tables[pt][j] # NULL}}

\* Variant: the third level tables are freed, their frames are not.
Freed_NotFrames(pid) ==
    LET below == UNION {Children(pt) : pt \in Children(base_pts[pid])}
    IN  {base_pts[pid]} \cup Children(base_pts[pid]) \cup below

\* What Pagetable_delete_tree frees for a process.
Freed(pid) ==
    LET below == UNION {Children(pt) : pt \in Children(base_pts[pid])}
    IN  {base_pts[pid]} \cup Children(base_pts[pid]) \cup below
            \cup UNION {Children(pt) : pt \in below}

\* The places in live tables that point to x.
Pointers(x) == {p \in (DOMAIN tables) \X (0 .. Fan - 1) : tables[p[1]][p[2]] = x}

\* The memory is freed tree by tree: twice, if two entries point to it.
MMU_delete ==
    LET all == UNION {Freed(pid) : pid \in Pids}
    IN  /\ \A p \in Processes : done[p] = num_iterations * num_addresses
        /\ ~deleted
        /\ deleted' = TRUE
        /\ double_free' = \E x \in all : Cardinality(Pointers(x)) > 1
        /\ tables' = [t \in DOMAIN tables \ all |-> tables[t]]
        /\ frames' = frames \ all
        /\ tlb' = << >>
        /\ UNCHANGED <<process, done, base_pts, counters, last, answers>>

Next == MMU_delete \/ \E p \in Processes : get_physical_addresses(p)

Spec == Init /\ [][Next]_vars

-----------------------------------------------------------------------------
\* Entries point to what is allocated, and the TLB keeps its size.
TypeOK ==
    /\ done \in [Processes -> 0 .. num_iterations * num_addresses]
    /\ \A t \in DOMAIN tables : Children(t) \subseteq DOMAIN tables \cup frames
    /\ Len(tlb) <= MAX_NODES
    /\ ToSet(tlb) \subseteq {Sentinel} \cup [key : 0 .. Fan * Fan * Fan - 1, pid : Pids, value : frames]

SamePage(a, b) == a.pid = b.pid /\ a.va \div FrameSize = b.va \div FrameSize

\* Whatever was evicted and looked up again in between, and whichever processes
\* drew the same pid: the addresses of one page are translated into one frame,
\* each at its offset, and no two addresses into the same physical one
\* (mmu_test.c:52, 108, 141).
TranslationsConsistent ==
    /\ TypeOK
    /\ \A a, b \in answers :
          /\ SamePage(a, b) => a.pa - b.pa = a.va - b.va
          /\ a.pa = b.pa => a.pid = b.pid /\ a.va = b.va

\* Page faults are raised once for each table and frame that a process needs,
\* never again after an eviction (mmu_test.c:33, 76, 109).
FaultsExact ==
    num_page_faults =
        Cardinality({<<a.pid, n, a.va \div Span[n]>> : a \in answers, n \in 1 .. 3})

\* MMU_delete returns every page table and every frame, each of them once.
EverythingFreed == deleted => tables = << >> /\ frames = {} /\ ~double_free

\* The nodes other than the sentinel, as long as it stays behind them.
SentinelLast == Contains(tlb, Sentinel) => Last(tlb) = Sentinel
held == IF Contains(tlb, Sentinel) THEN Front(tlb) ELSE tlb

\* They are those of an LRU cache of MAX_NODES translations and num_tlb_misses
\* counts its misses. Page 0 of process 0 brings the sentinel to the front like
\* any node, and then it takes the place of a translation. MMU_delete ends the
\* cache.
Lru == INSTANCE AbstractLru
         WITH recent <- [i \in DOMAIN held |-> <<held[i].pid, held[i].key>>],
              used <- last,
              misses <- num_tlb_misses,
              Capacity <- MAX_NODES
ImplementsLru ==
    Lru!Init /\ [][SentinelLast /\ SentinelLast' /\ ~deleted' => Lru!Next]_vars
=============================================================================
