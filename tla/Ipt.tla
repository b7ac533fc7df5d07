-------------------------------- MODULE Ipt --------------------------------
(***************************************************************************)
(* The inverted page table of vmsim/ipt.c: an entry per frame, hash lists  *)
(* threaded through the entries with next and prev, their heads in the     *)
(* hash anchor table (HAT), and the queue of free frames.  It implements   *)
(* the table of module PageTable.                                          *)
(*                                                                         *)
(* Every operation is one step: ipt.c takes no lock of its own, and its    *)
(* callers change the lists only under the write lock of the MMU, when     *)
(* nobody walks them.  What ipt_for_each_entry does is its callback's: the *)
(* aging of the entries is in PageTable and Vmm.                           *)
(***************************************************************************)
EXTENDS Integers, Sequences, Functions

CONSTANTS
    Pages,      \* virtual pages, <<pid, page>>
    NoPage,     \* the owner of a free frame, in PageTable
    NFrames,    \* ipt->size
    AgeMsb,     \* the most significant bit of page_age
    MaxRefCount \* bound: references between two resets of the count

ASSUME IptAssumption ==
    /\ Pages \subseteq Nat \X Nat
    /\ NoPage \notin Pages
    /\ NFrames \in Nat \ {0}
    /\ AgeMsb \in Nat \ {0}
    /\ MaxRefCount \in Nat

Frames == 0 .. NFrames - 1
INVALID == -1
Links == Frames \cup {INVALID}
ZeroAddr == <<0, 0>>    \* what calloc leaves in page_data.addr

VARIABLES
    addr, valid, dirty, referenced, age,    \* page_data of each entry
    next, prev,                             \* the hash lists
    hat,                                    \* their heads
    freePages,
    refCount

dataVars == <<dirty, referenced, age>>
listVars == <<addr, valid, next, prev, hat, freePages>>
iptVars == <<dataVars, listVars, refCount>>

IptTypeOK ==
    /\ addr \in [Frames -> Pages \cup {ZeroAddr}]
    /\ valid \in [Frames -> BOOLEAN]
    /\ dirty \in [Frames -> BOOLEAN]
    /\ referenced \in [Frames -> BOOLEAN]
    /\ age \in [Frames -> 0 .. 2 * AgeMsb - 1]
    /\ next \in [Frames -> Links] /\ prev \in [Frames -> Links]
    /\ hat \in [Frames -> Links]
    /\ freePages \in Seq(Frames)
    /\ refCount \in 0 .. MaxRefCount

(* Faulty variant of IptInit: the free queue is filled from 1.               *)
IptInitFromOne ==
    /\ addr = [f \in Frames |-> ZeroAddr]
    /\ valid = [f \in Frames |-> FALSE]
    /\ dirty = [f \in Frames |-> FALSE]
    /\ referenced = [f \in Frames |-> FALSE]
    /\ age = [f \in Frames |-> 0]
    /\ next = [f \in Frames |-> INVALID] /\ prev = [f \in Frames |-> INVALID]
    /\ hat = [f \in Frames |-> INVALID]
    /\ freePages = [i \in 1 .. NFrames |-> i]
    /\ refCount = 0

(* ipt_init and init_ipt_slot.                                              *)
IptInit ==
    /\ addr = [f \in Frames |-> ZeroAddr]
    /\ valid = [f \in Frames |-> FALSE]
    /\ dirty = [f \in Frames |-> FALSE]
    /\ referenced = [f \in Frames |-> FALSE]
    /\ age = [f \in Frames |-> 0]
    /\ next = [f \in Frames |-> INVALID] /\ prev = [f \in Frames |-> INVALID]
    /\ hat = [f \in Frames |-> INVALID]
    /\ freePages = [i \in 1 .. NFrames |-> i - 1]
    /\ refCount = 0

-----------------------------------------------------------------------------
Hash(a) == (a[1] * a[2]) % NFrames

(* The entries met by a walk along the hash list h, as a function of the    *)
(* number of steps; a list without a cycle ends within NFrames steps.       *)
Walk(h) ==
    LET at[n \in 0 .. NFrames] ==
            IF n = 0 THEN hat[h]
            ELSE IF at[n - 1] = INVALID THEN INVALID ELSE next[at[n - 1]]
    IN at

(* get_vaddr_idx: the first entry of its hash list with this address.       *)
VaddrIdx(a) ==
    LET at == Walk(Hash(a))
        Here(n) == at[n] # INVALID /\ addr[at[n]] = a
    IN IF \E n \in 0 .. NFrames : Here(n)
       THEN at[CHOOSE n \in 0 .. NFrames :
                   Here(n) /\ \A m \in 0 .. n - 1 : ~ Here(m)]
       ELSE INVALID

HasTranslation(a) == VaddrIdx(a) # INVALID

(* Faulty variant of LastOf: the last entry but one of a long list.         *)
LastOfShort(h) ==
    LET at == Walk(h)
    IN IF at[0] = INVALID THEN INVALID
       ELSE at[CHOOSE n \in 0 .. NFrames - 1 :
                   at[n] # INVALID /\ (at[n + 1] = INVALID \/ n = 1)]

(* ipt_hash_list_last_element.                                              *)
LastOf(h) ==
    LET at == Walk(h)
    IN IF at[0] = INVALID THEN INVALID
       ELSE at[CHOOSE n \in 0 .. NFrames - 1 :
                   at[n] # INVALID /\ at[n + 1] = INVALID]

(* ipt_add, for a page without a translation (the assertion of              *)
(* mmu_map_page): the frame at the head of the free queue goes to the end   *)
(* of the hash list.                                                        *)
Add(a) ==
    /\ ~ HasTranslation(a)
    /\ freePages # <<>>
    /\ LET new == Head(freePages)
           tail == LastOf(Hash(a))
           linked == IF tail = INVALID THEN next
                     ELSE [next EXCEPT ![tail] = new]
       IN /\ hat' = IF tail = INVALID THEN [hat EXCEPT ![Hash(a)] = new] ELSE hat
          /\ next' = [linked EXCEPT ![new] = INVALID]
          /\ prev' = [prev EXCEPT ![new] = tail]
          /\ addr' = [addr EXCEPT ![new] = a]
          /\ valid' = [valid EXCEPT ![new] = TRUE]
          /\ dirty' = [dirty EXCEPT ![new] = FALSE]
          /\ referenced' = [referenced EXCEPT ![new] = FALSE]
          /\ age' = [age EXCEPT ![new] = AgeMsb]
    /\ freePages' = Tail(freePages)
    /\ UNCHANGED refCount

(* Faulty variants of Remove: the HAT is not updated for the head of a      *)
(* list; the successor keeps its prev; the entry after the next is lost.    *)
RemoveKeepsHat(a) ==
    LET i == VaddrIdx(a)
    IN /\ i # INVALID
       /\ prev' = IF next[i] = INVALID THEN prev
                  ELSE [prev EXCEPT ![next[i]] = prev[i]]
       /\ next' = IF prev[i] = INVALID THEN next
                  ELSE [next EXCEPT ![prev[i]] = next[i]]
       /\ valid' = [valid EXCEPT ![i] = FALSE]
       /\ freePages' = Append(freePages, i)
       /\ UNCHANGED <<addr, dataVars, hat, refCount>>

RemoveKeepsPrev(a) ==
    LET i == VaddrIdx(a)
    IN /\ i # INVALID
       /\ hat' = IF prev[i] = INVALID THEN [hat EXCEPT ![Hash(a)] = next[i]]
                 ELSE hat
       /\ next' = IF prev[i] = INVALID THEN next
                  ELSE [next EXCEPT ![prev[i]] = next[i]]
       /\ valid' = [valid EXCEPT ![i] = FALSE]
       /\ freePages' = Append(freePages, i)
       /\ UNCHANGED <<addr, dataVars, prev, refCount>>

RemoveCutsList(a) ==
    LET i == VaddrIdx(a)
    IN /\ i # INVALID
       /\ hat' = IF prev[i] = INVALID THEN [hat EXCEPT ![Hash(a)] = next[i]]
                 ELSE hat
       /\ prev' = IF next[i] = INVALID THEN prev
                  ELSE [prev EXCEPT ![next[i]] = prev[i]]
       /\ next' = IF prev[i] = INVALID THEN next
                  ELSE [next EXCEPT ![prev[i]] = INVALID]
       /\ valid' = [valid EXCEPT ![i] = FALSE]
       /\ freePages' = Append(freePages, i)
       /\ UNCHANGED <<addr, dataVars, refCount>>

(* ipt_remove: the entry is unlinked and its frame queued; its own links    *)
(* and data stay as they are.                                               *)
Remove(a) ==
    LET i == VaddrIdx(a)
    IN /\ i # INVALID
       /\ hat' = IF prev[i] = INVALID THEN [hat EXCEPT ![Hash(a)] = next[i]]
                 ELSE hat
       /\ prev' = IF next[i] = INVALID THEN prev
                  ELSE [prev EXCEPT ![next[i]] = prev[i]]
       /\ next' = IF prev[i] = INVALID THEN next
                  ELSE [next EXCEPT ![prev[i]] = next[i]]
       /\ valid' = [valid EXCEPT ![i] = FALSE]
       /\ freePages' = Append(freePages, i)
       /\ UNCHANGED <<addr, dataVars, refCount>>

(* ipt_reference, for a read and for a write.                               *)
Reference(a, reftype) ==
    LET i == VaddrIdx(a)
    IN /\ i # INVALID
       /\ refCount < MaxRefCount
       /\ referenced' = [referenced EXCEPT ![i] = TRUE]
       /\ dirty' = IF reftype = "refWrite" THEN [dirty EXCEPT ![i] = TRUE]
                   ELSE dirty
       /\ refCount' = refCount + 1
       /\ UNCHANGED <<listVars, age>>

ZeroRefCount ==
    /\ refCount' = 0
    /\ UNCHANGED <<listVars, dataVars>>

IptNext ==
    \/ \E a \in Pages :
        \/ Add(a)
        \/ Remove(a)
        \/ \E reftype \in {"refRead", "refWrite"} : Reference(a, reftype)
    \/ ZeroRefCount

IptSpec == IptInit /\ [][IptNext]_iptVars

-----------------------------------------------------------------------------
(* The hash lists stay whole over any sequence of additions and removals:   *)
(* each ends, its links agree in both directions, it holds valid entries    *)
(* that hash to it and no other, and every valid entry is in one (the       *)
(* assertion of get_vaddr_idx).                                             *)
ListsInv ==
    /\ \A h \in Frames :
        LET at == Walk(h)
        IN /\ at[NFrames] = INVALID
           /\ \A n \in 0 .. NFrames - 1 : at[n] # INVALID =>
               /\ valid[at[n]] /\ Hash(addr[at[n]]) = h
               /\ prev[at[n]] = IF n = 0 THEN INVALID ELSE at[n - 1]
    /\ \A f \in Frames : valid[f] =>
        \E n \in 0 .. NFrames : Walk(Hash(addr[f]))[n] = f

(* ipt_translate finds the one valid entry of a page, wherever removals     *)
(* and the order of the free queue have put it, and no stale one.           *)
LookupInv ==
    \A a \in Pages :
        {f \in Frames : valid[f] /\ addr[f] = a} =
            IF HasTranslation(a) THEN {VaddrIdx(a)} ELSE {}

(* The lists implement the table that the MMU uses.                         *)
PT == INSTANCE PageTable WITH
    owner <- [f \in Frames |-> IF valid[f] THEN addr[f] ELSE NoPage]

PTRefined == PT!PTSpec
=============================================================================
