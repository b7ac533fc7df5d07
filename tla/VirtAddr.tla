------------------------------ MODULE VirtAddr ------------------------------
(***************************************************************************)
(* Virtual addresses: an address of the user is split into a page and an   *)
(* offset with shifts and masks (util/app_util.c), and moved on by adding  *)
(* to the offset and carrying pages (util/pcb_util.c).                     *)
(***************************************************************************)
EXTENDS Integers

CONSTANT PageSize   \* page_size

(* page_shift: how often the size can be halved before it is 1.             *)
PageShift ==
    LET halvings[n \in 0 .. PageSize] ==
            IF n <= 1 THEN 0 ELSE 1 + halvings[n \div 2]
    IN halvings[PageSize]

(* The size is a power of two (tests/app_util_tests.c tries no other): the  *)
(* masks cut an address at a bit.                                           *)
ASSUME PageSizeAssumption == PageSize \in Nat \ {0} /\ 2 ^ PageShift = PageSize

(* page_mask clears the bits below the shift, offset_mask the others.       *)
PageFromAddress(address) == address \div (2 ^ PageShift)
OffsetFromAddress(address) == address % (2 ^ PageShift)

MakeVirtAddr(address) ==
    [page |-> PageFromAddress(address), offset |-> OffsetFromAddress(address)]

(* Faulty variant of AdvanceVirtAddr: one page is carried at most, as after *)
(* an if in place of the loop.                                              *)
AdvanceOnePage(addr, offset) ==
    IF addr.offset + offset >= PageSize
    THEN [page |-> addr.page + 1, offset |-> addr.offset + offset - PageSize]
    ELSE [addr EXCEPT !.offset = @ + offset]

(* advance_virt_addr.                                                       *)
AdvanceVirtAddr(addr, offset) ==
    [page |-> addr.page + (addr.offset + offset) \div PageSize,
     offset |-> (addr.offset + offset) % PageSize]

(* The place of a virtual address in the memory of its process.             *)
Linear(addr) == addr.page * PageSize + addr.offset
=============================================================================
