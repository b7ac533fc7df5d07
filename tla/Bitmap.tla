------------------------------- MODULE Bitmap -------------------------------
(***************************************************************************)
(* The bitmap of util/bitmap.c: an array of words, each the set of its one *)
(* bits.  find_first skips whole words first, and reads a word before it   *)
(* compares the index with the size, so that the word behind the array may *)
(* be looked at: what it holds is `beyond', any set of bits.               *)
(***************************************************************************)
EXTENDS Integers

CONSTANTS
    NBits,      \* bitmap->size
    Width       \* BLOCK_SIZE, the bits of a bitmap_block_t

(* bitmap_init asks calloc for more than there is when nbits is 0.          *)
ASSUME BitmapAssumption == NBits \in Nat \ {0} /\ Width \in Nat \ {0}

VARIABLE words  \* bitmap->data

Bits == 0 .. NBits - 1
WordBits == 0 .. Width - 1
NWords == (NBits - 1) \div Width + 1

BlockIdx(b) == b \div Width
BitIdx(b) == b % Width

BitmapInit == words = [k \in 0 .. NWords - 1 |-> {}]

BitmapGet(b) == BitIdx(b) \in words[BlockIdx(b)]

Least(S) == CHOOSE x \in S : \A y \in S : x <= y

Word(k, beyond) == IF k < NWords THEN words[k] ELSE beyond

(* The words find_first does not skip, up to the one of the bit behind the  *)
(* last, ...                                                                *)
Candidates(skip, beyond) == {k \in 0 .. BlockIdx(NBits) : Word(k, beyond) # skip}

(* ... and the bits of a word that have the value and are within the size.  *)
Hits(k, value, beyond) ==
    {b \in WordBits : b < NBits - k * Width /\ (b \in Word(k, beyond) <=> value)}

(* Faulty variant of FindFirst: the bits behind the size count.             *)
FindFirstUnbounded(value, skip, beyond) ==
    IF Candidates(skip, beyond) = {} THEN -1
    ELSE LET k == Least(Candidates(skip, beyond))
             hits == {b \in WordBits : b \in Word(k, beyond) <=> value}
         IN IF hits = {} THEN -1 ELSE k * Width + Least(hits)

(* find_first: the first bit with the value in the first word that is not   *)
(* skipped, -1 if there is none.                                            *)
FindFirst(value, skip, beyond) ==
    IF Candidates(skip, beyond) = {} THEN -1
    ELSE LET k == Least(Candidates(skip, beyond))
             hits == Hits(k, value, beyond)
         IN IF hits = {} THEN -1 ELSE k * Width + Least(hits)

FirstSet(beyond) == FindFirst(TRUE, {}, beyond)
FirstClear(beyond) == FindFirst(FALSE, WordBits, beyond)

(* bitmap_set and bitmap_clear of each bit of a set.                        *)
BitmapSet(S) ==
    words' = [k \in DOMAIN words |->
                words[k] \cup {b \in WordBits : k * Width + b \in S}]
BitmapClear(S) ==
    words' = [k \in DOMAIN words |->
                words[k] \ {b \in WordBits : k * Width + b \in S}]

(* The bits behind the size stay zero.                                      *)
BitmapTypeOK ==
    /\ words \in [0 .. NWords - 1 -> SUBSET WordBits]
    /\ \A k \in 0 .. NWords - 1 : \A b \in words[k] : k * Width + b < NBits

(* "ecNotFound if all the bits in the bitmap are '1'" (bitmap.h:40), and    *)
(* the first clear bit otherwise, whatever lies behind the array; likewise  *)
(* for bitmap_first_set.                                                    *)
IsFirst(i, S) == IF S = {} THEN i = -1 ELSE i \in S /\ \A b \in S : i <= b

FirstInv ==
    \A beyond \in SUBSET WordBits :
        /\ IsFirst(FirstClear(beyond), {b \in Bits : ~ BitmapGet(b)})
        /\ IsFirst(FirstSet(beyond), {b \in Bits : BitmapGet(b)})
=============================================================================
