-------------------------- MODULE ResourcesProofs --------------------------
(***************************************************************************)
(* What is proved of Resources: that the bitmap finds the first page       *)
(* whatever lies behind its words, that the block of a process is its own, *)
(* that words and arrays make the store that is promised, and the nodes of *)
(* the queues first-in first-out mailboxes.                                *)
(***************************************************************************)
EXTENDS Resources, Sequences, TLAPS, WellFoundedInduction

(* Arithmetic.                                                              *)
LEMMA DivMod ==
    ASSUME NEW a \in Int, NEW m \in Nat \ {0}
    PROVE  /\ a \div m \in Int /\ a % m \in 0 .. m - 1
           /\ a = (a \div m) * m + (a % m)
           /\ (a \div m) * m <= a /\ a < (a \div m) * m + m
OBVIOUS

LEMMA DivUnique ==
    ASSUME NEW k \in Int, NEW b \in Int, NEW m \in Nat \ {0}, 0 <= b, b < m
    PROVE  /\ (k * m + b) \div m = k /\ (k * m + b) % m = b
OBVIOUS

LEMMA DivNat ==
    ASSUME NEW a \in Nat, NEW m \in Nat \ {0}
    PROVE  a \div m \in Nat
OBVIOUS

LEMMA TimesLess ==
    ASSUME NEW k \in Int, NEW l \in Int, NEW m \in Nat, k < l
    PROVE  k * m + m <= l * m
<1>1. (l - k - 1) * m >= 0
  OBVIOUS
<1> QED BY <1>1

(* A set of natural numbers has a least element.                            *)
LEMMA LeastNat ==
    ASSUME NEW S \in SUBSET Nat, S # {}
    PROVE  Least(S) \in S /\ \A y \in S : Least(S) <= y
<1>1. IsWellFoundedOn(OpToRel(<, Nat), Nat)
  BY NatLessThanWellFounded
<1>2. \E x \in S : \A y \in S : ~ (<<y, x>> \in OpToRel(<, Nat))
  BY <1>1, WFMin, Zenon
<1>3. \A x, y \in S : y < x => <<y, x>> \in OpToRel(<, Nat)
  BY DEF OpToRel
<1>4. \E x \in S : \A y \in S : ~ (y < x)
  BY <1>2, <1>3, Zenon
<1>5. \E x \in S : \A y \in S : x <= y
  BY <1>4
<1> QED BY <1>5, Zenon DEF Least

-----------------------------------------------------------------------------
(* The bitmap.                                                              *)

(* A bit has a place in a word, ...                                         *)
LEMMA BitPlace ==
    ASSUME NEW b \in Bits
    PROVE  /\ BlockIdx(b) \in 0 .. NWords - 1 /\ BitIdx(b) \in WordBits
           /\ b = BlockIdx(b) * Width + BitIdx(b)
<1>1. /\ b \in Nat /\ NBits - 1 \in Nat /\ Width \in Nat \ {0} /\ b <= NBits - 1
      /\ b \in Int /\ NBits - 1 \in Int /\ Width \in Nat
  BY BitmapAssumption DEF Bits
<1> DEFINE k == b \div Width
           l == (NBits - 1) \div Width
<1>2. /\ k \in Nat /\ b % Width \in 0 .. Width - 1
      /\ b = k * Width + (b % Width) /\ k * Width <= b
  BY <1>1, DivMod, DivNat, Zenon
<1>3. l \in Nat /\ NBits - 1 < l * Width + Width
  BY <1>1, DivMod, DivNat, Zenon
<1>4. k <= l
  <2> HIDE DEF k, l
  <2>1. SUFFICES ASSUME l < k PROVE FALSE
    BY <1>2, <1>3
  <2>2. l * Width + Width <= k * Width
    BY <1>1, <1>2, <1>3, <2>1, TimesLess
  <2> QED BY <1>1, <1>2, <1>3, <2>2
<1> QED BY <1>1, <1>2, <1>3, <1>4 DEF BlockIdx, BitIdx, NWords, WordBits

(* ... and a place in a word is a bit, unless it lies behind the size.      *)
LEMMA PlaceBit ==
    ASSUME NEW k \in Nat, NEW b \in WordBits
    PROVE  /\ BlockIdx(k * Width + b) = k /\ BitIdx(k * Width + b) = b
           /\ k * Width + b \in Nat
           /\ k * Width + b < NBits => k * Width + b \in Bits
<1>1. Width \in Nat \ {0} /\ NBits \in Nat /\ b \in Int /\ 0 <= b /\ b < Width
  BY BitmapAssumption DEF WordBits
<1>2. k * Width \in Nat
  BY <1>1
<1> QED BY <1>1, <1>2, DivUnique DEF BlockIdx, BitIdx, Bits

(* The word that find_first looks at last is the last one, or, if the last  *)
(* one is full, the one behind it.                                          *)
LEMMA LastWord ==
    /\ NWords \in Nat /\ BlockIdx(NBits) \in Nat /\ BlockIdx(NBits) <= NWords
    /\ NWords - 1 <= BlockIdx(NBits)
    /\ BlockIdx(NBits) = NWords => NBits = NWords * Width
<1> DEFINE q == (NBits - 1) \div Width
           r == (NBits - 1) % Width
<1>1. /\ Width \in Nat \ {0} /\ NBits \in Nat /\ NBits - 1 \in Nat
      /\ NBits - 1 \in Int
  BY BitmapAssumption
<1>2. q \in Nat /\ r \in 0 .. Width - 1 /\ NBits - 1 = q * Width + r
  BY <1>1, DivMod, DivNat, Zenon
<1>3. NWords = q + 1
  BY DEF NWords
<1> HIDE DEF q, r
<1>4. CASE r = Width - 1
  <2>1. NBits = (q + 1) * Width + 0
    BY <1>1, <1>2, <1>4
  <2>2. NBits \div Width = q + 1
    <3>1. q + 1 \in Int /\ 0 \in Int /\ 0 <= 0 /\ 0 < Width
      BY <1>1, <1>2
    <3>2. ((q + 1) * Width + 0) \div Width = q + 1
      BY <1>1, <3>1, DivUnique, Zenon
    <3> QED BY <2>1, <3>2
  <2> QED BY <1>1, <1>2, <1>3, <2>1, <2>2 DEF BlockIdx
<1>5. CASE r # Width - 1
  <2>1. NBits = q * Width + (r + 1) /\ 0 <= r + 1 /\ r + 1 < Width /\ r + 1 \in Int
    BY <1>1, <1>2, <1>5
  <2>2. NBits \div Width = q
    BY <1>1, <1>2, <2>1, DivUnique
  <2> QED BY <1>2, <1>3, <2>2 DEF BlockIdx
<1> QED BY <1>4, <1>5

(* The bits with the value, and the words without any of them.              *)
Having(value) == {b \in Bits : BitmapGet(b) <=> value}
Skipped(value) == IF value THEN {} ELSE WordBits

(* A bit with the value is in a word that is not skipped, ...               *)
LEMMA HavingIsCandidate ==
    ASSUME BitmapTypeOK, NEW value \in BOOLEAN, NEW beyond \in SUBSET WordBits,
           NEW b \in Having(value)
    PROVE  /\ BlockIdx(b) \in Candidates(Skipped(value), beyond)
           /\ BitIdx(b) \in Hits(BlockIdx(b), value, beyond)
<1>1. b \in Bits /\ (BitIdx(b) \in words[BlockIdx(b)] <=> value)
  BY DEF Having, BitmapGet
<1>2. /\ BlockIdx(b) \in 0 .. NWords - 1 /\ BitIdx(b) \in WordBits
      /\ b = BlockIdx(b) * Width + BitIdx(b)
  BY <1>1, BitPlace
<1>3. Word(BlockIdx(b), beyond) = words[BlockIdx(b)]
  BY <1>2, LastWord DEF Word
<1>4. Word(BlockIdx(b), beyond) # Skipped(value)
  BY <1>1, <1>2, <1>3 DEF Skipped
<1>5. BlockIdx(b) \in 0 .. BlockIdx(NBits)
  BY <1>2, LastWord
<1>6. BitIdx(b) < NBits - BlockIdx(b) * Width
  <2>1. BlockIdx(b) * Width \in Int /\ BitIdx(b) \in Int /\ NBits \in Int /\ b < NBits
    BY <1>1, <1>2, BitmapAssumption DEF WordBits, Bits
  <2> QED BY <1>2, <2>1
<1> QED BY <1>1, <1>2, <1>3, <1>4, <1>5, <1>6 DEF Candidates, Hits

(* ... and a bit that find_first may return has the value.                  *)
LEMMA HitHas ==
    ASSUME BitmapTypeOK, NEW value \in BOOLEAN, NEW beyond \in SUBSET WordBits,
           NEW k \in Candidates(Skipped(value), beyond),
           NEW b \in Hits(k, value, beyond)
    PROVE  k \in 0 .. NWords - 1 /\ k * Width + b \in Having(value)
<1>1. /\ k \in Nat /\ k <= BlockIdx(NBits) /\ NBits \in Nat /\ Width \in Nat
      /\ b \in WordBits /\ b < NBits - k * Width /\ (b \in Word(k, beyond) <=> value)
  BY LastWord, BitmapAssumption DEF Candidates, Hits
<1>2. k * Width \in Int /\ b \in Nat
  BY <1>1 DEF WordBits
<1>3. k # NWords
  BY <1>1, <1>2, LastWord
<1>4. k \in 0 .. NWords - 1
  BY <1>1, <1>3, LastWord
<1>5. Word(k, beyond) = words[k]
  BY <1>4, LastWord DEF Word
<1>6. k * Width + b < NBits
  BY <1>1, <1>2
<1> QED BY <1>1, <1>4, <1>5, <1>6, PlaceBit DEF Having, BitmapGet

(* A word that is not skipped has such a bit if it is whole.                *)
LEMMA WholeWordHits ==
    ASSUME BitmapTypeOK, NEW value \in BOOLEAN, NEW beyond \in SUBSET WordBits,
           NEW k \in Candidates(Skipped(value), beyond),
           NEW l \in 0 .. NWords - 1, k < l
    PROVE  Hits(k, value, beyond) # {}
<1>1. k \in 0 .. NWords - 1 /\ words[k] # Skipped(value) /\ words[k] \subseteq WordBits
  BY LastWord DEF Candidates, Word, BitmapTypeOK
<1>2. PICK b \in WordBits : b \in words[k] <=> value
  BY <1>1 DEF Skipped
<1>3. Word(k, beyond) = words[k]
  BY <1>1, LastWord DEF Word
<1>4. b < NBits - k * Width
  <2>1. k * Width + Width <= l * Width
    BY <1>1, LastWord, TimesLess, BitmapAssumption
  <2>2. l * Width < NBits
    <3>1. (NWords - 1) * Width < NBits
      <4>1. NBits - 1 \in Int /\ Width \in Nat \ {0} /\ NWords - 1 = (NBits - 1) \div Width
        BY BitmapAssumption, LastWord DEF NWords
      <4>2. ((NBits - 1) \div Width) * Width <= NBits - 1
        BY <4>1, DivMod, Zenon
      <4>3. (NWords - 1) * Width <= NBits - 1
        BY <4>1, <4>2
      <4>4. (NWords - 1) * Width \in Int
        BY <4>1, LastWord
      <4> QED BY <4>3, <4>4, BitmapAssumption
    <3>2. CASE l = NWords - 1
      BY <3>1, <3>2
    <3>3. CASE l < NWords - 1
      <4>1. l \in Int /\ NWords - 1 \in Int /\ Width \in Nat /\ NBits \in Nat
        BY BitmapAssumption, LastWord
      <4>2. l * Width + Width <= (NWords - 1) * Width
        BY <3>3, <4>1, TimesLess
      <4>3. l * Width \in Int /\ (NWords - 1) * Width \in Int
        BY <4>1
      <4> QED BY <3>1, <4>1, <4>2, <4>3
    <3> QED BY <3>2, <3>3, LastWord
  <2>3. /\ k * Width \in Int /\ l * Width \in Int /\ NBits \in Int
        /\ b \in Int /\ b < Width /\ Width \in Int
    BY <1>1, LastWord, BitmapAssumption DEF WordBits
  <2> QED BY <2>1, <2>2, <2>3
<1> QED BY <1>2, <1>3, <1>4 DEF Hits

(* find_first returns the first bit with the value, -1 if there is none.    *)
LEMMA FindFirstIs ==
    ASSUME BitmapTypeOK, NEW value \in BOOLEAN, NEW beyond \in SUBSET WordBits
    PROVE  IsFirst(FindFirst(value, Skipped(value), beyond), Having(value))
<1> DEFINE C == Candidates(Skipped(value), beyond)
           k == Least(C)
           H == Hits(k, value, beyond)
<1>1. C \subseteq Nat
  BY LastWord DEF Candidates
<1>2. CASE C = {}
  <2>1. Having(value) = {}
    BY <1>2, HavingIsCandidate
  <2> QED BY <1>2, <2>1 DEF FindFirst, IsFirst
<1>3. CASE C # {} /\ H = {}
  <2>1. k \in C /\ k \in Nat /\ \A l \in C : k <= l
    BY <1>1, <1>3, LeastNat
  <2>2. ASSUME NEW b \in Having(value) PROVE FALSE
    <3>1. BlockIdx(b) \in C /\ BitIdx(b) \in Hits(BlockIdx(b), value, beyond)
      BY HavingIsCandidate
    <3>2. b \in Bits
      BY DEF Having
    <3>3. BlockIdx(b) \in 0 .. NWords - 1
      BY <3>2, BitPlace
    <3>4. k < BlockIdx(b)
      BY <1>1, <1>3, <2>1, <3>1, <3>3, LastWord
    <3> QED BY <1>3, <2>1, <3>3, <3>4, WholeWordHits
  <2> QED BY <1>3, <2>2 DEF FindFirst, IsFirst
<1>4. CASE C # {} /\ H # {}
  <2>1. k \in C /\ k \in Nat /\ \A l \in C : k <= l
    BY <1>1, <1>4, LeastNat
  <2>2. H \subseteq Nat
    BY DEF Hits, WordBits
  <2> DEFINE h == Least(H)
  <2>3. h \in H /\ h \in Nat /\ \A b \in H : h <= b
    BY <1>4, <2>2, LeastNat
  <2>4. k * Width + h \in Having(value)
    BY <2>1, <2>3, HitHas
  <2>5. ASSUME NEW b \in Having(value) PROVE k * Width + h <= b
    <3>1. BlockIdx(b) \in C /\ BitIdx(b) \in Hits(BlockIdx(b), value, beyond)
      BY HavingIsCandidate
    <3>2. b \in Bits
      BY DEF Having
    <3>3. /\ b = BlockIdx(b) * Width + BitIdx(b)
          /\ BlockIdx(b) \in Nat /\ BitIdx(b) \in Nat
      BY <3>2, BitPlace, LastWord DEF WordBits
    <3>4. k <= BlockIdx(b)
      BY <2>1, <3>1
    <3>5. h < Width /\ Width \in Nat
      <4>1. H \subseteq WordBits
        BY DEF Hits
      <4> HIDE DEF H, h
      <4> QED BY <2>3, <4>1, BitmapAssumption DEF WordBits
    <3> HIDE DEF C, k, H, h
    <3>6. CASE k = BlockIdx(b)
      <4>1. h <= BitIdx(b)
        BY <2>3, <3>1, <3>6 DEF H
      <4>2. k * Width \in Int
        BY <2>1, <3>5
      <4> QED BY <2>3, <3>3, <3>6, <4>1, <4>2
    <3>7. CASE k < BlockIdx(b)
      <4>1. k * Width + Width <= BlockIdx(b) * Width
        BY <2>1, <3>3, <3>5, <3>7, TimesLess
      <4>2. k * Width \in Int /\ BlockIdx(b) * Width \in Int
        BY <2>1, <3>3, <3>5
      <4> QED BY <2>3, <3>3, <3>5, <4>1, <4>2
    <3> QED BY <2>1, <3>3, <3>4, <3>6, <3>7
  <2>6. FindFirst(value, Skipped(value), beyond) = k * Width + h
    BY <1>4 DEF FindFirst
  <2> QED BY <2>4, <2>5, <2>6 DEF IsFirst
<1> QED BY <1>2, <1>3, <1>4

(* What bitmap.h promises of bitmap_first_set and bitmap_first_clear        *)
(* follows from the types alone.                                            *)
LEMMA FirstFollows == BitmapTypeOK => FirstInv
<1> SUFFICES ASSUME BitmapTypeOK, NEW beyond \in SUBSET WordBits
             PROVE  /\ IsFirst(FirstClear(beyond), {b \in Bits : ~ BitmapGet(b)})
                    /\ IsFirst(FirstSet(beyond), {b \in Bits : BitmapGet(b)})
  BY DEF FirstInv
<1>1. Having(FALSE) = {b \in Bits : ~ BitmapGet(b)} /\ Skipped(FALSE) = WordBits
  BY DEF Having, Skipped
<1>2. Having(TRUE) = {b \in Bits : BitmapGet(b)} /\ Skipped(TRUE) = {}
  BY DEF Having, Skipped
<1>3. FirstClear(beyond) = FindFirst(FALSE, Skipped(FALSE), beyond)
  BY <1>1 DEF FirstClear
<1>4. FirstSet(beyond) = FindFirst(TRUE, Skipped(TRUE), beyond)
  BY <1>2 DEF FirstSet
<1>5. /\ IsFirst(FindFirst(FALSE, Skipped(FALSE), beyond), Having(FALSE))
      /\ IsFirst(FindFirst(TRUE, Skipped(TRUE), beyond), Having(TRUE))
  BY FindFirstIs
<1> QED BY <1>1, <1>2, <1>3, <1>4, <1>5

(* Setting or clearing the bits of a block.                                 *)
LEMMA BitmapSetStep ==
    ASSUME BitmapTypeOK, NEW S \in SUBSET Bits, BitmapSet(S)
    PROVE  /\ BitmapTypeOK'
           /\ \A b \in Bits : BitmapGet(b)' <=> BitmapGet(b) \/ b \in S
<1>1. /\ words \in [0 .. NWords - 1 -> SUBSET WordBits]
      /\ \A k \in 0 .. NWords - 1 : \A b \in words[k] : k * Width + b < NBits
  BY DEF BitmapTypeOK
<1>2. words' = [k \in 0 .. NWords - 1 |->
                    words[k] \cup {b \in WordBits : k * Width + b \in S}]
  BY <1>1 DEF BitmapSet
<1>3. words' \in [0 .. NWords - 1 -> SUBSET WordBits]
  BY <1>1, <1>2
<1>4. ASSUME NEW k \in 0 .. NWords - 1, NEW b \in words'[k]
      PROVE  k * Width + b < NBits
  <2>1. b \in words[k] \/ k * Width + b \in Bits
    BY <1>2, <1>4
  <2> QED BY <1>1, <2>1, BitmapAssumption DEF Bits
<1>5. ASSUME NEW b \in Bits PROVE BitmapGet(b)' <=> BitmapGet(b) \/ b \in S
  <2>1. /\ BlockIdx(b) \in 0 .. NWords - 1 /\ BitIdx(b) \in WordBits
        /\ b = BlockIdx(b) * Width + BitIdx(b)
    BY <1>5, BitPlace
  <2>2. BitIdx(b) \in words'[BlockIdx(b)] <=>
            BitIdx(b) \in words[BlockIdx(b)] \/ b \in S
    BY <1>2, <2>1
  <2> QED BY <2>2 DEF BitmapGet, BlockIdx, BitIdx
<1> QED BY <1>3, <1>4, <1>5 DEF BitmapTypeOK, NWords, WordBits

LEMMA BitmapClearStep ==
    ASSUME BitmapTypeOK, NEW S \in SUBSET Bits, BitmapClear(S)
    PROVE  /\ BitmapTypeOK'
           /\ \A b \in Bits : BitmapGet(b)' <=> BitmapGet(b) /\ b \notin S
<1>1. /\ words \in [0 .. NWords - 1 -> SUBSET WordBits]
      /\ \A k \in 0 .. NWords - 1 : \A b \in words[k] : k * Width + b < NBits
  BY DEF BitmapTypeOK
<1>2. words' = [k \in 0 .. NWords - 1 |->
                    words[k] \ {b \in WordBits : k * Width + b \in S}]
  BY <1>1 DEF BitmapClear
<1>3. words' \in [0 .. NWords - 1 -> SUBSET WordBits]
  BY <1>1, <1>2
<1>4. \A k \in 0 .. NWords - 1 : \A b \in words'[k] : k * Width + b < NBits
  BY <1>1, <1>2
<1>5. ASSUME NEW b \in Bits PROVE BitmapGet(b)' <=> BitmapGet(b) /\ b \notin S
  <2>1. /\ BlockIdx(b) \in 0 .. NWords - 1 /\ BitIdx(b) \in WordBits
        /\ b = BlockIdx(b) * Width + BitIdx(b)
    BY <1>5, BitPlace
  <2>2. BitIdx(b) \in words'[BlockIdx(b)] <=>
            BitIdx(b) \in words[BlockIdx(b)] /\ b \notin S
    BY <1>2, <2>1
  <2> QED BY <2>2 DEF BitmapGet, BlockIdx, BitIdx
<1> QED BY <1>3, <1>4, <1>5 DEF BitmapTypeOK, NWords, WordBits

(* A block is taken and given back as a whole.                              *)
LEMMA TakeBlockStep ==
    ASSUME BitmapTypeOK, NEW d \in Bits, BlockAt(d) \subseteq Bits, TakeBlock(d)
    PROVE  BitmapTypeOK' /\ Taken' = Taken \cup BlockAt(d)
BY BitmapSetStep DEF TakeBlock, Taken, Bits, BlockAt

LEMMA ReleaseBlockStep ==
    ASSUME BitmapTypeOK, NEW d \in Bits, BlockAt(d) \subseteq Bits, ReleaseBlock(d)
    PROVE  BitmapTypeOK' /\ Taken' = Taken \ BlockAt(d)
BY BitmapClearStep DEF ReleaseBlock, Taken, Bits, BlockAt

(* The block that disk_alloc_process_block looks at begins at the first     *)
(* clear page, and lies on the disk if it is taken.                         *)
LEMMA BlockToAllocIs ==
    ASSUME BitmapTypeOK, NEW beyond \in SUBSET WordBits
    PROVE  /\ Bits \subseteq Taken =>
                FirstClear(beyond) = -1 /\ BlockToAlloc(beyond) = NoDiskPage
           /\ ~ Bits \subseteq Taken =>
                /\ FirstClear(beyond) \in Bits \ Taken
                /\ \A b \in Bits \ Taken : FirstClear(beyond) <= b
           /\ BlockToAlloc(beyond) # NoDiskPage =>
                /\ BlockToAlloc(beyond) = FirstClear(beyond)
                /\ FirstClear(beyond) \in Bits
                /\ BlockAt(FirstClear(beyond)) \subseteq Bits \ Taken
<1>1. IsFirst(FirstClear(beyond), {b \in Bits : ~ BitmapGet(b)})
  BY FirstFollows DEF FirstInv
<1>2. {b \in Bits : ~ BitmapGet(b)} = Bits \ Taken
  BY DEF Taken
<1>3. Bits \subseteq Taken => FirstClear(beyond) = -1
  BY <1>1, <1>2 DEF IsFirst
<1>4. ~ Bits \subseteq Taken =>
        /\ FirstClear(beyond) \in Bits \ Taken
        /\ \A b \in Bits \ Taken : FirstClear(beyond) <= b
  BY <1>1, <1>2 DEF IsFirst
<1>5. ASSUME BlockToAlloc(beyond) # NoDiskPage
      PROVE  /\ BlockToAlloc(beyond) = FirstClear(beyond)
             /\ FirstClear(beyond) \in Bits
             /\ BlockAt(FirstClear(beyond)) \subseteq Bits \ Taken
  <2>1. /\ BlockToAlloc(beyond) = FirstClear(beyond) /\ FirstClear(beyond) # -1
        /\ HasEnoughConsecutivePages(FirstClear(beyond))
    BY <1>5 DEF BlockToAlloc
  <2>2. FirstClear(beyond) \in Bits
    BY <1>3, <1>4, <2>1
  <2> QED BY <2>1, <2>2, BitmapAssumption, DiskAssumption
          DEF HasEnoughConsecutivePages, BlockAt, Taken, Bits
<1> QED BY <1>3, <1>4, <1>5 DEF BlockToAlloc

-----------------------------------------------------------------------------
(* The map.                                                                 *)

(* A key is found where it is, and its value with it.                       *)
LEMMA FindKeyIs ==
    ASSUME MapTypeOK, MapInv, NEW k
    PROVE  /\ (\E i \in 0 .. size - 1 : keys[i] = k) =>
                /\ FindKey(k) \in 0 .. size - 1 /\ keys[FindKey(k)] = k
                /\ MapGet(k) = values[FindKey(k)] /\ MapGet(k) \in Vals
           /\ ~ (\E i \in 0 .. size - 1 : keys[i] = k) =>
                FindKey(k) = -1 /\ MapGet(k) = NoVal
<1>1. CASE \E i \in 0 .. size - 1 : keys[i] = k
  <2>1. PICK i \in 0 .. size - 1 : keys[i] = k
    BY <1>1
  <2>2. \A j \in 0 .. i - 1 : keys[j] # k
    BY <2>1 DEF MapInv, MapTypeOK
  <2>3. \E h \in 0 .. size - 1 : keys[h] = k /\ \A j \in 0 .. h - 1 : keys[j] # k
    BY <2>1, <2>2
  <2>4. FindKey(k) \in 0 .. size - 1 /\ keys[FindKey(k)] = k
    BY <1>1, <2>3, Zenon DEF FindKey
  <2>5. FindKey(k) # -1
    BY <2>4 DEF MapTypeOK
  <2> QED BY <1>1, <2>4, <2>5 DEF MapGet, MapTypeOK
<1>2. CASE ~ \E i \in 0 .. size - 1 : keys[i] = k
  BY <1>2, Zenon DEF FindKey, MapGet
<1> QED BY <1>1, <1>2

LEMMA MapGetIs ==
    ASSUME MapTypeOK, MapInv, NEW i \in 0 .. size - 1
    PROVE  MapGet(keys[i]) = values[i]
BY FindKeyIs DEF MapInv

(* The same of the state after a step.                                      *)
MapFacts ==
    \A k : /\ \A i \in 0 .. size - 1 : keys[i] = k => MapGet(k) = values[i]
           /\ (\A i \in 0 .. size - 1 : keys[i] # k) => MapGet(k) = NoVal

LEMMA MapFactsHold == MapTypeOK /\ MapInv => MapFacts
BY FindKeyIs, MapGetIs DEF MapFacts

LEMMA MapFactsNext == ASSUME MapTypeOK', MapInv' PROVE MapFacts'
<1>1. (MapTypeOK /\ MapInv => MapFacts)'
  BY MapFactsHold, PTL
<1> QED BY <1>1

(* The step of the arrays decides what is found afterwards.                 *)
LEMMA MapSetStep ==
    ASSUME MapTypeOK, MapInv, NEW k \in Keys, NEW v \in Vals,
           MapGet(k) = NoVal, MapSet(k, v)
    PROVE  /\ MapTypeOK' /\ MapInv'
           /\ MapGet(k)' = v
           /\ \A l : l # k => MapGet(l)' = MapGet(l)
<1>1. FindKey(k) = -1 /\ \A i \in 0 .. size - 1 : keys[i] # k
  BY FindKeyIs, MapAssumption
<1>2. /\ size' = size + 1
      /\ keys' = [i \in 0 .. size |-> IF i = size THEN k ELSE keys[i]]
      /\ values' = [i \in 0 .. size |-> IF i = size THEN v ELSE values[i]]
  BY <1>1 DEF MapSet, Grown
<1>3. size \in Nat /\ size' - 1 = size
  BY <1>2 DEF MapTypeOK
<1>4. MapTypeOK'
  BY <1>2, <1>3 DEF MapTypeOK
<1>5. MapInv'
  BY <1>1, <1>2, <1>3 DEF MapInv
<1>6. MapGet(k)' = v
  <2>1. size \in 0 .. size' - 1 /\ keys'[size] = k /\ values'[size] = v
    BY <1>2, <1>3
  <2> QED BY <1>4, <1>5, <2>1, MapFactsNext DEF MapFacts
<1>7. ASSUME NEW l, l # k PROVE MapGet(l)' = MapGet(l)
  <2>1. CASE \E i \in 0 .. size - 1 : keys[i] = l
    <3>1. PICK i \in 0 .. size - 1 : keys[i] = l
      BY <2>1
    <3>2. i \in 0 .. size' - 1 /\ keys'[i] = l /\ values'[i] = values[i]
      BY <1>2, <1>3, <3>1
    <3>3. MapGet(l)' = values'[i]
      BY <1>4, <1>5, <3>2, MapFactsNext DEF MapFacts
    <3>4. MapGet(l) = values[i]
      BY <3>1, MapGetIs
    <3> QED BY <3>2, <3>3, <3>4
  <2>2. CASE ~ \E i \in 0 .. size - 1 : keys[i] = l
    <3>1. \A i \in 0 .. size' - 1 : keys'[i] # l
      BY <1>2, <1>3, <1>7, <2>2
    <3>2. MapGet(l)' = NoVal
      BY <1>4, <1>5, <3>1, MapFactsNext DEF MapFacts
    <3>3. MapGet(l) = NoVal
      BY <2>2, FindKeyIs
    <3> QED BY <3>2, <3>3
  <2> QED BY <2>1, <2>2
<1> QED BY <1>4, <1>5, <1>6, <1>7

LEMMA MapRemoveStep ==
    ASSUME MapTypeOK, MapInv, NEW k, MapGet(k) # NoVal, MapRemove(k)
    PROVE  /\ MapTypeOK' /\ MapInv'
           /\ MapGet(k)' = NoVal
           /\ \A l : l # k => MapGet(l)' = MapGet(l)
<1> DEFINE h == FindKey(k)
<1>1. h \in 0 .. size - 1 /\ keys[h] = k /\ h # -1
  BY FindKeyIs DEF MapTypeOK
<1>2. /\ size' = size - 1
      /\ keys' = [i \in 0 .. size - 2 |-> IF i < h THEN keys[i] ELSE keys[i + 1]]
      /\ values' = [i \in 0 .. size - 2 |-> IF i < h THEN values[i] ELSE values[i + 1]]
  BY <1>1 DEF MapRemove, Without
<1> HIDE DEF h
<1>3. size \in Nat /\ size' \in Nat /\ size' - 1 = size - 2 /\ h \in Int
  BY <1>1, <1>2 DEF MapTypeOK
<1>4. MapTypeOK'
  BY <1>1, <1>2, <1>3 DEF MapTypeOK
<1>5. MapInv'
  BY <1>1, <1>2, <1>3 DEF MapInv
<1>6. MapGet(k)' = NoVal
  <2>1. \A i \in 0 .. size - 1 : i # h => keys[i] # k
    BY <1>1 DEF MapInv
  <2>2. \A i \in 0 .. size' - 1 : keys'[i] # k
    BY <1>1, <1>2, <1>3, <2>1
  <2> QED BY <1>4, <1>5, <2>2, MapFactsNext DEF MapFacts
<1>7. ASSUME NEW l, l # k PROVE MapGet(l)' = MapGet(l)
  <2>1. CASE \E i \in 0 .. size - 1 : keys[i] = l
    <3>1. PICK i \in 0 .. size - 1 : keys[i] = l
      BY <2>1
    <3>2. i # h
      BY <1>1, <1>7, <3>1
    <3> DEFINE j == IF i < h THEN i ELSE i - 1
    <3>3. j \in 0 .. size' - 1 /\ keys'[j] = l /\ values'[j] = values[i]
      BY <1>1, <1>2, <1>3, <3>1, <3>2
    <3> HIDE DEF j
    <3>4. MapGet(l)' = values'[j]
      BY <1>4, <1>5, <3>3, MapFactsNext DEF MapFacts
    <3>5. MapGet(l) = values[i]
      BY <3>1, MapGetIs
    <3> QED BY <3>3, <3>4, <3>5
  <2>2. CASE ~ \E i \in 0 .. size - 1 : keys[i] = l
    <3>1. \A i \in 0 .. size' - 1 : keys'[i] # l
      BY <1>1, <1>2, <1>3, <2>2
    <3>2. MapGet(l)' = NoVal
      BY <1>4, <1>5, <3>1, MapFactsNext DEF MapFacts
    <3>3. MapGet(l) = NoVal
      BY <2>2, FindKeyIs
    <3> QED BY <3>2, <3>3
  <2> QED BY <2>1, <2>2
<1> QED BY <1>4, <1>5, <1>6, <1>7

-----------------------------------------------------------------------------
(* The queues.                                                              *)

(* s are the nodes of a queue, from the head to the tail.                   *)
IsChain(q, s) ==
    /\ queue[q].size \in Nat \ {0}
    /\ s \in [1 .. queue[q].size -> Nodes]
    /\ s[1] = queue[q].head
    /\ s[queue[q].size] = queue[q].tail /\ next[queue[q].tail] = Null
    /\ \A i \in 1 .. queue[q].size - 1 : next[s[i]] = s[i + 1]
    /\ \A i, j \in 1 .. queue[q].size : s[i] = s[j] => i = j

(* Following the links finds them.                                          *)
LEMMA NodesOfIs ==
    ASSUME NEW q, NEW s, IsChain(q, s)
    PROVE  NodesOf(q) = s
<1> DEFINE n == queue[q].size
           At(at, i) == IF i = 1 THEN queue[q].head
                        ELSE IF at[i - 1] = Null THEN Null ELSE next[at[i - 1]]
           Follows(at) == at = [i \in 1 .. n |-> At(at, i)]
<1>1. n \in Nat \ {0} /\ s \in [1 .. n -> Nodes]
  BY DEF IsChain
<1>2. \A i \in 1 .. n : s[i] = At(s, i)
  <2>1. ASSUME NEW i \in 1 .. n, i # 1
        PROVE  s[i - 1] # Null /\ s[i] = next[s[i - 1]]
    <3>1. i - 1 \in 1 .. n - 1 /\ i - 1 \in 1 .. n /\ (i - 1) + 1 = i
      BY <1>1, <2>1
    <3> QED BY <1>1, <3>1, QueueAssumption DEF IsChain
  <2> QED BY <2>1 DEF IsChain
<1>3. Follows(s)
  <2>1. s = [i \in 1 .. n |-> s[i]]
    BY <1>1
  <2> HIDE DEF At, n
  <2> QED BY <1>2, <2>1
<1>4. Follows(NodesOf(q))
  <2>1. NodesOf(q) = CHOOSE at : Follows(at)
    BY DEF NodesOf
  <2> HIDE DEF Follows
  <2> QED BY <1>3, <2>1, Zenon
<1>5. ASSUME NEW at, Follows(at) PROVE at = s
  <2>1. \A i \in 1 .. n : at[i] = At(at, i)
    <3> HIDE DEF At, n
    <3> QED BY <1>5
  <2>2. ASSUME NEW i \in 1 .. n, i # 1 => at[i - 1] = s[i - 1]
        PROVE  at[i] = s[i]
    BY <1>2, <2>1, <2>2
  <2> DEFINE D == {i \in 1 .. n : at[i] # s[i]}
  <2>3. D = {}
    <3>1. SUFFICES ASSUME D # {} PROVE FALSE
      OBVIOUS
    <3>2. PICK i \in D : \A j \in D : i <= j
      <4>1. D \in SUBSET Nat
        BY <1>1
      <4> HIDE DEF D
      <4> QED BY <3>1, <4>1, LeastNat
    <3>3. i \in 1 .. n /\ at[i] # s[i]
      BY <3>2
    <3>4. ASSUME i # 1 PROVE at[i - 1] = s[i - 1]
      <4>1. i - 1 \in 1 .. n /\ ~ i <= i - 1
        BY <1>1, <3>3, <3>4
      <4> QED BY <3>2, <4>1
    <3> QED BY <2>2, <3>3, <3>4
  <2>4. \A i \in 1 .. n : at[i] = s[i]
    BY <2>3
  <2>5. at = [i \in 1 .. n |-> at[i]]
    <3> HIDE DEF At, n
    <3> QED BY <1>5, <2>1
  <2> HIDE DEF Follows, At, n, D
  <2> QED BY <1>1, <2>4, <2>5
<1> QED BY <1>4, <1>5

LEMMA ChainsDetermined == \A r, t : IsChain(r, t) => NodesOf(r) = t
BY NodesOfIs

LEMMA NodesOfNext ==
    ASSUME NEW q, NEW s, IsChain(q, s)'
    PROVE  NodesOf(q)' = s
<1>1. (\A r, t : IsChain(r, t) => NodesOf(r) = t)'
  BY ChainsDetermined, PTL
<1> QED BY <1>1

(* QueueInv, with the chains.                                               *)
ChainInv ==
    /\ QueueTypeOK
    /\ \A q \in Queues : queue[q] \in {Empty, Absent} \/ IsChain(q, NodesOf(q))
    /\ live = UNION {NodeSet(q) : q \in Queues}
    /\ \A q, r \in Queues : q # r => NodeSet(q) \cap NodeSet(r) = {}

LEMMA ChainNodes ==
    ASSUME NEW q, NEW s, IsChain(q, s)
    PROVE  NodesOf(q) = s /\ NodeSet(q) = {s[i] : i \in 1 .. queue[q].size}
BY NodesOfIs DEF NodeSet

LEMMA ChainNodesNext ==
    ASSUME NEW q, NEW s, IsChain(q, s)'
    PROVE  NodesOf(q)' = s /\ NodeSet(q)' = {s[i] : i \in 1 .. queue'[q].size}
BY NodesOfNext DEF NodeSet

LEMMA NoNodes ==
    ASSUME NEW q
    PROVE  /\ queue[q] \in {Empty, Absent} => NodeSet(q) = {} /\ queue[q].size <= 0
           /\ queue'[q] \in {Empty, Absent} => NodeSet(q)' = {} /\ queue'[q].size <= 0
BY DEF NodeSet, Empty, Absent

LEMMA ChainFollows == ChainInv => QueueInv
<1> SUFFICES ASSUME ChainInv PROVE QueueInv
  OBVIOUS
<1>1. ASSUME NEW q \in Queues
      PROVE  LET at == NodesOf(q)
                 n == queue[q].size
             IN IF n <= 0 THEN queue[q] \in {Empty, Absent}
                ELSE /\ \A i \in 1 .. n : at[i] # Null
                     /\ at[n] = queue[q].tail /\ next[at[n]] = Null
                     /\ \A i, j \in 1 .. n : at[i] = at[j] => i = j
  <2>1. CASE queue[q] \in {Empty, Absent}
    BY <2>1, NoNodes
  <2>2. CASE IsChain(q, NodesOf(q))
    BY <2>2, QueueAssumption DEF IsChain
  <2> QED BY <2>1, <2>2 DEF ChainInv
<1> QED BY <1>1 DEF QueueInv, ChainInv

(* An operation gives one queue other nodes; the others keep theirs.        *)
LEMMA OneQueueStep ==
    ASSUME ChainInv, QueueTypeOK', NEW q \in Queues, NEW T,
           \A r \in Queues \ {q} : queue'[r] = queue[r],
           \A m \in live \ NodeSet(q) : next'[m] = next[m],
           T \cap (live \ NodeSet(q)) = {},
           live' = (live \ NodeSet(q)) \cup T,
           \/ queue'[q] \in {Empty, Absent} /\ T = {}
           \/ \E t : IsChain(q, t)' /\ T = {t[i] : i \in 1 .. queue'[q].size}
    PROVE  /\ ChainInv'
           /\ \A r \in Queues \ {q} :
                /\ NodeSet(r) \subseteq live \ NodeSet(q)
                /\ IsChain(r, NodesOf(r)) => NodesOf(r)' = NodesOf(r)
<1>1. ASSUME NEW r \in Queues \ {q}
      PROVE  /\ NodeSet(r) \subseteq live \ NodeSet(q) /\ NodeSet(r)' = NodeSet(r)
             /\ IsChain(r, NodesOf(r)) => NodesOf(r)' = NodesOf(r)
             /\ (queue[r] \in {Empty, Absent} \/ IsChain(r, NodesOf(r)))'
  <2>1. NodeSet(r) \subseteq live \ NodeSet(q)
    BY DEF ChainInv
  <2>2. queue'[r] = queue[r]
    BY <1>1
  <2>3. CASE queue[r] \in {Empty, Absent}
    <3>1. ~ IsChain(r, NodesOf(r))
      BY <2>3 DEF IsChain, Empty, Absent
    <3> QED BY <2>1, <2>2, <2>3, <3>1, NoNodes
  <2>4. CASE IsChain(r, NodesOf(r))
    <3>1. PICK s : s = NodesOf(r)
      OBVIOUS
    <3>2. IsChain(r, s) /\ NodeSet(r) = {s[i] : i \in 1 .. queue[r].size}
      BY <2>4, <3>1, ChainNodes
    <3>3. \A i \in 1 .. queue[r].size : next'[s[i]] = next[s[i]]
      BY <2>1, <3>2
    <3>4. IsChain(r, s)'
      <4>1. queue[r].size \in 1 .. queue[r].size
        BY <3>2 DEF IsChain
      <4>2. \A i \in 1 .. queue[r].size - 1 : i \in 1 .. queue[r].size
        BY <3>2 DEF IsChain
      <4> QED BY <2>2, <3>2, <3>3, <4>1, <4>2 DEF IsChain
    <3>5. NodesOf(r)' = s /\ NodeSet(r)' = NodeSet(r)
      BY <2>2, <3>2, <3>4, ChainNodesNext
    <3>6. IsChain(r, NodesOf(r))'
      BY <3>4, <3>5 DEF IsChain
    <3> QED BY <2>1, <3>1, <3>5, <3>6
  <2> QED BY <2>3, <2>4 DEF ChainInv
<1>2. /\ NodeSet(q)' = T
      /\ (queue[q] \in {Empty, Absent} \/ IsChain(q, NodesOf(q)))'
  <2>1. CASE queue'[q] \in {Empty, Absent} /\ T = {}
    BY <2>1, NoNodes
  <2>2. CASE \E t : IsChain(q, t)' /\ T = {t[i] : i \in 1 .. queue'[q].size}
    <3>1. PICK t : IsChain(q, t)' /\ T = {t[i] : i \in 1 .. queue'[q].size}
      BY <2>2
    <3>2. NodesOf(q)' = t /\ NodeSet(q)' = T
      BY <3>1, ChainNodesNext
    <3>3. IsChain(q, NodesOf(q))'
      BY <3>1, <3>2 DEF IsChain
    <3> QED BY <3>2, <3>3
  <2> QED BY <2>1, <2>2
<1>3. \A r \in Queues : (queue[r] \in {Empty, Absent} \/ IsChain(r, NodesOf(r)))'
  BY <1>1, <1>2
<1>4. live' = UNION {NodeSet(r)' : r \in Queues}
  <2>1. live \ NodeSet(q) = UNION {NodeSet(r) : r \in Queues \ {q}}
    BY DEF ChainInv
  <2> QED BY <1>1, <1>2, <2>1
<1>5. \A r, p \in Queues : r # p => NodeSet(r)' \cap NodeSet(p)' = {}
  BY <1>1, <1>2 DEF ChainInv
<1> QED BY <1>1, <1>3, <1>4, <1>5 DEF ChainInv

(* What the others hold stays the same, too.                                *)
LEMMA ItemsKept ==
    ASSUME ChainInv, NEW r \in Queues, queue'[r] = queue[r],
           IsChain(r, NodesOf(r)) => NodesOf(r)' = NodesOf(r),
           \A m \in NodeSet(r) : data'[m] = data[m]
    PROVE  ItemsIn(r)' = ItemsIn(r)
<1>1. CASE queue[r] \in {Empty, Absent}
  BY <1>1, NoNodes DEF ItemsIn
<1>2. CASE IsChain(r, NodesOf(r))
  <2>1. NodesOf(r)' = NodesOf(r) /\ ~ queue[r].size <= 0
    BY <1>2 DEF IsChain
  <2>2. \A i \in 1 .. queue[r].size : data'[NodesOf(r)[i]] = data[NodesOf(r)[i]]
    BY DEF NodeSet
  <2> QED BY <2>1, <2>2 DEF ItemsIn
<1> QED BY <1>1, <1>2 DEF ChainInv

(* queue_push puts a node behind the last.                                  *)
LEMMA PushStep ==
    ASSUME ChainInv, NEW q \in Queues, queue[q].size >= 0, NEW item \in Items,
           QueuePush(q, item)
    PROVE  /\ ChainInv' /\ queue'[q] # Absent
           /\ ItemsIn(q)' = Append(ItemsIn(q), item)
           /\ \A r \in Queues \ {q} :
                queue'[r] = queue[r] /\ ItemsIn(r)' = ItemsIn(r)
<1>1. /\ queue \in [Queues -> [head : Nodes \cup {Null}, tail : Nodes \cup {Null},
                               size : Int]]
      /\ live \subseteq Nodes
      /\ data \in [Nodes -> Items \cup {Null}]
      /\ next \in [Nodes -> Nodes \cup {Null}]
  BY DEF ChainInv, QueueTypeOK
<1> DEFINE tail == queue[q].tail
           k == queue[q].size
<1>2. PICK n \in Nodes \ live :
        /\ live' = live \cup {n}
        /\ data' = [data EXCEPT ![n] = item]
        /\ next' = [m \in Nodes |-> IF m = n THEN Null
                                    ELSE IF m = tail THEN n ELSE next[m]]
        /\ queue' = [queue EXCEPT
            ![q] = [head |-> IF tail = Null THEN n ELSE queue[q].head,
                    tail |-> n, size |-> k + 1]]
  BY DEF QueuePush
<1>3. n \in Nodes /\ n \notin live /\ n # Null
  BY <1>2, QueueAssumption
<1>4. QueueTypeOK'
  <2>1. queue' \in [Queues -> [head : Nodes \cup {Null}, tail : Nodes \cup {Null},
                               size : Int]]
    BY <1>1, <1>2
  <2>2. data' \in [Nodes -> Items \cup {Null}]
    BY <1>1, <1>2
  <2>3. next' \in [Nodes -> Nodes \cup {Null}]
    BY <1>1, <1>2
  <2> QED BY <1>1, <1>2, <2>1, <2>2, <2>3 DEF QueueTypeOK
<1>5. \A r \in Queues \ {q} : queue'[r] = queue[r]
  BY <1>1, <1>2
<1>6. /\ queue'[q] = [head |-> IF tail = Null THEN n ELSE queue[q].head,
                      tail |-> n, size |-> k + 1]
      /\ k \in Nat
  BY <1>1, <1>2
<1> DEFINE s == [i \in 1 .. k + 1 |-> IF i <= k THEN NodesOf(q)[i] ELSE n]
<1>7. PICK t : t = s
  OBVIOUS
<1>8. /\ IsChain(q, t)'
      /\ NodeSet(q) \cup {n} = {t[i] : i \in 1 .. queue'[q].size}
      /\ ItemsIn(q) = [i \in 1 .. k |-> data[t[i]]]
      /\ \A i \in 1 .. k : t[i] \in NodeSet(q)
      /\ (k > 0 => tail \in NodeSet(q))
  <2>1. CASE queue[q] \in {Empty, Absent}
    <3>1. k = 0 /\ tail = Null /\ NodeSet(q) = {}
      BY <1>6, <2>1, NoNodes DEF Empty, Absent
    <3>2. t = [i \in 1 .. 1 |-> n]
      BY <1>7, <3>1
    <3>3. queue'[q] = [head |-> n, tail |-> n, size |-> 1] /\ next'[n] = Null
      BY <1>2, <1>3, <1>6, <3>1
    <3>4. IsChain(q, t)'
      BY <1>3, <3>2, <3>3 DEF IsChain
    <3>5. ItemsIn(q) = [i \in 1 .. k |-> data[t[i]]]
      BY <3>1 DEF ItemsIn
    <3> QED BY <3>1, <3>2, <3>3, <3>4, <3>5
  <2>2. CASE IsChain(q, NodesOf(q))
    <3> DEFINE at == NodesOf(q)
    <3>1. /\ k \in Nat \ {0} /\ at \in [1 .. k -> Nodes]
          /\ at[1] = queue[q].head /\ at[k] = tail /\ next[tail] = Null
          /\ \A i \in 1 .. k - 1 : next[at[i]] = at[i + 1]
          /\ \A i, j \in 1 .. k : at[i] = at[j] => i = j
      BY <2>2 DEF IsChain
    <3>2. NodeSet(q) = {at[i] : i \in 1 .. k} /\ NodeSet(q) \subseteq live
      BY DEF NodeSet, ChainInv
    <3> HIDE DEF at, k, tail
    <3>3. \A i \in 1 .. k : at[i] \in NodeSet(q) /\ at[i] # n
      BY <1>3, <3>2
    <3>4. k \in 1 .. k /\ 1 \in 1 .. k
      BY <3>1
    <3>5. tail \in NodeSet(q) /\ tail # Null /\ tail \in Nodes /\ tail # n
      BY <3>1, <3>3, <3>4, QueueAssumption
    <3>6. t = [i \in 1 .. k + 1 |-> IF i <= k THEN at[i] ELSE n]
      BY <1>7 DEF at, k
    <3>7. /\ \A i \in 1 .. k : t[i] = at[i]
          /\ t[k + 1] = n /\ k + 1 \in 1 .. k + 1
          /\ \A i \in 1 .. k + 1 : i \in 1 .. k \/ i = k + 1
      BY <3>1, <3>6
    <3>8. t \in [1 .. k + 1 -> Nodes]
      BY <1>3, <3>1, <3>6
    <3>9. next'[n] = Null /\ next'[tail] = n
      BY <1>2, <1>3, <3>5
    <3>10. ASSUME NEW i \in 1 .. k PROVE next'[t[i]] = t[i + 1]
      <4>1. CASE i = k
        BY <3>1, <3>4, <3>7, <3>9, <4>1
      <4>2. CASE i # k
        <5>1. i \in 1 .. k - 1 /\ i + 1 \in 1 .. k
          BY <3>1, <4>2
        <5>2. at[i] # tail
          BY <3>1, <3>4, <4>2
        <5>3. next'[at[i]] = next[at[i]]
          BY <1>2, <3>1, <3>3, <5>2
        <5> QED BY <3>1, <3>7, <5>1, <5>3
      <4> QED BY <4>1, <4>2
    <3>11. ASSUME NEW i \in 1 .. k + 1, NEW j \in 1 .. k + 1, t[i] = t[j]
           PROVE  i = j
      BY <3>1, <3>3, <3>7, <3>11
    <3>12. queue'[q] = [head |-> queue[q].head, tail |-> n, size |-> k + 1]
      BY <1>6, <3>5
    <3>13. IsChain(q, t)'
      <4>1. k + 1 \in Nat \ {0} /\ (k + 1) - 1 = k
        BY <3>1
      <4>2. t[1] = queue[q].head
        BY <3>1, <3>4, <3>7
      <4> QED BY <3>7, <3>8, <3>9, <3>10, <3>11, <3>12, <4>1, <4>2 DEF IsChain
    <3>14. NodeSet(q) \cup {n} = {t[i] : i \in 1 .. queue'[q].size}
      <4>1. queue'[q].size = k + 1 /\ \A i \in 1 .. k : i \in 1 .. k + 1
        BY <3>1, <3>12
      <4> QED BY <3>2, <3>7, <4>1
    <3>15. ItemsIn(q) = [i \in 1 .. k |-> data[t[i]]]
      <4>1. \A i \in 1 .. k : at[i] # Null
        BY <3>1, QueueAssumption
      <4>2. ItemsIn(q) = [i \in 1 .. k |-> IF at[i] = Null THEN Null ELSE data[at[i]]]
        BY <3>1 DEF ItemsIn, at, k
      <4> QED BY <3>7, <4>1, <4>2
    <3> QED BY <3>3, <3>5, <3>7, <3>13, <3>14, <3>15 DEF k, tail
  <2> QED BY <2>1, <2>2 DEF ChainInv
<1> HIDE DEF s
<1>9. \A m \in live \ NodeSet(q) : next'[m] = next[m] /\ data'[m] = data[m]
  <2>1. ASSUME NEW m \in live \ NodeSet(q) PROVE m # n /\ m # tail /\ m \in Nodes
    <3>1. CASE k > 0
      BY <1>1, <1>3, <1>8, <2>1, <3>1
    <3>2. CASE ~ k > 0
      <4>1. ~ IsChain(q, NodesOf(q))
        BY <1>6, <3>2 DEF IsChain
      <4>2. tail = Null
        BY <4>1 DEF ChainInv, Empty, Absent
      <4> QED BY <1>1, <1>3, <2>1, <4>2, QueueAssumption
    <3> QED BY <3>1, <3>2
  <2> QED BY <1>1, <1>2, <2>1
<1>10. NodeSet(q) \subseteq live
  BY DEF ChainInv
<1>11. /\ ChainInv'
       /\ \A r \in Queues \ {q} :
            /\ NodeSet(r) \subseteq live \ NodeSet(q)
            /\ IsChain(r, NodesOf(r)) => NodesOf(r)' = NodesOf(r)
  <2> DEFINE T == NodeSet(q) \cup {n}
  <2>1. T \cap (live \ NodeSet(q)) = {} /\ live' = (live \ NodeSet(q)) \cup T
    BY <1>2, <1>3, <1>10
  <2>2. \E u : IsChain(q, u)' /\ T = {u[i] : i \in 1 .. queue'[q].size}
    BY <1>8
  <2> HIDE DEF T
  <2> QED BY <1>4, <1>5, <1>9, <2>1, <2>2, OneQueueStep
<1>12. ItemsIn(q)' = Append(ItemsIn(q), item)
  <2>1. NodesOf(q)' = t
    BY <1>8, NodesOfNext
  <2>2. t[k + 1] = n /\ k + 1 \in 1 .. k + 1 /\ t \in [1 .. k + 1 -> Nodes]
    BY <1>6, <1>7, <1>8 DEF IsChain, s
  <2>3. ItemsIn(q)' = [i \in 1 .. k + 1 |-> data'[t[i]]]
    <3>1. queue'[q].size = k + 1 /\ ~ k + 1 <= 0
      BY <1>6
    <3>2. ItemsIn(q)' = [i \in 1 .. k + 1 |-> IF t[i] = Null THEN Null ELSE data'[t[i]]]
      BY <2>1, <3>1 DEF ItemsIn
    <3>3. \A i \in 1 .. k + 1 : t[i] # Null
      BY <2>2, QueueAssumption
    <3> QED BY <3>2, <3>3
  <2>4. data'[n] = item /\ \A i \in 1 .. k : data'[t[i]] = data[t[i]]
    BY <1>1, <1>2, <1>3, <1>8, <1>10
  <2>5. Append(ItemsIn(q), item) =
            [i \in 1 .. k + 1 |-> IF i = k + 1 THEN item ELSE data[t[i]]]
    BY <1>6, <1>8
  <2> QED BY <1>6, <2>2, <2>3, <2>4, <2>5
<1>13. ASSUME NEW r \in Queues \ {q} PROVE ItemsIn(r)' = ItemsIn(r)
  BY <1>1, <1>5, <1>9, <1>11, <1>13, ItemsKept
<1> QED BY <1>5, <1>6, <1>11, <1>12, <1>13 DEF Absent

(* queue_pop takes the first node.                                          *)
LEMMA PopStep ==
    ASSUME ChainInv, NEW q \in Queues, QueuePop(q)
    PROVE  /\ ChainInv' /\ queue'[q] # Absent /\ queue[q] # Absent
           /\ queue[q].head \in Nodes
           /\ ItemsIn(q) = <<data[queue[q].head]>> \o ItemsIn(q)'
           /\ \A r \in Queues \ {q} :
                queue'[r] = queue[r] /\ ItemsIn(r)' = ItemsIn(r)
<1>1. /\ queue \in [Queues -> [head : Nodes \cup {Null}, tail : Nodes \cup {Null},
                               size : Int]]
      /\ live \subseteq Nodes
      /\ data \in [Nodes -> Items \cup {Null}]
      /\ next \in [Nodes -> Nodes \cup {Null}]
  BY DEF ChainInv, QueueTypeOK
<1> DEFINE n == queue[q].head
           k == queue[q].size
           at == NodesOf(q)
<1>2. /\ k > 0
      /\ queue' = [queue EXCEPT ![q] = [head |-> next[n],
                    tail |-> IF n = queue[q].tail THEN Null ELSE queue[q].tail,
                    size |-> k - 1]]
      /\ live' = live \ {n}
      /\ data' = [data EXCEPT ![n] = Null] /\ next' = [next EXCEPT ![n] = Null]
  BY DEF QueuePop, NodeFree
<1>3. IsChain(q, at)
  <2>1. ~ queue[q] \in {Empty, Absent}
    BY <1>2 DEF Empty, Absent
  <2> QED BY <2>1 DEF ChainInv
<1>4. /\ k \in Nat \ {0} /\ at \in [1 .. k -> Nodes]
      /\ at[1] = n /\ at[k] = queue[q].tail /\ next[queue[q].tail] = Null
      /\ \A i \in 1 .. k - 1 : next[at[i]] = at[i + 1]
      /\ \A i, j \in 1 .. k : at[i] = at[j] => i = j
  BY <1>3 DEF IsChain
<1>5. NodeSet(q) = {at[i] : i \in 1 .. k} /\ NodeSet(q) \subseteq live
  BY DEF NodeSet, ChainInv
<1> HIDE DEF n, k, at
<1>6. 1 \in 1 .. k /\ k \in 1 .. k /\ n \in Nodes /\ n \in NodeSet(q)
  BY <1>4, <1>5
<1>7. next[n] \in Nodes \cup {Null} /\ k - 1 \in Int
  BY <1>1, <1>4, <1>6
<1>8. QueueTypeOK'
  <2>1. queue' \in [Queues -> [head : Nodes \cup {Null}, tail : Nodes \cup {Null},
                               size : Int]]
    BY <1>1, <1>2, <1>7
  <2>2. data' \in [Nodes -> Items \cup {Null}]
    BY <1>1, <1>2
  <2>3. next' \in [Nodes -> Nodes \cup {Null}]
    BY <1>1, <1>2
  <2> QED BY <1>1, <1>2, <2>1, <2>2, <2>3 DEF QueueTypeOK
<1>9. \A r \in Queues \ {q} : queue'[r] = queue[r]
  BY <1>1, <1>2
<1>10. queue'[q] = [head |-> next[n],
                    tail |-> IF n = queue[q].tail THEN Null ELSE queue[q].tail,
                    size |-> k - 1]
  BY <1>1, <1>2
<1>11. ASSUME NEW m \in live, m # n PROVE next'[m] = next[m] /\ data'[m] = data[m]
  BY <1>1, <1>2, <1>11
<1>12. ItemsIn(q) = [i \in 1 .. k |-> data[at[i]]]
  <2>1. \A i \in 1 .. k : at[i] # Null
    BY <1>4, QueueAssumption
  <2>2. ItemsIn(q) = [i \in 1 .. k |-> IF at[i] = Null THEN Null ELSE data[at[i]]]
    BY <1>2, <1>4 DEF ItemsIn, at, k
  <2> QED BY <2>1, <2>2
<1> DEFINE T == NodeSet(q) \ {n}
<1>13. T \cap (live \ NodeSet(q)) = {} /\ live' = (live \ NodeSet(q)) \cup T
  BY <1>2, <1>5, <1>6
<1>14. /\ \/ queue'[q] \in {Empty, Absent} /\ T = {}
          \/ \E t : IsChain(q, t)' /\ T = {t[i] : i \in 1 .. queue'[q].size}
       /\ ItemsIn(q)' = [i \in 1 .. k - 1 |-> data[at[i + 1]]]
  <2>1. CASE k = 1
    <3>1. n = queue[q].tail /\ next[n] = Null
      BY <1>4, <2>1
    <3>2. queue'[q] = Empty
      BY <1>10, <2>1, <3>1 DEF Empty
    <3>3. T = {}
      BY <1>4, <1>5, <2>1
    <3>4. ItemsIn(q)' = <<>>
      BY <3>2 DEF ItemsIn, Empty
    <3> QED BY <2>1, <3>2, <3>3, <3>4
  <2>2. CASE k # 1
    <3>1. PICK t : t = [i \in 1 .. k - 1 |-> at[i + 1]]
      OBVIOUS
    <3>2. /\ k - 1 \in Nat \ {0} /\ 1 \in 1 .. k - 1 /\ k - 1 \in 1 .. k - 1
          /\ \A i \in 1 .. k - 1 : i + 1 \in 1 .. k /\ i + 1 # 1
          /\ (k - 1) + 1 = k
      BY <1>4, <2>2
    <3>3. t \in [1 .. k - 1 -> Nodes] /\ \A i \in 1 .. k - 1 : t[i] = at[i + 1]
      BY <1>4, <3>1, <3>2
    <3>4. t[1] = next[n] /\ t[k - 1] = queue[q].tail
      BY <1>4, <3>2, <3>3
    <3>5. queue[q].tail # n
      BY <1>4, <1>6, <2>2
    <3>6. queue'[q] = [head |-> t[1], tail |-> queue[q].tail, size |-> k - 1]
      BY <1>10, <3>4, <3>5
    <3>7. \A i \in 1 .. k - 1 : t[i] \in NodeSet(q) /\ t[i] # n
      BY <1>4, <1>5, <1>6, <3>2, <3>3
    <3>8. \A i \in 1 .. k - 1 : next'[t[i]] = next[t[i]] /\ data'[t[i]] = data[t[i]]
      BY <1>5, <1>11, <3>7
    <3>9. next'[queue[q].tail] = Null
      BY <1>4, <3>2, <3>4, <3>8
    <3>10. ASSUME NEW i \in 1 .. (k - 1) - 1 PROVE next'[t[i]] = t[i + 1]
      <4>1. i \in 1 .. k - 1 /\ i + 1 \in 1 .. k - 1
        BY <3>2
      <4>2. next[at[i + 1]] = at[(i + 1) + 1]
        BY <1>4, <4>1
      <4> QED BY <3>3, <3>8, <4>1, <4>2
    <3>11. \A i, j \in 1 .. k - 1 : t[i] = t[j] => i = j
      <4>1. ASSUME NEW i \in 1 .. k - 1, NEW j \in 1 .. k - 1, t[i] = t[j]
            PROVE  i = j
        <5>1. at[i + 1] = at[j + 1] /\ i + 1 \in 1 .. k /\ j + 1 \in 1 .. k
          BY <3>2, <3>3, <4>1
        <5>2. i + 1 = j + 1
          BY <1>4, <5>1
        <5> QED BY <3>2, <5>2
      <4> QED BY <4>1
    <3>12. IsChain(q, t)'
      BY <3>2, <3>3, <3>4, <3>6, <3>9, <3>10, <3>11 DEF IsChain
    <3>13. T = {t[i] : i \in 1 .. queue'[q].size}
      <4>1. \A i \in 1 .. k : i = 1 \/ (i - 1 \in 1 .. k - 1 /\ (i - 1) + 1 = i)
        BY <1>4
      <4>2. ASSUME NEW m \in T PROVE \E i \in 1 .. k - 1 : m = t[i]
        <5>1. PICK i \in 1 .. k : m = at[i]
          BY <1>5
        <5>2. i # 1
          BY <1>4, <4>2, <5>1
        <5> QED BY <3>3, <4>1, <5>1, <5>2
      <4>3. \A i \in 1 .. k - 1 : t[i] \in T
        BY <3>7
      <4> QED BY <3>6, <4>2, <4>3
    <3>14. ItemsIn(q)' = [i \in 1 .. k - 1 |-> data[at[i + 1]]]
      <4>1. NodesOf(q)' = t /\ queue'[q].size = k - 1 /\ ~ k - 1 <= 0
        BY <3>2, <3>6, <3>12, NodesOfNext
      <4>2. ItemsIn(q)' = [i \in 1 .. k - 1 |->
                            IF t[i] = Null THEN Null ELSE data'[t[i]]]
        BY <4>1 DEF ItemsIn
      <4>3. \A i \in 1 .. k - 1 : t[i] # Null /\ data'[t[i]] = data[at[i + 1]]
        BY <3>3, <3>8, QueueAssumption
      <4> QED BY <4>2, <4>3
    <3> QED BY <3>12, <3>13, <3>14
  <2> QED BY <2>1, <2>2
<1>15. /\ ChainInv'
       /\ \A r \in Queues \ {q} :
            /\ NodeSet(r) \subseteq live \ NodeSet(q)
            /\ IsChain(r, NodesOf(r)) => NodesOf(r)' = NodesOf(r)
  <2>1. \A m \in live \ NodeSet(q) : next'[m] = next[m]
    BY <1>6, <1>11
  <2> HIDE DEF T
  <2> QED BY <1>8, <1>9, <1>13, <1>14, <2>1, OneQueueStep
<1>16. ItemsIn(q) = <<data[n]>> \o ItemsIn(q)'
  <2>1. data[at[1]] = data[n]
    BY <1>4
  <2> QED BY <1>4, <1>12, <1>14, <2>1
<1>17. ASSUME NEW r \in Queues \ {q} PROVE ItemsIn(r)' = ItemsIn(r)
  <2>1. \A m \in NodeSet(r) : data'[m] = data[m]
    BY <1>6, <1>11, <1>15
  <2> QED BY <1>9, <1>15, <1>17, <2>1, ItemsKept
<1>18. queue'[q] # Absent /\ queue[q] # Absent
  BY <1>2, <1>4, <1>10 DEF Absent, k
<1> QED BY <1>6, <1>9, <1>15, <1>16, <1>17, <1>18 DEF n

-----------------------------------------------------------------------------
(* The processes and what they own.                                         *)

(* ResTypeOK without the containers.                                        *)
StageTypeOK ==
    /\ stage \in [Procs -> Stages]
    /\ idx \in [Procs -> 0 .. BlockSize]
    /\ blockStart \in [Procs -> Bits \cup {NoDiskPage}]
    /\ contLock \in Procs \cup {NoProc}
    /\ post \in Items \cup {Null}
    /\ refused \in BOOLEAN

(* Who holds the mutex of the container, and where a loop can be.           *)
StageInv ==
    \A c \in Procs :
        /\ contLock = c <=> stage[c] \in {"allocating", "draining", "freeing"}
        /\ stage[c] \notin {"allocating", "freeing"} => idx[c] = 0

(* The parts of OwnInv: the blocks, ...                                     *)
BlockInv ==
    /\ \A c \in Procs : blockStart[c] = NoDiskPage <=> stage[c] = "junk"
    /\ \A c \in Procs : stage[c] # "junk" => BlockAt(blockStart[c]) \subseteq Taken
    /\ \A d \in Taken : \E c \in Procs : stage[c] # "junk" /\ d \in BlockAt(blockStart[c])
    /\ \A c, e \in Procs :
        stage[c] # "junk" /\ stage[e] # "junk" /\ c # e =>
            BlockAt(blockStart[c]) \cap BlockAt(blockStart[e]) = {}
(* ... the entries of disk_map, ...                                         *)
EntryInv ==
    \A c \in Procs, i \in 0 .. BlockSize - 1 :
        MapGet(<<c, i>>) = IF Backed(c, i) THEN blockStart[c] + i ELSE NoDiskPage
(* ... and the mailboxes.                                                   *)
BoxInv ==
    \A c \in Procs :
        queue[c] = Absent <=> stage[c] \in {"junk", "allocating", "freeing"}

(* The disk is cut into blocks from its start.                              *)
AlignInv ==
    \A c \in Procs : stage[c] # "junk" => \E m \in Nat : blockStart[c] = m * BlockSize

ResIInv ==
    /\ BitmapTypeOK /\ MapTypeOK /\ MapInv /\ ChainInv
    /\ StageTypeOK /\ StageInv
    /\ BlockInv /\ EntryInv /\ BoxInv /\ AlignInv

(* Containers that are left alone.                                          *)
LEMMA SameWords ==
    ASSUME BitmapTypeOK, UNCHANGED words
    PROVE  BitmapTypeOK' /\ Taken' = Taken
BY DEF BitmapTypeOK, Taken, BitmapGet

LEMMA SameMap ==
    ASSUME MapTypeOK, MapInv, UNCHANGED mapVars
    PROVE  MapTypeOK' /\ MapInv' /\ \A k : MapGet(k)' = MapGet(k)
BY DEF MapTypeOK, MapInv, mapVars, MapGet, FindKey

LEMMA SameQueues ==
    ASSUME ChainInv, UNCHANGED queueVars
    PROVE  /\ ChainInv' /\ \A q \in Queues : ItemsIn(q)' = ItemsIn(q)
           /\ queue' = queue
<1>1. queue' = queue /\ live' = live /\ data' = data /\ next' = next
  BY DEF queueVars
<1>2. \A q : NodesOf(q)' = NodesOf(q)
  BY <1>1 DEF NodesOf
<1>3. \A q : ItemsIn(q)' = ItemsIn(q) /\ NodeSet(q)' = NodeSet(q)
  BY <1>1, <1>2 DEF ItemsIn, NodeSet
<1>4. \A q : IsChain(q, NodesOf(q)) => IsChain(q, NodesOf(q))'
  BY <1>1, <1>2 DEF IsChain
<1>5. QueueTypeOK'
  BY <1>1 DEF ChainInv, QueueTypeOK
<1>6. /\ \A q \in Queues : (queue[q] \in {Empty, Absent} \/ IsChain(q, NodesOf(q)))'
      /\ live' = UNION {NodeSet(q)' : q \in Queues}
      /\ \A q, r \in Queues : q # r => NodeSet(q)' \cap NodeSet(r)' = {}
  BY <1>1, <1>3, <1>4 DEF ChainInv
<1> QED BY <1>1, <1>3, <1>5, <1>6 DEF ChainInv

(* The pages of a block.                                                    *)
LEMMA BlockOf ==
    ASSUME ResIInv, NEW c \in Procs, stage[c] # "junk"
    PROVE  /\ blockStart[c] \in Bits /\ BlockAt(blockStart[c]) \subseteq Bits
           /\ \A i \in 0 .. BlockSize - 1 : blockStart[c] + i \in Bits
           /\ blockStart[c] + BlockSize <= NBits
<1>1. blockStart[c] \in Bits /\ BlockAt(blockStart[c]) \subseteq Bits
  BY DEF ResIInv, BlockInv, StageTypeOK, Taken
<1>2. /\ blockStart[c] \in Int /\ BlockSize \in Nat \ {0} /\ NBits \in Int
      /\ \A i \in 0 .. BlockSize - 1 : blockStart[c] + i \in BlockAt(blockStart[c])
      /\ BlockSize - 1 \in 0 .. BlockSize - 1
  BY <1>1, BitmapAssumption, DiskAssumption DEF Bits, BlockAt
<1>3. blockStart[c] + (BlockSize - 1) \in Bits
  BY <1>1, <1>2
<1> QED BY <1>1, <1>2, <1>3 DEF Bits

(* The first clear page is where a block begins, ...                        *)
LEMMA FirstClearAligned ==
    ASSUME ResIInv, NEW d \in Bits \ Taken, \A b \in Bits \ Taken : d <= b
    PROVE  \E m \in Nat : d = m * BlockSize
<1>1. d \in Nat /\ BlockSize \in Nat \ {0} /\ NBits \in Nat /\ d < NBits
  BY BitmapAssumption, DiskAssumption DEF Bits
<1>2. CASE d = 0
  BY <1>1, <1>2
<1>3. CASE d # 0
  <2>1. d - 1 \in Bits /\ ~ d <= d - 1
    BY <1>1, <1>3 DEF Bits
  <2>2. d - 1 \in Taken
    BY <2>1
  <2>3. PICK c \in Procs : stage[c] # "junk" /\ d - 1 \in BlockAt(blockStart[c])
    BY <2>2 DEF ResIInv, BlockInv
  <2>4. PICK m \in Nat : blockStart[c] = m * BlockSize
    BY <2>3 DEF ResIInv, AlignInv
  <2>5. d \notin BlockAt(blockStart[c]) /\ blockStart[c] \in Nat
    <3>1. blockStart[c] \in Bits /\ BlockAt(blockStart[c]) \subseteq Taken
      BY <2>3, BlockOf DEF ResIInv, BlockInv
    <3> QED BY <3>1 DEF Bits
  <2>6. d = blockStart[c] + BlockSize
    BY <1>1, <2>3, <2>5 DEF BlockAt
  <2>7. d = (m + 1) * BlockSize
    BY <1>1, <2>4, <2>6
  <2> QED BY <2>7
<1> QED BY <1>2, <1>3

(* ... two blocks with a page in common are the same, ...                   *)
LEMMA SameBlock ==
    ASSUME NEW m \in Nat, NEW l \in Nat,
           NEW x \in BlockAt(m * BlockSize) \cap BlockAt(l * BlockSize)
    PROVE  m = l
<1>1. BlockSize \in Nat \ {0} /\ BlockSize \in Nat /\ m \in Int /\ l \in Int
  BY DiskAssumption
<1>2. /\ m * BlockSize \in Int /\ l * BlockSize \in Int /\ x \in Int
      /\ m * BlockSize <= x /\ x < m * BlockSize + BlockSize
      /\ l * BlockSize <= x /\ x < l * BlockSize + BlockSize
  BY <1>1 DEF BlockAt
<1>3. ASSUME m < l PROVE FALSE
  BY <1>1, <1>2, <1>3, TimesLess
<1>4. ASSUME l < m PROVE FALSE
  BY <1>1, <1>2, <1>4, TimesLess
<1> QED BY <1>1, <1>3, <1>4

(* ... so that disk_alloc_process_block takes the first free block, or none *)
(* is free.                                                                 *)
LEMMA BlockToAllocFirst ==
    ASSUME ResIInv, NEW beyond \in SUBSET WordBits, BlockToAlloc(beyond) # NoDiskPage
    PROVE  LET d == BlockToAlloc(beyond) IN
           /\ d \in Bits /\ BlockAt(d) \subseteq Bits \ Taken
           /\ d \in BS!FreeBlocks /\ \A e \in BS!FreeBlocks : d <= e
           /\ \E m \in Nat : d = m * BlockSize
<1> DEFINE d == BlockToAlloc(beyond)
<1>1. d \in Bits /\ BlockAt(d) \subseteq Bits \ Taken /\ d = FirstClear(beyond)
  BY BlockToAllocIs DEF ResIInv
<1> HIDE DEF d
<1>2. BlockSize \in Nat \ {0} /\ \A b \in Bits : b \in Int /\ b \in BlockAt(b)
  BY DiskAssumption, BitmapAssumption DEF Bits, BlockAt
<1>3. d \in Bits \ Taken
  BY <1>1, <1>2
<1>4. \A b \in Bits \ Taken : d <= b
  BY <1>1, <1>3, BlockToAllocIs DEF ResIInv
<1>5. \A e \in BS!FreeBlocks : e \in Bits \ Taken
  BY <1>2 DEF BS!FreeBlocks, BS!BSDiskPages, BS!Block, Bits, BlockAt
<1>6. d \in BS!FreeBlocks
  BY <1>1 DEF BS!FreeBlocks, BS!BSDiskPages, BS!Block, Bits, BlockAt
<1>7. \E m \in Nat : d = m * BlockSize
  BY <1>3, <1>4, FirstClearAligned
<1> QED BY <1>1, <1>4, <1>5, <1>6, <1>7 DEF d

LEMMA NoBlockToAlloc ==
    ASSUME ResIInv, NEW beyond \in SUBSET WordBits, BlockToAlloc(beyond) = NoDiskPage
    PROVE  BS!FreeBlocks = {}
<1>1. SUFFICES ASSUME NEW e \in BS!FreeBlocks PROVE FALSE
  OBVIOUS
<1>2. e \in Bits /\ BlockAt(e) \subseteq Bits \ Taken
  BY DEF BS!FreeBlocks, BS!BSDiskPages, BS!Block, Bits, BlockAt
<1>3. /\ BlockSize \in Nat \ {0} /\ NBits \in Nat /\ e \in Nat
      /\ e \in BlockAt(e) /\ e + (BlockSize - 1) \in BlockAt(e)
  BY <1>2, DiskAssumption, BitmapAssumption DEF Bits, BlockAt
<1>4. e \in Bits \ Taken /\ e + (BlockSize - 1) \in Bits
  BY <1>2, <1>3
<1> DEFINE d == FirstClear(beyond)
<1>5. d \in Bits \ Taken /\ \A b \in Bits \ Taken : d <= b
  BY <1>4, BlockToAllocIs DEF ResIInv
<1>6. d # -1 /\ d # NoDiskPage /\ d \in Nat
  BY <1>5, DiskAssumption DEF Bits
<1>7. ~ HasEnoughConsecutivePages(d)
  BY <1>6 DEF BlockToAlloc
<1> HIDE DEF d
<1>8. d + BlockSize <= NBits
  <2>1. d <= e
    BY <1>4, <1>5
  <2>2. e + (BlockSize - 1) <= NBits - 1
    BY <1>4 DEF Bits
  <2> QED BY <1>3, <1>6, <2>1, <2>2, SMTT(30)
<1>9. PICK x \in BlockAt(d) : BitmapGet(x)
  BY <1>7, <1>8 DEF HasEnoughConsecutivePages
<1>10. x \in Taken
  BY <1>3, <1>6, <1>8, <1>9 DEF Taken, BlockAt, Bits
<1>11. PICK c \in Procs : stage[c] # "junk" /\ x \in BlockAt(blockStart[c])
  BY <1>10 DEF ResIInv, BlockInv
<1>12. PICK m \in Nat : blockStart[c] = m * BlockSize
  BY <1>11 DEF ResIInv, AlignInv
<1>13. PICK l \in Nat : d = l * BlockSize
  BY <1>5, FirstClearAligned
<1>14. blockStart[c] = d
  BY <1>9, <1>11, <1>12, <1>13, SameBlock
<1>15. d \in Taken
  <2>1. d \in BlockAt(d)
    BY <1>3, <1>6 DEF BlockAt
  <2> QED BY <1>11, <1>14, <2>1 DEF ResIInv, BlockInv
<1> QED BY <1>5, <1>15

(* What the abstract specifications see.                                    *)
StoreState == <<Taken, blockStart, Contents, refused>>
MailState == <<[c \in Procs |-> ItemsIn(c)], post>>

LEMMA InitOK == ResInit => ResIInv /\ BS!BSInit /\ Mail!FifoInit
<1> SUFFICES ASSUME ResInit PROVE ResIInv /\ BS!BSInit /\ Mail!FifoInit
  OBVIOUS
<1>1. BitmapTypeOK /\ Taken = {}
  <2>1. words = [k \in 0 .. NWords - 1 |-> {}]
    BY DEF ResInit, BitmapInit
  <2>2. BitmapTypeOK
    BY <2>1 DEF BitmapTypeOK
  <2>3. ASSUME NEW b \in Bits PROVE ~ BitmapGet(b)
    BY <2>1, BitPlace DEF BitmapGet
  <2> QED BY <2>2, <2>3 DEF Taken
<1>2. MapTypeOK /\ MapInv /\ \A k : MapGet(k) = NoVal
  <2>1. size = 0 /\ keys = [i \in 0 .. -1 |-> NoVal] /\ values = [i \in 0 .. -1 |-> NoVal]
    BY DEF ResInit, MapInit
  <2>2. 0 .. 0 - 1 = {} /\ 0 .. -1 = {}
    OBVIOUS
  <2> QED BY <2>1, <2>2 DEF MapTypeOK, MapInv, MapGet, FindKey
<1>3. ChainInv /\ \A q \in Queues : queue[q] = Absent /\ ItemsIn(q) = <<>>
  <2>1. QueuesInit
    BY DEF ResInit
  <2>2. \A q \in Queues : queue[q] = Absent
    BY <2>1 DEF QueuesInit
  <2>3. QueueTypeOK
    BY <2>1 DEF QueuesInit, QueueTypeOK, Absent
  <2>4. \A q \in Queues : NodeSet(q) = {} /\ ItemsIn(q) = <<>>
    BY <2>2, NoNodes DEF ItemsIn
  <2>5. live = {}
    BY <2>1 DEF QueuesInit
  <2> QED BY <2>2, <2>3, <2>4, <2>5 DEF ChainInv
<1>4. /\ stage = [c \in Procs |-> "junk"] /\ idx = [c \in Procs |-> 0]
      /\ blockStart = [c \in Procs |-> NoDiskPage] /\ contLock = NoProc
      /\ post = Null /\ refused = FALSE
  BY DEF ResInit
<1>5. StageTypeOK /\ StageInv
  <2>1. 0 \in 0 .. BlockSize
    BY DiskAssumption
  <2>2. StageTypeOK
    BY <1>4, <2>1 DEF StageTypeOK, Stages
  <2> QED BY <1>4, <2>2, ResourcesAssumption DEF StageInv
<1>6. BlockInv /\ EntryInv /\ BoxInv /\ AlignInv
  BY <1>1, <1>2, <1>3, <1>4, ResourcesAssumption
    DEF BlockInv, EntryInv, BoxInv, AlignInv, Backed
<1>7. BS!BSInit
  BY <1>1, <1>2, <1>4, ResourcesAssumption DEF BS!BSInit, Contents
<1>8. Mail!FifoInit
  BY <1>3, <1>4, ResourcesAssumption DEF Mail!FifoInit
<1> QED BY <1>1, <1>2, <1>3, <1>5, <1>6, <1>7, <1>8 DEF ResIInv

(* The stages of a step.                                                    *)
LEMMA StageStep ==
    ASSUME StageTypeOK, NEW c \in Procs, NEW from, NEW to \in Stages, Step(c, from, to)
    PROVE  /\ stage[c] = from /\ stage'[c] = to /\ stage' \in [Procs -> Stages]
           /\ \A e \in Procs \ {c} : stage'[e] = stage[e]
BY DEF Step, StageTypeOK

LEMMA StageNames ==
    /\ "junk" \in Stages /\ "allocating" \in Stages /\ "ready" \in Stages
    /\ "draining" \in Stages /\ "freeing" \in Stages
BY DEF Stages

(* An empty mailbox is set up or destroyed.                                 *)
LEMMA EmptyQueueStep ==
    ASSUME ChainInv, NEW q \in Queues, queue[q] \in {Empty, Absent},
           NEW x \in {Empty, Absent}, queue' = [queue EXCEPT ![q] = x],
           UNCHANGED <<live, data, next>>
    PROVE  /\ ChainInv' /\ queue'[q] = x
           /\ \A r \in Queues \ {q} : queue'[r] = queue[r]
           /\ \A r \in Queues : ItemsIn(r)' = ItemsIn(r)
<1>1. queue \in [Queues -> [head : Nodes \cup {Null}, tail : Nodes \cup {Null}, size : Int]]
  BY DEF ChainInv, QueueTypeOK
<1>2. queue'[q] = x /\ \A r \in Queues \ {q} : queue'[r] = queue[r]
  BY <1>1
<1>3. QueueTypeOK'
  <2>1. x \in [head : Nodes \cup {Null}, tail : Nodes \cup {Null}, size : Int]
    BY DEF Empty, Absent
  <2> QED BY <2>1 DEF ChainInv, QueueTypeOK
<1>4. NodeSet(q) = {} /\ ItemsIn(q) = <<>> /\ ItemsIn(q)' = <<>>
  BY <1>2, NoNodes DEF ItemsIn
<1>5. /\ ChainInv'
      /\ \A r \in Queues \ {q} : IsChain(r, NodesOf(r)) => NodesOf(r)' = NodesOf(r)
  <2>1. \E T : /\ T \cap (live \ NodeSet(q)) = {}
               /\ live' = (live \ NodeSet(q)) \cup T
               /\ queue'[q] \in {Empty, Absent} /\ T = {}
    BY <1>2, <1>4
  <2>2. \A m \in live \ NodeSet(q) : next'[m] = next[m]
    OBVIOUS
  <2> QED BY <1>2, <1>3, <2>1, <2>2, OneQueueStep
<1>6. ASSUME NEW r \in Queues \ {q} PROVE ItemsIn(r)' = ItemsIn(r)
  BY <1>2, <1>5, <1>6, ItemsKept
<1> QED BY <1>2, <1>4, <1>5, <1>6

(* One lemma per action: what it keeps and what it looks like from outside. *)
LEMMA AllocBlockStep ==
    ASSUME ResIInv, NEW c \in Procs, AllocBlock(c)
    PROVE  ResIInv' /\ BS!Alloc(c) /\ UNCHANGED MailState
<1> USE ResourcesAssumption
<1>1. PICK beyond \in SUBSET WordBits :
        /\ BlockToAlloc(beyond) # NoDiskPage
        /\ TakeBlock(BlockToAlloc(beyond))
        /\ blockStart' = [blockStart EXCEPT ![c] = BlockToAlloc(beyond)]
  BY DEF AllocBlock
<1>2. PICK d : d = BlockToAlloc(beyond)
  OBVIOUS
<1>3. /\ d \in Bits /\ BlockAt(d) \subseteq Bits \ Taken /\ d # NoDiskPage
      /\ d \in BS!FreeBlocks /\ \A e \in BS!FreeBlocks : d <= e
      /\ \E m \in Nat : d = m * BlockSize
  BY <1>1, <1>2, BlockToAllocFirst
<1>4. BitmapTypeOK' /\ Taken' = Taken \cup BlockAt(d)
  BY <1>1, <1>2, <1>3, TakeBlockStep DEF ResIInv
<1>5. MapTypeOK' /\ MapInv' /\ \A k : MapGet(k)' = MapGet(k)
  BY SameMap DEF ResIInv, AllocBlock
<1>6. /\ ChainInv' /\ queue' = queue
      /\ \A q \in Queues : ItemsIn(q)' = ItemsIn(q)
  BY SameQueues DEF ResIInv, AllocBlock
<1>7. /\ stage[c] = "junk" /\ stage'[c] = "allocating"
      /\ stage' \in [Procs -> Stages]
      /\ \A e \in Procs \ {c} : stage'[e] = stage[e]
  BY StageStep, StageNames DEF ResIInv, AllocBlock
<1>8. /\ contLock = NoProc /\ contLock' = c /\ idx' = idx /\ post' = post
      /\ refused' = refused
  BY DEF AllocBlock
<1>9. /\ blockStart \in [Procs -> Bits \cup {NoDiskPage}]
      /\ blockStart' = [blockStart EXCEPT ![c] = d]
      /\ blockStart'[c] = d /\ \A e \in Procs \ {c} : blockStart'[e] = blockStart[e]
  BY <1>1, <1>2 DEF ResIInv, StageTypeOK
<1>10. StageTypeOK'
  BY <1>3, <1>7, <1>8, <1>9 DEF ResIInv, StageTypeOK
<1>11. StageInv'
  BY <1>7, <1>8 DEF ResIInv, StageInv
<1>12. BlockInv'
  <2>1. \A e \in Procs : blockStart'[e] = NoDiskPage <=> stage'[e] = "junk"
    BY <1>3, <1>7, <1>9 DEF ResIInv, BlockInv
  <2>2. \A e \in Procs : stage'[e] # "junk" => BlockAt(blockStart'[e]) \subseteq Taken'
    BY <1>4, <1>7, <1>9 DEF ResIInv, BlockInv
  <2>3. \A b \in Taken' : \E e \in Procs : stage'[e] # "junk" /\ b \in BlockAt(blockStart'[e])
    <3>1. ASSUME NEW b \in Taken
          PROVE  \E e \in Procs : stage'[e] # "junk" /\ b \in BlockAt(blockStart'[e])
      <4>1. PICK e \in Procs : stage[e] # "junk" /\ b \in BlockAt(blockStart[e])
        BY DEF ResIInv, BlockInv
      <4> QED BY <1>7, <1>9, <4>1
    <3>2. ASSUME NEW b \in BlockAt(d)
          PROVE  \E e \in Procs : stage'[e] # "junk" /\ b \in BlockAt(blockStart'[e])
      BY <1>7, <1>9
    <3> QED BY <1>4, <3>1, <3>2
  <2>4. ASSUME NEW e \in Procs, stage'[e] # "junk", e # c
        PROVE  BlockAt(blockStart'[e]) \cap BlockAt(d) = {}
    BY <1>3, <1>7, <1>9, <2>4 DEF ResIInv, BlockInv
  <2>5. ASSUME NEW a \in Procs, NEW e \in Procs, a # c, e # c, a # e,
               stage'[a] # "junk", stage'[e] # "junk"
        PROVE  BlockAt(blockStart'[a]) \cap BlockAt(blockStart'[e]) = {}
    BY <1>7, <1>9, <2>5 DEF ResIInv, BlockInv
  <2>6. \A a, e \in Procs :
            stage'[a] # "junk" /\ stage'[e] # "junk" /\ a # e =>
                BlockAt(blockStart'[a]) \cap BlockAt(blockStart'[e]) = {}
    BY <1>9, <2>4, <2>5
  <2> QED BY <2>1, <2>2, <2>3, <2>6 DEF BlockInv
<1>13. EntryInv'
  <2>1. ASSUME NEW e \in Procs, NEW i \in 0 .. BlockSize - 1
        PROVE  MapGet(<<e, i>>)' =
                 (IF Backed(e, i) THEN blockStart[e] + i ELSE NoDiskPage)'
    <3>1. CASE e = c
      <4>1. idx'[c] = 0 /\ ~ i < 0
        BY <1>7, <1>8 DEF ResIInv, StageInv
      <4>2. ~ Backed(c, i) /\ ~ Backed(c, i)'
        BY <1>7, <4>1 DEF Backed
      <4> QED BY <1>5, <3>1, <4>2 DEF ResIInv, EntryInv
    <3>2. CASE e # c
      <4>1. stage'[e] = stage[e] /\ blockStart'[e] = blockStart[e] /\ idx' = idx
        BY <1>7, <1>8, <1>9, <3>2
      <4>2. Backed(e, i)' <=> Backed(e, i)
        BY <4>1 DEF Backed
      <4> QED BY <1>5, <4>1, <4>2 DEF ResIInv, EntryInv
    <3> QED BY <3>1, <3>2
  <2> QED BY <2>1 DEF EntryInv
<1>14. BoxInv'
  BY <1>6, <1>7 DEF ResIInv, BoxInv
<1>15. AlignInv'
  BY <1>3, <1>7, <1>9 DEF ResIInv, AlignInv
<1>16. BS!Alloc(c)
  <2>1. blockStart[c] = NoDiskPage
    BY <1>7 DEF ResIInv, BlockInv
  <2>2. Contents' = Contents
    BY <1>5 DEF Contents
  <2> QED BY <1>3, <1>4, <1>8, <1>9, <2>1, <2>2 DEF BS!Alloc, BS!Block, BlockAt
<1>17. UNCHANGED MailState
  BY <1>6, <1>8 DEF MailState
<1> QED BY <1>4, <1>5, <1>6, <1>10, <1>11, <1>12, <1>13, <1>14, <1>15, <1>16, <1>17
        DEF ResIInv

LEMMA RefuseStep ==
    ASSUME ResIInv, NEW c \in Procs, Refuse(c)
    PROVE  ResIInv' /\ BS!Refuse /\ UNCHANGED MailState
<1>1. BitmapTypeOK' /\ Taken' = Taken
  BY SameWords DEF ResIInv, Refuse
<1>2. MapTypeOK' /\ MapInv' /\ \A k : MapGet(k)' = MapGet(k)
  BY SameMap DEF ResIInv, Refuse
<1>3. /\ ChainInv' /\ queue' = queue
      /\ \A q \in Queues : ItemsIn(q)' = ItemsIn(q)
  BY SameQueues DEF ResIInv, Refuse
<1>4. /\ stage' = stage /\ idx' = idx /\ blockStart' = blockStart
      /\ contLock' = contLock /\ post' = post /\ refused' = TRUE
  BY DEF Refuse
<1>5. StageTypeOK' /\ StageInv'
  BY <1>4 DEF ResIInv, StageTypeOK, StageInv
<1>6. BlockInv' /\ BoxInv' /\ AlignInv'
  BY <1>1, <1>3, <1>4 DEF ResIInv, BlockInv, BoxInv, AlignInv
<1>7. EntryInv'
  BY <1>2, <1>4 DEF ResIInv, EntryInv, Backed
<1>8. BS!FreeBlocks = {}
  BY NoBlockToAlloc DEF Refuse
<1>9. BS!Refuse
  BY <1>1, <1>2, <1>4, <1>8 DEF BS!Refuse, Contents
<1>10. UNCHANGED MailState
  BY <1>3, <1>4, ResourcesAssumption DEF MailState
<1> QED BY <1>1, <1>2, <1>3, <1>5, <1>6, <1>7, <1>9, <1>10 DEF ResIInv

LEMMA BackPageStep ==
    ASSUME ResIInv, NEW c \in Procs, BackPage(c)
    PROVE  ResIInv' /\ BS!BSNext /\ UNCHANGED MailState
<1> USE ResourcesAssumption
<1>1. /\ stage[c] = "allocating" /\ idx[c] < BlockSize
      /\ MapSet(<<c, idx[c]>>, blockStart[c] + idx[c])
      /\ idx' = [idx EXCEPT ![c] = @ + 1]
      /\ UNCHANGED <<words, queueVars, stage, blockStart, contLock, post, refused>>
  BY DEF BackPage
<1>2. idx \in [Procs -> 0 .. BlockSize] /\ BlockSize \in Nat
  BY DiskAssumption DEF ResIInv, StageTypeOK
<1>3. PICK j \in 0 .. BlockSize - 1 : j = idx[c]
  BY <1>1, <1>2
<1>4. /\ idx'[c] = j + 1 /\ j + 1 \in 0 .. BlockSize
      /\ idx' \in [Procs -> 0 .. BlockSize]
      /\ \A e \in Procs \ {c} : idx'[e] = idx[e]
  BY <1>1, <1>2, <1>3
<1>5. ~ Backed(c, j)
  BY <1>1, <1>3 DEF Backed
<1>6. MapGet(<<c, j>>) = NoDiskPage
  BY <1>5 DEF ResIInv, EntryInv
<1>7. blockStart[c] + j \in Bits
  BY <1>1, BlockOf
<1>8. /\ MapTypeOK' /\ MapInv'
      /\ MapGet(<<c, j>>)' = blockStart[c] + j
      /\ \A l : l # <<c, j>> => MapGet(l)' = MapGet(l)
  <2>1. <<c, j>> \in Keys /\ MapSet(<<c, j>>, blockStart[c] + j)
    BY <1>1, <1>3
  <2>2. blockStart[c] + j \in Vals /\ MapGet(<<c, j>>) = NoVal /\ MapTypeOK /\ MapInv
    BY <1>6, <1>7 DEF ResIInv
  <2> QED BY <2>1, <2>2, MapSetStep
<1>9. BitmapTypeOK' /\ Taken' = Taken
  BY <1>1, SameWords DEF ResIInv
<1>10. /\ ChainInv' /\ queue' = queue
       /\ \A q \in Queues : ItemsIn(q)' = ItemsIn(q)
  BY <1>1, SameQueues DEF ResIInv
<1>11. StageTypeOK' /\ StageInv'
  BY <1>1, <1>4 DEF ResIInv, StageTypeOK, StageInv
<1>12. BlockInv' /\ BoxInv' /\ AlignInv'
  BY <1>1, <1>9, <1>10 DEF ResIInv, BlockInv, BoxInv, AlignInv
<1>13. EntryInv'
  <2>1. ASSUME NEW e \in Procs, NEW i \in 0 .. BlockSize - 1
        PROVE  MapGet(<<e, i>>)' =
                 (IF Backed(e, i) THEN blockStart[e] + i ELSE NoDiskPage)'
    <3>1. CASE e = c /\ i = j
      <4>1. Backed(c, j)'
        BY <1>1, <1>4 DEF Backed
      <4> QED BY <1>1, <1>8, <3>1, <4>1
    <3>2. CASE ~ (e = c /\ i = j)
      <4>1. MapGet(<<e, i>>)' = MapGet(<<e, i>>)
        BY <1>8, <3>2
      <4>2. Backed(e, i)' <=> Backed(e, i)
        <5>1. e = c => (i < idx'[c] <=> i < idx[c])
          BY <1>3, <1>4, <3>2
        <5> QED BY <1>1, <1>4, <5>1 DEF Backed
      <4> QED BY <1>1, <4>1, <4>2 DEF ResIInv, EntryInv
    <3> QED BY <3>1, <3>2
  <2> QED BY <2>1 DEF EntryInv
<1>14. BS!Back(c, j)
  <2>1. blockStart[c] # NoDiskPage /\ Contents[<<c, j>>] = NoDiskPage
    BY <1>1, <1>6 DEF ResIInv, BlockInv, Contents
  <2>2. Contents' = [Contents EXCEPT ![<<c, j>>] = blockStart[c] + j]
    BY <1>8 DEF Contents
  <2> QED BY <1>1, <1>9, <2>1, <2>2 DEF BS!Back
<1>15. UNCHANGED MailState
  BY <1>1, <1>10 DEF MailState
<1> QED BY <1>8, <1>9, <1>10, <1>11, <1>12, <1>13, <1>14, <1>15
        DEF ResIInv, BS!BSNext

LEMMA FinishCreateStep ==
    ASSUME ResIInv, NEW c \in Procs, FinishCreate(c)
    PROVE  ResIInv' /\ UNCHANGED StoreState /\ UNCHANGED MailState
<1> USE ResourcesAssumption
<1>1. /\ stage[c] = "allocating" /\ stage'[c] = "ready"
      /\ stage' \in [Procs -> Stages]
      /\ \A e \in Procs \ {c} : stage'[e] = stage[e]
  BY StageStep, StageNames DEF ResIInv, FinishCreate
<1>2. /\ idx[c] = BlockSize /\ QueueInit(c) /\ idx' = [idx EXCEPT ![c] = 0]
      /\ contLock' = NoProc
      /\ UNCHANGED <<words, mapVars, blockStart, post, refused>>
  BY DEF FinishCreate
<1>3. queue[c] = Absent
  BY <1>1 DEF ResIInv, BoxInv
<1>4. /\ ChainInv' /\ queue'[c] = Empty
      /\ \A r \in Queues \ {c} : queue'[r] = queue[r]
      /\ \A r \in Queues : ItemsIn(r)' = ItemsIn(r)
  BY <1>2, <1>3, EmptyQueueStep DEF ResIInv, QueueInit
<1>5. BitmapTypeOK' /\ Taken' = Taken
  BY <1>2, SameWords DEF ResIInv
<1>6. MapTypeOK' /\ MapInv' /\ \A k : MapGet(k)' = MapGet(k)
  BY <1>2, SameMap DEF ResIInv
<1>7. /\ idx'[c] = 0 /\ idx' \in [Procs -> 0 .. BlockSize]
      /\ \A e \in Procs \ {c} : idx'[e] = idx[e]
  BY <1>2, DiskAssumption DEF ResIInv, StageTypeOK
<1>8. StageTypeOK'
  BY <1>1, <1>2, <1>7 DEF ResIInv, StageTypeOK
<1>9. StageInv'
  BY <1>1, <1>2, <1>7 DEF ResIInv, StageInv
<1>10. BlockInv' /\ AlignInv'
  <2>1. \A e \in Procs : stage'[e] = "junk" <=> stage[e] = "junk"
    BY <1>1
  <2> QED BY <1>2, <1>5, <2>1 DEF ResIInv, BlockInv, AlignInv
<1>11. BoxInv'
  BY <1>1, <1>4 DEF ResIInv, BoxInv, Empty, Absent
<1>12. EntryInv'
  <2>1. ASSUME NEW e \in Procs, NEW i \in 0 .. BlockSize - 1
        PROVE  Backed(e, i)' <=> Backed(e, i)
    <3>1. CASE e = c
      <4>1. i < idx[c]
        BY <1>2, DiskAssumption
      <4> QED BY <1>1, <3>1, <4>1 DEF Backed
    <3>2. CASE e # c
      BY <1>1, <1>7, <3>2 DEF Backed
    <3> QED BY <3>1, <3>2
  <2> QED BY <1>2, <1>6, <2>1 DEF ResIInv, EntryInv
<1>13. UNCHANGED StoreState /\ UNCHANGED MailState
  BY <1>2, <1>4, <1>5, <1>6 DEF StoreState, MailState, Contents
<1> QED BY <1>4, <1>5, <1>6, <1>8, <1>9, <1>10, <1>11, <1>12, <1>13 DEF ResIInv

(* The steps of a mailbox.                                                  *)
LEMMA MailOnly ==
    ASSUME ResIInv, ChainInv',
           UNCHANGED <<words, mapVars, stage, idx, blockStart, contLock, refused>>,
           post' \in Items \cup {Null},
           \A c \in Procs : queue'[c] = Absent <=> queue[c] = Absent
    PROVE  ResIInv' /\ UNCHANGED StoreState
<1>1. BitmapTypeOK' /\ Taken' = Taken
  BY SameWords DEF ResIInv
<1>2. MapTypeOK' /\ MapInv' /\ \A k : MapGet(k)' = MapGet(k)
  BY SameMap DEF ResIInv
<1>3. StageTypeOK' /\ StageInv'
  BY DEF ResIInv, StageTypeOK, StageInv
<1>4. BlockInv' /\ BoxInv' /\ AlignInv'
  BY <1>1 DEF ResIInv, BlockInv, BoxInv, AlignInv
<1>5. EntryInv'
  BY <1>2 DEF ResIInv, EntryInv, Backed
<1>6. UNCHANGED StoreState
  BY <1>1, <1>2 DEF StoreState, Contents
<1> QED BY <1>1, <1>2, <1>3, <1>4, <1>5, <1>6 DEF ResIInv

LEMMA SendStep ==
    ASSUME ResIInv, NEW c \in Procs, NEW item \in Items, Send(c, item)
    PROVE  ResIInv' /\ UNCHANGED StoreState /\ Mail!Push(c, item)
<1> USE ResourcesAssumption
<1>1. /\ stage[c] = "ready" /\ QueuePush(c, item)
      /\ UNCHANGED <<words, mapVars, stage, idx, blockStart, contLock, post, refused>>
  BY DEF Send
<1>2. queue[c] # Absent
  BY <1>1 DEF ResIInv, BoxInv
<1>3. queue[c].size >= 0
  BY <1>2 DEF ResIInv, ChainInv, IsChain, Empty
<1>4. /\ ChainInv' /\ queue'[c] # Absent
      /\ ItemsIn(c)' = Append(ItemsIn(c), item)
      /\ \A r \in Procs \ {c} : queue'[r] = queue[r] /\ ItemsIn(r)' = ItemsIn(r)
  BY <1>1, <1>3, PushStep DEF ResIInv
<1>5. ResIInv' /\ UNCHANGED StoreState
  <2>1. post' \in Items \cup {Null}
    BY <1>1 DEF ResIInv, StageTypeOK
  <2>2. \A e \in Procs : queue'[e] = Absent <=> queue[e] = Absent
    BY <1>2, <1>4
  <2> QED BY <1>1, <1>4, <2>1, <2>2, MailOnly
<1>6. Mail!Push(c, item)
  BY <1>1, <1>4 DEF Mail!Push
<1> QED BY <1>5, <1>6

(* What a queue holds is a sequence.                                        *)
LEMMA ItemsAreSeq == ChainInv => \A q \in Queues : ItemsIn(q) \in Seq(Items \cup {Null})
<1> SUFFICES ASSUME ChainInv, NEW q \in Queues
             PROVE  ItemsIn(q) \in Seq(Items \cup {Null})
  OBVIOUS
<1>1. CASE queue[q] \in {Empty, Absent}
  BY <1>1, NoNodes DEF ItemsIn
<1>2. CASE IsChain(q, NodesOf(q))
  <2>1. /\ queue[q].size \in Nat \ {0}
        /\ NodesOf(q) \in [1 .. queue[q].size -> Nodes]
        /\ data \in [Nodes -> Items \cup {Null}]
    BY <1>2 DEF IsChain, ChainInv, QueueTypeOK
  <2> DEFINE k == queue[q].size
             at == NodesOf(q)
  <2>2. ItemsIn(q) = [i \in 1 .. k |-> IF at[i] = Null THEN Null ELSE data[at[i]]]
    BY <2>1 DEF ItemsIn
  <2> HIDE DEF k, at
  <2>3. ItemsIn(q) \in [1 .. k -> Items \cup {Null}]
    BY <2>1, <2>2 DEF k, at
  <2> QED BY <2>1, <2>3 DEF k
<1> QED BY <1>1, <1>2 DEF ChainInv

LEMMA ItemsAreSeqNext ==
    ASSUME ChainInv' PROVE \A q \in Queues : ItemsIn(q)' \in Seq(Items \cup {Null})
<1>1. (ChainInv => \A q \in Queues : ItemsIn(q) \in Seq(Items \cup {Null}))'
  BY ItemsAreSeq, PTL
<1> QED BY <1>1

LEMMA HeadTail ==
    ASSUME NEW S, NEW s \in Seq(S), NEW x \in S
    PROVE  /\ <<x>> \o s # <<>>
           /\ Head(<<x>> \o s) = x /\ Tail(<<x>> \o s) = s
OBVIOUS

LEMMA PopMailStep ==
    ASSUME ResIInv, NEW c \in Procs, PopMail(c)
    PROVE  ResIInv' /\ UNCHANGED StoreState /\ Mail!Pop(c)
<1> USE ResourcesAssumption
<1>1. /\ QueuePop(c) /\ post' = data[queue[c].head]
      /\ UNCHANGED <<words, mapVars, stage, idx, blockStart, contLock, refused>>
  BY DEF PopMail
<1>2. /\ ChainInv' /\ queue'[c] # Absent /\ queue[c] # Absent
      /\ queue[c].head \in Nodes
      /\ ItemsIn(c) = <<data[queue[c].head]>> \o ItemsIn(c)'
      /\ \A r \in Procs \ {c} : queue'[r] = queue[r] /\ ItemsIn(r)' = ItemsIn(r)
  BY <1>1, PopStep DEF ResIInv
<1>3. post' \in Items \cup {Null}
  BY <1>1, <1>2 DEF ResIInv, ChainInv, QueueTypeOK
<1>4. ResIInv' /\ UNCHANGED StoreState
  <2>1. \A e \in Procs : queue'[e] = Absent <=> queue[e] = Absent
    BY <1>2
  <2> QED BY <1>1, <1>2, <1>3, <2>1, MailOnly
<1>5. Mail!Pop(c)
  <2>1. ItemsIn(c)' \in Seq(Items \cup {Null}) /\ ItemsIn(c) = <<post'>> \o ItemsIn(c)'
    BY <1>1, <1>2, ItemsAreSeqNext
  <2>2. ItemsIn(c) # <<>> /\ Head(ItemsIn(c)) = post' /\ Tail(ItemsIn(c)) = ItemsIn(c)'
    BY <1>3, <2>1, HeadTail
  <2> QED BY <1>2, <2>2 DEF Mail!Pop
<1> QED BY <1>4, <1>5

LEMMA StartDeallocStep ==
    ASSUME ResIInv, NEW c \in Procs, StartDealloc(c)
    PROVE  ResIInv' /\ UNCHANGED StoreState /\ UNCHANGED MailState
<1> USE ResourcesAssumption
<1>1. /\ stage[c] = "ready" /\ stage'[c] = "draining"
      /\ stage' \in [Procs -> Stages]
      /\ \A e \in Procs \ {c} : stage'[e] = stage[e]
  BY StageStep, StageNames DEF ResIInv, StartDealloc
<1>2. /\ contLock = NoProc /\ contLock' = c
      /\ UNCHANGED <<words, mapVars, queueVars, idx, blockStart, post, refused>>
  BY DEF StartDealloc
<1>3. /\ ChainInv' /\ queue' = queue
      /\ \A q \in Queues : ItemsIn(q)' = ItemsIn(q)
  BY <1>2, SameQueues DEF ResIInv
<1>4. BitmapTypeOK' /\ Taken' = Taken
  BY <1>2, SameWords DEF ResIInv
<1>5. MapTypeOK' /\ MapInv' /\ \A k : MapGet(k)' = MapGet(k)
  BY <1>2, SameMap DEF ResIInv
<1>6. StageTypeOK'
  BY <1>1, <1>2 DEF ResIInv, StageTypeOK
<1>7. StageInv'
  BY <1>1, <1>2 DEF ResIInv, StageInv
<1>8. BlockInv' /\ AlignInv'
  <2>1. \A e \in Procs : stage'[e] = "junk" <=> stage[e] = "junk"
    BY <1>1
  <2> QED BY <1>2, <1>4, <2>1 DEF ResIInv, BlockInv, AlignInv
<1>9. BoxInv'
  BY <1>1, <1>3 DEF ResIInv, BoxInv
<1>10. EntryInv'
  <2>1. \A e \in Procs, i \in 0 .. BlockSize - 1 : Backed(e, i)' <=> Backed(e, i)
    BY <1>1, <1>2 DEF Backed
  <2> QED BY <1>2, <1>5, <2>1 DEF ResIInv, EntryInv
<1>11. UNCHANGED StoreState /\ UNCHANGED MailState
  BY <1>2, <1>3, <1>4, <1>5 DEF StoreState, MailState, Contents
<1> QED BY <1>3, <1>4, <1>5, <1>6, <1>7, <1>8, <1>9, <1>10, <1>11 DEF ResIInv

LEMMA DestroyMailStep ==
    ASSUME ResIInv, NEW c \in Procs, DestroyMail(c)
    PROVE  ResIInv' /\ UNCHANGED StoreState /\ UNCHANGED MailState
<1> USE ResourcesAssumption
<1>1. /\ stage[c] = "draining" /\ stage'[c] = "freeing"
      /\ stage' \in [Procs -> Stages]
      /\ \A e \in Procs \ {c} : stage'[e] = stage[e]
  BY StageStep, StageNames DEF ResIInv, DestroyMail
<1>2. /\ queue[c].size = 0 /\ QueueDestroy(c)
      /\ UNCHANGED <<words, mapVars, idx, blockStart, contLock, post, refused>>
  BY DEF DestroyMail
<1>3. queue[c] \in {Empty, Absent} /\ queue' = [queue EXCEPT ![c] = Absent]
      /\ UNCHANGED <<live, data, next>>
  <2>1. ~ IsChain(c, NodesOf(c))
    BY <1>2 DEF IsChain
  <2> QED BY <1>2, <2>1 DEF ResIInv, ChainInv, QueueDestroy
<1>4. /\ ChainInv' /\ queue'[c] = Absent
      /\ \A r \in Queues \ {c} : queue'[r] = queue[r]
      /\ \A r \in Queues : ItemsIn(r)' = ItemsIn(r)
  BY <1>3, EmptyQueueStep DEF ResIInv
<1>5. BitmapTypeOK' /\ Taken' = Taken
  BY <1>2, SameWords DEF ResIInv
<1>6. MapTypeOK' /\ MapInv' /\ \A k : MapGet(k)' = MapGet(k)
  BY <1>2, SameMap DEF ResIInv
<1>7. StageTypeOK'
  BY <1>1, <1>2 DEF ResIInv, StageTypeOK
<1>8. StageInv'
  BY <1>1, <1>2 DEF ResIInv, StageInv
<1>9. BlockInv' /\ AlignInv'
  <2>1. \A e \in Procs : stage'[e] = "junk" <=> stage[e] = "junk"
    BY <1>1
  <2> QED BY <1>2, <1>5, <2>1 DEF ResIInv, BlockInv, AlignInv
<1>10. BoxInv'
  BY <1>1, <1>4 DEF ResIInv, BoxInv
<1>11. EntryInv'
  <2>1. ASSUME NEW e \in Procs, NEW i \in 0 .. BlockSize - 1
        PROVE  Backed(e, i)' <=> Backed(e, i)
    <3>1. CASE e = c
      <4>1. idx'[c] = 0 /\ i >= 0
        BY <1>1, <1>2 DEF ResIInv, StageInv
      <4> QED BY <1>1, <3>1, <4>1 DEF Backed
    <3>2. CASE e # c
      BY <1>1, <1>2, <3>2 DEF Backed
    <3> QED BY <3>1, <3>2
  <2> QED BY <1>2, <1>6, <2>1 DEF ResIInv, EntryInv
<1>12. UNCHANGED StoreState /\ UNCHANGED MailState
  BY <1>2, <1>4, <1>5, <1>6 DEF StoreState, MailState, Contents
<1> QED BY <1>4, <1>5, <1>6, <1>7, <1>8, <1>9, <1>10, <1>11, <1>12 DEF ResIInv

LEMMA UnbackPageStep ==
    ASSUME ResIInv, NEW c \in Procs, UnbackPage(c)
    PROVE  ResIInv' /\ BS!BSNext /\ UNCHANGED MailState
<1> USE ResourcesAssumption
<1>1. /\ stage[c] = "freeing" /\ idx[c] < BlockSize
      /\ MapRemove(<<c, idx[c]>>)
      /\ idx' = [idx EXCEPT ![c] = @ + 1]
      /\ UNCHANGED <<words, queueVars, stage, blockStart, contLock, post, refused>>
  BY DEF UnbackPage
<1>2. idx \in [Procs -> 0 .. BlockSize] /\ BlockSize \in Nat
  BY DiskAssumption DEF ResIInv, StageTypeOK
<1>3. PICK j \in 0 .. BlockSize - 1 : j = idx[c]
  BY <1>1, <1>2
<1>4. /\ idx'[c] = j + 1 /\ j + 1 \in 0 .. BlockSize
      /\ idx' \in [Procs -> 0 .. BlockSize]
      /\ \A e \in Procs \ {c} : idx'[e] = idx[e]
  BY <1>1, <1>2, <1>3
<1>5. Backed(c, j)
  BY <1>1, <1>3 DEF Backed
<1>6. MapGet(<<c, j>>) # NoDiskPage
  <2>1. blockStart[c] + j \in Bits
    BY <1>1, BlockOf
  <2>2. MapGet(<<c, j>>) = blockStart[c] + j
    BY <1>5 DEF ResIInv, EntryInv
  <2> QED BY <2>1, <2>2, DiskAssumption
<1>7. /\ MapTypeOK' /\ MapInv'
      /\ MapGet(<<c, j>>)' = NoDiskPage
      /\ \A l : l # <<c, j>> => MapGet(l)' = MapGet(l)
  <2>1. MapRemove(<<c, j>>)
    BY <1>1, <1>3
  <2>2. MapGet(<<c, j>>) # NoVal /\ MapTypeOK /\ MapInv
    BY <1>6 DEF ResIInv
  <2> QED BY <2>1, <2>2, MapRemoveStep
<1>8. BitmapTypeOK' /\ Taken' = Taken
  BY <1>1, SameWords DEF ResIInv
<1>9. /\ ChainInv' /\ queue' = queue
      /\ \A q \in Queues : ItemsIn(q)' = ItemsIn(q)
  BY <1>1, SameQueues DEF ResIInv
<1>10. StageTypeOK' /\ StageInv'
  BY <1>1, <1>4 DEF ResIInv, StageTypeOK, StageInv
<1>11. BlockInv' /\ BoxInv' /\ AlignInv'
  BY <1>1, <1>8, <1>9 DEF ResIInv, BlockInv, BoxInv, AlignInv
<1>12. EntryInv'
  <2>1. ASSUME NEW e \in Procs, NEW i \in 0 .. BlockSize - 1
        PROVE  MapGet(<<e, i>>)' =
                 (IF Backed(e, i) THEN blockStart[e] + i ELSE NoDiskPage)'
    <3>1. CASE e = c /\ i = j
      <4>1. ~ Backed(c, j)'
        BY <1>1, <1>4 DEF Backed
      <4> QED BY <1>1, <1>7, <3>1, <4>1
    <3>2. CASE ~ (e = c /\ i = j)
      <4>1. MapGet(<<e, i>>)' = MapGet(<<e, i>>)
        BY <1>7, <3>2
      <4>2. Backed(e, i)' <=> Backed(e, i)
        <5>1. e = c => (i >= idx'[c] <=> i >= idx[c])
          BY <1>3, <1>4, <3>2
        <5> QED BY <1>1, <1>4, <5>1 DEF Backed
      <4> QED BY <1>1, <4>1, <4>2 DEF ResIInv, EntryInv
    <3> QED BY <3>1, <3>2
  <2> QED BY <2>1 DEF EntryInv
<1>13. BS!Unback(c, j)
  <2>1. Contents[<<c, j>>] # NoDiskPage
    BY <1>6 DEF Contents
  <2>2. Contents' = [Contents EXCEPT ![<<c, j>>] = NoDiskPage]
    BY <1>7 DEF Contents
  <2> QED BY <1>1, <1>8, <2>1, <2>2 DEF BS!Unback
<1>14. UNCHANGED MailState
  BY <1>1, <1>9 DEF MailState
<1> QED BY <1>7, <1>8, <1>9, <1>10, <1>11, <1>12, <1>13, <1>14
        DEF ResIInv, BS!BSNext

LEMMA FreeBlockStep ==
    ASSUME ResIInv, NEW c \in Procs, FreeBlock(c)
    PROVE  ResIInv' /\ BS!Release(c) /\ UNCHANGED MailState
<1> USE ResourcesAssumption
<1>1. /\ stage[c] = "freeing" /\ stage'[c] = "junk"
      /\ stage' \in [Procs -> Stages]
      /\ \A e \in Procs \ {c} : stage'[e] = stage[e]
  BY StageStep, StageNames DEF ResIInv, FreeBlock
<1>2. /\ idx[c] = BlockSize /\ ReleaseBlock(blockStart[c])
      /\ blockStart' = [blockStart EXCEPT ![c] = NoDiskPage]
      /\ idx' = [idx EXCEPT ![c] = 0] /\ contLock' = NoProc
      /\ UNCHANGED <<mapVars, queueVars, post, refused>>
  BY DEF FreeBlock
<1>3. PICK d : d = blockStart[c]
  OBVIOUS
<1>4. d \in Bits /\ BlockAt(d) \subseteq Bits
  BY <1>1, <1>3, BlockOf
<1>5. BitmapTypeOK' /\ Taken' = Taken \ BlockAt(d)
  BY <1>2, <1>3, <1>4, ReleaseBlockStep DEF ResIInv
<1>6. MapTypeOK' /\ MapInv' /\ \A k : MapGet(k)' = MapGet(k)
  BY <1>2, SameMap DEF ResIInv
<1>7. /\ ChainInv' /\ queue' = queue
      /\ \A q \in Queues : ItemsIn(q)' = ItemsIn(q)
  BY <1>2, SameQueues DEF ResIInv
<1>8. /\ blockStart' \in [Procs -> Bits \cup {NoDiskPage}]
      /\ blockStart'[c] = NoDiskPage
      /\ \A e \in Procs \ {c} : blockStart'[e] = blockStart[e]
  BY <1>2 DEF ResIInv, StageTypeOK
<1>9. /\ idx'[c] = 0 /\ idx' \in [Procs -> 0 .. BlockSize]
      /\ \A e \in Procs \ {c} : idx'[e] = idx[e]
  BY <1>2, DiskAssumption DEF ResIInv, StageTypeOK
<1>10. StageTypeOK'
  BY <1>1, <1>2, <1>8, <1>9 DEF ResIInv, StageTypeOK
<1>11. StageInv'
  BY <1>1, <1>2, <1>9 DEF ResIInv, StageInv
<1>12. ASSUME NEW e \in Procs, stage'[e] # "junk"
       PROVE  /\ e # c /\ stage[e] # "junk" /\ blockStart'[e] = blockStart[e]
              /\ BlockAt(blockStart[e]) \cap BlockAt(d) = {}
  <2>1. e # c
    BY <1>1, <1>12
  <2>2. stage[e] # "junk"
    BY <1>1, <1>12, <2>1
  <2> QED BY <1>1, <1>3, <1>8, <2>1, <2>2 DEF ResIInv, BlockInv
<1>13. BlockInv'
  <2>1. \A e \in Procs : blockStart'[e] = NoDiskPage <=> stage'[e] = "junk"
    BY <1>1, <1>8 DEF ResIInv, BlockInv
  <2>2. \A e \in Procs : stage'[e] # "junk" => BlockAt(blockStart'[e]) \subseteq Taken'
    BY <1>5, <1>12 DEF ResIInv, BlockInv
  <2>3. ASSUME NEW b \in Taken'
        PROVE  \E e \in Procs : stage'[e] # "junk" /\ b \in BlockAt(blockStart'[e])
    <3>1. PICK e \in Procs : stage[e] # "junk" /\ b \in BlockAt(blockStart[e])
      BY <1>5, <2>3 DEF ResIInv, BlockInv
    <3>2. e # c
      BY <1>3, <1>5, <2>3, <3>1
    <3> QED BY <1>1, <1>8, <3>1, <3>2
  <2>4. \A a, e \in Procs :
            stage'[a] # "junk" /\ stage'[e] # "junk" /\ a # e =>
                BlockAt(blockStart'[a]) \cap BlockAt(blockStart'[e]) = {}
    BY <1>12 DEF ResIInv, BlockInv
  <2> QED BY <2>1, <2>2, <2>3, <2>4 DEF BlockInv
<1>14. EntryInv'
  <2>1. ASSUME NEW e \in Procs, NEW i \in 0 .. BlockSize - 1
        PROVE  MapGet(<<e, i>>)' =
                 (IF Backed(e, i) THEN blockStart[e] + i ELSE NoDiskPage)'
    <3>1. CASE e = c
      <4>1. ~ i >= idx[c]
        BY <1>2, DiskAssumption
      <4>2. ~ Backed(c, i) /\ ~ Backed(c, i)'
        BY <1>1, <4>1 DEF Backed
      <4> QED BY <1>6, <3>1, <4>2 DEF ResIInv, EntryInv
    <3>2. CASE e # c
      <4>1. stage'[e] = stage[e] /\ blockStart'[e] = blockStart[e] /\ idx'[e] = idx[e]
        BY <1>1, <1>8, <1>9, <3>2
      <4>2. Backed(e, i)' <=> Backed(e, i)
        BY <4>1 DEF Backed
      <4> QED BY <1>6, <4>1, <4>2 DEF ResIInv, EntryInv
    <3> QED BY <3>1, <3>2
  <2> QED BY <2>1 DEF EntryInv
<1>15. BoxInv'
  BY <1>1, <1>7 DEF ResIInv, BoxInv
<1>16. AlignInv'
  BY <1>12 DEF ResIInv, AlignInv
<1>17. BS!Release(c)
  <2>1. blockStart[c] # NoDiskPage
    BY <1>1 DEF ResIInv, BlockInv
  <2>2. ASSUME NEW i \in 0 .. BlockSize - 1 PROVE Contents[<<c, i>>] = NoDiskPage
    <3>1. ~ i >= idx[c]
      BY <1>2, DiskAssumption
    <3>2. ~ Backed(c, i)
      BY <1>1, <3>1 DEF Backed
    <3> QED BY <3>2 DEF ResIInv, EntryInv, Contents
  <2>3. Contents' = Contents
    BY <1>6 DEF Contents
  <2> QED BY <1>2, <1>3, <1>5, <2>1, <2>2, <2>3 DEF BS!Release, BS!Block, BlockAt
<1>18. UNCHANGED MailState
  BY <1>2, <1>7 DEF MailState
<1> QED BY <1>5, <1>6, <1>7, <1>10, <1>11, <1>13, <1>14, <1>15, <1>16, <1>17, <1>18
        DEF ResIInv

LEMMA StutterStep ==
    ASSUME ResIInv, UNCHANGED resVars
    PROVE  ResIInv' /\ UNCHANGED StoreState /\ UNCHANGED MailState
<1>1. UNCHANGED <<words, mapVars, queueVars, stage, idx, blockStart, contLock,
                  post, refused>>
  BY DEF resVars
<1>2. ChainInv' /\ queue' = queue /\ \A q \in Queues : ItemsIn(q)' = ItemsIn(q)
  BY <1>1, SameQueues DEF ResIInv
<1>3. post' \in Items \cup {Null}
  BY <1>1 DEF ResIInv, StageTypeOK
<1>4. ResIInv' /\ UNCHANGED StoreState
  BY <1>1, <1>2, <1>3, MailOnly
<1>5. UNCHANGED MailState
  BY <1>1, <1>2, ResourcesAssumption DEF MailState
<1> QED BY <1>4, <1>5

(* Every step keeps the invariant and is a step, or none, of the store and  *)
(* of the mailboxes.                                                        *)
LEMMA AnyStep ==
    ASSUME ResIInv, [ResNext]_resVars
    PROVE  /\ ResIInv'
           /\ BS!BSNext \/ UNCHANGED StoreState
           /\ Mail!FifoNext \/ UNCHANGED MailState
<1>1. CASE UNCHANGED resVars
  BY <1>1, StutterStep
<1>2. CASE ResNext
  <2> PICK c \in Procs :
        \/ AllocBlock(c) \/ Refuse(c) \/ BackPage(c) \/ FinishCreate(c)
        \/ (\E item \in Items : Send(c, item)) \/ PopMail(c)
        \/ StartDealloc(c) \/ DestroyMail(c) \/ UnbackPage(c) \/ FreeBlock(c)
    BY <1>2 DEF ResNext
  <2>1. CASE AllocBlock(c)
    BY <2>1, AllocBlockStep DEF BS!BSNext
  <2>2. CASE Refuse(c)
    BY <2>2, RefuseStep DEF BS!BSNext
  <2>3. CASE BackPage(c)
    BY <2>3, BackPageStep
  <2>4. CASE FinishCreate(c)
    BY <2>4, FinishCreateStep
  <2>5. CASE \E item \in Items : Send(c, item)
    BY <2>5, SendStep, ResourcesAssumption DEF Mail!FifoNext
  <2>6. CASE PopMail(c)
    BY <2>6, PopMailStep, ResourcesAssumption DEF Mail!FifoNext
  <2>7. CASE StartDealloc(c)
    BY <2>7, StartDeallocStep
  <2>8. CASE DestroyMail(c)
    BY <2>8, DestroyMailStep
  <2>9. CASE UnbackPage(c)
    BY <2>9, UnbackPageStep
  <2>10. CASE FreeBlock(c)
    BY <2>10, FreeBlockStep DEF BS!BSNext
  <2> QED BY <2>1, <2>2, <2>3, <2>4, <2>5, <2>6, <2>7, <2>8, <2>9, <2>10
<1> QED BY <1>1, <1>2

THEOREM Invariance == ResSpec => []ResIInv
<1>1. ResInit => ResIInv
  BY InitOK
<1>2. ResIInv /\ [ResNext]_resVars => ResIInv'
  BY AnyStep
<1> QED BY <1>1, <1>2, PTL DEF ResSpec

-----------------------------------------------------------------------------
(* The words of the bitmap, the arrays of the map, the nodes of the queues  *)
(* and the slots keep their types (bitmap.c, map.c, queue.c, disk.c).       *)
THEOREM ResTypeCorrect == ResSpec => []ResTypeOK
<1>1. ResIInv => ResTypeOK
  BY DEF ResIInv, ResTypeOK, ChainInv, StageTypeOK
<1> QED BY <1>1, Invariance, PTL

(* bitmap_first_clear and bitmap_first_set return the first such bit, and   *)
(* ecNotFound if there is none, whatever lies behind the last word.         *)
THEOREM FirstSafe == ResSpec => []FirstInv
<1>1. ResIInv => FirstInv
  BY FirstFollows DEF ResIInv
<1> QED BY <1>1, Invariance, PTL

(* The bits of the disk, the entries of disk_map and the mailboxes are      *)
(* those of the processes there are, and no page belongs to two of them     *)
(* (init_process and process_dealloc).                                      *)
THEOREM OwnSafe == ResSpec => []OwnInv
<1>1. ResIInv => OwnInv
  BY DEF ResIInv, OwnInv, BlockInv, EntryInv, BoxInv
<1> QED BY <1>1, Invariance, PTL

(* Each mailbox is a chain of nodes of its own, and no node is lost         *)
(* (queue_push, queue_pop and queue_destroy).                               *)
THEOREM QueueSafe == ResSpec => []QueueInv
<1>1. ResIInv => QueueInv
  BY ChainFollows DEF ResIInv
<1> QED BY <1>1, Invariance, PTL

(* With the words of the bitmap and the arrays of the map, a process gets   *)
(* the first block of the disk that is free, is refused one only if there   *)
(* is none, and finds its pages backed by it (disk_alloc_process_block,     *)
(* disk_free_process_block, mmu_alloc_page, mmu_free_page).                 *)
THEOREM StoreRefined == ResSpec => BSRefined
<1>1. ResInit => BS!BSInit
  BY InitOK
<1>2. ResIInv /\ [ResNext]_resVars => [BS!BSNext]_(BS!bsVars)
  BY AnyStep DEF StoreState, BS!bsVars
<1> QED BY <1>1, <1>2, Invariance, PTL DEF ResSpec, BSRefined, BS!BSSpec

(* Mail is taken in the order in which it was sent, from each mailbox its   *)
(* own (compose_mail and process_func on queue.c and list.c).               *)
THEOREM MailIsFifo == ResSpec => MailRefined
<1>1. ResInit => Mail!FifoInit
  BY InitOK
<1>2. ResIInv /\ [ResNext]_resVars =>
        [Mail!FifoNext]_<<[c \in Procs |-> ItemsIn(c)], post>>
  BY AnyStep DEF MailState
<1> QED BY <1>1, <1>2, Invariance, PTL DEF ResSpec, MailRefined, Mail!FifoSpec
=============================================================================
