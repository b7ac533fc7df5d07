----------------------------- MODULE JobsProofs -----------------------------
(***************************************************************************)
(* Proofs about the commands that access the memory of a process: the      *)
(* arithmetic of virtual addresses, the types of what travels from a line  *)
(* to a call, and that the calls are accesses to plain arrays of bytes, as *)
(* ByteMemory promises.                                                    *)
(***************************************************************************)
EXTENDS Jobs, TLAPS

-----------------------------------------------------------------------------
(* The arithmetic of addresses, for every page size that is a power of two. *)

LEMMA DivMod ==
    ASSUME NEW n \in Nat
    PROVE  /\ n \div PageSize \in Nat /\ n % PageSize \in Offsets
           /\ n = (n \div PageSize) * PageSize + (n % PageSize)
BY PageSizeAssumption DEF Offsets

(* Only one page and offset make a given number.                            *)
LEMMA DivModUnique ==
    ASSUME NEW q \in Nat, NEW r \in Offsets
    PROVE  /\ (q * PageSize + r) \div PageSize = q
           /\ (q * PageSize + r) % PageSize = r
<1> DEFINE n == q * PageSize + r
           d == n \div PageSize
<1>1. PageSize \in Nat \ {0} /\ r \in Nat /\ r < PageSize
  BY PageSizeAssumption DEF Offsets
<1>2. n \in Nat
  BY <1>1
<1>3. d \in Nat /\ n % PageSize \in Offsets /\ n = d * PageSize + (n % PageSize)
  BY <1>2, DivMod
<1>4. n % PageSize \in Nat /\ n % PageSize < PageSize
  BY <1>1, <1>3 DEF Offsets
<1>5. ~ d > q
  <2> SUFFICES ASSUME d >= q + 1 PROVE FALSE
    BY <1>3
  <2>1. d * PageSize >= (q + 1) * PageSize
    BY <1>1, <1>3
  <2>2. (q + 1) * PageSize = q * PageSize + PageSize
    BY <1>1
  <2> QED BY <1>1, <1>3, <1>4, <2>1, <2>2
<1>6. ~ d < q
  <2> SUFFICES ASSUME q >= d + 1 PROVE FALSE
    BY <1>3
  <2>1. q * PageSize >= (d + 1) * PageSize
    BY <1>1, <1>3
  <2>2. (d + 1) * PageSize = d * PageSize + PageSize
    BY <1>1, <1>3
  <2> QED BY <1>1, <1>3, <1>4, <2>1, <2>2
<1>7. d = q
  BY <1>3, <1>5, <1>6
<1> QED BY <1>1, <1>3, <1>4, <1>7

(* The shift and the mask of make_virt_addr split an address, ...           *)
LEMMA MakeLinear ==
    ASSUME NEW address \in Nat
    PROVE  /\ MakeVirtAddr(address) \in VirtAddrs
           /\ Linear(MakeVirtAddr(address)) = address
BY DivMod, PageSizeAssumption
   DEF MakeVirtAddr, PageFromAddress, OffsetFromAddress, VirtAddrs, Linear

(* ... the loop of advance_virt_addr carries as many pages as fit, ...      *)
LEMMA AdvanceLinear ==
    ASSUME NEW addr \in VirtAddrs, NEW offset \in Nat
    PROVE  /\ AdvanceVirtAddr(addr, offset) \in VirtAddrs
           /\ Linear(AdvanceVirtAddr(addr, offset)) = Linear(addr) + offset
<1> DEFINE n == addr.offset + offset
           d == n \div PageSize
<1>1. addr.page \in Nat /\ addr.offset \in Nat /\ n \in Nat /\ PageSize \in Nat
  BY PageSizeAssumption DEF VirtAddrs, Offsets
<1>2. d \in Nat /\ n % PageSize \in Offsets /\ n = d * PageSize + (n % PageSize)
  BY <1>1, DivMod
<1>3. (addr.page + d) * PageSize = addr.page * PageSize + d * PageSize
  BY <1>1, <1>2
<1>4. AdvanceVirtAddr(addr, offset) = [page |-> addr.page + d, offset |-> n % PageSize]
  BY DEF AdvanceVirtAddr
<1>5. Linear(AdvanceVirtAddr(addr, offset)) = (addr.page + d) * PageSize + (n % PageSize)
  BY <1>4 DEF Linear
<1>6. addr.page * PageSize \in Nat /\ d * PageSize \in Nat /\ n % PageSize \in Nat
  BY <1>1, <1>2 DEF Offsets
<1> QED
  <2>1. AdvanceVirtAddr(addr, offset) \in VirtAddrs
    BY <1>1, <1>2, <1>4 DEF VirtAddrs
  <2> HIDE DEF n, d
  <2>2. n = addr.offset + offset
    BY DEF n
  <2>3. Linear(addr) = addr.page * PageSize + addr.offset
    BY DEF Linear
  <2>4. (addr.page + d) * PageSize + (n % PageSize) = addr.page * PageSize + n
    BY <1>1, <1>2, <1>3, <1>6
  <2> QED BY <1>1, <1>5, <1>6, <2>1, <2>2, <2>3, <2>4

(* ... and a virtual address names one byte, which lies in the memory if    *)
(* its page does.                                                           *)
LEMMA LinearPlace ==
    ASSUME NEW addr \in VirtAddrs
    PROVE  /\ Linear(addr) \in Nat
           /\ Linear(addr) \div PageSize = addr.page
           /\ Linear(addr) % PageSize = addr.offset
           /\ Linear(addr) < BlockSize * PageSize <=> addr.page < BlockSize
<1>1. addr.page \in Nat /\ addr.offset \in Offsets
  BY DEF VirtAddrs
<1>2. /\ addr.offset \in Nat /\ addr.offset < PageSize
      /\ PageSize \in Nat \ {0} /\ BlockSize \in Nat \ {0}
  BY <1>1, PageSizeAssumption, JobsAssumption DEF Offsets
<1>3. addr.page * PageSize \in Nat /\ BlockSize * PageSize \in Nat
  BY <1>1, <1>2
<1>4. ASSUME addr.page < BlockSize
      PROVE  Linear(addr) < BlockSize * PageSize
  <2>1. (addr.page + 1) * PageSize <= BlockSize * PageSize
    BY <1>1, <1>2, <1>4
  <2>2. (addr.page + 1) * PageSize = addr.page * PageSize + PageSize
    BY <1>1, <1>2
  <2> QED BY <1>2, <1>3, <2>1, <2>2 DEF Linear
<1>5. ASSUME addr.page >= BlockSize
      PROVE  Linear(addr) >= BlockSize * PageSize
  <2>1. addr.page * PageSize >= BlockSize * PageSize
    BY <1>1, <1>2, <1>5
  <2> QED BY <1>2, <1>3, <2>1 DEF Linear
<1>6. Linear(addr) \in Nat
  BY <1>2, <1>3 DEF Linear
<1> QED BY <1>1, <1>2, <1>3, <1>4, <1>5, <1>6, DivModUnique DEF Linear

-----------------------------------------------------------------------------
(* The messages that lines become.                                          *)
Posts == {PostOf(l) : l \in Lines} \ {Illegal}

(* What the decoders make of them: a call that has not begun, and has a     *)
(* byte for every turn.                                                     *)
Fresh(j) ==
    /\ j \in Calls /\ j.multiplier = 0
    /\ j.sim = "read" => j.room = Room(j.off, j.amount)
    /\ j.sim = "write" => Len(j.data) = j.amount /\ j.off = 1
    /\ j.sim = "loopWrite" => Len(j.data) = 1

(* The message says what the line means.                                    *)
Faithful(l) ==
    /\ WellTyped(PostOf(l))
    /\ PostOf(l).pid = BM!Scan(l.args[2].num)
    /\ Fresh(CallOf(PostOf(l)))
    /\ Request(CallOf(PostOf(l)), 0) = BM!Meaning(l)

(* A number is read as a word, and cut to an int.                           *)
LEMMA Scanned ==
    ASSUME NEW n \in Int
    PROVE  /\ Scan(n) \in Nat /\ Signed(Scan(n)) \in Ints
           /\ BM!Scan(n) = Scan(n) /\ BM!Signed(Scan(n)) = Signed(Scan(n))
<1>1. SignBit \in Nat /\ SignBit > 1 /\ Word \in Nat \ {0} /\ Word = 2 * SignBit
  BY SignBitAssumption DEF Word
<1>2. n % Word \in 0 .. Word - 1
  BY <1>1
<1>3. Scan(n) \in 0 .. Word - 1
  <2>1. Scan(n) \in {n % Word, Word - 1}
    BY DEF Scan
  <2> QED BY <1>1, <1>2, <2>1
<1>4. ASSUME NEW u \in 0 .. Word - 1 PROVE Signed(u) \in Ints
  BY <1>1 DEF Signed, Ints
<1>5. BM!Scan(n) = Scan(n) /\ BM!Signed(Scan(n)) = Signed(Scan(n))
  BY DEF BM!Scan, Scan, BM!Signed, Signed, BM!Word, Word
<1> QED BY <1>1, <1>3, <1>4, <1>5

LEMMA IntsAreIntegers == Ints \subseteq Int /\ 0 \in Ints /\ 1 \in Ints
BY SignBitAssumption DEF Ints

(* What buf is allocated with is a size, and one that fits an int is enough *)
(* for every turn of the loop.                                              *)
LEMMA RoomFacts ==
    ASSUME NEW off \in Ints, NEW amount \in Ints
    PROVE  /\ Room(off, amount) \in Nat
           /\ off > 0 /\ amount > 0 /\ amount * off + 1 < SignBit
                => amount < Room(off, amount)
<1> DEFINE n == amount * off + 1
           size == Signed(n % Word)
<1>1. SignBit \in Nat /\ SignBit > 1 /\ Word \in Nat \ {0} /\ Word = 2 * SignBit
  BY SignBitAssumption DEF Word
<1>2. off \in Int /\ amount \in Int /\ amount * off \in Int /\ n \in Int
  BY IntsAreIntegers
<1>3. n % Word \in 0 .. Word - 1
  BY <1>1, <1>2
<1>4. size \in Int
  BY <1>1, <1>3 DEF Signed
<1>5. ASSUME off > 0, amount > 0, n < SignBit
      PROVE  amount < size /\ size > 0
  <2>1. amount * off >= amount
    BY <1>2, <1>5
  <2>2. n \in 0 .. Word - 1 /\ amount < n
    <3> HIDE DEF n
    <3>1. n = amount * off + 1
      BY DEF n
    <3> QED BY <1>1, <1>2, <1>5, <2>1, <3>1
  <2> HIDE DEF n
  <2>3. n % Word = n
    BY <1>1, <1>2, <2>2
  <2>4. size = n
    BY <1>5, <2>3 DEF Signed
  <2> QED BY <1>1, <1>2, <1>5, <2>2, <2>4
<1>6. Room(off, amount) = IF size > 0 THEN size ELSE 0
  BY DEF Room
<1> HIDE DEF size
<1> QED BY <1>4, <1>5, <1>6 DEF n

(* What is not meant as a number is a text, whose length fits an int.       *)
LEMMA TextGiven ==
    ASSUME NEW l \in Lines, l.cmd \in DOMAIN TextArg, Given(l.args, TextArg[l.cmd])
    PROVE  LET s == l.args[TextArg[l.cmd]].text
           IN s \in Texts /\ Len(s) \in Ints
<1> DEFINE token == l.args[TextArg[l.cmd]]
<1>1. token \in [text : Texts] /\ Len(token.text) < SignBit
  BY LinesAssumption DEF Given
<1> HIDE DEF token
<1>2. token.text \in Texts /\ Len(token.text) \in Nat
  BY <1>1 DEF Texts
<1> QED BY <1>1, <1>2, SignBitAssumption DEF Ints, token

LEMMA ArgsGiven ==
    ASSUME NEW l \in Lines
    PROVE  l.args \in Seq(Tokens)
BY LinesAssumption

LEMMA StdoutIsText == Stdout \in Texts
BY DEF Stdout, Texts

(* The numbers that a handler finds are words and ints.                     *)
LEMMA NumbersGiven ==
    ASSUME NEW a \in Seq(Tokens), NEW n \in Nat, NEW S, Given(a, n), Numbers(a, S)
    PROVE  \A i \in 1 .. n : i \in S =>
                /\ Unsigned(a[i]) \in Nat /\ AsInt(a[i]) \in Ints
                /\ BM!Scan(a[i].num) = Unsigned(a[i])
                /\ BM!Signed(Unsigned(a[i])) = AsInt(a[i])
<1> SUFFICES ASSUME NEW i \in 1 .. n, i \in S
             PROVE  /\ Unsigned(a[i]) \in Nat /\ AsInt(a[i]) \in Ints
                    /\ BM!Scan(a[i].num) = Unsigned(a[i])
                    /\ BM!Signed(Unsigned(a[i])) = AsInt(a[i])
  OBVIOUS
<1>1. i \in 1 .. Len(a)
  BY DEF Given
<1>2. a[i] \in Tokens /\ IsNum(a[i])
  BY <1>1 DEF Numbers
<1>3. a[i].num \in Int
  BY <1>2 DEF Tokens, IsNum
<1> QED BY <1>3, Scanned DEF Unsigned, AsInt

(* A request for the k-th turn does not depend on how far the call is.      *)
LEMMA FirstPlace ==
    ASSUME NEW n \in Nat, NEW off \in Int
    PROVE  /\ MakeVirtAddr(n) \in VirtAddrs
           /\ Linear(MakeVirtAddr(n)) - 0 * off = n
<1>1. MakeVirtAddr(n) \in VirtAddrs /\ Linear(MakeVirtAddr(n)) = n
  BY MakeLinear
<1>2. 0 * off = 0
  OBVIOUS
<1> QED BY <1>1, <1>2

LEMMA SimReadFresh ==
    ASSUME NEW v \in VirtAddrs, NEW off \in Ints, NEW amount \in Ints,
           NEW file \in Texts
    PROVE  Fresh(SimRead(v, off, amount, file))
<1>1. Room(off, amount) \in Nat
  BY RoomFacts
<1> HIDE DEF Room
<1> QED BY <1>1 DEF Fresh, SimRead, Calls, Texts

LEMMA ReadFaithful ==
    ASSUME NEW l \in Lines, l.cmd = "read", PostOf(l) # Illegal
    PROVE  Faithful(l)
<1> DEFINE a == l.args
           v == MakeVirtAddr(Unsigned(a[1]))
<1>1. PostOf(l) = DoRead(a)
  BY DEF PostOf
<1>2. Given(a, 3) /\ Numbers(a, 1 .. 3) /\ a \in Seq(Tokens)
  BY <1>1, ArgsGiven DEF DoRead
<1>3. Unsigned(a[1]) \in Nat /\ Unsigned(a[2]) \in Nat /\ AsInt(a[3]) \in Ints
  BY <1>2, NumbersGiven
<1>4. /\ BM!Scan(a[2].num) = Unsigned(a[2])
      /\ BM!Scan(a[1].num) = Unsigned(a[1])
      /\ BM!Scan(a[3].num) = Unsigned(a[3])
      /\ BM!Signed(Unsigned(a[3])) = AsInt(a[3])
  BY <1>2, NumbersGiven
<1>5. v \in VirtAddrs /\ Linear(v) - 0 * 1 = Unsigned(a[1])
  BY <1>3, FirstPlace, IntsAreIntegers
<1>6. PostOf(l) = [func |-> "fcRead", pid |-> Unsigned(a[2]), args |-> <<v, AsInt(a[3])>>]
  BY <1>1, <1>2 DEF DoRead, ReadProcess
<1> HIDE DEF v
<1>7. WellTyped(PostOf(l)) /\ PostOf(l).pid = BM!Scan(l.args[2].num)
  BY <1>3, <1>5, <1>6, <1>4 DEF WellTyped, ArgTypes
<1>8. CallOf(PostOf(l)) = SimRead(v, 1, AsInt(a[3]), Stdout)
  BY <1>6 DEF CallOf, ReadDecoder
<1>9. Fresh(CallOf(PostOf(l)))
  BY <1>3, <1>5, <1>8, SimReadFresh, IntsAreIntegers, StdoutIsText
<1>10. Request(CallOf(PostOf(l)), 0) = BM!Meaning(l)
  <2>1. BM!Meaning(l) = BM!Reading(Unsigned(a[1]), 1, AsInt(a[3]), <<>>)
    BY <1>4 DEF BM!Meaning
  <2> QED BY <1>5, <1>8, <2>1 DEF Request, SimRead, Turns, Stdout, BM!Reading
<1> QED BY <1>7, <1>9, <1>10 DEF Faithful

LEMMA LoopReadFaithful ==
    ASSUME NEW l \in Lines, l.cmd = "loopRead", PostOf(l) # Illegal
    PROVE  Faithful(l)
<1> DEFINE a == l.args
           v == MakeVirtAddr(Unsigned(a[1]))
<1>1. PostOf(l) = DoLoopRead(a)
  BY DEF PostOf
<1>2. Given(a, 4) /\ Numbers(a, 1 .. 4) /\ a \in Seq(Tokens)
  BY <1>1, ArgsGiven DEF DoLoopRead
<1>3. /\ Unsigned(a[1]) \in Nat /\ Unsigned(a[2]) \in Nat
      /\ AsInt(a[3]) \in Ints /\ AsInt(a[4]) \in Ints
  BY <1>2, NumbersGiven
<1>4. /\ BM!Scan(a[2].num) = Unsigned(a[2])
      /\ BM!Scan(a[1].num) = Unsigned(a[1])
      /\ BM!Scan(a[3].num) = Unsigned(a[3])
      /\ BM!Signed(Unsigned(a[3])) = AsInt(a[3])
      /\ BM!Scan(a[4].num) = Unsigned(a[4])
      /\ BM!Signed(Unsigned(a[4])) = AsInt(a[4])
  BY <1>2, NumbersGiven
<1>5. v \in VirtAddrs /\ Linear(v) - 0 * AsInt(a[3]) = Unsigned(a[1])
  BY <1>3, FirstPlace, IntsAreIntegers
<1>6. PostOf(l) = [func |-> "fcLoopRead", pid |-> Unsigned(a[2]),
                   args |-> <<v, AsInt(a[3]), AsInt(a[4])>>]
  BY <1>1, <1>2 DEF DoLoopRead, LoopReadProcess
<1> HIDE DEF v
<1>7. WellTyped(PostOf(l)) /\ PostOf(l).pid = BM!Scan(l.args[2].num)
  BY <1>3, <1>5, <1>6, <1>4 DEF WellTyped, ArgTypes
<1>8. CallOf(PostOf(l)) = SimRead(v, AsInt(a[3]), AsInt(a[4]), Stdout)
  BY <1>6 DEF CallOf, LoopReadDecoder
<1>9. Fresh(CallOf(PostOf(l)))
  BY <1>3, <1>5, <1>8, SimReadFresh, IntsAreIntegers, StdoutIsText
<1>10. Request(CallOf(PostOf(l)), 0) = BM!Meaning(l)
  <2>1. BM!Meaning(l) = BM!Reading(Unsigned(a[1]), AsInt(a[3]), AsInt(a[4]), <<>>)
    BY <1>4 DEF BM!Meaning
  <2> QED BY <1>5, <1>8, <2>1 DEF Request, SimRead, Turns, Stdout, BM!Reading
<1> QED BY <1>7, <1>9, <1>10 DEF Faithful

LEMMA ReadToFileFaithful ==
    ASSUME NEW l \in Lines, l.cmd = "readToFile", PostOf(l) # Illegal
    PROVE  Faithful(l)
<1> DEFINE a == l.args
           v == MakeVirtAddr(Unsigned(a[1]))
<1>1. PostOf(l) = DoReadToFile(a)
  BY DEF PostOf
<1>2. Given(a, 4) /\ Numbers(a, 1 .. 3) /\ a \in Seq(Tokens)
  BY <1>1, ArgsGiven DEF DoReadToFile
<1>3. /\ Unsigned(a[1]) \in Nat /\ Unsigned(a[2]) \in Nat /\ AsInt(a[3]) \in Ints
      /\ a[4].text \in Texts
  <2>1. Unsigned(a[1]) \in Nat /\ Unsigned(a[2]) \in Nat /\ AsInt(a[3]) \in Ints
    BY <1>2, NumbersGiven
  <2>2. a[4].text \in Texts /\ Len(a[4].text) \in Ints
    BY <1>2, TextGiven DEF TextArg
  <2> QED BY <2>1, <2>2
<1>4. /\ BM!Scan(a[2].num) = Unsigned(a[2])
      /\ BM!Scan(a[1].num) = Unsigned(a[1])
      /\ BM!Scan(a[3].num) = Unsigned(a[3])
      /\ BM!Signed(Unsigned(a[3])) = AsInt(a[3])
  BY <1>2, NumbersGiven
<1>5. v \in VirtAddrs /\ Linear(v) - 0 * 1 = Unsigned(a[1])
  BY <1>3, FirstPlace, IntsAreIntegers
<1>6. PostOf(l) = [func |-> "fcReadToFile", pid |-> Unsigned(a[2]),
                   args |-> <<v, AsInt(a[3]), a[4].text>>]
  BY <1>1, <1>2 DEF DoReadToFile, ReadToFileProcess
<1> HIDE DEF v
<1>7. WellTyped(PostOf(l)) /\ PostOf(l).pid = BM!Scan(l.args[2].num)
  BY <1>3, <1>5, <1>6, <1>4 DEF WellTyped, ArgTypes
<1>8. CallOf(PostOf(l)) = SimRead(v, 1, AsInt(a[3]), a[4].text)
  BY <1>6 DEF CallOf, ReadFileDecoder
<1>9. Fresh(CallOf(PostOf(l)))
  BY <1>3, <1>5, <1>8, SimReadFresh, IntsAreIntegers
<1>10. Request(CallOf(PostOf(l)), 0) = BM!Meaning(l)
  <2>1. BM!Meaning(l) = BM!Reading(Unsigned(a[1]), 1, AsInt(a[3]), a[4].text)
    BY <1>4 DEF BM!Meaning
  <2> QED BY <1>5, <1>8, <2>1 DEF Request, SimRead, Turns, BM!Reading
<1> QED BY <1>7, <1>9, <1>10 DEF Faithful

LEMMA LoopReadToFileFaithful ==
    ASSUME NEW l \in Lines, l.cmd = "loopReadToFile", PostOf(l) # Illegal
    PROVE  Faithful(l)
<1> DEFINE a == l.args
           v == MakeVirtAddr(Unsigned(a[1]))
<1>1. PostOf(l) = DoLoopReadToFile(a)
  BY DEF PostOf
<1>2. Given(a, 5) /\ Numbers(a, 1 .. 4) /\ a \in Seq(Tokens)
  BY <1>1, ArgsGiven DEF DoLoopReadToFile
<1>3. /\ Unsigned(a[1]) \in Nat /\ Unsigned(a[2]) \in Nat
      /\ AsInt(a[3]) \in Ints /\ AsInt(a[4]) \in Ints
      /\ a[5].text \in Texts
  <2>1. /\ Unsigned(a[1]) \in Nat /\ Unsigned(a[2]) \in Nat
        /\ AsInt(a[3]) \in Ints /\ AsInt(a[4]) \in Ints
    BY <1>2, NumbersGiven, SMTT(30)
  <2>2. a[5].text \in Texts /\ Len(a[5].text) \in Ints
    BY <1>2, TextGiven DEF TextArg
  <2> QED BY <2>1, <2>2
<1>4. /\ BM!Scan(a[2].num) = Unsigned(a[2])
      /\ BM!Scan(a[1].num) = Unsigned(a[1])
      /\ BM!Scan(a[3].num) = Unsigned(a[3])
      /\ BM!Signed(Unsigned(a[3])) = AsInt(a[3])
      /\ BM!Scan(a[4].num) = Unsigned(a[4])
      /\ BM!Signed(Unsigned(a[4])) = AsInt(a[4])
  BY <1>2, NumbersGiven
<1>5. v \in VirtAddrs /\ Linear(v) - 0 * AsInt(a[3]) = Unsigned(a[1])
  BY <1>3, FirstPlace, IntsAreIntegers
<1>6. PostOf(l) = [func |-> "fcLoopReadToFile", pid |-> Unsigned(a[2]),
                   args |-> <<v, AsInt(a[3]), AsInt(a[4]), a[5].text>>]
  BY <1>1, <1>2 DEF DoLoopReadToFile, LoopReadToFileProcess
<1> HIDE DEF v
<1>7. WellTyped(PostOf(l)) /\ PostOf(l).pid = BM!Scan(l.args[2].num)
  BY <1>3, <1>5, <1>6, <1>4 DEF WellTyped, ArgTypes
<1>8. CallOf(PostOf(l)) = SimRead(v, AsInt(a[3]), AsInt(a[4]), a[5].text)
  BY <1>6 DEF CallOf, LoopReadFileDecoder
<1>9. Fresh(CallOf(PostOf(l)))
  BY <1>3, <1>5, <1>8, SimReadFresh, IntsAreIntegers
<1>10. Request(CallOf(PostOf(l)), 0) = BM!Meaning(l)
  <2>1. BM!Meaning(l) = BM!Reading(Unsigned(a[1]), AsInt(a[3]), AsInt(a[4]), a[5].text)
    BY <1>4 DEF BM!Meaning
  <2> QED BY <1>5, <1>8, <2>1 DEF Request, SimRead, Turns, BM!Reading
<1> QED BY <1>7, <1>9, <1>10 DEF Faithful

(* sim_write takes as many turns as there are bytes in the first part.      *)
LEMMA FirstPartFacts ==
    ASSUME NEW s \in Texts,
           NEW n, n = IF Len(s) > PageSize THEN PageSize ELSE Len(s)
    PROVE  /\ BM!FirstPart(s) = [i \in 1 .. n |-> s[i]]
           /\ Len(BM!FirstPart(s)) = n
<1>1. s \in Seq(Bytes) /\ Len(s) \in Nat /\ PageSize \in Nat \ {0}
  BY PageSizeAssumption DEF Texts
<1>2. CASE Len(s) <= PageSize
  <2>1. BM!FirstPart(s) = s /\ n = Len(s)
    BY <1>1, <1>2 DEF BM!FirstPart
  <2> QED BY <1>1, <2>1
<1>3. CASE Len(s) > PageSize
  <2>1. BM!FirstPart(s) = SubSeq(s, 1, PageSize) /\ n = PageSize
    BY <1>1, <1>3 DEF BM!FirstPart
  <2> QED BY <1>1, <1>3, <2>1
<1> QED BY <1>1, <1>2, <1>3

LEMMA WriteFaithful ==
    ASSUME NEW l \in Lines, l.cmd = "write", PostOf(l) # Illegal
    PROVE  Faithful(l)
<1> DEFINE a == l.args
           v == MakeVirtAddr(Unsigned(a[1]))
           s == a[3].text
           call == SimWrite(v, s, Len(s))
           n == IF Len(s) > PageSize THEN PageSize ELSE Len(s)
<1>1. PostOf(l) = DoWrite(a)
  BY DEF PostOf
<1>2. Given(a, 3) /\ Numbers(a, 1 .. 2) /\ a \in Seq(Tokens)
  BY <1>1, ArgsGiven DEF DoWrite
<1>3. Unsigned(a[1]) \in Nat /\ Unsigned(a[2]) \in Nat /\ s \in Texts
      /\ Len(s) \in Nat /\ Len(s) \in Ints
  <2>1. Unsigned(a[1]) \in Nat /\ Unsigned(a[2]) \in Nat
    BY <1>2, NumbersGiven
  <2>2. a[3].text \in Texts /\ Len(a[3].text) \in Ints
    BY <1>2, TextGiven DEF TextArg
  <2> QED BY <2>1, <2>2 DEF Texts
<1>4. /\ BM!Scan(a[2].num) = Unsigned(a[2])
      /\ BM!Scan(a[1].num) = Unsigned(a[1])
  BY <1>2, NumbersGiven
<1>5. v \in VirtAddrs /\ Linear(v) - 0 * 1 = Unsigned(a[1])
  BY <1>3, FirstPlace, IntsAreIntegers
<1>6. PostOf(l) = [func |-> "fcWrite", pid |-> Unsigned(a[2]), args |-> <<v, s, Len(s)>>]
  BY <1>1, <1>2 DEF DoWrite, WriteProcess
<1> HIDE DEF v, s
<1>7. WellTyped(PostOf(l)) /\ PostOf(l).pid = BM!Scan(l.args[2].num)
  BY <1>3, <1>5, <1>6, <1>4 DEF WellTyped, ArgTypes
<1>8. CallOf(PostOf(l)) = call
  BY <1>6 DEF CallOf, WriteDecoder
<1>9. Fresh(call)
  BY <1>3, <1>5, IntsAreIntegers DEF Fresh, SimWrite, Calls, Texts
<1>10. Request(call, 0) = BM!Meaning(l)
  <2>1. BM!Meaning(l) = BM!Writing(Unsigned(a[1]), 1, Len(BM!FirstPart(s)),
                                 BM!FirstPart(s))
    BY <1>4 DEF BM!Meaning, s
  <2>2. Turns(call) = n /\ n \in Nat /\ PageSize \in Nat
    BY <1>3, PageSizeAssumption DEF SimWrite, Turns
  <2>3. BM!FirstPart(s) = [i \in 1 .. n |-> s[i]] /\ Len(BM!FirstPart(s)) = n
    BY <1>3, FirstPartFacts
  <2>4. call.data = s /\ call.sim = "write" /\ call.vAddr = v /\ call.off = 1
        /\ call.file = <<>>
    BY DEF SimWrite
  <2> HIDE DEF n, call
  <2>5. Request(call, 0) = [op |-> "write", addr |-> Unsigned(a[1]), step |-> 1,
                            count |-> n, data |-> [i \in 1 .. n |-> s[i]],
                            file |-> <<>>]
    BY <1>5, <2>2, <2>4 DEF Request
  <2> QED BY <2>1, <2>3, <2>5 DEF BM!Writing
<1> QED BY <1>7, <1>8, <1>9, <1>10 DEF Faithful

LEMMA LoopWriteFaithful ==
    ASSUME NEW l \in Lines, l.cmd = "loopWrite", PostOf(l) # Illegal
    PROVE  Faithful(l)
<1> DEFINE a == l.args
           v == MakeVirtAddr(Unsigned(a[1]))
           b == a[3].text[1]
           n == AsInt(a[5])
           call == SimLoopWrite(v, b, AsInt(a[4]), n)
<1>1. PostOf(l) = DoLoopWrite(a)
  BY DEF PostOf
<1>2. Given(a, 5) /\ Numbers(a, {1, 2, 4, 5}) /\ a \in Seq(Tokens)
      /\ Len(a[3].text) = 1
  BY <1>1, ArgsGiven DEF DoLoopWrite
<1>3. /\ Unsigned(a[1]) \in Nat /\ Unsigned(a[2]) \in Nat
      /\ AsInt(a[4]) \in Ints /\ n \in Ints /\ b \in Bytes
  <2>1. /\ Unsigned(a[1]) \in Nat /\ Unsigned(a[2]) \in Nat
        /\ AsInt(a[4]) \in Ints /\ AsInt(a[5]) \in Ints
    BY <1>2, NumbersGiven, SMTT(30)
  <2>2. a[3].text \in Texts
    <3>1. Given(a, 3)
      BY <1>2 DEF Given
    <3> QED BY <3>1, TextGiven DEF TextArg
  <2>3. b \in Bytes
    <3> DEFINE s == a[3].text
    <3>1. s \in Seq(Bytes) /\ Len(s) = 1
      BY <1>2, <2>2 DEF Texts
    <3> HIDE DEF s
    <3>2. s[1] \in Bytes
      BY <3>1
    <3> QED BY <3>2 DEF s
  <2> QED BY <2>1, <2>3
<1>4. /\ BM!Scan(a[2].num) = Unsigned(a[2])
      /\ BM!Scan(a[1].num) = Unsigned(a[1])
      /\ BM!Scan(a[4].num) = Unsigned(a[4])
      /\ BM!Signed(Unsigned(a[4])) = AsInt(a[4])
      /\ BM!Scan(a[5].num) = Unsigned(a[5])
      /\ BM!Signed(Unsigned(a[5])) = AsInt(a[5])
  BY <1>2, NumbersGiven, SMTT(30)
<1>5. v \in VirtAddrs /\ Linear(v) - 0 * AsInt(a[4]) = Unsigned(a[1])
  BY <1>3, FirstPlace, IntsAreIntegers
<1>6. PostOf(l) = [func |-> "fcLoopWrite", pid |-> Unsigned(a[2]),
                   args |-> <<v, b, AsInt(a[4]), n>>]
  BY <1>1, <1>2 DEF DoLoopWrite, LoopWriteProcess
<1> HIDE DEF v, b, n
<1>7. WellTyped(PostOf(l)) /\ PostOf(l).pid = BM!Scan(l.args[2].num)
  BY <1>3, <1>5, <1>6, <1>4 DEF WellTyped, ArgTypes
<1>8. CallOf(PostOf(l)) = call
  BY <1>6 DEF CallOf, LoopWriteDecoder
<1>9. Fresh(call)
  BY <1>3, <1>5 DEF Fresh, SimLoopWrite, Calls, Texts
<1>10. Request(call, 0) = BM!Meaning(l)
  <2>1. BM!Meaning(l) = BM!Writing(Unsigned(a[1]), AsInt(a[4]), n, [k \in 1 .. n |-> b])
    BY <1>4 DEF BM!Meaning, b, n
  <2>2. Turns(call) = n
    BY DEF SimLoopWrite, Turns
  <2>3. call.data[1] = b /\ call.sim = "loopWrite" /\ call.vAddr = v
        /\ call.off = AsInt(a[4]) /\ call.file = <<>>
    BY DEF SimLoopWrite
  <2> HIDE DEF call
  <2>4. Request(call, 0) = [op |-> "write", addr |-> Unsigned(a[1]), step |-> AsInt(a[4]),
                            count |-> n, data |-> [k \in 1 .. n |-> b],
                            file |-> <<>>]
    BY <1>5, <2>2, <2>3 DEF Request
  <2> QED BY <2>1, <2>2, <2>4 DEF BM!Writing
<1> QED BY <1>7, <1>8, <1>9, <1>10 DEF Faithful

LEMMA AllFaithful ==
    ASSUME NEW l \in Lines, PostOf(l) # Illegal
    PROVE  Faithful(l)
<1>1. l.cmd \in {"read", "loopRead", "readToFile", "loopReadToFile", "write",
                 "loopWrite"}
  BY LinesAssumption DEF TextArg
<1> QED BY <1>1, ReadFaithful, LoopReadFaithful, ReadToFileFaithful,
           LoopReadToFileFaithful, WriteFaithful, LoopWriteFaithful

-----------------------------------------------------------------------------
(* The invariant.                                                           *)
JobsIInv ==
    JobsTypeOK /\ JobInv /\ mailbox \in [Pids -> Seq(Posts)]

LEMMA PostFacts ==
    ASSUME NEW m \in Posts
    PROVE  WellTyped(m) /\ Fresh(CallOf(m))
<1>1. PICK l \in Lines : m = PostOf(l) /\ PostOf(l) # Illegal
  BY DEF Posts
<1> QED BY <1>1, AllFaithful DEF Faithful

LEMMA TurnsBound ==
    ASSUME NEW j \in Calls
    PROVE  /\ Turns(j) \in Int /\ j.multiplier \in Nat /\ j.amount \in Int
           /\ More(j) <=> j.multiplier < Turns(j)
           /\ j.amount > 0 <=> Turns(j) > 0
<1>1. j.multiplier \in Nat /\ j.amount \in Int /\ PageSize \in Nat \ {0}
  BY PageSizeAssumption, IntsAreIntegers DEF Calls
<1> QED BY <1>1 DEF More, Turns

(* A call in progress has passed its assertions: its step goes forward.     *)
LEMMA CallFacts ==
    ASSUME JobsIInv, status = "running", NEW c \in Pids, job[c] # NoJob
    PROVE  /\ job[c] \in Calls /\ AssertsHold(job[c])
           /\ job[c].off \in Nat /\ job[c].off \in Int /\ job[c].room \in Nat
           /\ job[c].sim = "write" => job[c].off = 1
<1> DEFINE j == job[c]
<1>1. j \in Calls
  BY DEF JobsIInv, JobsTypeOK
<1>2. AssertsHold(j) /\ (j.sim = "write" => j.off = 1)
  BY DEF JobsIInv, JobInv, InStep
<1>3. j.off \in Int /\ j.room \in Nat /\ j.sim \in {"read", "write", "loopWrite"}
  BY <1>1, IntsAreIntegers DEF Calls
<1>4. j.off >= 0
  BY <1>2, <1>3 DEF AssertsHold
<1> QED BY <1>1, <1>2, <1>3, <1>4

LEMMA AdvancedCall ==
    ASSUME NEW j \in Calls, j.off \in Nat
    PROVE  /\ Advanced(j) \in Calls
           /\ Advanced(j).multiplier = j.multiplier + 1
           /\ Advanced(j).vAddr = AdvanceVirtAddr(j.vAddr, j.off)
           /\ Turns(Advanced(j)) = Turns(j)
           /\ AssertsHold(Advanced(j)) <=> AssertsHold(j)
           /\ Advanced(j).sim = j.sim /\ Advanced(j).off = j.off
           /\ Advanced(j).amount = j.amount /\ Advanced(j).data = j.data
           /\ Advanced(j).file = j.file /\ Advanced(j).room = j.room
<1>1. j.vAddr \in VirtAddrs /\ j.off \in Nat /\ j.multiplier \in Nat
  BY DEF Calls
<1>2. AdvanceVirtAddr(j.vAddr, j.off) \in VirtAddrs
  BY <1>1, AdvanceLinear
<1>3. Advanced(j) = [j EXCEPT !.multiplier = j.multiplier + 1,
                              !.vAddr = AdvanceVirtAddr(j.vAddr, j.off)]
  BY DEF Advanced
<1> HIDE DEF Advanced
<1>4. /\ Advanced(j).multiplier = j.multiplier + 1
      /\ Advanced(j).vAddr = AdvanceVirtAddr(j.vAddr, j.off)
      /\ Advanced(j).sim = j.sim /\ Advanced(j).off = j.off
      /\ Advanced(j).amount = j.amount /\ Advanced(j).data = j.data
      /\ Advanced(j).file = j.file /\ Advanced(j).room = j.room
  BY <1>3 DEF Calls
<1>5. Advanced(j) \in Calls
  <2>1. Advanced(j) = [sim |-> j.sim, vAddr |-> AdvanceVirtAddr(j.vAddr, j.off),
                       off |-> j.off, amount |-> j.amount, data |-> j.data,
                       file |-> j.file, room |-> j.room,
                       multiplier |-> j.multiplier + 1]
    BY <1>3 DEF Calls
  <2> QED BY <1>1, <1>2, <2>1 DEF Calls
<1> QED BY <1>4, <1>5 DEF Turns, AssertsHold

LEMMA InitSafe ==
    ASSUME JobsInit
    PROVE  JobsIInv
<1>1. JobsTypeOK
  BY JobsAssumption DEF JobsInit, JobsTypeOK, Texts
<1>2. JobInv
  BY DEF JobsInit, JobInv, InStep
<1>3. mailbox \in [Pids -> Seq(Posts)]
  BY DEF JobsInit
<1> QED BY <1>1, <1>2, <1>3 DEF JobsIInv

(* A line that becomes no message leaves the processes alone.               *)
LEMMA RefusedSafe ==
    ASSUME JobsIInv, status = "running", NEW l \in Lines, Reject(l) \/ SendBehind(l)
    PROVE  JobsIInv'
<1>1. /\ UNCHANGED <<line, active, mailbox, job, buf, content, printed>>
      /\ given' = given + 1 /\ given < MaxLines
      /\ reply' \in BOOLEAN /\ status' \in {"running", "undefined"}
  BY DEF Reject, SendBehind, TakeLine, JobsIInv, JobsTypeOK
<1>2. given' \in 0 .. MaxLines
  BY <1>1, JobsAssumption DEF JobsIInv, JobsTypeOK
<1>3. JobsTypeOK'
  BY <1>1, <1>2 DEF JobsIInv, JobsTypeOK, WellTyped
<1>4. JobInv'
  BY <1>1 DEF JobsIInv, JobInv, InStep
<1> QED BY <1>1, <1>3, <1>4 DEF JobsIInv

LEMMA SendSafe ==
    ASSUME JobsIInv, status = "running", NEW l \in Lines, Send(l)
    PROVE  JobsIInv'
<1> DEFINE post == PostOf(l)
           c == post.pid
<1>1. /\ post \in Posts /\ c \in active /\ c \in Pids
      /\ mailbox' = [mailbox EXCEPT ![c] = Append(mailbox[c], post)]
      /\ line' = l /\ reply' = TRUE /\ given' = given + 1 /\ given < MaxLines
      /\ UNCHANGED <<active, job, buf, content, printed, status>>
  BY DEF Send, TakeLine, Posts, JobsIInv, JobsTypeOK
<1> HIDE DEF post
<1>2. mailbox' \in [Pids -> Seq(Posts)]
  BY <1>1 DEF JobsIInv
<1>3. ASSUME NEW d \in Pids, NEW i \in 1 .. Len(mailbox'[d])
      PROVE  mailbox'[d][i] \in Posts
  BY <1>2, <1>3
<1>4. JobsTypeOK'
  <2>1. \A d \in Pids : \A i \in 1 .. Len(mailbox'[d]) : WellTyped(mailbox'[d][i])
    BY <1>3, PostFacts
  <2>2. DOMAIN mailbox' = Pids
    BY <1>2
  <2>3. given' \in 0 .. MaxLines
    BY <1>1, JobsAssumption DEF JobsIInv, JobsTypeOK
  <2> QED BY <1>1, <2>1, <2>2, <2>3 DEF JobsIInv, JobsTypeOK, WellTyped
<1>5. ASSUME NEW d \in Pids, NEW i \in 1 .. Len(mailbox'[d])
      PROVE  mailbox'[d][i].pid = d /\ d \in active
  <2>1. mailbox[d] \in Seq(Posts) /\ mailbox[c] \in Seq(Posts)
    BY <1>1 DEF JobsIInv
  <2>2. CASE d = c /\ i = Len(mailbox[c]) + 1
    BY <1>1, <2>1, <2>2 DEF JobsIInv
  <2>3. CASE ~ (d = c /\ i = Len(mailbox[c]) + 1)
    <3>1. i \in 1 .. Len(mailbox[d]) /\ mailbox'[d][i] = mailbox[d][i]
      BY <1>1, <1>5, <2>1, <2>3 DEF JobsIInv
    <3> QED BY <3>1 DEF JobsIInv, JobInv, InStep
  <2> QED BY <2>2, <2>3
<1>6. JobInv'
  BY <1>1, <1>5 DEF JobsIInv, JobInv, InStep
<1> QED BY <1>2, <1>4, <1>6 DEF JobsIInv

LEMMA StartSafe ==
    ASSUME JobsIInv, status = "running", NEW c \in Pids, StartJob(c)
    PROVE  JobsIInv'
<1> DEFINE m == Head(mailbox[c])
           call == CallOf(m)
<1>1. /\ job[c] = NoJob /\ mailbox[c] # <<>>
      /\ job' = [job EXCEPT ![c] = call]
      /\ status' = IF AssertsHold(call) THEN "running" ELSE "aborted"
      /\ mailbox' = [mailbox EXCEPT ![c] = Tail(mailbox[c])]
      /\ UNCHANGED <<given, line, reply, active, buf, content, printed>>
  BY DEF StartJob
<1>2. /\ mailbox \in [Pids -> Seq(Posts)] /\ mailbox[c] \in Seq(Posts)
      /\ m \in Posts /\ m = mailbox[c][1] /\ 1 \in 1 .. Len(mailbox[c])
  BY <1>1 DEF JobsIInv
<1>3. Fresh(call) /\ call # NoJob
  BY <1>2, PostFacts, NoJobAssumption DEF Fresh
<1>4. mailbox' \in [Pids -> Seq(Posts)]
  BY <1>1, <1>2
<1>5. ASSUME NEW d \in Pids, NEW i \in 1 .. Len(mailbox'[d])
      PROVE  \E k \in 1 .. Len(mailbox[d]) : mailbox'[d][i] = mailbox[d][k]
  <2>1. CASE d = c
    <3>1. Len(mailbox'[c]) = Len(mailbox[c]) - 1 /\ mailbox'[c][i] = mailbox[c][i + 1]
      BY <1>1, <1>2, <1>5, <2>1
    <3>2. i + 1 \in 1 .. Len(mailbox[c])
      BY <1>2, <1>5, <2>1, <3>1
    <3> QED BY <2>1, <3>1, <3>2
  <2>2. CASE d # c
    BY <1>1, <1>2, <2>2
  <2> QED BY <2>1, <2>2
<1> HIDE DEF call
<1>6. JobsTypeOK'
  <2>1. \A d \in Pids : \A i \in 1 .. Len(mailbox'[d]) : WellTyped(mailbox'[d][i])
    BY <1>5 DEF JobsIInv, JobsTypeOK
  <2>2. DOMAIN mailbox' = Pids
    BY <1>4
  <2>3. job' \in [Pids -> Calls \cup {NoJob}]
    BY <1>1, <1>3 DEF JobsIInv, JobsTypeOK, Fresh
  <2> QED BY <1>1, <2>1, <2>2, <2>3 DEF JobsIInv, JobsTypeOK, WellTyped
<1>7. ASSUME NEW d \in Pids, NEW i \in 1 .. Len(mailbox'[d])
      PROVE  mailbox'[d][i].pid = d /\ d \in active
  BY <1>5 DEF JobsIInv, JobInv, InStep
<1>8. /\ c \in active /\ buf[c] = <<>> /\ Len(buf[c]) = 0
      /\ call.multiplier = 0 /\ Len(buf[c]) <= call.room
  <2>1. c \in active /\ buf[c] = <<>>
    BY <1>1, <1>2 DEF JobsIInv, JobInv, InStep
  <2>2. call.multiplier = 0 /\ call.room \in Nat
    BY <1>3 DEF Fresh, Calls
  <2> QED BY <2>1, <2>2
<1>9. JobInv'
  <2> SUFFICES ASSUME NEW d \in Pids PROVE InStep(d)'
    BY DEF JobInv
  <2>1. CASE d = c
    <3>1. job'[c] = call
      BY <1>1 DEF JobsIInv, JobsTypeOK
    <3> QED BY <1>1, <1>3, <1>7, <1>8, <2>1, <3>1 DEF Fresh, InStep
  <2>2. CASE d # c
    <3>1. job'[d] = job[d] /\ buf'[d] = buf[d]
      BY <1>1, <2>2 DEF JobsIInv, JobsTypeOK
    <3> QED BY <1>1, <1>7, <3>1 DEF JobsIInv, JobInv, InStep
  <2> QED BY <2>1, <2>2
<1> QED BY <1>4, <1>6, <1>9 DEF JobsIInv

(* A turn of one of the loops, whatever it does to the bytes.               *)
LEMMA TurnSafe ==
    ASSUME JobsIInv, status = "running", NEW c \in Pids,
           job[c] # NoJob, More(job[c]),
           job[c].sim = "read" => job[c].multiplier < job[c].room,
           job' = [job EXCEPT ![c] = Advanced(job[c])],
           buf' \in [Pids -> Texts], \A d \in Pids : d # c => buf'[d] = buf[d],
           Len(buf'[c]) = IF job[c].sim = "read" THEN Len(buf[c]) + 1 ELSE Len(buf[c]),
           UNCHANGED <<active, mailbox, status>>
    PROVE  JobInv' /\ job' \in [Pids -> Calls \cup {NoJob}]
<1> DEFINE j == job[c]
<1>1. j \in Calls /\ j.off \in Nat /\ j.room \in Nat /\ Len(buf[c]) \in Nat
  BY CallFacts DEF JobsIInv, JobsTypeOK, Texts
<1>2. Advanced(j) \in Calls /\ Advanced(j) # NoJob
  BY <1>1, AdvancedCall, NoJobAssumption
<1>3. job' \in [Pids -> Calls \cup {NoJob}] /\ job'[c] = Advanced(j)
  BY <1>2 DEF JobsIInv, JobsTypeOK
<1>4. JobInv'
  <2> SUFFICES ASSUME NEW d \in Pids PROVE InStep(d)'
    BY DEF JobInv
  <2>1. CASE d = c
    <3>1. /\ c \in active
          /\ Len(buf[c]) = IF j.sim = "read" THEN j.multiplier ELSE 0
          /\ j.sim = "read" => j.room = Room(j.off, j.amount)
          /\ j.sim = "write" => Len(j.data) = j.amount /\ j.off = 1
          /\ j.sim = "loopWrite" => Len(j.data) = 1
          /\ AssertsHold(j)
          /\ \A i \in 1 .. Len(mailbox[c]) : mailbox[c][i].pid = c
      BY DEF JobsIInv, JobInv, InStep
    <3>2. Advanced(j).multiplier <= Turns(Advanced(j))
      BY <1>1, AdvancedCall, TurnsBound
    <3>3. Len(buf'[c]) = IF j.sim = "read" THEN j.multiplier + 1 ELSE 0
      BY <3>1
    <3>4. Len(buf'[c]) <= j.room
      <4>1. CASE j.sim = "read"
        <5>1. j.multiplier \in Nat /\ j.multiplier < j.room
          BY <1>1, <4>1, TurnsBound
        <5>2. Len(buf'[c]) = j.multiplier + 1
          BY <3>3, <4>1
        <5> HIDE DEF j
        <5> QED BY <1>1, <5>1, <5>2
      <4>2. CASE j.sim # "read"
        BY <1>1, <3>3, <4>2
      <4> QED BY <4>1, <4>2
    <3> QED BY <1>1, <1>2, <1>3, <2>1, <3>1, <3>2, <3>3, <3>4, AdvancedCall DEF InStep
  <2>2. CASE d # c
    <3>1. job'[d] = job[d] /\ buf'[d] = buf[d]
      BY <2>2 DEF JobsIInv, JobsTypeOK
    <3> QED BY <3>1 DEF JobsIInv, JobInv, InStep
  <2> QED BY <2>1, <2>2
<1> QED BY <1>3, <1>4

LEMMA ReadSafe ==
    ASSUME JobsIInv, status = "running", NEW c \in Pids, ReadByte(c)
    PROVE  JobsIInv'
<1> DEFINE j == job[c]
           b == content[c][j.vAddr.page][j.vAddr.offset]
<1>1. /\ j # NoJob /\ More(j) /\ j.sim = "read" /\ j.vAddr.page < BlockSize
      /\ j.multiplier < j.room
      /\ job' = [job EXCEPT ![c] = Advanced(j)]
      /\ buf' = [buf EXCEPT ![c] = Append(buf[c], b)]
      /\ UNCHANGED <<given, line, reply, active, mailbox, content, printed, status>>
  BY DEF ReadByte
<1>2. j \in Calls /\ buf \in [Pids -> Texts]
  BY <1>1, CallFacts DEF JobsIInv, JobsTypeOK
<1>3. b \in Bytes
  <2>1. j.vAddr.page \in PageIds /\ j.vAddr.offset \in Offsets
    BY <1>1, <1>2, JobsAssumption DEF Calls, VirtAddrs, PageIds
  <2> QED BY <2>1 DEF JobsIInv, JobsTypeOK
<1> HIDE DEF b
<1>4. /\ buf' \in [Pids -> Texts] /\ Len(buf'[c]) = Len(buf[c]) + 1
      /\ \A d \in Pids : d # c => buf'[d] = buf[d]
  BY <1>1, <1>2, <1>3 DEF Texts
<1>5. JobInv' /\ job' \in [Pids -> Calls \cup {NoJob}]
  BY <1>1, <1>4, TurnSafe
<1>6. JobsTypeOK'
  BY <1>1, <1>4, <1>5 DEF JobsIInv, JobsTypeOK, WellTyped
<1> QED BY <1>1, <1>5, <1>6 DEF JobsIInv

(* A turn that writes has a byte of the data to write, and a place for it.  *)
LEMMA WriteFacts ==
    ASSUME JobsIInv, status = "running", NEW c \in Pids, job[c] # NoJob, More(job[c]),
           job[c].vAddr.page < BlockSize
    PROVE  /\ job[c] \in Calls
           /\ job[c].vAddr.page \in PageIds /\ job[c].vAddr.offset \in Offsets
           /\ job[c].sim = "write" => job[c].data[job[c].multiplier + 1] \in Bytes
           /\ job[c].sim = "loopWrite" => job[c].data[1] \in Bytes
<1> DEFINE j == job[c]
<1>1. j \in Calls
  BY DEF JobsIInv, JobsTypeOK
<1>2. j.vAddr.page \in PageIds /\ j.vAddr.offset \in Offsets
  BY <1>1, JobsAssumption DEF Calls, VirtAddrs, PageIds
<1>3. j.data \in Seq(Bytes) /\ j.multiplier \in Nat /\ j.amount \in Int
      /\ j.multiplier < j.amount
  BY <1>1, TurnsBound DEF Calls, Texts, More
<1>4. /\ j.sim = "write" => Len(j.data) = j.amount
      /\ j.sim = "loopWrite" => Len(j.data) = 1
  BY DEF JobsIInv, JobInv, InStep
<1> HIDE DEF j
<1>5. j.sim = "write" => j.data[j.multiplier + 1] \in Bytes
  BY <1>3, <1>4
<1>6. j.sim = "loopWrite" => j.data[1] \in Bytes
  BY <1>3, <1>4
<1> QED BY <1>1, <1>2, <1>5, <1>6 DEF j

LEMMA WriteSafe ==
    ASSUME JobsIInv, status = "running", NEW c \in Pids, WriteByte(c) \/ LoopWriteByte(c)
    PROVE  JobsIInv'
<1> DEFINE j == job[c]
<1>1. /\ j # NoJob /\ More(j) /\ j.vAddr.page < BlockSize
      /\ j.sim \in {"write", "loopWrite"}
      /\ job' = [job EXCEPT ![c] = Advanced(j)]
      /\ UNCHANGED <<given, line, reply, active, mailbox, buf, printed, status>>
  BY DEF WriteByte, LoopWriteByte
<1>2. buf \in [Pids -> Texts] /\ content \in [Pids -> [PageIds -> [Offsets -> Bytes]]]
  BY DEF JobsIInv, JobsTypeOK
<1>3. PICK b \in Bytes :
        content' = [content EXCEPT ![c][j.vAddr.page][j.vAddr.offset] = b]
  BY <1>1, WriteFacts DEF WriteByte, LoopWriteByte
<1>4. content' \in [Pids -> [PageIds -> [Offsets -> Bytes]]]
  BY <1>1, <1>2, <1>3, WriteFacts
<1>5. JobInv' /\ job' \in [Pids -> Calls \cup {NoJob}]
  <2>1. buf' \in [Pids -> Texts] /\ \A d \in Pids : buf'[d] = buf[d]
    BY <1>1, <1>2
  <2> QED BY <1>1, <2>1, TurnSafe
<1>6. JobsTypeOK'
  BY <1>1, <1>2, <1>4, <1>5 DEF JobsIInv, JobsTypeOK, WellTyped
<1> QED BY <1>1, <1>5, <1>6 DEF JobsIInv

LEMMA PastEndSafe ==
    ASSUME JobsIInv, NEW c \in Pids, AccessPastEnd(c)
    PROVE  JobsIInv'
<1>1. /\ status' = "aborted"
      /\ UNCHANGED <<given, line, reply, active, mailbox, job, buf, content, printed>>
  BY DEF AccessPastEnd
<1>2. JobsTypeOK'
  BY <1>1 DEF JobsIInv, JobsTypeOK, WellTyped
<1>3. JobInv'
  BY <1>1 DEF JobsIInv, JobInv, InStep
<1> QED BY <1>1, <1>2, <1>3 DEF JobsIInv

LEMMA OverrunSafe ==
    ASSUME JobsIInv, NEW c \in Pids, OverrunBuffer(c)
    PROVE  JobsIInv'
<1>1. /\ status' = "overrun"
      /\ UNCHANGED <<given, line, reply, active, mailbox, job, buf, content, printed>>
  BY DEF OverrunBuffer
<1>2. JobsTypeOK'
  BY <1>1 DEF JobsIInv, JobsTypeOK, WellTyped
<1>3. JobInv'
  BY <1>1 DEF JobsIInv, JobInv, InStep
<1> QED BY <1>1, <1>2, <1>3 DEF JobsIInv

LEMMA EndSafe ==
    ASSUME JobsIInv, NEW c \in Pids, EndJob(c)
    PROVE  JobsIInv'
<1> DEFINE j == job[c]
<1>1. /\ j # NoJob
      /\ printed' = IF j.sim = "read" THEN <<j.file, buf[c]>> ELSE printed
      /\ buf' = [buf EXCEPT ![c] = <<>>]
      /\ job' = [job EXCEPT ![c] = NoJob]
      /\ UNCHANGED <<given, line, reply, active, mailbox, content, status>>
  BY DEF EndJob
<1>2. j \in Calls /\ buf \in [Pids -> Texts] /\ job \in [Pids -> Calls \cup {NoJob}]
  BY <1>1 DEF JobsIInv, JobsTypeOK
<1>3. printed' \in {<<>>} \cup (Texts \X Texts)
  BY <1>1, <1>2 DEF JobsIInv, JobsTypeOK, Calls
<1>4. buf' \in [Pids -> Texts] /\ job' \in [Pids -> Calls \cup {NoJob}]
  BY <1>1, <1>2 DEF Texts
<1>5. JobsTypeOK'
  BY <1>1, <1>3, <1>4 DEF JobsIInv, JobsTypeOK, WellTyped
<1>6. JobInv'
  BY <1>1, <1>2 DEF JobsIInv, JobInv, InStep
<1> QED BY <1>1, <1>5, <1>6 DEF JobsIInv

LEMMA StutterSafe ==
    ASSUME JobsIInv, UNCHANGED jobsVars
    PROVE  JobsIInv'
<1> USE DEF jobsVars
<1>1. JobsTypeOK'
  BY DEF JobsIInv, JobsTypeOK, WellTyped
<1>2. JobInv'
  BY DEF JobsIInv, JobInv, InStep
<1> QED BY <1>1, <1>2 DEF JobsIInv

THEOREM JobsInvariance == JobsSpec => []JobsIInv
<1>1. JobsInit => JobsIInv
  BY InitSafe
<1>2. JobsIInv /\ [JobsNext]_jobsVars => JobsIInv'
  <2> SUFFICES ASSUME JobsIInv, [JobsNext]_jobsVars PROVE JobsIInv'
    OBVIOUS
  <2>1. ASSUME JobsNext, NEW l \in Lines, Reject(l) \/ Send(l) \/ SendBehind(l)
        PROVE  JobsIInv'
    BY <2>1, RefusedSafe, SendSafe DEF JobsNext
  <2>2. ASSUME JobsNext, NEW c \in Pids, RunJob(c) PROVE JobsIInv'
    <3>1. status = "running"
      BY <2>2 DEF JobsNext
    <3> QED BY <2>2, <3>1, StartSafe, ReadSafe, OverrunSafe, WriteSafe,
               PastEndSafe, EndSafe
            DEF RunJob
  <2> QED BY <2>1, <2>2, StutterSafe DEF JobsNext
<1> QED BY <1>1, <1>2, PTL DEF JobsSpec

(* What travels as untyped pointers from a line to a call is what the       *)
(* decoders cast it to, and every variable keeps its type.                  *)
THEOREM JobsTypeCorrect == JobsSpec => []JobsTypeOK
BY JobsInvariance, PTL DEF JobsIInv

(* No call of sim_read, sim_write or sim_loop_write takes a turn too many   *)
(* or without having passed its assertions, and what sim_read has stored is *)
(* one byte of each of its turns and no more than it allocated.             *)
THEOREM JobsSafe == JobsSpec => []JobInv
BY JobsInvariance, PTL DEF JobsIInv

(* The allocation is too small only when its size does not fit an int, for  *)
(* whatever width an int has: amount * off + 1 bytes are enough, and the    *)
(* product is what goes wrong.                                              *)
THEOREM RoomSafe == JobsSpec => []RoomInv
<1>1. JobsInit => RoomInv
  BY DEF JobsInit, RoomInv
<1>2. JobsIInv /\ RoomInv /\ [JobsNext]_jobsVars => RoomInv'
  <2> SUFFICES ASSUME JobsIInv, RoomInv, [JobsNext]_jobsVars, status' = "overrun"
               PROVE  RoomInv'
    BY DEF RoomInv
  <2>1. CASE UNCHANGED jobsVars
    BY <2>1 DEF jobsVars, RoomInv
  <2>2. CASE JobsNext
    <3>1. status = "running"
      BY <2>2 DEF JobsNext
    <3>2. PICK c \in Pids : OverrunBuffer(c)
      BY <2>2, <3>1
         DEF JobsNext, RunJob, Reject, Send, SendBehind, StartJob, ReadByte, WriteByte,
             LoopWriteByte, AccessPastEnd, EndJob
    <3> DEFINE j == job[c]
    <3>3. /\ j # NoJob /\ j.sim = "read" /\ More(j) /\ j.multiplier >= j.room
          /\ job' = job
      BY <3>2 DEF OverrunBuffer
    <3>4. /\ j \in Calls /\ AssertsHold(j) /\ j.room \in Nat
          /\ j.off \in Ints /\ j.amount \in Ints /\ j.off \in Int /\ j.amount \in Int
      BY <3>1, <3>3, CallFacts, TurnsBound DEF Calls
    <3>5. j.room = Room(j.off, j.amount)
      BY <3>3 DEF JobsIInv, JobInv, InStep
    <3>6. j.off > 0 /\ j.amount > 0 /\ j.multiplier \in Nat /\ j.multiplier < j.amount
      BY <3>3, <3>4, TurnsBound DEF AssertsHold, More
    <3>7. ~ (j.amount * j.off + 1 < SignBit)
      BY <3>3, <3>4, <3>5, <3>6, RoomFacts
    <3>8. j.amount * j.off + 1 \in Int /\ SignBit \in Int
      BY <3>4, SignBitAssumption
    <3>9. j.amount * j.off + 1 >= SignBit
      <4> HIDE DEF j
      <4> QED BY <3>7, <3>8
    <3> QED BY <3>3, <3>9 DEF RoomInv
  <2> QED BY <2>1, <2>2
<1> QED BY <1>1, <1>2, JobsInvariance, PTL DEF JobsSpec

-----------------------------------------------------------------------------
(* The refinement.  What a process is asked for is a queue of requests: ... *)
Requests == {Request(j, k) : j \in Calls, k \in Nat}

LEMMA ConsFacts ==
    ASSUME NEW S, NEW x \in S, NEW s \in Seq(S)
    PROVE  /\ <<x>> \o s \in Seq(S) /\ <<x>> \o s # <<>>
           /\ Head(<<x>> \o s) = x /\ Tail(<<x>> \o s) = s
           /\ \A y \in S : Append(<<x>> \o s, y) = <<x>> \o Append(s, y)
OBVIOUS

LEMMA PostRequest ==
    ASSUME NEW m \in Posts
    PROVE  Request(CallOf(m), 0) \in Requests
<1>1. CallOf(m) \in Calls
  BY PostFacts DEF Fresh
<1> QED BY <1>1 DEF Requests

LEMMA WaitingType ==
    ASSUME NEW mail \in Seq(Posts)
    PROVE  Waiting(mail) \in Seq(Requests) /\ Len(Waiting(mail)) = Len(mail)
<1>1. \A i \in 1 .. Len(mail) : Request(CallOf(mail[i]), 0) \in Requests
  BY PostRequest
<1> QED BY <1>1 DEF Waiting

(* ... a message that is sent is asked for last, ...                        *)
LEMMA WaitingAppend ==
    ASSUME NEW mail \in Seq(Posts), NEW m \in Posts
    PROVE  Waiting(Append(mail, m)) = Append(Waiting(mail), Request(CallOf(m), 0))
<1> DEFINE r == Request(CallOf(m), 0)
           w == Waiting(Append(mail, m))
           u == Append(Waiting(mail), r)
<1>1. Append(mail, m) \in Seq(Posts) /\ Len(Append(mail, m)) = Len(mail) + 1
      /\ Len(mail) \in Nat
  OBVIOUS
<1>2. r \in Requests
  BY PostRequest
<1>3. Waiting(mail) \in Seq(Requests) /\ Len(Waiting(mail)) = Len(mail)
  BY WaitingType
<1>4. w \in Seq(Requests) /\ Len(w) = Len(mail) + 1
  BY <1>1, WaitingType
<1>5. u \in Seq(Requests) /\ Len(u) = Len(mail) + 1
  BY <1>2, <1>3
<1>6. ASSUME NEW i \in 1 .. Len(mail) + 1 PROVE w[i] = u[i]
  <2>1. CASE i = Len(mail) + 1
    <3>1. w[i] = r
      BY <1>1, <2>1 DEF Waiting
    <3> QED BY <1>2, <1>3, <2>1, <3>1
  <2>2. CASE i # Len(mail) + 1
    <3>1. i \in 1 .. Len(mail) /\ Append(mail, m)[i] = mail[i]
      BY <1>1, <2>2
    <3>2. w[i] = Request(CallOf(mail[i]), 0)
      BY <1>1, <3>1 DEF Waiting
    <3>3. u[i] = Waiting(mail)[i]
      BY <1>2, <1>3, <3>1
    <3> QED BY <3>1, <3>2, <3>3 DEF Waiting
  <2> QED BY <2>1, <2>2
<1> HIDE DEF w, u
<1>7. w = u
  BY <1>1, <1>4, <1>5, <1>6
<1> QED BY <1>7 DEF w, u

(* ... and one that is taken out was asked for first.                       *)
LEMMA WaitingTail ==
    ASSUME NEW mail \in Seq(Posts), mail # <<>>
    PROVE  Waiting(mail) = <<Request(CallOf(Head(mail)), 0)>> \o Waiting(Tail(mail))
<1> DEFINE r == Request(CallOf(Head(mail)), 0)
           w == Waiting(mail)
           u == <<r>> \o Waiting(Tail(mail))
<1>1. Tail(mail) \in Seq(Posts) /\ Len(Tail(mail)) = Len(mail) - 1
      /\ Head(mail) \in Posts /\ Len(mail) \in Nat \ {0}
  OBVIOUS
<1>2. r \in Requests
  BY <1>1, PostRequest
<1>3. Waiting(Tail(mail)) \in Seq(Requests)
      /\ Len(Waiting(Tail(mail))) = Len(mail) - 1
  <2>1. Waiting(Tail(mail)) \in Seq(Requests)
        /\ Len(Waiting(Tail(mail))) = Len(Tail(mail))
    BY <1>1, WaitingType, Zenon
  <2> HIDE DEF Waiting
  <2> QED BY <1>1, <2>1, Zenon
<1>4. w \in Seq(Requests) /\ Len(w) = Len(mail)
  BY WaitingType
<1>5. u \in Seq(Requests) /\ Len(u) = Len(mail)
  <2>1. u \in Seq(Requests) /\ Len(u) = 1 + Len(Waiting(Tail(mail)))
    BY <1>2, <1>3
  <2> HIDE DEF u
  <2>2. 1 + (Len(mail) - 1) = Len(mail)
    BY <1>1
  <2> QED BY <1>3, <2>1, <2>2
<1>6. ASSUME NEW i \in 1 .. Len(mail) PROVE w[i] = u[i]
  <2>1. w[i] = Request(CallOf(mail[i]), 0)
    BY DEF Waiting
  <2>2. CASE i = 1
    <3>1. u[1] = r /\ mail[1] = Head(mail)
      BY <1>2, <1>3
    <3> QED BY <2>1, <2>2, <3>1
  <2>3. CASE i # 1
    <3>1. i - 1 \in 1 .. Len(mail) - 1 /\ Tail(mail)[i - 1] = mail[i]
      BY <1>1, <2>3
    <3>2. u[i] = Waiting(Tail(mail))[i - 1]
      BY <1>1, <1>2, <1>3, <3>1
    <3>3. Waiting(Tail(mail))[i - 1] = Request(CallOf(Tail(mail)[i - 1]), 0)
      BY <1>1, <3>1 DEF Waiting
    <3> QED BY <2>1, <3>1, <3>2, <3>3
  <2> QED BY <2>2, <2>3
<1> HIDE DEF w, u
<1>7. w = u
  BY <1>1, <1>4, <1>5, <1>6
<1> QED BY <1>7 DEF w, u

(* A request stays the same while its turns are taken.                      *)
LEMMA RequestKept ==
    ASSUME NEW j \in Calls, j.off \in Nat
    PROVE  Request(Advanced(j), j.multiplier + 1) = Request(j, j.multiplier)
<1> DEFINE m == j.multiplier
           n == Linear(j.vAddr)
           q == Linear(Advanced(j).vAddr)
<1>1. j.vAddr \in VirtAddrs /\ j.off \in Nat /\ m \in Nat /\ j.off * m \in Nat
  BY DEF Calls
<1>2. n \in Nat /\ q = n + j.off
  <2>1. Advanced(j).vAddr = AdvanceVirtAddr(j.vAddr, j.off)
    BY AdvancedCall
  <2> QED BY <1>1, <2>1, LinearPlace, AdvanceLinear
<1>3. (m + 1) * j.off = m * j.off + j.off /\ m * j.off \in Nat
  BY <1>1
<1>4. q - (m + 1) * j.off = n - m * j.off
  <2> HIDE DEF m, n, q
  <2> QED BY <1>1, <1>2, <1>3
<1> HIDE DEF m, n, q
<1>5. /\ Turns(Advanced(j)) = Turns(j) /\ Advanced(j).sim = j.sim
      /\ Advanced(j).off = j.off /\ Advanced(j).data = j.data
      /\ Advanced(j).file = j.file
  BY AdvancedCall
<1> QED BY <1>4, <1>5 DEF Request, m, n, q

-----------------------------------------------------------------------------
LEMMA AskedFacts ==
    ASSUME JobsIInv, NEW c \in Pids
    PROVE  /\ Waiting(mailbox[c]) \in Seq(Requests)
           /\ job[c] = NoJob => Asked(c) = Waiting(mailbox[c])
           /\ job[c] # NoJob =>
                /\ Request(job[c], job[c].multiplier) \in Requests
                /\ Asked(c) = <<Request(job[c], job[c].multiplier)>>
                              \o Waiting(mailbox[c])
                /\ Asked(c) # <<>>
                /\ Head(Asked(c)) = Request(job[c], job[c].multiplier)
                /\ Tail(Asked(c)) = Waiting(mailbox[c])
<1>1. Waiting(mailbox[c]) \in Seq(Requests)
  BY WaitingType DEF JobsIInv
<1>2. ASSUME job[c] # NoJob
      PROVE  Request(job[c], job[c].multiplier) \in Requests
  <2>1. job[c] \in Calls
    BY <1>2 DEF JobsIInv, JobsTypeOK
  <2> QED BY <2>1, TurnsBound DEF Requests
<1>3. ASSUME job[c] # NoJob
      PROVE  Asked(c) = <<Request(job[c], job[c].multiplier)>> \o Waiting(mailbox[c])
  BY <1>3 DEF Asked
<1>4. CASE job[c] = NoJob
  BY <1>1, <1>4 DEF Asked
<1>5. CASE job[c] # NoJob
  BY <1>1, <1>2, <1>3, <1>5, ConsFacts
<1> QED BY <1>4, <1>5

LEMMA SensibleRequest ==
    ASSUME NEW j \in Calls, j.sim = "write" => j.off = 1, NEW k \in Nat
    PROVE  AssertsHold(j) <=> ~ BM!Senseless(Request(j, k))
<1>1. Turns(j) \in Int /\ j.amount \in Int /\ (j.amount > 0 <=> Turns(j) > 0)
  BY TurnsBound
<1>2. j.off \in Int /\ j.sim \in {"read", "write", "loopWrite"}
  BY IntsAreIntegers DEF Calls
<1>3. /\ Request(j, k).count = Turns(j) /\ Request(j, k).step = j.off
      /\ Request(j, k).op = IF j.sim = "read" THEN "read" ELSE "write"
  BY DEF Request
<1> QED BY <1>1, <1>2, <1>3 DEF AssertsHold, BM!Senseless

LEMMA NextPlace ==
    ASSUME NEW j \in Calls
    PROVE  BM!Place(Request(j, j.multiplier), j.multiplier) = Linear(j.vAddr)
<1> DEFINE m == j.multiplier
           n == Linear(j.vAddr)
<1>1. j.vAddr \in VirtAddrs /\ m * j.off \in Int
  <2>1. j.vAddr \in VirtAddrs /\ j.off \in Int /\ m \in Int
    <3>1. j.vAddr \in VirtAddrs /\ j.off \in Ints /\ m \in Nat
      BY DEF Calls
    <3>2. j.off \in Int
      BY <3>1, IntsAreIntegers, Zenon
    <3> QED BY <3>1, <3>2
  <2> QED BY <2>1
<1>2. n \in Nat
  BY <1>1, LinearPlace
<1>3. n - m * j.off + m * j.off = n
  BY <1>1, <1>2
<1> QED BY <1>3 DEF Request, BM!Place

(* A turn of a loop leaves the request where it is and counts it.           *)
LEMMA TurnCounted ==
    ASSUME JobsIInv, status = "running", NEW c \in Pids, job[c] # NoJob,
           mailbox' = mailbox,
           job' = [job EXCEPT ![c] = Advanced(job[c])]
    PROVE  Todo' = Todo /\ At' = [At EXCEPT ![c] = @ + 1]
<1> DEFINE j == job[c]
<1>1. j \in Calls /\ j.off \in Nat /\ job \in [Pids -> Calls \cup {NoJob}]
  BY CallFacts DEF JobsIInv, JobsTypeOK
<1>2. job'[c] = Advanced(j) /\ Advanced(j) # NoJob
      /\ Advanced(j).multiplier = j.multiplier + 1
  BY <1>1, AdvancedCall, NoJobAssumption
<1>3. \A d \in Pids : d # c => job'[d] = job[d]
  BY <1>1
<1>4. ASSUME NEW d \in Pids PROVE Asked(d)' = Asked(d)
  <2>1. CASE d = c
    <3>1. Request(job'[c], job'[c].multiplier) = Request(j, j.multiplier)
      BY <1>1, <1>2, RequestKept
    <3> QED BY <1>2, <2>1, <3>1 DEF Asked
  <2>2. CASE d # c
    BY <1>3, <2>2 DEF Asked
  <2> QED BY <2>1, <2>2
<1>5. At' = [At EXCEPT ![c] = @ + 1]
  <2>1. At[c] = j.multiplier /\ At'[c] = j.multiplier + 1
    BY <1>2 DEF At
  <2>2. \A d \in Pids : d # c => At'[d] = At[d]
    BY <1>3 DEF At
  <2>3. /\ At = [d \in Pids |-> At[d]]
        /\ At' = [d \in Pids |-> At'[d]]
    BY DEF At
  <2>4. \A d \in Pids : At'[d] = IF d = c THEN At[c] + 1 ELSE At[d]
    BY <2>1, <2>2
  <2> QED BY <2>3, <2>4
<1> QED BY <1>4, <1>5 DEF Todo

(* What the abstract memory is asked for next is what the loop does next.   *)
LEMMA NextAccess ==
    ASSUME JobsIInv, status = "running", NEW c \in Pids, job[c] # NoJob, More(job[c])
    PROVE  /\ Todo[c] # <<>>
           /\ Head(Todo[c]) = Request(job[c], job[c].multiplier)
           /\ At[c] = job[c].multiplier /\ At[c] < Head(Todo[c]).count
           /\ ~ BM!Senseless(Head(Todo[c]))
           /\ BM!Place(Head(Todo[c]), At[c]) = Linear(job[c].vAddr)
           /\ Head(Todo[c]).op = IF job[c].sim = "read" THEN "read" ELSE "write"
<1> DEFINE j == job[c]
           r == Request(j, j.multiplier)
<1>1. j \in Calls /\ j.multiplier \in Nat
  BY TurnsBound DEF JobsIInv, JobsTypeOK
<1>2. Todo[c] # <<>> /\ Head(Todo[c]) = r
  BY AskedFacts DEF Todo
<1>3. At[c] = j.multiplier
  BY DEF At
<1>4. AssertsHold(j)
  BY DEF JobsIInv, JobInv, InStep
<1>5. ~ BM!Senseless(r)
  BY <1>1, <1>4, CallFacts, SensibleRequest
<1>6. BM!Place(r, j.multiplier) = Linear(j.vAddr)
  BY <1>1, NextPlace
<1>7. j.multiplier < r.count /\ r.op = IF j.sim = "read" THEN "read" ELSE "write"
  BY <1>1, TurnsBound DEF Request
<1> QED BY <1>2, <1>3, <1>5, <1>6, <1>7

LEMMA ByteAt ==
    ASSUME NEW c \in Pids, NEW addr \in VirtAddrs, addr.page < BlockSize
    PROVE  /\ Linear(addr) \in 0 .. BlockSize * PageSize - 1
           /\ Memory[c][Linear(addr)] = content[c][addr.page][addr.offset]
<1>1. /\ Linear(addr) \in Nat /\ Linear(addr) < BlockSize * PageSize
      /\ Linear(addr) \div PageSize = addr.page
      /\ Linear(addr) % PageSize = addr.offset
  BY LinearPlace
<1>2. BlockSize * PageSize \in Nat
  BY PageSizeAssumption, JobsAssumption
<1> HIDE DEF Linear
<1> QED BY <1>1, <1>2 DEF Memory

(* A byte that is stored changes one place of the array.                    *)
LEMMA ByteStored ==
    ASSUME JobsIInv, NEW c \in Pids, NEW addr \in VirtAddrs, addr.page < BlockSize,
           NEW b \in Bytes,
           content' = [content EXCEPT ![c][addr.page][addr.offset] = b]
    PROVE  Memory' = [Memory EXCEPT ![c][Linear(addr)] = b]
<1> DEFINE Places == 0 .. BlockSize * PageSize - 1
           n == Linear(addr)
<1>1. addr.page \in PageIds /\ addr.offset \in Offsets
  BY JobsAssumption DEF VirtAddrs, PageIds
<1>2. content \in [Pids -> [PageIds -> [Offsets -> Bytes]]]
  BY DEF JobsIInv, JobsTypeOK
<1>3. n \in Places
  BY ByteAt
<1>4. ASSUME NEW i \in Places
      PROVE  /\ i \div PageSize \in PageIds /\ i % PageSize \in Offsets
             /\ i = (i \div PageSize) * PageSize + (i % PageSize)
  <2>1. BlockSize * PageSize \in Nat /\ i \in Nat /\ i < BlockSize * PageSize
    BY PageSizeAssumption, JobsAssumption
  <2>2. i \div PageSize \in Nat /\ i % PageSize \in Offsets
        /\ i = (i \div PageSize) * PageSize + (i % PageSize)
    BY <2>1, DivMod
  <2> DEFINE v == [page |-> i \div PageSize, offset |-> i % PageSize]
  <2>3. v \in VirtAddrs /\ Linear(v) = i
    BY <2>2 DEF VirtAddrs, Linear
  <2>4. i \div PageSize < BlockSize
    BY <2>1, <2>3, LinearPlace
  <2> QED BY <2>2, <2>4, JobsAssumption DEF PageIds
<1>5. ASSUME NEW i \in Places
      PROVE  Memory'[c][i] = IF i = n THEN b ELSE Memory[c][i]
  <2>1. Memory'[c][i] = content'[c][i \div PageSize][i % PageSize]
    BY DEF Memory
  <2>2. CASE i = n
    <3>1. i \div PageSize = addr.page /\ i % PageSize = addr.offset
      BY <2>2, LinearPlace
    <3> QED BY <1>1, <1>2, <2>1, <2>2, <3>1
  <2>3. CASE i # n
    <3>1. ~ (i \div PageSize = addr.page /\ i % PageSize = addr.offset)
      BY <1>4, <2>3 DEF Linear
    <3>2. content'[c][i \div PageSize][i % PageSize]
          = content[c][i \div PageSize][i % PageSize]
      BY <1>1, <1>2, <1>4, <3>1
    <3> QED BY <2>1, <2>3, <3>2 DEF Memory
  <2> QED BY <2>2, <2>3
<1>6. ASSUME NEW d \in Pids, d # c, NEW i \in Places PROVE Memory'[d][i] = Memory[d][i]
  BY <1>2, <1>6 DEF Memory
<1>7. /\ Memory = [d \in Pids |-> [i \in Places |-> Memory[d][i]]]
      /\ Memory' = [d \in Pids |-> [i \in Places |-> Memory'[d][i]]]
  BY DEF Memory
<1> HIDE DEF Memory, n, Places
<1>8. ASSUME NEW d \in Pids
      PROVE  Memory'[d] = IF d = c THEN [Memory[c] EXCEPT ![n] = b] ELSE Memory[d]
  <2>1. Memory'[d] = [i \in Places |-> Memory'[d][i]]
        /\ Memory[d] = [i \in Places |-> Memory[d][i]]
    BY <1>7
  <2>2. CASE d = c
    BY <1>5, <2>1, <2>2
  <2>3. CASE d # c
    BY <1>6, <2>1, <2>3
  <2> QED BY <2>2, <2>3
<1>9. Memory' = [Memory EXCEPT ![c] = [Memory[c] EXCEPT ![n] = b]]
  BY <1>7, <1>8
<1> QED BY <1>9 DEF n

LEMMA ReadRefines ==
    ASSUME JobsIInv, status = "running", NEW c \in Pids, ReadByte(c)
    PROVE  BM!Access(c)
<1> DEFINE j == job[c]
           r == Head(Todo[c])
           i == BM!Place(r, At[c])
<1>1. /\ j # NoJob /\ More(j) /\ j.sim = "read" /\ j.vAddr.page < BlockSize
      /\ j.multiplier < j.room
      /\ job' = [job EXCEPT ![c] = Advanced(j)]
      /\ buf' = [buf EXCEPT ![c] =
                    Append(@, content[c][j.vAddr.page][j.vAddr.offset])]
      /\ UNCHANGED <<line, mailbox, content, printed, status>>
  BY DEF ReadByte
<1>2. j.vAddr \in VirtAddrs
  BY <1>1 DEF JobsIInv, JobsTypeOK, Calls
<1>3. Todo' = Todo /\ At' = [At EXCEPT ![c] = @ + 1]
  BY <1>1, TurnCounted
<1>4. /\ Todo[c] # <<>> /\ ~ BM!Senseless(r) /\ At[c] < r.count /\ r.op = "read"
      /\ i = Linear(j.vAddr)
  BY <1>1, NextAccess
<1>5. i < BlockSize * PageSize
      /\ Memory[c][i] = content[c][j.vAddr.page][j.vAddr.offset]
  BY <1>1, <1>2, <1>4, ByteAt, LinearPlace
<1>6. Memory' = Memory /\ Up' = Up
  BY <1>1 DEF Memory, Up
<1> HIDE DEF r, i, j
<1>7. buf' = [buf EXCEPT ![c] = Append(@, Memory[c][i])]
  BY <1>1, <1>5
<1> QED BY <1>1, <1>3, <1>4, <1>5, <1>6, <1>7 DEF BM!Access, r, i

(* What is written is the byte of the line that the turn stands for.        *)
LEMMA NextByte ==
    ASSUME NEW j \in Calls, More(j)
    PROVE  LET r == Request(j, j.multiplier)
           IN /\ j.sim = "write" => r.data[j.multiplier + 1] = j.data[j.multiplier + 1]
              /\ j.sim = "loopWrite" => r.data[j.multiplier + 1] = j.data[1]
<1>1. j.multiplier + 1 \in 1 .. Turns(j)
  BY TurnsBound
<1> QED BY <1>1 DEF Request

LEMMA WriteRefines ==
    ASSUME JobsIInv, status = "running", NEW c \in Pids, WriteByte(c) \/ LoopWriteByte(c)
    PROVE  BM!Access(c)
<1> DEFINE j == job[c]
           r == Head(Todo[c])
           i == BM!Place(r, At[c])
           b == IF j.sim = "write" THEN j.data[j.multiplier + 1] ELSE j.data[1]
<1>1. /\ j # NoJob /\ More(j) /\ j.sim \in {"write", "loopWrite"}
      /\ j.vAddr.page < BlockSize
      /\ content' = [content EXCEPT ![c][j.vAddr.page][j.vAddr.offset] = b]
      /\ job' = [job EXCEPT ![c] = Advanced(j)]
      /\ UNCHANGED <<line, mailbox, buf, printed, status>>
  BY DEF WriteByte, LoopWriteByte
<1>2. j \in Calls /\ j.vAddr \in VirtAddrs /\ b \in Bytes
  BY <1>1, WriteFacts DEF Calls
<1>3. Todo' = Todo /\ At' = [At EXCEPT ![c] = @ + 1]
  BY <1>1, TurnCounted
<1>4. /\ Todo[c] # <<>> /\ ~ BM!Senseless(r) /\ At[c] < r.count /\ r.op # "read"
      /\ i = Linear(j.vAddr) /\ At[c] = j.multiplier /\ r = Request(j, j.multiplier)
  BY <1>1, NextAccess
<1>5. i < BlockSize * PageSize
  BY <1>1, <1>2, <1>4, LinearPlace
<1>6. r.data[At[c] + 1] = b
  BY <1>1, <1>2, <1>4, NextByte
<1> HIDE DEF r, i, b
<1>7. Memory' = [Memory EXCEPT ![c][i] = r.data[At[c] + 1]]
  BY <1>1, <1>2, <1>4, <1>6, ByteStored
<1>8. Up' = Up
  BY <1>1 DEF Up
<1> HIDE DEF j
<1> QED BY <1>1, <1>3, <1>4, <1>5, <1>7, <1>8 DEF BM!Access, r, i

LEMMA PastEndRefines ==
    ASSUME JobsIInv, status = "running", NEW c \in Pids, AccessPastEnd(c)
    PROVE  BM!Die(c)
<1> DEFINE j == job[c]
           r == Head(Todo[c])
<1>1. /\ j # NoJob /\ More(j) /\ j.vAddr.page >= BlockSize /\ status' = "aborted"
      /\ UNCHANGED <<line, mailbox, job, buf, content, printed>>
  BY DEF AccessPastEnd
<1>2. j.vAddr \in VirtAddrs
  BY <1>1 DEF JobsIInv, JobsTypeOK, Calls
<1>3. /\ Todo[c] # <<>> /\ At[c] < r.count
      /\ BM!Place(r, At[c]) = Linear(j.vAddr)
  BY <1>1, NextAccess
<1>4. BM!Place(r, At[c]) >= BlockSize * PageSize
  <2>1. Linear(j.vAddr) \in Nat /\ ~ (Linear(j.vAddr) < BlockSize * PageSize)
    BY <1>1, <1>2, LinearPlace, JobsAssumption DEF VirtAddrs
  <2>2. BlockSize * PageSize \in Nat
    BY PageSizeAssumption, JobsAssumption
  <2> QED BY <1>3, <2>1, <2>2
<1>5. Todo' = Todo /\ At' = At /\ Memory' = Memory
  BY <1>1 DEF Todo, Asked, At, Memory
<1>6. Up' = FALSE
  BY <1>1 DEF Up
<1> HIDE DEF r, j
<1> QED BY <1>1, <1>3, <1>4, <1>5, <1>6 DEF BM!Die, r

LEMMA EndRefines ==
    ASSUME JobsIInv, status = "running", NEW c \in Pids, EndJob(c)
    PROVE  BM!Finish(c)
<1> DEFINE j == job[c]
           r == Head(Todo[c])
<1>1. /\ j # NoJob /\ ~ More(j)
      /\ printed' = IF j.sim = "read" THEN <<j.file, buf[c]>> ELSE printed
      /\ buf' = [buf EXCEPT ![c] = <<>>]
      /\ job' = [job EXCEPT ![c] = NoJob]
      /\ UNCHANGED <<line, mailbox, content, status>>
  BY DEF EndJob
<1>2. j \in Calls /\ j.multiplier \in Nat /\ job \in [Pids -> Calls \cup {NoJob}]
  BY <1>1, TurnsBound DEF JobsIInv, JobsTypeOK
<1>3. /\ Todo[c] # <<>> /\ r = Request(j, j.multiplier)
      /\ Tail(Todo[c]) = Waiting(mailbox[c])
  BY <1>1, AskedFacts DEF Todo
<1>4. /\ j.multiplier > 0 => j.multiplier <= Turns(j)
      /\ AssertsHold(j) /\ (j.sim = "write" => j.off = 1) /\ j.amount > 0
  BY <1>1 DEF JobsIInv, JobInv, InStep, AssertsHold
<1>5. At[c] = r.count
  <2>1. At[c] = j.multiplier
    BY <1>1 DEF At
  <2>2. j.multiplier = Turns(j)
    BY <1>1, <1>2, <1>4, TurnsBound
  <2> QED BY <1>3, <2>1, <2>2 DEF Request
<1>6. ~ BM!Senseless(r)
  BY <1>2, <1>3, <1>4, SensibleRequest
<1>7. r.file = j.file /\ (r.op = "read" <=> j.sim = "read")
  BY <1>3 DEF Request
<1>8. Todo' = [Todo EXCEPT ![c] = Tail(@)]
  <2>1. Todo'[c] = Waiting(mailbox[c])
    BY <1>1, <1>2 DEF Todo, Asked
  <2>2. \A d \in Pids : d # c => Todo'[d] = Todo[d]
    BY <1>1, <1>2 DEF Todo, Asked
  <2> QED BY <1>3, <2>1, <2>2 DEF Todo
<1>9. At' = [At EXCEPT ![c] = 0]
  BY <1>1, <1>2 DEF At
<1>10. Memory' = Memory /\ Up' = Up
  BY <1>1 DEF Memory, Up
<1> HIDE DEF r, j
<1> QED BY <1>1, <1>3, <1>5, <1>6, <1>7, <1>8, <1>9, <1>10 DEF BM!Finish, r

(* Taking a message changes nothing that was asked for; the call that fails *)
(* its assertions is of a senseless request.                                *)
LEMMA StartRefines ==
    ASSUME JobsIInv, status = "running", NEW c \in Pids, StartJob(c)
    PROVE  BM!Die(c) \/ UNCHANGED BM!bmVars
<1> DEFINE m == Head(mailbox[c])
           call == CallOf(m)
           r == Request(call, 0)
<1>1. /\ job[c] = NoJob /\ mailbox[c] # <<>>
      /\ job' = [job EXCEPT ![c] = call]
      /\ status' = IF AssertsHold(call) THEN "running" ELSE "aborted"
      /\ mailbox' = [mailbox EXCEPT ![c] = Tail(mailbox[c])]
      /\ UNCHANGED <<line, buf, content, printed>>
  BY DEF StartJob
<1>2. /\ mailbox \in [Pids -> Seq(Posts)] /\ mailbox[c] \in Seq(Posts) /\ m \in Posts
      /\ job \in [Pids -> Calls \cup {NoJob}]
  BY <1>1 DEF JobsIInv, JobsTypeOK
<1>3. /\ call \in Calls /\ call # NoJob /\ call.multiplier = 0
      /\ call.sim = "write" => call.off = 1
  BY <1>2, PostFacts, NoJobAssumption DEF Fresh
<1>4. Waiting(mailbox[c]) = <<r>> \o Waiting(Tail(mailbox[c]))
  BY <1>1, <1>2, WaitingTail
<1>5. Asked(c) = Waiting(mailbox[c])
  BY <1>1 DEF Asked
<1> HIDE DEF call, m
<1>6. Asked(c)' = <<r>> \o Waiting(Tail(mailbox[c]))
  <2>1. job'[c] = call /\ mailbox'[c] = Tail(mailbox[c])
    BY <1>1, <1>2
  <2> QED BY <1>3, <2>1 DEF Asked
<1>7. Todo' = Todo
  <2>1. \A d \in Pids : d # c => Asked(d)' = Asked(d)
    BY <1>1, <1>2 DEF Asked
  <2> QED BY <1>4, <1>5, <1>6, <2>1 DEF Todo
<1>8. At' = At /\ Memory' = Memory
  BY <1>1, <1>2, <1>3 DEF At, Memory
<1>9. CASE AssertsHold(call)
  BY <1>1, <1>7, <1>8, <1>9 DEF Up, BM!bmVars
<1>10. CASE ~ AssertsHold(call)
  <2>1. Todo[c] # <<>> /\ Head(Todo[c]) = r
    <3>1. r \in Requests
      BY <1>3 DEF Requests
    <3>2. Tail(mailbox[c]) \in Seq(Posts)
      BY <1>1, <1>2
    <3>3. Waiting(Tail(mailbox[c])) \in Seq(Requests)
      BY <3>2, WaitingType
    <3> HIDE DEF r
    <3> QED BY <1>4, <1>5, <3>1, <3>3, ConsFacts DEF Todo
  <2>2. BM!Senseless(r)
    BY <1>3, <1>10, SensibleRequest
  <2> HIDE DEF r
  <2>3. Up' = FALSE
    BY <1>1, <1>10 DEF Up
  <2> QED BY <1>1, <1>7, <1>8, <2>1, <2>2, <2>3 DEF BM!Die
<1> QED BY <1>9, <1>10

LEMMA SendRefines ==
    ASSUME JobsIInv, NEW l \in Lines, Send(l)
    PROVE  BM!Accept
<1> DEFINE post == PostOf(l)
           c == post.pid
           r == Request(CallOf(post), 0)
<1>1. /\ post # Illegal /\ post \in Posts /\ c \in Pids /\ line' = l
      /\ mailbox' = [mailbox EXCEPT ![c] = Append(mailbox[c], post)]
      /\ UNCHANGED <<job, buf, content, printed, status>>
  BY DEF Send, TakeLine, Posts, JobsIInv, JobsTypeOK
<1>2. c = BM!Scan(l.args[2].num) /\ r = BM!Meaning(l)
  BY <1>1, AllFaithful DEF Faithful
<1>3. mailbox \in [Pids -> Seq(Posts)] /\ mailbox[c] \in Seq(Posts)
  BY <1>1 DEF JobsIInv
<1> HIDE DEF post
<1>4. r \in Requests
  BY <1>1, PostRequest
<1>5. Waiting(mailbox'[c]) = Append(Waiting(mailbox[c]), r)
  BY <1>1, <1>3, WaitingAppend
<1> HIDE DEF r
<1>6. Asked(c)' = Append(Asked(c), r)
  <2>1. CASE job[c] = NoJob
    BY <1>1, <1>5, <2>1 DEF Asked
  <2>2. CASE job[c] # NoJob
    <3> DEFINE q == Request(job[c], job[c].multiplier)
    <3>1. q \in Requests /\ Waiting(mailbox[c]) \in Seq(Requests)
          /\ Asked(c) = <<q>> \o Waiting(mailbox[c])
      BY <1>1, <2>2, AskedFacts
    <3>2. Asked(c)' = <<q>> \o Append(Waiting(mailbox[c]), r)
      BY <1>1, <1>5, <2>2 DEF Asked
    <3> HIDE DEF q
    <3> QED BY <1>4, <3>1, <3>2, ConsFacts
  <2> QED BY <2>1, <2>2
<1>7. \A d \in Pids : d # c => Asked(d)' = Asked(d)
  BY <1>1, <1>3 DEF Asked
<1>8. Todo' = [Todo EXCEPT ![c] = Append(@, r)]
  BY <1>1, <1>6, <1>7 DEF Todo
<1>9. At' = At /\ Memory' = Memory /\ Up' = Up
  BY <1>1 DEF At, Memory, Up
<1> QED BY <1>1, <1>2, <1>8, <1>9 DEF BM!Accept

LEMMA UnseenLine ==
    ASSUME status = "running", NEW l \in Lines, Reject(l) \/ SendBehind(l)
    PROVE  UNCHANGED BM!bmVars
<1>1. UNCHANGED <<line, mailbox, job, buf, content, printed>>
  BY DEF Reject, SendBehind, TakeLine
<1>2. Up' = Up
  BY DEF Reject, SendBehind, Up
<1> QED BY <1>1, <1>2 DEF BM!bmVars, Memory, Todo, Asked, At

LEMMA OverrunUnseen ==
    ASSUME status = "running", NEW c \in Pids, OverrunBuffer(c)
    PROVE  UNCHANGED BM!bmVars
<1>1. UNCHANGED <<line, mailbox, job, buf, content, printed>>
  BY DEF OverrunBuffer
<1>2. Up' = Up
  BY DEF OverrunBuffer, Up
<1> QED BY <1>1, <1>2 DEF BM!bmVars, Memory, Todo, Asked, At

(* The commands do to the memory of a process what their lines say, as if   *)
(* it were an array of bytes, one command after the other, whatever the     *)
(* size of the pages and the width of an int, and for every number a line   *)
(* may hold: what is accepted is the int that its digits are cut to, and    *)
(* the assertions end the program exactly when that is no step or amount.   *)
THEOREM BytesSafe == JobsSpec => BytesRefined
<1>1. JobsInit => BM!BMInit
  <2> SUFFICES ASSUME JobsInit PROVE BM!BMInit
    OBVIOUS
  <2>1. PICK b \in Bytes :
        content = [c \in Pids |-> [i \in PageIds |-> [o \in Offsets |-> b]]]
    BY DEF JobsInit
  <2>2. Memory = [c \in Pids |-> [i \in 0 .. BlockSize * PageSize - 1 |-> b]]
    <3> SUFFICES ASSUME NEW i \in 0 .. BlockSize * PageSize - 1
                 PROVE  i \div PageSize \in PageIds /\ i % PageSize \in Offsets
      BY <2>1 DEF Memory
    <3>1. BlockSize * PageSize \in Nat /\ i \in Nat /\ i < BlockSize * PageSize
      BY PageSizeAssumption, JobsAssumption
    <3> DEFINE v == MakeVirtAddr(i)
    <3>2. v \in VirtAddrs /\ Linear(v) = i
      BY <3>1, MakeLinear
    <3>3. v.page = i \div PageSize /\ v.offset = i % PageSize
      BY <3>2, LinearPlace
    <3> QED BY <3>1, <3>2, <3>3, LinearPlace, JobsAssumption DEF VirtAddrs, PageIds
  <2>3. Todo = [c \in Pids |-> <<>>] /\ At = [c \in Pids |-> 0] /\ Up = TRUE
    BY DEF JobsInit, Todo, Asked, Waiting, At, Up
  <2> QED BY <2>2, <2>3 DEF JobsInit, BM!BMInit
<1>2. JobsIInv /\ [JobsNext]_jobsVars => [BM!BMNext]_(BM!bmVars)
  <2> SUFFICES ASSUME JobsIInv, [JobsNext]_jobsVars PROVE [BM!BMNext]_(BM!bmVars)
    OBVIOUS
  <2>1. CASE UNCHANGED jobsVars
    BY <2>1 DEF jobsVars, BM!bmVars, Memory, Todo, Asked, At, Up
  <2>2. ASSUME JobsNext, NEW l \in Lines, Reject(l) \/ Send(l) \/ SendBehind(l)
        PROVE  [BM!BMNext]_(BM!bmVars)
    BY <2>2, UnseenLine, SendRefines DEF JobsNext, BM!BMNext
  <2>3. ASSUME JobsNext, NEW c \in Pids, RunJob(c) PROVE [BM!BMNext]_(BM!bmVars)
    <3>1. status = "running"
      BY <2>3 DEF JobsNext
    <3>2. CASE StartJob(c)
      BY <3>1, <3>2, StartRefines DEF BM!BMNext
    <3>3. CASE ReadByte(c) \/ WriteByte(c) \/ LoopWriteByte(c)
      BY <3>1, <3>3, ReadRefines, WriteRefines DEF BM!BMNext
    <3>4. CASE AccessPastEnd(c) \/ EndJob(c)
      BY <3>1, <3>4, PastEndRefines, EndRefines DEF BM!BMNext
    <3>5. CASE OverrunBuffer(c)
      BY <3>1, <3>5, OverrunUnseen
    <3> QED BY <2>3, <3>2, <3>3, <3>4, <3>5 DEF RunJob
  <2> QED BY <2>1, <2>2, <2>3 DEF JobsNext
<1> QED BY <1>1, <1>2, JobsInvariance, PTL DEF JobsSpec, BytesRefined, BM!BMSpec
=============================================================================
