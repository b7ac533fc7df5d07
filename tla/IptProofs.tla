----------------------------- MODULE IptProofs -----------------------------
(***************************************************************************)
(* What is proved of ipt.c: over any sequence of additions and removals    *)
(* the hash lists hold exactly the valid entries, each in its list, so     *)
(* that the lookup by the HAT and the links is that of PageTable, which    *)
(* the proofs about the MMU start from.                                    *)
(***************************************************************************)
EXTENDS Ipt, SequenceTheorems, FiniteSetTheorems, WellFoundedInduction, TLAPS

(* A set of natural numbers has a least element.                            *)
LEMMA LeastNat ==
    ASSUME NEW S \in SUBSET Nat, S # {}
    PROVE  \E x \in S : \A y \in S : x <= y
<1>1. IsWellFoundedOn(OpToRel(<, Nat), Nat)
  BY NatLessThanWellFounded
<1>2. \E x \in S : \A y \in S : ~ (<<y, x>> \in OpToRel(<, Nat))
  BY <1>1, WFMin, Zenon
<1>3. \A x, y \in S : y < x => <<y, x>> \in OpToRel(<, Nat)
  BY DEF OpToRel
<1>4. \E x \in S : \A y \in S : ~ (y < x)
  BY <1>2, <1>3, Zenon
<1> QED BY <1>4

LEMMA FrameNumbers ==
    /\ NFrames \in Nat \ {0} /\ \A f \in Frames : f \in Int /\ f # INVALID
    /\ INVALID \in Int /\ INVALID \notin Frames
BY IptAssumption DEF Frames, INVALID

(* A page hashes to an entry of the HAT.                                    *)
LEMMA HashIs == ASSUME NEW a \in Pages PROVE Hash(a) \in Frames
<1>1. a[1] \in Nat /\ a[2] \in Nat
  BY IptAssumption
<1>2. a[1] * a[2] \in Nat
  BY <1>1
<1>3. \A x \in Nat : x % NFrames \in 0 .. NFrames - 1
  BY IptAssumption
<1> QED BY <1>2, <1>3 DEF Hash, Frames

(* There are no more different frames than frames.                          *)
LEMMA FramesBound ==
    ASSUME NEW n \in Nat, NEW s \in [0 .. n - 1 -> Frames],
           \A i, j \in 0 .. n - 1 : s[i] = s[j] => i = j
    PROVE  n <= NFrames
<1>1. s \in Injection(0 .. n - 1, Frames)
  BY DEF Injection, IsInjective
<1>2. IsFiniteSet(Frames) /\ Cardinality(Frames) = NFrames
  <2>1. 0 \in Int /\ NFrames - 1 \in Int /\ ~ 0 > NFrames - 1 /\ NFrames - 1 - 0 + 1 = NFrames
    BY IptAssumption
  <2> QED BY <2>1, FS_Interval DEF Frames
<1>3. Cardinality(0 .. n - 1) = n
  <2>1. Cardinality(0 .. n - 1) = IF 0 > n - 1 THEN 0 ELSE n - 1 - 0 + 1
    BY FS_Interval
  <2> QED BY <2>1
<1>4. Cardinality(0 .. n - 1) <= Cardinality(Frames)
  BY <1>1, <1>2, FS_Injection
<1> QED BY <1>2, <1>3, <1>4

-----------------------------------------------------------------------------
(* The entries of a hash list, from the first to the last: all that are     *)
(* valid and hash to it, each once, linked in both directions.              *)
IsList(h, n, s) ==
    /\ n \in Nat /\ s \in [0 .. n - 1 -> Frames]
    /\ \A i, j \in 0 .. n - 1 : s[i] = s[j] => i = j
    /\ hat[h] = IF n = 0 THEN INVALID ELSE s[0]
    /\ \A i \in 0 .. n - 1 : next[s[i]] = IF i = n - 1 THEN INVALID ELSE s[i + 1]
    /\ \A i \in 0 .. n - 1 : prev[s[i]] = IF i = 0 THEN INVALID ELSE s[i - 1]
    /\ \A i \in 0 .. n - 1 : valid[s[i]] /\ Hash(addr[s[i]]) = h
    /\ \A f \in Frames : valid[f] /\ Hash(addr[f]) = h => \E i \in 0 .. n - 1 : s[i] = f

(* Walking along the links meets them.                                      *)
LEMMA WalkIs ==
    ASSUME NEW h, NEW n, NEW s, IsList(h, n, s)
    PROVE  /\ n \in Nat /\ n <= NFrames
           /\ \A i \in 0 .. NFrames : Walk(h)[i] = IF i < n THEN s[i] ELSE INVALID
<1> DEFINE At(at, i) == IF i = 0 THEN hat[h]
                        ELSE IF at[i - 1] = INVALID THEN INVALID ELSE next[at[i - 1]]
           Follows(at) == at = [i \in 0 .. NFrames |-> At(at, i)]
           w == [i \in 0 .. NFrames |-> IF i < n THEN s[i] ELSE INVALID]
<1>1. /\ n \in Nat /\ NFrames \in Nat
      /\ \A i \in 0 .. n - 1 : s[i] \in Frames /\ s[i] # INVALID
  BY FrameNumbers DEF IsList
<1>2. n <= NFrames
  BY FramesBound DEF IsList
<1>3. \A i \in 0 .. NFrames : w[i] = At(w, i)
  <2>1. w[0] = hat[h]
    BY <1>1 DEF IsList
  <2>2. ASSUME NEW i \in 0 .. NFrames, i # 0
        PROVE  w[i] = IF w[i - 1] = INVALID THEN INVALID ELSE next[w[i - 1]]
    <3>1. i - 1 \in 0 .. NFrames /\ (i - 1) + 1 = i
      BY <1>1, <2>2
    <3>2. CASE i - 1 < n
      <4>1. i - 1 \in 0 .. n - 1 /\ w[i - 1] = s[i - 1]
        BY <1>1, <3>1, <3>2
      <4>2. next[s[i - 1]] = IF i - 1 = n - 1 THEN INVALID ELSE s[i]
        BY <3>1, <4>1 DEF IsList
      <4>3. i - 1 = n - 1 <=> ~ i < n
        BY <1>1, <3>2, <2>2
      <4> QED BY <1>1, <4>1, <4>2, <4>3
    <3>3. CASE ~ i - 1 < n
      BY <1>1, <3>1, <3>3
    <3> QED BY <3>2, <3>3
  <2> HIDE DEF w
  <2> QED BY <2>1, <2>2
<1>4. Follows(w)
  <2>1. w = [i \in 0 .. NFrames |-> w[i]]
    OBVIOUS
  <2> HIDE DEF At, w
  <2> QED BY <1>3, <2>1
<1>5. Follows(Walk(h))
  <2>1. Walk(h) = CHOOSE at : Follows(at)
    BY DEF Walk
  <2> HIDE DEF Follows, w
  <2> QED BY <1>4, <2>1, Zenon
<1>6. ASSUME NEW at, Follows(at), NEW i \in 0 .. NFrames PROVE at[i] = w[i]
  <2>1. \A j \in 0 .. NFrames : at[j] = At(at, j)
    <3> HIDE DEF At
    <3> QED BY <1>6
  <2>2. ASSUME NEW j \in 0 .. NFrames, j # 0 => at[j - 1] = w[j - 1]
        PROVE  at[j] = w[j]
    <3> HIDE DEF w
    <3> QED BY <1>3, <2>1, <2>2
  <2> DEFINE D == {j \in 0 .. NFrames : at[j] # w[j]}
  <2>3. D = {}
    <3>1. SUFFICES ASSUME D # {} PROVE FALSE
      OBVIOUS
    <3>2. PICK j \in D : \A k \in D : j <= k
      <4>1. D \in SUBSET Nat
        BY <1>1
      <4> HIDE DEF D
      <4> QED BY <3>1, <4>1, LeastNat
    <3>3. j \in 0 .. NFrames /\ at[j] # w[j]
      BY <3>2
    <3>4. ASSUME j # 0 PROVE at[j - 1] = w[j - 1]
      <4>1. j - 1 \in 0 .. NFrames /\ ~ j <= j - 1
        BY <1>1, <3>3, <3>4
      <4> HIDE DEF w
      <4> QED BY <3>2, <4>1
    <3> QED BY <2>2, <3>3, <3>4
  <2> QED BY <2>3
<1> HIDE DEF Follows
<1>7. \A i \in 0 .. NFrames : Walk(h)[i] = w[i]
  BY <1>5, <1>6
<1> QED BY <1>1, <1>2, <1>7

(* ipt_hash_list_last_element returns the last of them.                     *)
LEMMA LastOfIs ==
    ASSUME NEW h, NEW n, NEW s, IsList(h, n, s)
    PROVE  LastOf(h) = IF n = 0 THEN INVALID ELSE s[n - 1]
<1> DEFINE at == Walk(h)
<1>1. /\ n \in Nat /\ n <= NFrames /\ NFrames \in Nat \ {0}
      /\ \A i \in 0 .. NFrames : at[i] = IF i < n THEN s[i] ELSE INVALID
      /\ \A i \in 0 .. n - 1 : s[i] # INVALID
  <2>1. n \in Nat /\ s \in [0 .. n - 1 -> Frames]
    BY DEF IsList
  <2>2. \A i \in 0 .. n - 1 : s[i] # INVALID
    BY <2>1, FrameNumbers
  <2> QED BY <2>1, <2>2, WalkIs, FrameNumbers
<1>2. LastOf(h) = IF at[0] = INVALID THEN INVALID
                  ELSE at[CHOOSE i \in 0 .. NFrames - 1 :
                            at[i] # INVALID /\ at[i + 1] = INVALID]
  BY DEF LastOf
<1> HIDE DEF at
<1>3. CASE n = 0
  BY <1>1, <1>2, <1>3
<1>4. CASE n # 0
  <2>1. at[0] # INVALID
    BY <1>1, <1>4
  <2>2. \A i \in 0 .. NFrames - 1 : at[i] # INVALID /\ at[i + 1] = INVALID <=> i = n - 1
    BY <1>1, <1>4
  <2>3. n - 1 \in 0 .. NFrames - 1 /\ n - 1 \in 0 .. NFrames /\ n - 1 < n
    BY <1>1, <1>4
  <2>4. (CHOOSE i \in 0 .. NFrames - 1 : at[i] # INVALID /\ at[i + 1] = INVALID) = n - 1
    BY <2>2, <2>3
  <2> QED BY <1>1, <1>2, <1>4, <2>1, <2>3, <2>4
<1> QED BY <1>3, <1>4

(* get_vaddr_idx finds a valid entry with the address if there is one.      *)
LEMMA VaddrIdxIs ==
    ASSUME NEW a, NEW n, NEW s, IsList(Hash(a), n, s)
    PROVE  IF \E i \in 0 .. n - 1 : addr[s[i]] = a
           THEN \E i \in 0 .. n - 1 : VaddrIdx(a) = s[i] /\ addr[s[i]] = a
           ELSE VaddrIdx(a) = INVALID
<1> DEFINE at == Walk(Hash(a))
           Here(i) == at[i] # INVALID /\ addr[at[i]] = a
           First(i) == Here(i) /\ \A m \in 0 .. i - 1 : ~ Here(m)
<1>1. /\ n \in Nat /\ n <= NFrames /\ NFrames \in Nat
      /\ \A i \in 0 .. NFrames : at[i] = IF i < n THEN s[i] ELSE INVALID
      /\ \A i \in 0 .. n - 1 : s[i] # INVALID
  <2>1. n \in Nat /\ s \in [0 .. n - 1 -> Frames]
    BY DEF IsList
  <2>2. \A i \in 0 .. n - 1 : s[i] # INVALID
    BY <2>1, FrameNumbers
  <2> QED BY <2>1, <2>2, WalkIs, FrameNumbers
<1>2. VaddrIdx(a) = IF \E i \in 0 .. NFrames : Here(i)
                    THEN at[CHOOSE i \in 0 .. NFrames : First(i)] ELSE INVALID
  BY DEF VaddrIdx
<1> HIDE DEF at
<1>3. \A i \in 0 .. NFrames : Here(i) <=> i \in 0 .. n - 1 /\ addr[s[i]] = a
  BY <1>1
<1>4. ASSUME \E i \in 0 .. NFrames : Here(i)
      PROVE  \E i \in 0 .. NFrames : First(i)
  <2> DEFINE D == {i \in 0 .. NFrames : Here(i)}
  <2>1. D \in SUBSET Nat /\ D # {}
    BY <1>1, <1>4
  <2>2. PICK i \in D : \A j \in D : i <= j
    <3> HIDE DEF D
    <3> QED BY <2>1, LeastNat
  <2>3. \A m \in 0 .. i - 1 : m \in 0 .. NFrames /\ ~ i <= m
    BY <1>1
  <2> QED BY <2>2, <2>3
<1> HIDE DEF Here
<1>5. CASE \E i \in 0 .. n - 1 : addr[s[i]] = a
  <2>1. \E i \in 0 .. NFrames : Here(i)
    BY <1>1, <1>3, <1>5
  <2>2. PICK i \in 0 .. NFrames : i = CHOOSE j \in 0 .. NFrames : First(j)
    BY <1>4, <2>1
  <2>3. Here(i) /\ VaddrIdx(a) = at[i]
    BY <1>2, <1>4, <2>1, <2>2
  <2>4. i \in 0 .. n - 1 /\ addr[s[i]] = a /\ at[i] = s[i]
    BY <1>1, <1>3, <2>3
  <2> QED BY <1>5, <2>3, <2>4
<1>6. CASE ~ \E i \in 0 .. n - 1 : addr[s[i]] = a
  BY <1>2, <1>3, <1>6
<1> QED BY <1>5, <1>6

-----------------------------------------------------------------------------
(* Taking the head of the queue, and appending to it.                       *)
LEMMA TailOfQueue ==
    ASSUME NEW S, NEW q \in Seq(S), q # <<>>, IsInjective(q)
    PROVE  /\ Head(q) \in S /\ Head(q) \in Range(q)
           /\ Tail(q) \in Seq(S)
           /\ IsInjective(Tail(q))
           /\ Range(Tail(q)) = Range(q) \ {Head(q)}
<1>1. /\ Head(q) \in S /\ Tail(q) \in Seq(S) /\ Head(q) = q[1]
      /\ Len(Tail(q)) = Len(q) - 1 /\ Len(q) \in Nat \ {0}
      /\ \A i \in 1 .. Len(Tail(q)) : Tail(q)[i] = q[i + 1]
      /\ DOMAIN q = 1 .. Len(q) /\ DOMAIN Tail(q) = 1 .. Len(Tail(q))
  BY HeadTailProperties, LenProperties, EmptySeq
<1>2. Head(q) \in Range(q)
  BY <1>1 DEF Range
<1>3. IsInjective(Tail(q))
  BY <1>1 DEF IsInjective
<1>4. Range(Tail(q)) \subseteq Range(q) \ {Head(q)}
  BY <1>1 DEF IsInjective, Range
<1>5. Range(q) \ {Head(q)} \subseteq Range(Tail(q))
  <2>1. ASSUME NEW i \in DOMAIN q, q[i] # Head(q)
        PROVE  q[i] = Tail(q)[i - 1] /\ i - 1 \in DOMAIN Tail(q)
    BY <1>1, <2>1
  <2> QED BY <2>1 DEF Range
<1> QED BY <1>1, <1>2, <1>3, <1>4, <1>5

LEMMA AppendToQueue ==
    ASSUME NEW S, NEW q \in Seq(S), NEW x \in S, IsInjective(q), x \notin Range(q)
    PROVE  /\ Append(q, x) \in Seq(S)
           /\ IsInjective(Append(q, x))
           /\ Range(Append(q, x)) = Range(q) \cup {x}
<1>1. /\ Append(q, x) \in Seq(S) /\ Len(q) \in Nat
      /\ Len(Append(q, x)) = Len(q) + 1
      /\ \A i \in 1 .. Len(q) : Append(q, x)[i] = q[i]
      /\ Append(q, x)[Len(q) + 1] = x
      /\ DOMAIN q = 1 .. Len(q) /\ DOMAIN Append(q, x) = 1 .. Len(q) + 1
  BY AppendProperties, LenProperties
<1>2. IsInjective(Append(q, x))
  BY <1>1 DEF IsInjective, Range
<1>3. Range(Append(q, x)) = Range(q) \cup {x}
  BY <1>1 DEF Range
<1> QED BY <1>1, <1>2, <1>3

-----------------------------------------------------------------------------
(* Every entry of the HAT has its list, ...                                 *)
HaveLists == \A h \in Frames : \E n, s : IsList(h, n, s)

(* ... and the frames are divided between the pages and the free queue.     *)
FramesDivided ==
    /\ \A f \in Frames : valid[f] => addr[f] \in Pages
    /\ \A f, g \in Frames : valid[f] /\ valid[g] /\ addr[f] = addr[g] => f = g
    /\ IsInjective(freePages)
    /\ Range(freePages) = {f \in Frames : ~ valid[f]}

IptIInv == IptTypeOK /\ FramesDivided /\ HaveLists

(* The lookup finds the entry of a page.                                    *)
LEMMA LookupIs ==
    ASSUME IptIInv, NEW a \in Pages
    PROVE  /\ HasTranslation(a) <=> \E f \in Frames : valid[f] /\ addr[f] = a
           /\ HasTranslation(a) =>
                /\ VaddrIdx(a) \in Frames
                /\ valid[VaddrIdx(a)] /\ addr[VaddrIdx(a)] = a
           /\ VaddrIdx(a) \in Frames \/ VaddrIdx(a) = INVALID
<1>1. PICK n, s : IsList(Hash(a), n, s)
  BY HashIs DEF IptIInv, HaveLists
<1>2. \A i \in 0 .. n - 1 : s[i] \in Frames /\ valid[s[i]] /\ s[i] # INVALID
  BY <1>1, FrameNumbers DEF IsList
<1>3. (\E f \in Frames : valid[f] /\ addr[f] = a) <=> \E i \in 0 .. n - 1 : addr[s[i]] = a
  <2>1. ASSUME NEW f \in Frames, valid[f], addr[f] = a
        PROVE  \E i \in 0 .. n - 1 : addr[s[i]] = a
    BY <1>1, <2>1 DEF IsList
  <2> QED BY <1>2, <2>1
<1>4. IF \E i \in 0 .. n - 1 : addr[s[i]] = a
      THEN \E i \in 0 .. n - 1 : VaddrIdx(a) = s[i] /\ addr[s[i]] = a
      ELSE VaddrIdx(a) = INVALID
  BY <1>1, VaddrIdxIs
<1> QED BY <1>2, <1>3, <1>4 DEF HasTranslation

(* A list of which no entry is touched stays.                               *)
LEMMA OtherList ==
    ASSUME NEW h, NEW n, NEW s, IsList(h, n, s), hat'[h] = hat[h],
           \A f \in Frames : valid[f] /\ Hash(addr[f]) = h =>
                next'[f] = next[f] /\ prev'[f] = prev[f] /\ valid'[f] /\ addr'[f] = addr[f],
           \A f \in Frames : valid'[f] /\ Hash(addr'[f]) = h =>
                valid[f] /\ Hash(addr[f]) = h
    PROVE  IsList(h, n, s)'
<1>1. \A i \in 0 .. n - 1 :
        /\ s[i] \in Frames
        /\ next'[s[i]] = next[s[i]] /\ prev'[s[i]] = prev[s[i]]
        /\ valid'[s[i]] /\ addr'[s[i]] = addr[s[i]]
  BY DEF IsList
<1>2. \A i \in 0 .. n - 1 : valid'[s[i]] /\ Hash(addr'[s[i]]) = h
  BY <1>1 DEF IsList
<1> QED BY <1>1, <1>2 DEF IsList, Hash

(* ipt_add: the frame goes to the end of its list.                          *)
LEMMA AddStep ==
    ASSUME IptIInv, NEW a \in Pages, Add(a)
    PROVE  IptIInv'
<1> DEFINE new == Head(freePages)
           h == Hash(a)
           tail == LastOf(h)
           linked == IF tail = INVALID THEN next ELSE [next EXCEPT ![tail] = new]
<1>1. /\ addr \in [Frames -> Pages \cup {ZeroAddr}]
      /\ valid \in [Frames -> BOOLEAN] /\ dirty \in [Frames -> BOOLEAN]
      /\ referenced \in [Frames -> BOOLEAN] /\ age \in [Frames -> 0 .. 2 * AgeMsb - 1]
      /\ next \in [Frames -> Links] /\ prev \in [Frames -> Links]
      /\ hat \in [Frames -> Links] /\ freePages \in Seq(Frames)
      /\ refCount \in 0 .. MaxRefCount
  BY DEF IptIInv, IptTypeOK
<1>2. /\ new \in Frames /\ ~ valid[new]
      /\ Tail(freePages) \in Seq(Frames) /\ IsInjective(Tail(freePages))
      /\ Range(Tail(freePages)) = Range(freePages) \ {new}
  <2>1. freePages # <<>> /\ IsInjective(freePages)
    BY DEF Add, IptIInv, FramesDivided
  <2>2. /\ new \in Frames /\ new \in Range(freePages)
        /\ Tail(freePages) \in Seq(Frames) /\ IsInjective(Tail(freePages))
        /\ Range(Tail(freePages)) = Range(freePages) \ {new}
    BY <1>1, <2>1, TailOfQueue
  <2> QED BY <2>2 DEF IptIInv, FramesDivided
<1>3. /\ hat' = IF tail = INVALID THEN [hat EXCEPT ![h] = new] ELSE hat
      /\ next' = [linked EXCEPT ![new] = INVALID]
      /\ prev' = [prev EXCEPT ![new] = tail]
      /\ addr' = [addr EXCEPT ![new] = a]
      /\ valid' = [valid EXCEPT ![new] = TRUE]
      /\ dirty' = [dirty EXCEPT ![new] = FALSE]
      /\ referenced' = [referenced EXCEPT ![new] = FALSE]
      /\ age' = [age EXCEPT ![new] = AgeMsb]
      /\ freePages' = Tail(freePages) /\ refCount' = refCount
  BY DEF Add
<1>4. ~ \E f \in Frames : valid[f] /\ addr[f] = a
  BY LookupIs DEF Add
<1>5. h \in Frames
  BY HashIs
<1>6. PICK n, s : IsList(h, n, s)
  BY <1>5 DEF IptIInv, HaveLists
<1>7. tail = IF n = 0 THEN INVALID ELSE s[n - 1]
  BY <1>6, LastOfIs
<1> HIDE DEF tail, new, h
<1>8. /\ n \in Nat /\ s \in [0 .. n - 1 -> Frames]
      /\ \A i \in 0 .. n - 1 : s[i] \in Frames /\ s[i] # INVALID /\ valid[s[i]] /\ s[i] # new
      /\ n # 0 => n - 1 \in 0 .. n - 1
  <2>1. n \in Nat /\ s \in [0 .. n - 1 -> Frames]
    BY <1>6 DEF IsList
  <2>2. \A i \in 0 .. n - 1 : s[i] \in Frames /\ s[i] # INVALID
    BY <2>1, FrameNumbers
  <2> QED BY <1>2, <1>6, <2>1, <2>2 DEF IsList
<1>9. tail \in Links /\ INVALID \in Links /\ new \in Links
  BY <1>2, <1>7, <1>8 DEF Links
<1>10. /\ linked \in [Frames -> Links] /\ next' \in [Frames -> Links]
       /\ next'[new] = INVALID
       /\ \A f \in Frames \ {new} : next'[f] = IF f = tail THEN new ELSE next[f]
  <2>1. linked \in [Frames -> Links] /\ \A f \in Frames : linked[f] = IF f = tail THEN new ELSE next[f]
    BY <1>1, <1>9, FrameNumbers
  <2> HIDE DEF linked
  <2> QED BY <1>2, <1>3, <1>9, <2>1
<1> HIDE DEF linked
<1>11. /\ \A f \in Frames \ {new} : /\ prev'[f] = prev[f] /\ addr'[f] = addr[f]
                                    /\ valid'[f] = valid[f]
       /\ prev'[new] = tail /\ addr'[new] = a /\ valid'[new] = TRUE
       /\ hat'[h] = (IF tail = INVALID THEN new ELSE hat[h])
       /\ \A g \in Frames \ {h} : hat'[g] = hat[g]
  BY <1>1, <1>2, <1>3, <1>5
<1>12. IptTypeOK'
  <2>1. AgeMsb \in 0 .. 2 * AgeMsb - 1
    BY IptAssumption
  <2>2. hat' \in [Frames -> Links] /\ prev' \in [Frames -> Links]
    BY <1>1, <1>3, <1>9
  <2>3. /\ addr' \in [Frames -> Pages \cup {ZeroAddr}]
        /\ valid' \in [Frames -> BOOLEAN] /\ dirty' \in [Frames -> BOOLEAN]
        /\ referenced' \in [Frames -> BOOLEAN] /\ age' \in [Frames -> 0 .. 2 * AgeMsb - 1]
    BY <1>1, <1>3, <2>1
  <2> QED BY <1>1, <1>2, <1>3, <1>10, <2>2, <2>3 DEF IptTypeOK
<1>13. FramesDivided'
  <2>1. \A f \in Frames : valid'[f] => addr'[f] \in Pages
    BY <1>11 DEF IptIInv, FramesDivided
  <2>2. \A f, g \in Frames : valid'[f] /\ valid'[g] /\ addr'[f] = addr'[g] => f = g
    BY <1>4, <1>11 DEF IptIInv, FramesDivided
  <2>3. Range(freePages') = {f \in Frames : ~ valid'[f]}
    BY <1>2, <1>3, <1>11 DEF IptIInv, FramesDivided
  <2> QED BY <1>2, <1>3, <2>1, <2>2, <2>3 DEF FramesDivided
<1>14. ASSUME NEW g \in Frames, g # h PROVE (\E m, t : IsList(g, m, t))'
  <2>1. PICK m, t : IsList(g, m, t)
    BY DEF IptIInv, HaveLists
  <2>2. \A f \in Frames : valid[f] /\ Hash(addr[f]) = g =>
            next'[f] = next[f] /\ prev'[f] = prev[f] /\ valid'[f] /\ addr'[f] = addr[f]
    <3>1. ASSUME NEW f \in Frames, valid[f], Hash(addr[f]) = g PROVE f # new /\ f # tail
      <4>1. f # new
        BY <1>2, <3>1
      <4>2. f # tail
        BY <1>6, <1>7, <1>8, <1>14, <3>1, FrameNumbers DEF IsList
      <4> QED BY <4>1, <4>2
    <3> QED BY <1>10, <1>11, <3>1
  <2>3. \A f \in Frames : valid'[f] /\ Hash(addr'[f]) = g => valid[f] /\ Hash(addr[f]) = g
    BY <1>11, <1>14 DEF h
  <2>4. IsList(g, m, t)'
    BY <1>11, <1>14, <2>1, <2>2, <2>3, OtherList
  <2> QED BY <2>4
<1>15. (\E m, t : IsList(h, m, t))'
  <2>1. PICK t : t = [i \in 0 .. n |-> IF i < n THEN s[i] ELSE new]
    OBVIOUS
  <2>2. /\ (n + 1) - 1 = n /\ n + 1 \in Nat /\ n + 1 # 0 /\ n \in 0 .. n /\ 0 \in 0 .. n
        /\ t \in [0 .. n -> Frames] /\ t[n] = new
        /\ \A i \in 0 .. n - 1 : t[i] = s[i]
        /\ \A i \in 0 .. n : i = n \/ i \in 0 .. n - 1
    BY <1>2, <1>8, <2>1
  <2>3. \A i, j \in 0 .. n : t[i] = t[j] => i = j
    BY <1>6, <1>8, <2>2 DEF IsList
  <2>4. hat'[h] = t[0]
    <3>1. CASE n = 0
      BY <1>7, <1>11, <2>2, <3>1
    <3>2. CASE n # 0
      <4>1. 0 \in 0 .. n - 1
        BY <1>8, <3>2
      <4> QED BY <1>6, <1>7, <1>8, <1>11, <2>2, <3>2, <4>1 DEF IsList
    <3> QED BY <3>1, <3>2
  <2>5. ASSUME NEW i \in 0 .. n
        PROVE  next'[t[i]] = IF i = n THEN INVALID ELSE t[i + 1]
    <3>1. CASE i = n
      BY <1>10, <2>2, <3>1
    <3>2. CASE i # n
      <4>1. i \in 0 .. n - 1 /\ n # 0 /\ t[i] = s[i] /\ s[i] \in Frames \ {new}
        BY <1>8, <2>2, <3>2
      <4>2. CASE i = n - 1
        BY <1>7, <1>10, <2>2, <4>1, <4>2
      <4>3. CASE i # n - 1
        <5>1. i + 1 \in 0 .. n - 1 /\ t[i + 1] = s[i + 1]
          BY <1>8, <2>2, <4>1, <4>3
        <5>2. s[i] # tail
          BY <1>6, <1>7, <1>8, <4>1, <4>3 DEF IsList
        <5>3. next[s[i]] = s[i + 1]
          BY <1>6, <4>1, <4>3 DEF IsList
        <5> QED BY <1>10, <3>2, <4>1, <5>1, <5>2, <5>3
      <4> QED BY <4>2, <4>3
    <3> QED BY <3>1, <3>2
  <2>6. ASSUME NEW i \in 0 .. n
        PROVE  prev'[t[i]] = IF i = 0 THEN INVALID ELSE t[i - 1]
    <3>1. CASE i = n
      <4>1. n # 0 => n - 1 \in 0 .. n - 1 /\ t[n - 1] = s[n - 1]
        BY <1>8, <2>2
      <4> QED BY <1>7, <1>11, <2>2, <3>1, <4>1
    <3>2. CASE i # n
      <4>1. i \in 0 .. n - 1 /\ t[i] = s[i] /\ s[i] \in Frames \ {new}
        BY <1>8, <2>2, <3>2
      <4>2. i # 0 => i - 1 \in 0 .. n - 1 /\ t[i - 1] = s[i - 1]
        BY <1>8, <2>2, <4>1
      <4>3. prev[s[i]] = IF i = 0 THEN INVALID ELSE s[i - 1]
        BY <1>6, <4>1 DEF IsList
      <4> QED BY <1>11, <4>1, <4>2, <4>3
    <3> QED BY <3>1, <3>2
  <2>7. \A i \in 0 .. n : valid'[t[i]] /\ Hash(addr'[t[i]]) = h
    BY <1>6, <1>8, <1>11, <2>2 DEF IsList, h
  <2>8. ASSUME NEW f \in Frames, valid'[f], Hash(addr'[f]) = h
        PROVE  \E i \in 0 .. n : t[i] = f
    <3>1. CASE f = new
      BY <2>2, <3>1
    <3>2. CASE f # new
      <4>1. PICK i \in 0 .. n - 1 : s[i] = f
        BY <1>6, <1>11, <2>8, <3>2 DEF IsList
      <4>2. i \in 0 .. n
        BY <1>8
      <4> QED BY <2>2, <4>1, <4>2
    <3> QED BY <3>1, <3>2
  <2>9. IsList(h, n + 1, t)'
    BY <2>2, <2>3, <2>4, <2>5, <2>6, <2>7, <2>8 DEF IsList, Hash
  <2> QED BY <2>9
<1>16. HaveLists'
  BY <1>14, <1>15 DEF HaveLists
<1> QED BY <1>12, <1>13, <1>16 DEF IptIInv

(* ipt_remove: the entry leaves its list, and its neighbours are linked.    *)
LEMMA RemoveStep ==
    ASSUME IptIInv, NEW a \in Pages, Remove(a)
    PROVE  IptIInv'
<1>1. /\ valid \in [Frames -> BOOLEAN]
      /\ next \in [Frames -> Links] /\ prev \in [Frames -> Links]
      /\ hat \in [Frames -> Links] /\ freePages \in Seq(Frames)
  BY DEF IptIInv, IptTypeOK
<1>2. PICK e : e = VaddrIdx(a)
  OBVIOUS
<1>3. e \in Frames /\ e # INVALID /\ valid[e] /\ addr[e] = a
  BY <1>2, LookupIs DEF Remove, HasTranslation
<1> DEFINE h == Hash(a)
<1>4. /\ hat' = IF prev[e] = INVALID THEN [hat EXCEPT ![h] = next[e]] ELSE hat
      /\ prev' = IF next[e] = INVALID THEN prev ELSE [prev EXCEPT ![next[e]] = prev[e]]
      /\ next' = IF prev[e] = INVALID THEN next ELSE [next EXCEPT ![prev[e]] = next[e]]
      /\ valid' = [valid EXCEPT ![e] = FALSE]
      /\ freePages' = Append(freePages, e)
      /\ UNCHANGED <<addr, dataVars, refCount>>
  BY <1>2 DEF Remove
<1>5. h \in Frames
  BY HashIs
<1> HIDE DEF h
<1>6. next[e] \in Links /\ prev[e] \in Links
  BY <1>1, <1>3
<1>7. /\ hat' \in [Frames -> Links] /\ prev' \in [Frames -> Links]
      /\ next' \in [Frames -> Links] /\ valid' \in [Frames -> BOOLEAN]
      /\ ~ valid'[e] /\ \A f \in Frames \ {e} : valid'[f] = valid[f]
      /\ \A f \in Frames : f # next[e] => prev'[f] = prev[f]
      /\ \A f \in Frames : f # prev[e] => next'[f] = next[f]
      /\ \A g \in Frames \ {h} : hat'[g] = hat[g]
  BY <1>1, <1>3, <1>4, <1>6
<1>8. /\ next[e] # INVALID => prev'[next[e]] = prev[e]
      /\ prev[e] # INVALID => next'[prev[e]] = next[e]
      /\ prev[e] = INVALID => hat'[h] = next[e]
      /\ prev[e] # INVALID => hat'[h] = hat[h]
  BY <1>1, <1>4, <1>5, <1>6 DEF Links
<1>9. addr' = addr
  BY <1>4
<1>10. /\ Append(freePages, e) \in Seq(Frames) /\ IsInjective(Append(freePages, e))
       /\ Range(Append(freePages, e)) = Range(freePages) \cup {e}
  <2>1. IsInjective(freePages) /\ e \notin Range(freePages)
    BY <1>3 DEF IptIInv, FramesDivided
  <2> QED BY <1>1, <1>3, <2>1, AppendToQueue
<1>11. IptTypeOK'
  BY <1>4, <1>7, <1>10 DEF IptIInv, IptTypeOK, dataVars
<1>12. FramesDivided'
  <2>1. \A f \in Frames : valid'[f] => addr'[f] \in Pages
    BY <1>7, <1>9 DEF IptIInv, FramesDivided
  <2>2. \A f, g \in Frames : valid'[f] /\ valid'[g] /\ addr'[f] = addr'[g] => f = g
    BY <1>7, <1>9 DEF IptIInv, FramesDivided
  <2>3. Range(freePages') = {f \in Frames : ~ valid'[f]}
    BY <1>3, <1>4, <1>7, <1>10 DEF IptIInv, FramesDivided
  <2> QED BY <1>4, <1>10, <2>1, <2>2, <2>3 DEF FramesDivided
<1>13. PICK n, s : IsList(h, n, s)
  BY <1>5 DEF IptIInv, HaveLists
<1>14. /\ n \in Nat /\ s \in [0 .. n - 1 -> Frames]
       /\ \A i \in 0 .. n - 1 : s[i] \in Frames /\ s[i] # INVALID
  <2>1. n \in Nat /\ s \in [0 .. n - 1 -> Frames]
    BY <1>13 DEF IsList
  <2> QED BY <2>1, FrameNumbers
<1>15. PICK k \in 0 .. n - 1 : s[k] = e
  BY <1>3, <1>13 DEF IsList, h
<1>16. /\ next[e] = IF k = n - 1 THEN INVALID ELSE s[k + 1]
       /\ prev[e] = IF k = 0 THEN INVALID ELSE s[k - 1]
       /\ k # n - 1 => k + 1 \in 0 .. n - 1
       /\ k # 0 => k - 1 \in 0 .. n - 1
  BY <1>13, <1>14, <1>15 DEF IsList
<1>17. ASSUME NEW g \in Frames, g # h PROVE (\E m, t : IsList(g, m, t))'
  <2>1. PICK m, t : IsList(g, m, t)
    BY DEF IptIInv, HaveLists
  <2>2. \A i \in 0 .. n - 1 : Hash(addr[s[i]]) = h
    BY <1>13 DEF IsList
  <2>3. ASSUME NEW f \in Frames, valid[f], Hash(addr[f]) = g
        PROVE  f # e /\ f # next[e] /\ f # prev[e]
    BY <1>15, <1>16, <1>17, <2>2, <2>3, FrameNumbers
  <2>4. \A f \in Frames : valid[f] /\ Hash(addr[f]) = g =>
            next'[f] = next[f] /\ prev'[f] = prev[f] /\ valid'[f] /\ addr'[f] = addr[f]
    BY <1>7, <1>9, <2>3
  <2>5. \A f \in Frames : valid'[f] /\ Hash(addr'[f]) = g => valid[f] /\ Hash(addr[f]) = g
    BY <1>7, <1>9
  <2>6. IsList(g, m, t)'
    BY <1>7, <1>17, <2>1, <2>4, <2>5, OtherList
  <2> QED BY <2>6
<1>18. (\E m, t : IsList(h, m, t))'
  <2>1. PICK t : t = [i \in 0 .. n - 2 |-> IF i < k THEN s[i] ELSE s[i + 1]]
    OBVIOUS
  <2>2. PICK m : m = n - 1
    OBVIOUS
  <2>3. /\ m \in Nat /\ m - 1 = n - 2 /\ k \in 0 .. m
        /\ \A i \in 0 .. m - 1 : i \in 0 .. n - 1 /\ i + 1 \in 0 .. n - 1
        /\ \A i \in 0 .. m - 1 : t[i] = IF i < k THEN s[i] ELSE s[i + 1]
    BY <1>14, <1>15, <2>1, <2>2
  <2>4. t \in [0 .. m - 1 -> Frames]
    BY <1>14, <2>1, <2>3
  <2>5. \A i, j \in 0 .. n - 1 : s[i] = s[j] => i = j
    BY <1>13 DEF IsList
  <2>6. ASSUME NEW i \in 0 .. m - 1, NEW j \in 0 .. m - 1, t[i] = t[j]
        PROVE  i = j
    BY <2>3, <2>5, <2>6
  <2>7. \A i \in 0 .. m - 1 : t[i] # e /\ t[i] \in Frames
    BY <1>15, <2>3, <2>4, <2>5
  <2>8. hat'[h] = IF m = 0 THEN INVALID ELSE t[0]
    <3>1. CASE k = 0
      <4>1. hat'[h] = next[e]
        BY <1>8, <1>16, <3>1
      <4>2. next[e] = IF m = 0 THEN INVALID ELSE s[1]
        BY <1>16, <2>2, <2>3, <3>1
      <4>3. m # 0 => t[0] = s[1]
        BY <2>3, <3>1
      <4> QED BY <4>1, <4>2, <4>3
    <3>2. CASE k # 0
      <4>1. prev[e] # INVALID
        BY <1>14, <1>16, <3>2
      <4>2. hat'[h] = hat[h]
        BY <1>8, <4>1
      <4>3. hat[h] = s[0]
        BY <1>13, <1>14, <1>15 DEF IsList
      <4>4. m # 0 /\ 0 \in 0 .. m - 1 /\ 0 < k
        BY <2>3, <3>2
      <4> QED BY <2>3, <4>2, <4>3, <4>4
    <3> QED BY <3>1, <3>2
  <2>9. ASSUME NEW i \in 0 .. m - 1
        PROVE  next'[t[i]] = IF i = m - 1 THEN INVALID ELSE t[i + 1]
    <3>1. CASE k # 0 /\ i = k - 1
      <4>1. t[i] = prev[e] /\ prev[e] # INVALID
        BY <1>14, <1>16, <2>3, <3>1
      <4>2. next'[t[i]] = next[e]
        BY <1>8, <4>1
      <4>3. k = n - 1 <=> i = m - 1
        BY <2>2, <2>3, <3>1
      <4>4. i # m - 1 => i + 1 \in 0 .. m - 1 /\ ~ i + 1 < k /\ (i + 1) + 1 = k + 1
        BY <2>3, <3>1
      <4> QED BY <1>16, <2>3, <4>2, <4>3, <4>4
    <3>2. CASE ~ (k # 0 /\ i = k - 1)
      <4>1. PICK j \in 0 .. n - 1 : t[i] = s[j] /\ j = IF i < k THEN i ELSE i + 1
        BY <2>3
      <4>2. s[j] # prev[e]
        <5>1. k # 0 => j # k - 1
          BY <2>3, <3>2, <4>1
        <5> QED BY <1>14, <1>16, <2>5, <5>1
      <4>3. next'[t[i]] = next[s[j]]
        BY <1>7, <1>14, <4>1, <4>2
      <4>4. next[s[j]] = IF j = n - 1 THEN INVALID ELSE s[j + 1]
        BY <1>13 DEF IsList
      <4>5. j = n - 1 <=> i = m - 1
        BY <2>2, <2>3, <3>2, <4>1
      <4>6. i # m - 1 => t[i + 1] = s[j + 1]
        <5>1. SUFFICES ASSUME i # m - 1 PROVE t[i + 1] = s[j + 1]
          OBVIOUS
        <5>2. i + 1 \in 0 .. m - 1 /\ (i < k <=> i + 1 < k)
          BY <2>3, <3>2, <5>1
        <5>3. t[i + 1] = IF i + 1 < k THEN s[i + 1] ELSE s[(i + 1) + 1]
          BY <2>3, <5>2
        <5> QED BY <4>1, <5>2, <5>3
      <4> QED BY <4>3, <4>4, <4>5, <4>6
    <3> QED BY <3>1, <3>2
  <2>10. ASSUME NEW i \in 0 .. m - 1
         PROVE  prev'[t[i]] = IF i = 0 THEN INVALID ELSE t[i - 1]
    <3>1. CASE i = k
      <4>1. k # n - 1 /\ t[i] = s[k + 1]
        BY <2>2, <2>3, <3>1
      <4>2. t[i] = next[e] /\ next[e] # INVALID
        BY <1>14, <1>16, <4>1
      <4>3. prev'[t[i]] = prev[e]
        BY <1>8, <4>2
      <4>4. i # 0 => i - 1 \in 0 .. m - 1 /\ i - 1 < k
        BY <2>3, <3>1
      <4> QED BY <1>16, <2>3, <3>1, <4>3, <4>4
    <3>2. CASE i # k
      <4>1. PICK j \in 0 .. n - 1 : t[i] = s[j] /\ j = IF i < k THEN i ELSE i + 1
        BY <2>3
      <4>2. s[j] # next[e]
        <5>1. j # k + 1
          BY <2>3, <3>2, <4>1
        <5> QED BY <1>14, <1>16, <2>5, <5>1
      <4>3. prev'[t[i]] = prev[s[j]]
        BY <1>7, <1>14, <4>1, <4>2
      <4>4. prev[s[j]] = IF j = 0 THEN INVALID ELSE s[j - 1]
        BY <1>13 DEF IsList
      <4>5. j = 0 <=> i = 0
        BY <2>3, <3>2, <4>1
      <4>6. i # 0 => t[i - 1] = s[j - 1]
        <5>1. SUFFICES ASSUME i # 0 PROVE t[i - 1] = s[j - 1]
          OBVIOUS
        <5>2. i - 1 \in 0 .. m - 1 /\ (i < k <=> i - 1 < k)
          BY <2>3, <3>2, <5>1
        <5>3. t[i - 1] = IF i - 1 < k THEN s[i - 1] ELSE s[(i - 1) + 1]
          BY <2>3, <5>2
        <5> QED BY <4>1, <5>2, <5>3
      <4> QED BY <4>3, <4>4, <4>5, <4>6
    <3> QED BY <3>1, <3>2
  <2>11. \A i \in 0 .. m - 1 : valid'[t[i]] /\ Hash(addr'[t[i]]) = h
    <3>1. \A i \in 0 .. n - 1 : valid[s[i]] /\ Hash(addr[s[i]]) = h
      BY <1>13 DEF IsList
    <3>2. \A i \in 0 .. m - 1 : valid[t[i]] /\ Hash(addr[t[i]]) = h
      BY <2>3, <3>1
    <3> QED BY <1>7, <1>9, <2>7, <3>2
  <2>12. ASSUME NEW f \in Frames, valid'[f], Hash(addr'[f]) = h
         PROVE  \E i \in 0 .. m - 1 : t[i] = f
    <3>1. f # e /\ valid[f] /\ Hash(addr[f]) = h
      BY <1>7, <1>9, <2>12
    <3>2. PICK j \in 0 .. n - 1 : s[j] = f
      BY <1>13, <3>1 DEF IsList
    <3>3. j # k
      BY <1>15, <3>1, <3>2
    <3>4. CASE j < k
      <4>1. j \in 0 .. m - 1
        BY <2>3, <3>4
      <4> QED BY <2>3, <3>2, <3>4, <4>1
    <3>5. CASE ~ j < k
      <4>1. j - 1 \in 0 .. m - 1 /\ ~ j - 1 < k /\ (j - 1) + 1 = j
        BY <1>15, <2>2, <2>3, <3>3, <3>5
      <4> QED BY <2>3, <3>2, <4>1
    <3> QED BY <3>4, <3>5
  <2>13. IsList(h, m, t)'
    BY <2>3, <2>4, <2>6, <2>8, <2>9, <2>10, <2>11, <2>12 DEF IsList, Hash
  <2> QED BY <2>13
<1>19. HaveLists'
  BY <1>17, <1>18 DEF HaveLists
<1> QED BY <1>11, <1>12, <1>19 DEF IptIInv

(* The lists and the queue are left alone.                                  *)
LEMMA SameLists ==
    ASSUME IptIInv, UNCHANGED listVars, IptTypeOK'
    PROVE  IptIInv'
<1>1. UNCHANGED <<addr, valid, next, prev, hat, freePages>>
  BY DEF listVars
<1>2. FramesDivided'
  BY <1>1 DEF IptIInv, FramesDivided
<1>3. \A h \in Frames : (\E n, s : IsList(h, n, s))'
  <2> TAKE h \in Frames
  <2>1. PICK n, s : IsList(h, n, s)
    BY DEF IptIInv, HaveLists
  <2>2. IsList(h, n, s)'
    BY <1>1, <2>1, OtherList
  <2> QED BY <2>2
<1> QED BY <1>2, <1>3 DEF IptIInv, HaveLists

LEMMA FlagsStep ==
    ASSUME IptIInv,
           \/ \E a \in Pages, reftype \in {"refRead", "refWrite"} : Reference(a, reftype)
           \/ ZeroRefCount
           \/ UNCHANGED iptVars
    PROVE  IptIInv'
<1>1. ASSUME NEW a \in Pages, NEW reftype \in {"refRead", "refWrite"},
             Reference(a, reftype)
      PROVE  IptIInv'
  <2>1. /\ UNCHANGED <<addr, valid, next, prev, hat, freePages>> /\ age' = age
        /\ VaddrIdx(a) \in Frames
        /\ referenced' = [referenced EXCEPT ![VaddrIdx(a)] = TRUE]
        /\ dirty' = IF reftype = "refWrite" THEN [dirty EXCEPT ![VaddrIdx(a)] = TRUE]
                    ELSE dirty
        /\ refCount < MaxRefCount /\ refCount' = refCount + 1
    BY <1>1, LookupIs DEF Reference, listVars
  <2>2. refCount' \in 0 .. MaxRefCount
    BY <2>1, IptAssumption DEF IptIInv, IptTypeOK
  <2>3. referenced' \in [Frames -> BOOLEAN] /\ dirty' \in [Frames -> BOOLEAN]
    BY <2>1 DEF IptIInv, IptTypeOK
  <2>4. IptTypeOK'
    BY <2>1, <2>2, <2>3 DEF IptIInv, IptTypeOK
  <2> QED BY <1>1, <2>4, SameLists DEF Reference
<1>2. CASE ZeroRefCount
  <2>1. IptTypeOK'
    BY <1>2, IptAssumption DEF ZeroRefCount, listVars, dataVars, IptIInv, IptTypeOK
  <2> QED BY <1>2, <2>1, SameLists DEF ZeroRefCount
<1>3. CASE UNCHANGED iptVars
  <2>1. UNCHANGED listVars
    BY <1>3 DEF iptVars
  <2>2. IptTypeOK'
    BY <1>3 DEF iptVars, listVars, dataVars, IptIInv, IptTypeOK
  <2> QED BY <2>1, <2>2, SameLists
<1> QED BY <1>1, <1>2, <1>3

(* ipt_init: no entry is valid, every list is empty, every frame is free.   *)
LEMMA TableInit == IptInit => IptIInv
<1> SUFFICES ASSUME IptInit PROVE IptIInv
  OBVIOUS
<1>1. /\ freePages = [i \in 1 .. NFrames |-> i - 1] /\ NFrames \in Nat \ {0}
      /\ \A i \in 1 .. NFrames : i - 1 \in Frames
  BY IptAssumption DEF IptInit, Frames
<1>2. freePages \in Seq(Frames)
  BY <1>1
<1>3. Range(freePages) = Frames
  <2>1. ASSUME NEW f \in Frames
        PROVE  f + 1 \in DOMAIN freePages /\ freePages[f + 1] = f
    BY <1>1 DEF Frames
  <2>2. \A i \in DOMAIN freePages : freePages[i] \in Frames
    BY <1>1
  <2> QED BY <2>1, <2>2 DEF Range
<1>4. IsInjective(freePages)
  BY <1>1 DEF IsInjective
<1>5. \A f \in Frames : ~ valid[f] /\ hat[f] = INVALID
  BY DEF IptInit
<1>6. IptTypeOK
  <2>1. 0 \in 0 .. 2 * AgeMsb - 1 /\ 0 \in 0 .. MaxRefCount
    BY IptAssumption
  <2> QED BY <1>2, <2>1 DEF IptInit, IptTypeOK, Links
<1>7. FramesDivided
  BY <1>3, <1>4, <1>5 DEF FramesDivided
<1>8. ASSUME NEW h \in Frames PROVE \E n, s : IsList(h, n, s)
  <2>1. PICK s : s = [i \in 0 .. 0 - 1 |-> 0]
    OBVIOUS
  <2>2. s \in [0 .. 0 - 1 -> Frames] /\ 0 .. 0 - 1 = {} /\ 0 \in Nat
    BY <2>1
  <2>3. IsList(h, 0, s)
    BY <1>5, <2>2 DEF IsList
  <2> QED BY <2>3
<1> QED BY <1>6, <1>7, <1>8 DEF IptIInv, HaveLists

-----------------------------------------------------------------------------
(* What the list invariant says of walks.                                   *)
LEMMA ListsFollow == IptIInv => ListsInv
<1> SUFFICES ASSUME IptIInv PROVE ListsInv
  OBVIOUS
<1>1. ASSUME NEW h \in Frames
      PROVE  LET at == Walk(h)
             IN /\ at[NFrames] = INVALID
                /\ \A n \in 0 .. NFrames - 1 : at[n] # INVALID =>
                    /\ valid[at[n]] /\ Hash(addr[at[n]]) = h
                    /\ prev[at[n]] = IF n = 0 THEN INVALID ELSE at[n - 1]
  <2>1. PICK k, s : IsList(h, k, s)
    BY DEF IptIInv, HaveLists
  <2>2. /\ k \in Nat /\ k <= NFrames /\ NFrames \in Nat \ {0}
        /\ \A i \in 0 .. NFrames : Walk(h)[i] = IF i < k THEN s[i] ELSE INVALID
    BY <2>1, WalkIs, FrameNumbers
  <2>3. Walk(h)[NFrames] = INVALID
    BY <2>2
  <2>4. ASSUME NEW n \in 0 .. NFrames - 1, Walk(h)[n] # INVALID
        PROVE  /\ valid[Walk(h)[n]] /\ Hash(addr[Walk(h)[n]]) = h
               /\ prev[Walk(h)[n]] = IF n = 0 THEN INVALID ELSE Walk(h)[n - 1]
    <3>1. n \in 0 .. k - 1 /\ Walk(h)[n] = s[n]
      BY <2>2, <2>4
    <3>2. n # 0 => Walk(h)[n - 1] = s[n - 1]
      BY <2>2, <3>1
    <3> QED BY <2>1, <3>1, <3>2 DEF IsList
  <2> QED BY <2>3, <2>4
<1>2. ASSUME NEW f \in Frames, valid[f]
      PROVE  \E n \in 0 .. NFrames : Walk(Hash(addr[f]))[n] = f
  <2>1. PICK h \in Frames : h = Hash(addr[f])
    BY <1>2, HashIs DEF IptIInv, FramesDivided
  <2>2. PICK k, s : IsList(h, k, s)
    BY DEF IptIInv, HaveLists
  <2>3. PICK i \in 0 .. k - 1 : s[i] = f
    BY <1>2, <2>1, <2>2 DEF IsList
  <2>4. /\ k \in Nat /\ k <= NFrames /\ NFrames \in Nat
        /\ \A j \in 0 .. NFrames : Walk(h)[j] = IF j < k THEN s[j] ELSE INVALID
    BY <2>2, WalkIs, FrameNumbers
  <2>5. i \in 0 .. NFrames /\ Walk(h)[i] = f
    BY <2>3, <2>4
  <2> QED BY <2>1, <2>5
<1> QED BY <1>1, <1>2 DEF ListsInv

LEMMA LookupFollows == IptIInv => LookupInv
BY LookupIs DEF IptIInv, FramesDivided, LookupInv

-----------------------------------------------------------------------------
(* The table as PageTable sees it.                                          *)
Owner == [f \in Frames |-> IF valid[f] THEN addr[f] ELSE NoPage]

LEMMA OwnerIs ==
    ASSUME IptIInv, NEW a \in Pages
    PROVE  /\ PT!Mapped(a) <=> HasTranslation(a)
           /\ HasTranslation(a) => PT!FrameOf(a) = VaddrIdx(a)
<1>1. PT!Frames = Frames /\ a # NoPage
  BY IptAssumption DEF PT!Frames, Frames
<1>2. \A f \in Frames : Owner[f] = a <=> valid[f] /\ addr[f] = a
  BY <1>1 DEF Owner
<1>3. PT!Mapped(a) <=> \E f \in Frames : Owner[f] = a
  BY <1>1 DEF PT!Mapped, Owner
<1>4. PT!FrameOf(a) = CHOOSE f \in Frames : Owner[f] = a
  BY <1>1 DEF PT!FrameOf, Owner
<1> HIDE DEF Owner
<1>5. ASSUME HasTranslation(a)
      PROVE  \A f \in Frames : Owner[f] = a <=> f = VaddrIdx(a)
  BY <1>2, <1>5, LookupIs DEF IptIInv, FramesDivided
<1> QED BY <1>2, <1>3, <1>4, <1>5, LookupIs

LEMMA AddRefines ==
    ASSUME IptIInv, NEW a \in Pages, Add(a)
    PROVE  ~ PT!Mapped(a) /\ PT!IptAdd(a)
<1>1. ~ PT!Mapped(a)
  BY OwnerIs DEF Add
<1>2. PICK new : new = Head(freePages)
  OBVIOUS
<1>3. new \in Frames
  BY <1>2, TailOfQueue DEF Add, IptIInv, IptTypeOK, FramesDivided
<1>4. /\ addr' = [addr EXCEPT ![new] = a] /\ valid' = [valid EXCEPT ![new] = TRUE]
      /\ dirty' = [dirty EXCEPT ![new] = FALSE]
      /\ referenced' = [referenced EXCEPT ![new] = FALSE]
      /\ age' = [age EXCEPT ![new] = AgeMsb]
      /\ freePages # <<>> /\ freePages' = Tail(freePages) /\ refCount' = refCount
  BY <1>2 DEF Add
<1>5. Owner' = [Owner EXCEPT ![new] = a]
  BY <1>3, <1>4 DEF IptIInv, IptTypeOK, Owner
<1> QED BY <1>1, <1>2, <1>4, <1>5 DEF PT!IptAdd, Owner

LEMMA RemoveRefines ==
    ASSUME IptIInv, NEW a \in Pages, Remove(a)
    PROVE  PT!IptRemove(a)
<1>1. HasTranslation(a)
  BY DEF Remove, HasTranslation
<1>2. PICK e : e = VaddrIdx(a)
  OBVIOUS
<1>3. e \in Frames /\ PT!Mapped(a) /\ PT!FrameOf(a) = e
  BY <1>1, <1>2, OwnerIs, LookupIs
<1>4. /\ valid' = [valid EXCEPT ![e] = FALSE] /\ freePages' = Append(freePages, e)
      /\ addr' = addr /\ dirty' = dirty /\ referenced' = referenced /\ age' = age
      /\ refCount' = refCount
  BY <1>2 DEF Remove, dataVars
<1>5. Owner' = [Owner EXCEPT ![e] = NoPage]
  BY <1>3, <1>4 DEF IptIInv, IptTypeOK, Owner
<1> QED BY <1>3, <1>4, <1>5 DEF PT!IptRemove, PT!flagVars, Owner

LEMMA ReferenceRefines ==
    ASSUME IptIInv, NEW a \in Pages, NEW reftype \in {"refRead", "refWrite"},
           Reference(a, reftype)
    PROVE  PT!IptReference(a, reftype)
<1>1. HasTranslation(a)
  BY DEF Reference, HasTranslation
<1>2. PT!Mapped(a) /\ PT!FrameOf(a) = VaddrIdx(a)
  BY <1>1, OwnerIs
<1>3. Owner' = Owner /\ UNCHANGED <<age, freePages>>
  BY DEF Reference, listVars, Owner
<1> QED BY <1>2, <1>3 DEF Reference, PT!IptReference, Owner

-----------------------------------------------------------------------------
THEOREM Invariance == IptSpec => []IptIInv
<1>1. IptInit => IptIInv
  BY TableInit
<1>2. IptIInv /\ [IptNext]_iptVars => IptIInv'
  <2> SUFFICES ASSUME IptIInv, [IptNext]_iptVars PROVE IptIInv'
    OBVIOUS
  <2>1. ASSUME NEW a \in Pages, Add(a) PROVE IptIInv'
    BY <2>1, AddStep
  <2>2. ASSUME NEW a \in Pages, Remove(a) PROVE IptIInv'
    BY <2>2, RemoveStep
  <2> QED BY <2>1, <2>2, FlagsStep DEF IptNext
<1> QED BY <1>1, <1>2, PTL DEF IptSpec

(* Every entry, link and queued frame keeps its type (ipt.c).               *)
THEOREM IptTypeCorrect == IptSpec => []IptTypeOK
<1>1. IptIInv => IptTypeOK
  BY DEF IptIInv
<1> QED BY <1>1, Invariance, PTL

(* The hash lists stay whole: each ends, is linked in both directions and   *)
(* holds exactly the valid entries that hash to it (ipt_add, ipt_remove).   *)
THEOREM ListsSafe == IptSpec => []ListsInv
BY ListsFollow, Invariance, PTL

(* ipt_translate finds the one valid entry of a page, and none that is not. *)
THEOREM LookupSafe == IptSpec => []LookupInv
BY LookupFollows, Invariance, PTL

(* HAT, hash lists and free queue make the table that the MMU is proved to  *)
(* work with (ipt_add, ipt_remove, ipt_reference, ipt_translate).           *)
THEOREM TableRefined == IptSpec => PTRefined
<1>1. IptInit => PT!PTInit
  BY DEF IptInit, PT!PTInit, Frames, PT!Frames
<1>2. IptIInv /\ [IptNext]_iptVars => [PT!PTNext]_(PT!ptVars)
  <2> SUFFICES ASSUME IptIInv, [IptNext]_iptVars PROVE [PT!PTNext]_(PT!ptVars)
    OBVIOUS
  <2>1. ASSUME NEW a \in Pages, Add(a) PROVE PT!PTNext
    BY <2>1, AddRefines DEF PT!PTNext
  <2>2. ASSUME NEW a \in Pages, Remove(a) PROVE PT!PTNext
    BY <2>2, RemoveRefines DEF PT!PTNext
  <2>3. ASSUME NEW a \in Pages, NEW reftype \in {"refRead", "refWrite"},
               Reference(a, reftype)
        PROVE  PT!PTNext
    BY <2>3, ReferenceRefines DEF PT!PTNext, PT!RefTypes
  <2>4. CASE ZeroRefCount
    <3>1. PT!IptZeroRefCount
      BY <2>4 DEF ZeroRefCount, listVars, dataVars, PT!IptZeroRefCount, PT!flagVars
    <3> QED BY <3>1 DEF PT!PTNext
  <2>5. CASE UNCHANGED iptVars
    BY <2>5 DEF iptVars, listVars, dataVars, PT!ptVars
  <2> QED BY <2>1, <2>2, <2>3, <2>4, <2>5 DEF IptNext
<1> QED BY <1>1, <1>2, Invariance, PTL DEF IptSpec, PTRefined, PT!PTSpec
=============================================================================
