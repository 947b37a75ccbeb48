-------------------------- MODULE HashChainProofs ---------------------------
(***************************************************************************)
(* Lemmas about the hash chain that the proofs of both audit stores cite.  *)
(***************************************************************************)
EXTENDS HashChain, TLAPS

\* Hashing stays within the hash values ...
LEMMA ChainedType ==
  ASSUME NEW e \in Event, NEW h \in HashValue
  PROVE  Chained(e, h) \in Row
BY DEF Chained, Hash, HashValue, Row

\* ... and so does the head of a table.
LEMMA HeadType ==
  ASSUME NEW s \in Seq(Row)
  PROVE  HeadHash(s) \in HashValue
<1>1. CASE s = << >>
  BY <1>1 DEF HeadHash, HashValue, GENESIS
<1>2. CASE s # << >>
  <2>1. s[Len(s)] \in Row
    BY <1>2
  <2>. QED BY <1>2, <2>1 DEF HeadHash, Row
<1>. QED BY <1>1, <1>2

\* A row chained to the head extends a valid chain.
LEMMA AppendedRowExtendsChain ==
  ASSUME NEW s \in Seq(Row), NEW r \in Row,
         ChainValid(s),
         r.prev = HeadHash(s),
         r.hash = Hash(r.event, r.prev)
  PROVE  ChainValid(Append(s, r))
<1> DEFINE z == Append(s, r)
<1>1. /\ Len(z) = Len(s) + 1
      /\ \A i \in 1 .. Len(s) : z[i] = s[i]
      /\ z[Len(z)] = r
  OBVIOUS
<1>2. SUFFICES ASSUME NEW i \in 1 .. Len(z)
               PROVE  /\ z[i].prev = ExpectedPrev(z, i)
                      /\ z[i].hash = Hash(z[i].event, z[i].prev)
  BY DEF ChainValid
<1>3. CASE i \in 1 .. Len(s)
  <2>1. z[i] = s[i] /\ ExpectedPrev(z, i) = ExpectedPrev(s, i)
    BY <1>1, <1>3 DEF ExpectedPrev
  <2>. QED
    BY <1>3, <2>1 DEF ChainValid
<1>4. CASE i = Len(s) + 1
  <2>1. ExpectedPrev(z, i) = HeadHash(s)
    BY <1>1, <1>4 DEF ExpectedPrev, HeadHash
  <2>. QED
    BY <1>1, <1>4, <2>1
<1>. QED
  BY <1>1, <1>2, <1>3, <1>4

\* It is the new head.
LEMMA HeadOfAppend ==
  ASSUME NEW s \in Seq(Row), NEW r \in Row
  PROVE  HeadHash(Append(s, r)) = r.hash
BY DEF HeadHash

\* What a rollback leaves of a valid chain is one.
LEMMA PrefixValid ==
  ASSUME NEW s \in Seq(Row), ChainValid(s), NEW n \in 0 .. Len(s)
  PROVE  ChainValid(SubSeq(s, 1, n))
<1> DEFINE z == SubSeq(s, 1, n)
<1>1. Len(z) = n /\ \A i \in 1 .. n : z[i] = s[i]
  OBVIOUS
<1>2. \A i \in 1 .. n : ExpectedPrev(z, i) = ExpectedPrev(s, i)
  BY <1>1 DEF ExpectedPrev
<1>3. \A i \in 1 .. n : i \in 1 .. Len(s)
  OBVIOUS
<1> SUFFICES ChainValid(z)
  OBVIOUS
<1> HIDE DEF z
<1> QED
  BY <1>1, <1>2, <1>3 DEF ChainValid

\* The contents of a table are hash values, and grow with it.
LEMMA ContentsType ==
  ASSUME NEW s \in Seq(Row)
  PROVE  Contents(s) \in HashValue /\ Len(Contents(s)) = Len(s)
<1>1. \A i \in 1 .. Len(s) : s[i].event \in Event
  <2>1. \A i \in 1 .. Len(s) : s[i] \in Row
    OBVIOUS
  <2>. QED
    BY <2>1 DEF Row
<1>. QED
  BY <1>1 DEF Contents, HashValue

LEMMA ContentsOfAppend ==
  ASSUME NEW s \in Seq(Row), NEW r \in Row
  PROVE  Contents(Append(s, r)) = Append(Contents(s), r.event)
<1> DEFINE z == Append(s, r)
<1>1. /\ Len(z) = Len(s) + 1
      /\ \A i \in 1 .. Len(s) : z[i] = s[i]
      /\ z[Len(s) + 1] = r
  OBVIOUS
<1>2. Contents(s) \in Seq(Event) /\ Len(Contents(s)) = Len(s)
  BY ContentsType DEF HashValue
<1>3. r.event \in Event
  BY DEF Row
<1>4. Append(Contents(s), r.event)
        = [i \in 1 .. Len(s) + 1 |-> IF i = Len(s) + 1 THEN r.event ELSE Contents(s)[i]]
  BY <1>2, <1>3
<1>5. \A i \in 1 .. Len(s) + 1 :
        z[i].event = IF i = Len(s) + 1 THEN r.event ELSE Contents(s)[i]
  BY <1>1 DEF Contents
<1>6. Contents(z) = [i \in 1 .. Len(s) + 1 |-> z[i].event]
  BY <1>1 DEF Contents
<1>. QED
  BY <1>4, <1>5, <1>6

=============================================================================
