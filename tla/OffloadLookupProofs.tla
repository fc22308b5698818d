------------------------- MODULE OffloadLookupProofs -------------------------
(***************************************************************************)
(* Theorems about OffloadLookup, for all groups, block sizes, windows,     *)
(* lengths of the request and answers of the manager: the loop of _lookup  *)
(* returns a hit that every group can load, and the longest, and only      *)
(* chunks that were touched are loaded.  Where the chunks of the groups    *)
(* divide each other, what is loaded was also confirmed by the lookup, and *)
(* a prompt that was stored is found again.                                *)
(***************************************************************************)
EXTENDS OffloadLookup, SequenceTheorems, WellFoundedInduction, TLAPS

-----------------------------------------------------------------------------
(***************************************************************************)
(* Arithmetic.                                                             *)
(***************************************************************************)
\* What a quotient is.
LEMMA Quotient ==
  ASSUME NEW a \in Nat, NEW f \in Nat \ {0}
  PROVE  a \div f \in Nat /\ f * (a \div f) <= a /\ a < f * (a \div f) + f
  OBVIOUS

\* Products of natural numbers are natural numbers, and keep the order.
LEMMA ProductOrder ==
  ASSUME NEW f \in Nat \ {0}, NEW x \in Nat, NEW y \in Nat
  PROVE  /\ f * x \in Nat
         /\ x < y => f * x + f <= f * y
  <1>1. f * x \in Nat
    OBVIOUS
  <1>2. ASSUME x < y PROVE f * x + f <= f * y
    <2>1. PICK d \in Nat : y = x + 1 + d
      <3>1. y - x - 1 \in Nat /\ y = x + 1 + (y - x - 1)
        BY <1>2
      <3> QED BY <3>1
    <2>2. f * y = f * x + f + f * d /\ f * d \in Nat
      BY <2>1
    <2> QED BY <1>1, <2>2
  <1> QED BY <1>1, <1>2

\* Quotients keep the order.
LEMMA QuotientOrder ==
  ASSUME NEW a \in Nat, NEW b \in Nat, a <= b, NEW f \in Nat \ {0}
  PROVE  a \div f <= b \div f
  <1> DEFINE x == a \div f
             y == b \div f
  <1>1. x \in Nat /\ y \in Nat /\ f * x <= a /\ b < f * y + f
    BY Quotient
  <1> HIDE DEF x, y
  <1>2. ASSUME y < x PROVE FALSE
    <2>1. f * y + f <= f * x /\ f * x \in Nat /\ f * y \in Nat
      BY <1>1, <1>2, ProductOrder
    <2> QED BY <1>1, <2>1
  <1>3. x <= y
    BY <1>1, <1>2
  <1> QED BY <1>3 DEF x, y

\* A quotient is the greatest factor.
LEMMA QuotientGreatest ==
  ASSUME NEW a \in Nat, NEW x \in Nat, NEW f \in Nat \ {0}, f * x <= a
  PROVE  x <= a \div f
  <1> DEFINE q == a \div f
  <1>1. q \in Nat /\ a < f * q + f
    BY Quotient
  <1> HIDE DEF q
  <1>2. ASSUME q < x PROVE FALSE
    <2>1. f * q + f <= f * x /\ f * q \in Nat /\ f * x \in Nat
      BY <1>1, <1>2, ProductOrder
    <2> QED BY <1>1, <2>1
  <1>3. x <= q
    BY <1>1, <1>2
  <1> QED BY <1>3 DEF q

\* CDiv rounds up.
LEMMA RoundedUp ==
  ASSUME NEW a \in Nat, NEW f \in Nat \ {0}
  PROVE  /\ CDiv(a, f) \in Nat
         /\ a \div f <= CDiv(a, f)
         /\ a <= f * CDiv(a, f)
         /\ \A e \in Nat : a <= e * f => CDiv(a, f) <= e
         /\ \A e \in Nat : a = e * f => CDiv(a, f) = e
  <1> DEFINE c == CDiv(a, f)
  <1>1. a + f - 1 \in Nat /\ a <= a + f - 1
    OBVIOUS
  <1>2. c \in Nat /\ f * c <= a + f - 1 /\ a + f - 1 < f * c + f
    BY <1>1, Quotient DEF CDiv
  <1>3. a \div f <= c
    BY <1>1, QuotientOrder DEF CDiv
  <1> HIDE DEF c
  <1>4. f * c \in Nat /\ a <= f * c
    BY <1>2, ProductOrder
  <1>5. ASSUME NEW e \in Nat, a <= e * f PROVE c <= e
    <2>1. ASSUME e < c PROVE FALSE
      <3>1. f * e + f <= f * c /\ f * e \in Nat
        BY <1>2, <2>1, ProductOrder
      <3>2. e * f = f * e
        OBVIOUS
      <3> QED BY <1>2, <1>4, <1>5, <3>1, <3>2
    <2> QED BY <1>2, <2>1
  <1>6. ASSUME NEW e \in Nat, a = e * f PROVE c = e
    <2>1. c <= e
      BY <1>5, <1>6
    <2>2. ASSUME c < e PROVE FALSE
      <3>1. f * c + f <= f * e
        BY <1>2, <2>2, ProductOrder
      <3>2. e * f = f * e
        OBVIOUS
      <3> QED BY <1>4, <1>6, <3>1, <3>2
    <2> QED BY <1>2, <2>1, <2>2
  <1> QED BY <1>2, <1>3, <1>4, <1>5, <1>6 DEF c

\* A set of numbers with an upper bound has a greatest member.
LEMMA GreatestMember ==
  ASSUME NEW S, S # {}, NEW a \in Int, NEW b \in Int, S \subseteq a .. b
  PROVE  Greatest(S) \in S /\ \A y \in S : y <= Greatest(S)
  <1> DEFINE T == {b - e : e \in S}
  <1>1. T \subseteq Nat /\ T # {}
    <2>1. \A e \in S : e \in Int /\ e <= b /\ b - e \in Nat
      OBVIOUS
    <2>2. PICK e \in S : TRUE
      OBVIOUS
    <2>3. b - e \in T
      OBVIOUS
    <2> QED BY <2>1, <2>3
  <1>2. PICK t \in T : \A u \in T : ~ (<<u, t>> \in OpToRel(<, Nat))
    BY <1>1, WFMin, NatLessThanWellFounded
  <1>3. \A u \in T : ~ (u < t)
    BY <1>1, <1>2 DEF OpToRel
  <1>4. PICK m \in S : t = b - m
    BY <1>2
  <1>5. ASSUME NEW y \in S PROVE y <= m
    <2>1. b - y \in T
      OBVIOUS
    <2>2. y \in Int /\ m \in Int
      BY <1>4, <1>5
    <2>3. ~ (b - y < b - m)
      BY <1>3, <1>4, <2>1
    <2> QED BY <2>2, <2>3
  <1>6. \E x \in S : \A y \in S : y <= x
    BY <1>4, <1>5
  <1> HIDE DEF T
  <1> QED BY <1>6 DEF Greatest

-----------------------------------------------------------------------------
(***************************************************************************)
(* Groups and their chunks.                                                *)
(***************************************************************************)
\* A group has chunks of at least one token, and a window at least one chunk.
LEMMA GroupTypes ==
  ASSUME NEW g \in Groups
  PROVE  /\ BlockTokens[g] \in Nat \ {0} /\ ChunkTokens(g) \in Nat \ {0}
         /\ g \in SW => Window[g] \in Nat \ {0} /\ WindowChunks(g) \in Nat
  <1>1. BlockTokens[g] \in Nat \ {0} /\ BlockSizeFactor \in Nat \ {0}
    BY GroupsAssumption
  <1>2. \A x, y \in Nat \ {0} : x * y \in Nat \ {0}
    OBVIOUS
  <1>3. ChunkTokens(g) \in Nat \ {0}
    BY <1>1, <1>2 DEF ChunkTokens
  <1>4. ASSUME g \in SW PROVE Window[g] \in Nat \ {0} /\ WindowChunks(g) \in Nat
    <2>1. Window[g] \in Nat \ {0}
      BY <1>4, GroupsAssumption
    <2> QED BY <1>3, <2>1, RoundedUp DEF WindowChunks
  <1> QED BY <1>1, <1>3, <1>4

\* The sequences of groups the loop goes over.
LEMMA GroupSequences ==
         /\ FullGroups \in Seq(Groups) /\ SWGroups \in Seq(Groups) /\ LookupGroups \in Seq(Groups)
         /\ SW \subseteq InSeq(SWGroups) /\ Groups \subseteq InSeq(LookupGroups)
  <1>1. FullGroups \in Seq(Groups) /\ SWGroups \in Seq(Groups)
    <2>1. Full \subseteq Groups /\ SW \subseteq Groups
      BY DEF Groups
    <2> QED BY <2>1, GroupsAssumption, SeqDef DEF GroupsAssumption
  <1>2. LookupGroups \in Seq(Groups) /\ Len(LookupGroups) = Len(FullGroups) + Len(SWGroups)
    BY <1>1, ConcatProperties DEF LookupGroups
  <1>3. ASSUME NEW g \in Groups PROVE g \in InSeq(LookupGroups)
    <2>1. CASE g \in Full
      <3>1. PICK i \in DOMAIN FullGroups : g = FullGroups[i]
        BY <2>1 DEF Full, InSeq
      <3>2. i \in DOMAIN LookupGroups /\ LookupGroups[i] = g
        BY <1>1, <1>2, <3>1, ConcatProperties DEF LookupGroups
      <3> QED BY <3>2 DEF InSeq
    <2>2. CASE g \in SW
      <3>1. PICK i \in DOMAIN SWGroups : g = SWGroups[i]
        BY <2>2 DEF SW, InSeq
      <3>2. Len(FullGroups) + i \in DOMAIN LookupGroups /\ LookupGroups[Len(FullGroups) + i] = g
        BY <1>1, <1>2, <3>1, ConcatProperties DEF LookupGroups
      <3> QED BY <3>2 DEF InSeq
    <2> QED BY <2>1, <2>2 DEF Groups
  <1> QED BY <1>1, <1>2, <1>3 DEF SW

\* What is left after the first group.
LEMMA GroupsLeft ==
  ASSUME NEW s \in Seq(Groups), s # <<>>
  PROVE  /\ Head(s) \in Groups /\ Tail(s) \in Seq(Groups)
         /\ InSeq(s) \subseteq InSeq(Tail(s)) \cup {Head(s)}
  <1>1. Head(s) \in Groups /\ Tail(s) \in Seq(Groups)
    BY HeadTailProperties
  <1>2. ASSUME NEW g \in InSeq(s), g # Head(s) PROVE g \in InSeq(Tail(s))
    <2>1. PICK i \in DOMAIN s : g = s[i]
      BY DEF InSeq
    <2>2. i \in 2 .. Len(s)
      BY <1>2, <2>1
    <2>3. i - 1 \in DOMAIN Tail(s) /\ Tail(s)[i - 1] = g
      BY <2>1, <2>2
    <2> QED BY <2>3 DEF InSeq
  <1> QED BY <1>1, <1>2

\* What a hit needs of a full-attention group it needs for any shorter hit.
LEMMA NeedsOfShorterHit ==
  ASSUME TypeOK, NEW g \in Full, NEW a \in Nat, NEW b \in Nat, a <= b
  PROVE  NeededChunks(g, First(g), CDiv(a, ChunkTokens(g))) \subseteq NeededChunks(g, First(g), CDiv(b, ChunkTokens(g)))
  <1>1. g \in Groups /\ g \notin SW /\ ChunkTokens(g) \in Nat \ {0} /\ local \in Nat
    BY GroupTypes, GroupsAssumption DEF Groups, TypeOK
  <1>2. First(g) \in Nat
    BY <1>1, Quotient DEF First
  <1>3. a + ChunkTokens(g) - 1 \in Nat /\ b + ChunkTokens(g) - 1 \in Nat
        /\ a + ChunkTokens(g) - 1 <= b + ChunkTokens(g) - 1
    BY <1>1
  <1>4. CDiv(a, ChunkTokens(g)) <= CDiv(b, ChunkTokens(g))
    BY <1>1, <1>3, QuotientOrder DEF CDiv
  <1>5. CDiv(a, ChunkTokens(g)) \in Nat /\ CDiv(b, ChunkTokens(g)) \in Nat
    BY <1>1, RoundedUp
  <1> QED BY <1>1, <1>2, <1>4, <1>5 DEF NeededChunks

\* In a group that has room for a hit, the lookup finds where it ends.
LEMMA HitEndFound ==
  ASSUME TypeOK, maxHit \in Nat, NEW g \in Groups, Bound(g) - local >= ChunkTokens(g)
  PROVE  /\ Bound(g) \in Nat /\ Bound(g) <= maxHit /\ First(g) \in Nat /\ LastChunk(g) \in Nat
         /\ LastChunk(g) <= NumKeys(g) /\ LastChunk(g) = CDiv(Bound(g), ChunkTokens(g))
         /\ NumKeys(g) \in Nat
         /\ HitEnd(g, First(g), LastChunk(g)) \in HitEnds(g, First(g), LastChunk(g))
         /\ HitEnd(g, First(g), LastChunk(g)) \in First(g) .. LastChunk(g)
  <1> DEFINE size == ChunkTokens(g)
  <1>1. size \in Nat \ {0} /\ local \in Nat /\ numTokens \in Nat
    BY GroupTypes, TokensAssumption DEF TypeOK
  <1>2. NumKeys(g) \in Nat
    BY <1>1, Quotient DEF NumKeys, KeysIn
  <1> HIDE DEF size
  <1>3. NumKeys(g) * size \in Nat
    BY <1>1, <1>2
  <1>4. Bound(g) \in Nat /\ Bound(g) <= maxHit /\ Bound(g) <= NumKeys(g) * size
    BY <1>3 DEF Bound, AtMost, size
  <1>5. First(g) \in Nat
    BY <1>1, Quotient DEF First, size
  <1>6. CDiv(Bound(g), size) \in Nat /\ CDiv(Bound(g), size) <= NumKeys(g)
    BY <1>1, <1>2, <1>4, RoundedUp
  <1>7. LastChunk(g) = CDiv(Bound(g), size)
    BY <1>2, <1>6 DEF LastChunk, AtMost, size
  <1>8. First(g) <= LastChunk(g)
    <2>1. local <= Bound(g)
      BY <1>1, <1>4 DEF size
    <2>2. local \div size <= Bound(g) \div size
      BY <1>1, <1>4, <2>1, QuotientOrder
    <2>3. Bound(g) \div size <= CDiv(Bound(g), size) /\ Bound(g) \div size \in Nat
      BY <1>1, <1>4, RoundedUp, Quotient
    <2> QED BY <1>5, <1>6, <1>7, <2>2, <2>3 DEF First, size
  <1> DEFINE ends == HitEnds(g, First(g), LastChunk(g))
  <1>9. ends \subseteq First(g) .. LastChunk(g)
    BY DEF HitEnds
  <1>10. First(g) \in ends
    <2>1. NeededChunks(g, First(g), First(g)) = {}
      <3>1. g \in SW => WindowChunks(g) \in Nat
        BY GroupTypes
      <3> QED BY <1>5, <3>1 DEF NeededChunks, AtLeast
    <2> QED BY <1>5, <1>6, <1>7, <1>8, <2>1 DEF HitEnds
  <1> HIDE DEF ends
  <1>11. Greatest(ends) \in ends
    <2>1. ends # {} /\ First(g) \in Int /\ LastChunk(g) \in Int
      BY <1>5, <1>6, <1>7, <1>10
    <2> QED BY <1>9, <2>1, GreatestMember
  <1> QED BY <1>2, <1>4, <1>5, <1>6, <1>7, <1>9, <1>11 DEF HitEnd, ends, size

\* The hit of one group, unless an answer it looked at was put off: the chunks
\* it needs of the group are in the pool.
LEMMA GroupServable ==
  ASSUME TypeOK, maxHit \in Nat, NEW g \in Groups, Bound(g) - local >= ChunkTokens(g),
         ~MetDeferred(g, First(g), LastChunk(g)),
         NEW bound \in Nat,
         bound = AtMost(Bound(g), HitEnd(g, First(g), LastChunk(g)) * ChunkTokens(g))
  PROVE  \A c \in NeededChunks(g, First(g), CDiv(bound, ChunkTokens(g))) : <<g, c>> \in Hits
  <1> DEFINE size == ChunkTokens(g)
             end  == HitEnd(g, First(g), LastChunk(g))
  <1>1. /\ Bound(g) \in Nat /\ First(g) \in Nat /\ LastChunk(g) \in Nat /\ NumKeys(g) \in Nat
        /\ LastChunk(g) <= NumKeys(g) /\ LastChunk(g) <= CDiv(Bound(g), size)
        /\ end \in HitEnds(g, First(g), LastChunk(g)) /\ end \in First(g) .. LastChunk(g)
    BY HitEndFound
  <1>2. size \in Nat \ {0} /\ (g \in SW => WindowChunks(g) \in Nat)
    BY GroupTypes
  <1> HIDE DEF size, end
  <1>3. end \in Nat /\ end * size \in Nat /\ bound = AtMost(Bound(g), end * size)
    BY <1>1, <1>2 DEF size, end
  <1>4. CDiv(bound, size) = end
    <2>1. CASE bound = end * size
      BY <1>2, <1>3, <2>1, RoundedUp
    <2>2. CASE bound = Bound(g) /\ bound <= end * size
      <3>1. CDiv(bound, size) \in Nat /\ CDiv(bound, size) <= end
        BY <1>2, <1>3, <2>2, RoundedUp
      <3> QED BY <1>1, <1>3, <2>2, <3>1
    <2> QED BY <1>1, <1>3, <2>1, <2>2 DEF AtMost
  <1>5. ASSUME NEW c \in NeededChunks(g, First(g), end) PROVE <<g, c>> \in Hits
    <2>1. c \in First(g) .. end - 1 /\ (g \in SW => c \in AtLeast(First(g), end - WindowChunks(g)) .. LastChunk(g) - 1)
      BY <1>1, <1>2, <1>3, <1>5 DEF NeededChunks, AtLeast
    <2>2. Hit(g, c)
      <3>1. CASE g \in SW
        BY <1>1, <1>5, <3>1 DEF HitEnds
      <3>2. CASE g \notin SW
        <4>1. ~Miss(g, c)
          BY <1>1, <1>5, <3>2 DEF HitEnds
        <4>2. Hit(g, c) \/ Miss(g, c)
          BY <2>1, <3>2 DEF MetDeferred, end
        <4> QED BY <4>1, <4>2
      <3> QED BY <3>1, <3>2
    <2>3. <<g, c>> \in DOMAIN answer
      <3>1. c \in 0 .. KeysIn(g, numTokens) - 1
        BY <1>1, <1>3, <2>1 DEF NumKeys
      <3>2. <<g, c>> \in Chunks(numTokens)
        BY <3>1 DEF Chunks
      <3> QED BY <3>2 DEF TypeOK
    <2> QED BY <2>2, <2>3 DEF Hits, Hit
  <1> QED BY <1>4, <1>5 DEF size

-----------------------------------------------------------------------------
(***************************************************************************)
(* The loop.  A group that is not to be visited any more can be loaded up  *)
(* to the bound there is, or the answer will be put off.  That a bound     *)
(* that shrinks sends the loop back to every group it matters to needs the *)
(* order of the passes: a pass that did not look at a sliding-window group *)
(* yet has them all ahead, and one to come has them all.                   *)
(***************************************************************************)
\* the pool has what a hit up to `end' needs of a group
Backed(g, end) == \A c \in NeededChunks(g, First(g), CDiv(end, ChunkTokens(g))) : <<g, c>> \in Hits

Visited(g) == g \notin InSeq(groupsLeft) /\ g \notin InSeq(nextGroups)

\* Which groups a pass has ahead, and what the bound is.
PassOrder ==
    /\ maxHit \in Nat /\ local < numTokens
    /\ Answered => result \in Nat
    /\ pc = "lookup" =>
         /\ nextGroups = <<>> \/ SW \subseteq InSeq(nextGroups)
         /\ lookedUpSW \/ SW \subseteq InSeq(groupsLeft)
         /\ local + numHit = maxHit \/ (numHit = 0 /\ Groups \subseteq InSeq(groupsLeft))

VisitedAreBacked ==
    pc = "lookup" /\ ~deferLookup => \A g \in Groups : Visited(g) => Backed(g, maxHit)

\* Before they are used, the chunks of the answer were touched.
AnswerIsTouched == Answered => touched = Touched(local + result)

LookupInv == TypeOK /\ PassOrder /\ VisitedAreBacked /\ HitIsServable /\ AnswerIsTouched

\* A hit is servable when it is backed in every group.
LEMMA ServableIsBacked ==
  ASSUME NEW end, \A g \in Groups : Backed(g, end)
  PROVE  Servable(Hits, end)
  BY DEF Servable, HitKeys, Backed

\* What is touched are chunks of groups.
LEMMA TouchedType ==
  ASSUME TypeOK, NEW end \in Nat
  PROVE  Touched(end) \subseteq Groups \X Nat
  <1>1. ASSUME NEW g \in Groups PROVE Skipped(g, end) \in Nat
    <2>1. end \div ChunkTokens(g) \in Nat /\ (g \in SW => WindowChunks(g) \in Nat)
      BY GroupTypes, Quotient
    <2> QED BY <2>1 DEF Skipped, AtLeast
  <1>2. ASSUME NEW g \in Groups PROVE Skipped(g, end) .. NumKeys(g) - 1 \subseteq Nat
    <2>1. NumKeys(g) \in Nat
      BY GroupTypes, Quotient, TokensAssumption DEF TypeOK, NumKeys, KeysIn
    <2> QED BY <1>1, <2>1
  <1> QED BY <1>2 DEF Touched

\* An answer that is returned keeps the types; one that is not servable is 0 or
\* put off.
LEMMA ReturnInv ==
  ASSUME LookupInv, NEW tokens \in Nat \cup {Later}, Return(tokens),
         tokens > 0 => Servable(Hits, local + tokens)
  PROVE  LookupInv'
  <1>1. /\ result' = tokens /\ touched' = Touched(local + AtLeast(0, tokens))
        /\ pc' = (IF tokens = Later THEN "waiting" ELSE "alloc")
        /\ UNCHANGED <<numTokens, answer, loading, local, loopVars, toLoad, error>>
    BY DEF Return
  <1>2. TypeOK /\ PassOrder /\ local \in Nat
    BY DEF LookupInv, TypeOK
  <1>3. local + AtLeast(0, tokens) \in Nat
    BY <1>2 DEF AtLeast, Later
  <1>4. touched' \subseteq Groups \X Nat
    BY <1>1, <1>2, <1>3, TouchedType
  <1>5. TypeOK'
    BY <1>1, <1>2, <1>4 DEF TypeOK, loopVars
  <1>6. PassOrder'
    BY <1>1, <1>2 DEF PassOrder, Answered, loopVars, Later
  <1>7. VisitedAreBacked'
    BY <1>1 DEF VisitedAreBacked
  <1>8. HitIsServable'
    BY <1>1 DEF HitIsServable, Servable, Hits, HitKeys, First, Later
  <1>9. AnswerIsTouched'
    <2>1. Answered' => tokens \in Nat /\ AtLeast(0, tokens) = tokens
      BY <1>1 DEF Answered, Later, AtLeast
    <2>2. Touched(local + tokens)' = Touched(local' + tokens')
      BY <1>1 DEF Touched, Skipped, NumKeys, KeysIn
    <2> QED BY <1>1, <2>1 DEF AnswerIsTouched, Touched, NumKeys
  <1> QED BY <1>5, <1>6, <1>7, <1>8, <1>9 DEF LookupInv

\* One iteration of the inner loop.
LEMMA LookupGroupInv ==
  ASSUME LookupInv, LookupGroup
  PROVE  LookupInv'
  <1> DEFINE g      == Head(groupsLeft)
             size   == ChunkTokens(g)
             end    == HitEnd(g, First(g), LastChunk(g))
             unsure == MetDeferred(g, First(g), LastChunk(g))
             bound  == IF unsure THEN Bound(g) ELSE AtMost(Bound(g), end * size)
             hit    == bound - local
             shrunk == hit < numHit
             defer  == deferLookup \/ unsure
             none   == Bound(g) - local < size \/ (~unsure /\ end = First(g)) \/ hit < size
  <1>1. /\ pc = "lookup" /\ groupsLeft # <<>>
        /\ IF none THEN Return(0)
           ELSE /\ maxHit' = bound
                /\ numHit' = hit
                /\ nextGroups' = Again(shrunk, defer)
                /\ deferLookup' = (defer /\ ~shrunk)
                /\ lookedUpSW' = (lookedUpSW \/ g \in SW)
                /\ groupsLeft' = Tail(groupsLeft)
                /\ UNCHANGED <<numTokens, answer, loading, pc, local, result, touched, toLoad, error>>
    BY DEF LookupGroup
  <1>2. /\ TypeOK /\ PassOrder /\ VisitedAreBacked /\ AnswerIsTouched
        /\ maxHit \in Nat /\ local \in Nat /\ numHit \in Nat /\ groupsLeft \in Seq(Groups) /\ nextGroups \in Seq(Groups)
    BY DEF LookupInv, TypeOK, PassOrder
  <1>3. /\ g \in Groups /\ Tail(groupsLeft) \in Seq(Groups)
        /\ InSeq(groupsLeft) \subseteq InSeq(Tail(groupsLeft)) \cup {g}
    BY <1>1, <1>2, GroupsLeft
  <1>4. size \in Nat \ {0}
    BY <1>3, GroupTypes
  <1>5. CASE none
    BY <1>1, <1>5, ReturnInv
  <1>6. CASE ~none
    <2>1. /\ maxHit' = bound /\ numHit' = hit /\ nextGroups' = Again(shrunk, defer)
          /\ deferLookup' = (defer /\ ~shrunk) /\ lookedUpSW' = (lookedUpSW \/ g \in SW)
          /\ groupsLeft' = Tail(groupsLeft) /\ pc' = "lookup"
          /\ UNCHANGED <<numTokens, answer, loading, local, result, touched, toLoad, error>>
      BY <1>1, <1>6
    <2>2. /\ Bound(g) \in Nat /\ Bound(g) <= maxHit /\ end \in Nat
      <3>1. Bound(g) - local >= size
        <4>1. numTokens \in Nat
          BY <1>2, TokensAssumption DEF TypeOK
        <4>2. NumKeys(g) \in Nat
          BY <1>4, <4>1, Quotient DEF NumKeys, KeysIn
        <4>3. NumKeys(g) * size \in Int
          BY <1>4, <4>2
        <4>4. Bound(g) \in Int
          BY <1>2, <4>3 DEF Bound, AtMost
        <4> QED BY <1>2, <1>4, <1>6, <4>4
      <3> QED BY <1>2, <1>3, <3>1, HitEndFound
    <2>3. bound \in Nat /\ bound <= maxHit /\ bound <= Bound(g)
      <3> HIDE DEF end, size, unsure
      <3>1. end * size \in Nat
        BY <1>4, <2>2
      <3> QED BY <1>2, <2>2, <3>1 DEF AtMost
    <2>4. bound - local >= size /\ Bound(g) - local >= size
      BY <1>2, <1>4, <1>6, <2>2, <2>3
    <2>5. ~unsure => \A c \in NeededChunks(g, First(g), CDiv(bound, size)) : <<g, c>> \in Hits
      BY <1>2, <1>3, <2>3, <2>4, GroupServable
    <2> HIDE DEF end, unsure, bound, none
    <2>6. hit \in Nat /\ local + hit = bound /\ unsure \in BOOLEAN
      BY <1>2, <1>4, <2>3, <2>4 DEF unsure, MetDeferred
    <2>7. /\ nextGroups' \in Seq(Groups)
          /\ nextGroups' = <<>> \/ SW \subseteq InSeq(nextGroups')
          /\ nextGroups # <<>> => nextGroups' \in {nextGroups, LookupGroups}
      BY <1>1, <1>2, <2>1, GroupSequences DEF Again, PassOrder, Groups
    <2>8. TypeOK'
      <3>1. deferLookup' \in BOOLEAN /\ lookedUpSW' \in BOOLEAN
        BY <2>1
      <3>2. maxHit' \in Int /\ numHit' \in Nat /\ groupsLeft' \in Seq(Groups)
        BY <1>3, <2>1, <2>3, <2>6
      <3> QED BY <1>2, <2>1, <2>7, <3>1, <3>2 DEF TypeOK
    <2>9. PassOrder'
      <3>1. lookedUpSW' \/ SW \subseteq InSeq(groupsLeft')
        BY <1>1, <1>2, <1>3, <2>1 DEF PassOrder
      <3> QED BY <1>1, <1>2, <2>1, <2>3, <2>6, <2>7, <3>1 DEF PassOrder, Answered
    <2>10. VisitedAreBacked'
      <3> SUFFICES ASSUME ~deferLookup', NEW h \in Groups, Visited(h)'
                   PROVE  Backed(h, bound)
        BY <2>1 DEF VisitedAreBacked, Backed, First, Hits
      <3>1. h \notin InSeq(Tail(groupsLeft)) /\ h \notin InSeq(nextGroups')
        BY <2>1 DEF Visited
      <3>2. ~(shrunk /\ defer)
        BY <2>1, <3>1, GroupSequences DEF Again
      <3>3. ~defer /\ ~unsure /\ ~deferLookup
        BY <2>1, <3>2
      <3>4. CASE h = g
        BY <2>5, <3>3, <3>4 DEF Backed
      <3>5. CASE h # g
        <4>1. h \notin InSeq(groupsLeft)
          BY <1>3, <3>1, <3>5
        <4>2. local + numHit = maxHit
          BY <1>1, <1>2, <4>1 DEF PassOrder
        <4>3. CASE ~shrunk
          <5>1. bound = maxHit
            BY <1>2, <2>3, <2>6, <4>2, <4>3
          <5>2. nextGroups' = nextGroups
            BY <2>1, <4>3 DEF Again
          <5> QED BY <1>1, <1>2, <3>1, <3>3, <4>1, <5>1, <5>2 DEF VisitedAreBacked, Visited
        <4>4. CASE shrunk
          <5>1. nextGroups' = IF lookedUpSW /\ nextGroups = <<>> THEN SWGroups ELSE nextGroups
            BY <2>1, <3>3, <4>4 DEF Again
          <5>2. h \notin SW
            BY <1>1, <1>2, <3>1, <4>1, <5>1, GroupSequences DEF PassOrder
          <5>3. h \notin InSeq(nextGroups)
            <6>1. InSeq(<<>>) = {}
              BY DEF InSeq
            <6> QED BY <3>1, <5>1, <6>1
          <5>4. Backed(h, maxHit)
            BY <1>1, <1>2, <3>3, <4>1, <5>3 DEF VisitedAreBacked, Visited
          <5> QED BY <1>2, <2>3, <5>2, <5>4, NeedsOfShorterHit DEF Groups, Backed
        <4> QED BY <4>3, <4>4
      <3> QED BY <3>4, <3>5
    <2>11. HitIsServable' /\ AnswerIsTouched'
      BY <2>1 DEF HitIsServable, AnswerIsTouched, Answered
    <2> QED BY <2>8, <2>9, <2>10, <2>11 DEF LookupInv
  <1> QED BY <1>5, <1>6

\* The next iteration of the outer loop: what is passed on was not visited.
LEMMA NextPassInv ==
  ASSUME LookupInv, NextPass
  PROVE  LookupInv'
  <1>1. /\ pc = "lookup" /\ pc' = "lookup" /\ groupsLeft = <<>> /\ nextGroups # <<>>
        /\ groupsLeft' = nextGroups /\ nextGroups' = <<>> /\ lookedUpSW' = FALSE
        /\ UNCHANGED <<numTokens, answer, loading, local, maxHit, numHit, deferLookup, result,
                       touched, toLoad, error>>
    BY DEF NextPass
  <1>2. InSeq(<<>>) = {}
    BY DEF InSeq
  <1>3. TypeOK'
    BY <1>1 DEF LookupInv, TypeOK
  <1>4. PassOrder'
    BY <1>1, <1>2 DEF LookupInv, PassOrder, Answered
  <1>5. VisitedAreBacked'
    BY <1>1, <1>2 DEF LookupInv, VisitedAreBacked, Visited, Backed, First, Hits
  <1>6. HitIsServable' /\ AnswerIsTouched'
    BY <1>1 DEF HitIsServable, AnswerIsTouched, Answered
  <1> QED BY <1>3, <1>4, <1>5, <1>6 DEF LookupInv

\* When no group is left, every group was visited.
LEMMA ConcludeInv ==
  ASSUME LookupInv, Conclude
  PROVE  LookupInv'
  <1>1. /\ pc = "lookup" /\ groupsLeft = <<>> /\ nextGroups = <<>>
        /\ IF deferLookup \/ HitKeys(local + numHit) \cap loading # {} THEN Return(Later) ELSE Return(numHit)
    BY DEF Conclude
  <1>2. CASE deferLookup \/ HitKeys(local + numHit) \cap loading # {}
    BY <1>1, <1>2, ReturnInv DEF Later
  <1>3. CASE ~deferLookup /\ HitKeys(local + numHit) \cap loading = {}
    <2>1. numHit \in Nat /\ VisitedAreBacked /\ PassOrder
      BY DEF LookupInv, TypeOK
    <2>2. ASSUME numHit > 0 PROVE Servable(Hits, local + numHit)
      <3>1. local + numHit = maxHit
        BY <1>1, <2>1, <2>2 DEF PassOrder
      <3>2. \A g \in Groups : Visited(g)
        BY <1>1 DEF Visited, InSeq
      <3>3. \A g \in Groups : Backed(g, maxHit)
        BY <1>1, <1>3, <2>1, <3>2 DEF VisitedAreBacked
      <3> QED BY <3>1, <3>3, ServableIsBacked
    <2> QED BY <1>1, <1>3, <2>1, <2>2, ReturnInv
  <1> QED BY <1>1, <1>2, <1>3

\* The load takes its chunks from the blocks the engine gave.
LEMMA LoadTypes ==
  ASSUME TypeOK, result \in Nat, NEW g \in Groups
  PROVE  /\ Cached \in Nat /\ GpuBlocks(g) \in Nat /\ FirstAttended(g) \in Nat /\ LocalBlocks(g) \in Nat
         /\ LocalBlocks(g) \div BlockSizeFactor \in Nat /\ NumKeys(g) \in Nat
         /\ CDiv(Cached, ChunkTokens(g)) \in Nat
  <1>1. Cached \in Nat
    <2>1. local \in Nat /\ result \in Nat
      BY DEF TypeOK
    <2> QED BY <2>1 DEF Cached
  <1>2. BlockTokens[g] \in Nat \ {0} /\ ChunkTokens(g) \in Nat \ {0} /\ (g \in SW => Window[g] \in Nat \ {0})
        /\ BlockSizeFactor \in Nat \ {0} /\ local \in Nat /\ numTokens \in Nat
    BY GroupTypes, GroupsAssumption, TokensAssumption DEF TypeOK
  <1>3. GpuBlocks(g) \in Nat /\ CDiv(Cached, ChunkTokens(g)) \in Nat
    BY <1>1, <1>2, RoundedUp DEF GpuBlocks
  <1>4. FirstAttended(g) \in Nat
    <2>1. ASSUME g \in SW PROVE AtLeast(0, Cached - Window[g] + 1) \in Nat
      BY <1>1, <1>2, <2>1 DEF AtLeast
    <2> QED BY <1>2, <2>1, Quotient DEF FirstAttended
  <1>5. local \div BlockTokens[g] \in Nat /\ NumKeys(g) \in Nat
    BY <1>2, Quotient DEF NumKeys, KeysIn
  <1>6. LocalBlocks(g) \in Nat
    BY <1>3, <1>4, <1>5 DEF LocalBlocks, AtLeast, AtMost
  <1> QED BY <1>1, <1>2, <1>3, <1>4, <1>5, <1>6, Quotient

\* The load is made; the answer stays what it is.
LEMMA UpdateStateAfterAllocInv ==
  ASSUME LookupInv, UpdateStateAfterAlloc
  PROVE  LookupInv'
  <1>1. /\ pc = "alloc" /\ pc' = "done"
        /\ error' = (IF result = 0 THEN "none" ELSE AllocError)
        /\ toLoad' = (IF result = 0 \/ AllocError # "none" THEN {} ELSE KeysToLoad)
        /\ UNCHANGED <<numTokens, answer, loading, local, loopVars, result, touched>>
    BY DEF UpdateStateAfterAlloc
  <1>2. TypeOK /\ result \in Nat
    BY <1>1 DEF LookupInv, PassOrder, Answered
  <1>3. KeysToLoad \subseteq Groups \X Nat
    <2>1. ASSUME NEW g \in Groups
          PROVE  LocalBlocks(g) \div BlockSizeFactor .. CDiv(Cached, ChunkTokens(g)) - 1 \subseteq Nat
      BY <1>2, LoadTypes
    <2> QED BY <2>1 DEF KeysToLoad
  <1>4. AllocError \in {"none", "fewer blocks than tokens on the GPU",
                      "more blocks to load than the window has", "fewer keys than blocks"}
    BY DEF AllocError
  <1>5. TypeOK'
    BY <1>1, <1>2, <1>3, <1>4 DEF TypeOK, loopVars
  <1>6. PassOrder'
    BY <1>1, <1>2 DEF LookupInv, PassOrder, Answered, loopVars
  <1>7. VisitedAreBacked'
    BY <1>1 DEF VisitedAreBacked
  <1>8. HitIsServable'
    BY <1>1 DEF LookupInv, HitIsServable, Answered, Servable, HitKeys, First, Hits
  <1>9. AnswerIsTouched'
    BY <1>1 DEF LookupInv, AnswerIsTouched, Answered, Touched, Skipped, NumKeys, KeysIn
  <1> QED BY <1>5, <1>6, <1>7, <1>8, <1>9 DEF LookupInv

\* The engine asks.
LEMMA AskInv ==
  ASSUME LookupInv, GetNumNewMatchedTokens
  PROVE  LookupInv'
  <1>1. /\ pc = "waiting" /\ pc' = "lookup" /\ local' \in LocalHits /\ local' < numTokens
        /\ maxHit' = HitBound /\ numHit' = 0 /\ deferLookup' = FALSE /\ lookedUpSW' = FALSE
        /\ groupsLeft' = LookupGroups /\ nextGroups' = <<>>
        /\ UNCHANGED <<numTokens, answer, loading, result, touched, toLoad, error>>
    BY DEF GetNumNewMatchedTokens
  <1>2. /\ LookupGroups \in Seq(Groups) /\ Groups \subseteq InSeq(LookupGroups) /\ local' \in Nat
        /\ numTokens \in Nat \ {0} /\ TypeOK
    BY <1>1, GroupSequences, TokensAssumption DEF LookupInv, TypeOK
  <1>3. HitBound \in Nat
    BY <1>2 DEF HitBound
  <1>4. TypeOK'
    <2>1. /\ pc' \in {"waiting", "lookup", "alloc", "done"}
          /\ deferLookup' = FALSE /\ lookedUpSW' = FALSE
          /\ maxHit' \in Int /\ numHit' \in Nat
      BY <1>1, <1>3
    <2>2. groupsLeft' \in Seq(Groups) /\ nextGroups' \in Seq(Groups)
      BY <1>1, <1>2
    <2> QED BY <1>1, <1>2, <2>1, <2>2 DEF TypeOK
  <1>5. PassOrder'
    BY <1>1, <1>2, <1>3 DEF PassOrder, Answered, Groups
  <1>6. VisitedAreBacked'
    BY <1>1, <1>2 DEF VisitedAreBacked, Visited
  <1>7. HitIsServable' /\ AnswerIsTouched'
    BY <1>1 DEF HitIsServable, AnswerIsTouched, Answered
  <1> QED BY <1>4, <1>5, <1>6, <1>7 DEF LookupInv

\* An answer that was put off becomes known: no hit is lost.
LEMMA ResolveInv ==
  ASSUME LookupInv, NEW k \in Chunk, Resolve(k)
  PROVE  LookupInv'
  <1>1. PICK a \in {"hit", "miss"} : answer' = [answer EXCEPT ![k] = a]
    BY DEF Resolve
  <1>2. /\ pc \in {"waiting", "lookup"} /\ k \in DOMAIN answer /\ answer[k] = "deferred"
        /\ UNCHANGED <<numTokens, loading, pc, local, loopVars, result, touched, toLoad, error>>
    BY DEF Resolve, Deferred
  <1>3. TypeOK'
    <2>1. answer' \in [Chunks(numTokens) -> AnswerNames]
      BY <1>1, <1>2 DEF LookupInv, TypeOK, AnswerNames
    <2> QED BY <1>2, <2>1 DEF LookupInv, TypeOK, loopVars
  <1>4. Hits \subseteq Hits'
    BY <1>1, <1>2 DEF Hits
  <1>5. PassOrder'
    BY <1>2 DEF LookupInv, PassOrder, Answered, loopVars
  <1>6. VisitedAreBacked'
    BY <1>2, <1>4 DEF LookupInv, VisitedAreBacked, Visited, Backed, First, loopVars
  <1>7. HitIsServable' /\ AnswerIsTouched'
    BY <1>2 DEF HitIsServable, AnswerIsTouched, Answered
  <1> QED BY <1>3, <1>5, <1>6, <1>7 DEF LookupInv

\* The load of the other request ends.
LEMMA LoadEndsInv ==
  ASSUME LookupInv, LoadEnds
  PROVE  LookupInv'
  <1>1. /\ pc = "waiting" /\ loading' = {}
        /\ UNCHANGED <<numTokens, answer, pc, local, loopVars, result, touched, toLoad, error>>
    BY DEF LoadEnds
  <1>2. TypeOK'
    BY <1>1 DEF LookupInv, TypeOK, loopVars
  <1>3. PassOrder'
    BY <1>1 DEF LookupInv, PassOrder, Answered, loopVars
  <1> QED BY <1>1, <1>2, <1>3
    DEF LookupInv, VisitedAreBacked, HitIsServable, AnswerIsTouched, Answered

\* Nothing changes.
LEMMA StutterInv ==
  ASSUME LookupInv, UNCHANGED vars
  PROVE  LookupInv'
  <1>1. TypeOK'
    BY DEF LookupInv, TypeOK, vars, loopVars
  <1>2. PassOrder'
    BY DEF LookupInv, PassOrder, Answered, vars, loopVars
  <1>3. VisitedAreBacked'
    BY DEF LookupInv, VisitedAreBacked, Visited, Backed, First, Hits, vars, loopVars
  <1>4. HitIsServable' /\ AnswerIsTouched'
    BY DEF LookupInv, HitIsServable, AnswerIsTouched, Answered, Servable, HitKeys, Touched, Skipped,
           NumKeys, KeysIn, First, Hits, vars, loopVars
  <1> QED BY <1>1, <1>2, <1>3, <1>4 DEF LookupInv

\* Before the engine asks there is nothing to be servable.
LEMMA InitInv ==
  ASSUME Init
  PROVE  LookupInv
  <1>1. numTokens \in NumTokens /\ numTokens \in Nat \ {0}
    BY TokensAssumption DEF Init
  <1>2. answer \in [Chunks(numTokens) -> AnswerNames]
    BY DEF Init
  <1>3. loading \subseteq Chunk
    <2>1. Hits \subseteq Chunk
      BY <1>1, <1>2 DEF Hits, Chunk
    <2> QED BY <2>1 DEF Init
  <1>4. TypeOK
    <2>1. groupsLeft \in Seq(Groups) /\ nextGroups \in Seq(Groups) /\ touched = {} /\ toLoad = {}
      BY DEF Init
    <2>2. /\ pc = "waiting" /\ local = 0 /\ maxHit = 0 /\ numHit = 0 /\ deferLookup = FALSE
          /\ lookedUpSW = FALSE /\ result = Later /\ error = "none"
      BY DEF Init
    <2>3. numTokens \in NumTokens /\ loading \subseteq Chunk /\ local \in Nat /\ maxHit \in Int /\ numHit \in Nat
      BY <1>1, <1>3, <2>2
    <2>4. /\ pc \in {"waiting", "lookup", "alloc", "done"} /\ result \in Nat \cup {Later}
          /\ error \in {"none", "more blocks to load than the window has", "fewer keys than blocks"}
      BY <2>2
    <2> QED BY <1>2, <2>1, <2>2, <2>3, <2>4 DEF TypeOK
  <1>5. PassOrder /\ VisitedAreBacked /\ HitIsServable /\ AnswerIsTouched
    BY <1>1 DEF Init, PassOrder, VisitedAreBacked, HitIsServable, AnswerIsTouched, Answered
  <1> QED BY <1>4, <1>5 DEF LookupInv

\* The invariant holds in every state.
LEMMA AlwaysLookupInv == Spec => []LookupInv
  <1>1. ASSUME LookupInv, [Next]_vars PROVE LookupInv'
    <2>1. CASE Lookup
      BY <1>1, <2>1, AskInv, LookupGroupInv, NextPassInv, ConcludeInv, UpdateStateAfterAllocInv
         DEF Lookup
    <2>2. CASE LoadEnds
      BY <1>1, <2>2, LoadEndsInv
    <2>3. CASE Done \/ UNCHANGED vars
      BY <1>1, <2>3, StutterInv DEF Done
    <2>4. ASSUME NEW k \in Chunk, Resolve(k) PROVE LookupInv'
      BY <1>1, <2>4, ResolveInv
    <2> QED BY <1>1, <2>1, <2>2, <2>3, <2>4 DEF Next
  <1> QED BY InitInv, <1>1, PTL DEF Spec

-----------------------------------------------------------------------------
(***************************************************************************)
(* What is loaded was touched, although the two are computed differently:  *)
(* _touch leaves out what lies before the window of the hit, in chunks,    *)
(* and update_state_after_alloc what the window of the next token does not *)
(* reach, in tokens and blocks.                                            *)
(***************************************************************************)
\* The first chunk of a load is not before the first that is touched.
LEMMA LoadStartsLater ==
  ASSUME TypeOK, result \in Nat, NEW g \in SW, PendingBlocks(g) > 0
  PROVE  Skipped(g, Cached) <= LocalBlocks(g) \div BlockSizeFactor
  <1> DEFINE bt == BlockTokens[g]
             ct == ChunkTokens(g)
             q  == Cached \div ct
             w  == WindowChunks(g)
             n  == AtLeast(0, Cached - Window[g] + 1)
             fa == FirstAttended(g)
             lb == LocalBlocks(g)
  <1>1. g \in Groups
    BY DEF Groups
  <1>2. /\ bt \in Nat \ {0} /\ ct \in Nat \ {0} /\ Window[g] \in Nat \ {0} /\ w \in Nat
        /\ BlockSizeFactor \in Nat \ {0} /\ local \in Nat /\ ct = bt * BlockSizeFactor
    BY <1>1, GroupTypes, GroupsAssumption DEF TypeOK, ChunkTokens
  <1>3. Cached \in Nat /\ fa \in Nat /\ lb \in Nat /\ lb \div BlockSizeFactor \in Nat /\ GpuBlocks(g) \in Nat
    BY <1>1, LoadTypes
  <1>4. q \in Nat /\ ct * q <= Cached
    BY <1>2, <1>3, Quotient
  <1>5. Window[g] <= ct * w
    BY <1>2, RoundedUp DEF WindowChunks
  <1>6. fa <= lb
    <2>1. local \div bt \in Nat
      BY <1>2, Quotient
    <2> HIDE DEF fa
    <2>2. lb = AtMost(GpuBlocks(g), AtLeast(local \div bt, fa)) /\ lb < GpuBlocks(g)
      BY <1>3 DEF LocalBlocks, PendingBlocks, fa
    <2> HIDE DEF lb
    <2> QED BY <1>3, <2>1, <2>2 DEF AtMost, AtLeast
  <1>7. fa = n \div bt
    BY DEF FirstAttended
  <1>8. CASE q <= w
    <2>1. Skipped(g, Cached) = AtLeast(0, q - w)
      BY DEF Skipped
    <2> HIDE DEF q, w
    <2>2. Skipped(g, Cached) = 0
      BY <1>2, <1>4, <1>8, <2>1 DEF AtLeast
    <2> QED BY <1>3, <2>2
  <1>9. CASE w < q
    <2>1. PICK s \in Nat : q = w + s
      <3>1. q - w \in Nat /\ q = w + (q - w)
        BY <1>2, <1>4, <1>9
      <3> QED BY <3>1
    <2>2. Skipped(g, Cached) = s
      BY <1>2, <1>4, <2>1 DEF Skipped, AtLeast
    <2> HIDE DEF q, w, ct, n, lb, fa, bt
    <2>3. ct * s \in Nat /\ ct * w \in Nat /\ ct * q = ct * w + ct * s
      BY <1>2, <1>4, <2>1
    <2>4. ct * s <= Cached - Window[g] + 1
      BY <1>2, <1>3, <1>4, <1>5, <2>3
    <2>5. n \in Nat /\ ct * s <= n
      BY <1>2, <1>3, <2>3, <2>4 DEF n, AtLeast
    <2>6. BlockSizeFactor * s \in Nat /\ bt * (BlockSizeFactor * s) = ct * s
      BY <1>2
    <2>7. BlockSizeFactor * s <= fa
      BY <1>2, <1>7, <2>5, <2>6, QuotientGreatest
    <2>8. BlockSizeFactor * s <= lb
      BY <1>3, <1>6, <2>6, <2>7
    <2>9. s <= lb \div BlockSizeFactor
      BY <1>2, <1>3, <2>8, QuotientGreatest
    <2> QED BY <2>2, <2>9 DEF lb
  <1> QED BY <1>2, <1>4, <1>8, <1>9

\* So a load whose assertions hold takes only what was touched.
LEMMA LoadIsTouched ==
  ASSUME TypeOK, result \in Nat, AllocError = "none"
  PROVE  KeysToLoad \subseteq Touched(local + result)
  <1>1. \A g \in Groups : ~(NumKeys(g) < CDiv(Cached, ChunkTokens(g)))
    BY DEF AllocError
  <1>2. ASSUME NEW g \in Groups, PendingBlocks(g) > 0
        PROVE  LocalBlocks(g) \div BlockSizeFactor .. CDiv(Cached, ChunkTokens(g)) - 1
                 \subseteq Skipped(g, Cached) .. NumKeys(g) - 1
    <2>1. /\ LocalBlocks(g) \div BlockSizeFactor \in Nat /\ NumKeys(g) \in Nat
          /\ CDiv(Cached, ChunkTokens(g)) \in Nat /\ Cached \in Nat
      BY LoadTypes
    <2>2. CDiv(Cached, ChunkTokens(g)) <= NumKeys(g)
      BY <1>1, <2>1
    <2>3. Skipped(g, Cached) \in Nat /\ Skipped(g, Cached) <= LocalBlocks(g) \div BlockSizeFactor
      <3>1. CASE g \in SW
        <4>1. Cached \div ChunkTokens(g) \in Nat /\ WindowChunks(g) \in Nat
          BY <2>1, <3>1, GroupTypes, Quotient
        <4>2. Skipped(g, Cached) \in Nat
          BY <3>1, <4>1 DEF Skipped, AtLeast
        <4> QED BY <1>2, <3>1, <4>2, LoadStartsLater
      <3>2. CASE g \notin SW
        BY <2>1, <3>2 DEF Skipped
      <3> QED BY <3>1, <3>2
    <2> QED BY <2>1, <2>2, <2>3
  <1> QED BY <1>2 DEF KeysToLoad, Touched, Cached

-----------------------------------------------------------------------------
\* Every variable of the lookup keeps its type; in particular no answer but None
\* is negative, and update_state_after_alloc fails in no other way than its
\* assertions.
THEOREM LookupTypeCorrect == Spec => []TypeOK
  <1>1. LookupInv => TypeOK
    BY DEF LookupInv
  <1> QED BY AlwaysLookupInv, <1>1, PTL

\* get_num_new_matched_tokens returns only hits that every group can load, in
\* whatever order the groups tighten the bound of each other and whatever
\* answers were put off and became known on the way.
THEOREM HitServableCorrect == Spec => []HitIsServable
  <1>1. LookupInv => HitIsServable
    BY DEF LookupInv
  <1> QED BY AlwaysLookupInv, <1>1, PTL

\* update_state_after_alloc loads only chunks that the lookup touched last, so
\* that the manager, which evicts what was touched longest ago, keeps them.
THEOREM LoadsTouchedCorrect == Spec => []LoadsAreTouched
  <1> DEFINE TouchInv == (pc # "done" => toLoad = {}) /\ LoadsAreTouched
  <1>1. Init => TouchInv
    BY DEF Init, LoadsAreTouched
  <1>2. ASSUME LookupInv, TouchInv, [Next]_vars PROVE TouchInv'
    <2>1. CASE UpdateStateAfterAlloc
      <3>1. /\ pc = "alloc" /\ pc' = "done" /\ UNCHANGED <<local, result, touched>>
            /\ toLoad' = (IF result = 0 \/ AllocError # "none" THEN {} ELSE KeysToLoad)
        BY <2>1 DEF UpdateStateAfterAlloc
      <3>2. TypeOK /\ result \in Nat /\ touched = Touched(local + result)
        BY <1>2, <3>1 DEF LookupInv, PassOrder, AnswerIsTouched, Answered
      <3> QED BY <3>1, <3>2, LoadIsTouched DEF LoadsAreTouched
    <2>2. CASE GetNumNewMatchedTokens \/ LookupGroup \/ NextPass \/ Conclude \/ LoadEnds \/ \E k \in Chunk : Resolve(k)
      <3>1. pc # "done" /\ toLoad' = toLoad
        BY <2>2 DEF GetNumNewMatchedTokens, LookupGroup, Return, NextPass, Conclude, LoadEnds,
           Resolve
      <3> QED BY <1>2, <3>1 DEF LoadsAreTouched
    <2>3. CASE Done \/ UNCHANGED vars
      BY <1>2, <2>3 DEF Done, vars, LoadsAreTouched
    <2> QED BY <1>2, <2>1, <2>2, <2>3 DEF Next, Lookup
  <1>3. TouchInv => LoadsAreTouched
    OBVIOUS
  <1> QED BY <1>1, <1>2, <1>3, AlwaysLookupInv, PTL DEF Spec

-----------------------------------------------------------------------------
(***************************************************************************)
(* No hit is given away: whenever a group tightens the bound, every end    *)
(* between the new bound and the old one misses a chunk in this group.     *)
(***************************************************************************)
NoKeys(end) == \E g \in Groups : NumKeys(g) * ChunkTokens(g) < end

\* no hit can end beyond `bound'
NoneBeyond(bound) ==
    \A end \in bound + 1 .. HitBound : NoKeys(end) \/ ~Servable(Hits \cup Deferred(answer), end)

\* What a group does not have beyond its hit is a miss, unless the lookup met an
\* answer that was put off.
LEMMA MissedBeyond ==
  ASSUME TypeOK, maxHit \in Nat, NEW g \in Groups, Bound(g) - local >= ChunkTokens(g),
         ~MetDeferred(g, First(g), LastChunk(g)),
         NEW end \in Nat, end <= Bound(g),
         HitEnd(g, First(g), LastChunk(g)) * ChunkTokens(g) < end
  PROVE  ~Servable(Hits \cup Deferred(answer), end)
  <1> DEFINE size == ChunkTokens(g)
             last == HitEnd(g, First(g), LastChunk(g))
             e    == CDiv(end, size)
  <1>1. /\ Bound(g) \in Nat /\ First(g) \in Nat /\ LastChunk(g) \in Nat
        /\ last \in HitEnds(g, First(g), LastChunk(g)) /\ last \in First(g) .. LastChunk(g)
        /\ LastChunk(g) <= NumKeys(g) /\ NumKeys(g) \in Nat
    BY HitEndFound
  <1>2. size \in Nat \ {0} /\ (g \in SW => WindowChunks(g) \in Nat)
    BY GroupTypes
  <1>3. LastChunk(g) = CDiv(Bound(g), size)
    BY HitEndFound
  <1>4. e \in Nat /\ e <= LastChunk(g)
    <2>1. /\ end + size - 1 \in Nat /\ Bound(g) + size - 1 \in Nat /\ end + size - 1 <= Bound(g) + size - 1
      BY <1>1, <1>2
    <2> QED BY <1>2, <1>3, <2>1, RoundedUp, QuotientOrder DEF CDiv
  <1> HIDE DEF size, last, e
  <1>5. last < e
    <2>1. ASSUME e <= last PROVE FALSE
      <3>1. end <= size * e
        BY <1>2, RoundedUp DEF e
      <3>2. size * e <= size * last
        <4>1. CASE e = last
          BY <1>1, <1>2, <4>1
        <4>2. CASE e < last
          <5>1. size * e + size <= size * last /\ size * e \in Nat /\ size * last \in Nat
            BY <1>1, <1>2, <1>4, <4>2, ProductOrder
          <5> QED BY <1>2, <5>1
        <4> QED BY <1>1, <1>4, <2>1, <4>1, <4>2
      <3>3. last * size = size * last /\ size * last \in Nat /\ size * e \in Nat
        BY <1>1, <1>2, <1>4
      <3>4. last * size < end
        BY DEF last, size
      <3> QED BY <3>1, <3>2, <3>3, <3>4
    <2> QED BY <1>1, <1>4, <2>1
  <1>6. e \in First(g) .. LastChunk(g) /\ e \notin HitEnds(g, First(g), LastChunk(g))
    <2>1. \A y \in HitEnds(g, First(g), LastChunk(g)) : y <= last
      <3> DEFINE ends == HitEnds(g, First(g), LastChunk(g))
      <3>1. ends \subseteq First(g) .. LastChunk(g) /\ ends # {} /\ First(g) \in Int /\ LastChunk(g) \in Int
        BY <1>1 DEF HitEnds
      <3> HIDE DEF ends
      <3>2. \A y \in ends : y <= Greatest(ends)
        BY <3>1, GreatestMember
      <3> QED BY <3>2 DEF ends, last, HitEnd
    <2> QED BY <1>1, <1>4, <1>5, <2>1
  <1>7. PICK c \in NeededChunks(g, First(g), e) : IF g \in SW THEN ~Hit(g, c) ELSE Miss(g, c)
    BY <1>6 DEF HitEnds
  <1>8. c \in First(g) .. e - 1 /\ (g \in SW => c \in AtLeast(First(g), last - WindowChunks(g)) .. LastChunk(g) - 1)
    BY <1>1, <1>2, <1>4, <1>5 DEF NeededChunks, AtLeast
  <1>9. Miss(g, c)
    <2>1. CASE g \in SW
      BY <1>7, <1>8, <2>1 DEF MetDeferred, last
    <2>2. CASE g \notin SW
      BY <1>7, <2>2
    <2> QED BY <2>1, <2>2
  <1>10. <<g, c>> \notin Hits \cup Deferred(answer)
    BY <1>9 DEF Miss, Hits, Deferred
  <1>11. <<g, c>> \in HitKeys(end)
    BY <1>7 DEF HitKeys, e, size
  <1> QED BY <1>10, <1>11 DEF Servable

\* Cutting the bound to the keys of a group and to its hit gives nothing away.
LEMMA BoundGivesNothingAway ==
  ASSUME TypeOK, maxHit \in Nat, NEW g \in Groups, NoneBeyond(maxHit),
         NEW end \in Nat, end <= HitBound,
         \/ Bound(g) < end
         \/ /\ Bound(g) - local >= ChunkTokens(g)
            /\ ~MetDeferred(g, First(g), LastChunk(g))
            /\ HitEnd(g, First(g), LastChunk(g)) * ChunkTokens(g) < end
  PROVE  NoKeys(end) \/ ~Servable(Hits \cup Deferred(answer), end)
  <1>1. HitBound \in Int /\ Bound(g) \in Int
    <2>1. numTokens \in Nat /\ ChunkTokens(g) \in Nat \ {0}
      BY GroupTypes, TokensAssumption DEF TypeOK
    <2>2. NumKeys(g) \in Nat
      BY <2>1, Quotient DEF NumKeys, KeysIn
    <2>3. NumKeys(g) * ChunkTokens(g) \in Int
      BY <2>1, <2>2
    <2> QED BY <2>1, <2>3 DEF HitBound, Bound, AtMost
  <1>2. CASE maxHit < end
    <2>1. end \in maxHit + 1 .. HitBound
      BY <1>1, <1>2
    <2> QED BY <2>1 DEF NoneBeyond
  <1>3. CASE end <= maxHit /\ Bound(g) < end
    <2>1. NumKeys(g) * ChunkTokens(g) < end
      BY <1>1, <1>3 DEF Bound, AtMost
    <2> QED BY <2>1 DEF NoKeys
  <1>4. CASE end <= maxHit /\ end <= Bound(g)
    <2>1. /\ Bound(g) - local >= ChunkTokens(g)
          /\ ~MetDeferred(g, First(g), LastChunk(g))
          /\ HitEnd(g, First(g), LastChunk(g)) * ChunkTokens(g) < end
      BY <1>1, <1>4
    <2> QED BY <1>4, <2>1, MissedBeyond
  <1> QED BY <1>1, <1>2, <1>3, <1>4

\* The same in every state: while the loop runs no hit ends beyond the bound.
LongestInv == (pc = "lookup" => NoneBeyond(maxHit)) /\ HitIsLongest

\* One iteration of the inner loop.
LEMMA LookupGroupLongest ==
  ASSUME LookupInv, LongestInv, LookupGroup
  PROVE  LongestInv'
  <1> DEFINE g      == Head(groupsLeft)
             size   == ChunkTokens(g)
             last   == HitEnd(g, First(g), LastChunk(g))
             unsure == MetDeferred(g, First(g), LastChunk(g))
             bound  == IF unsure THEN Bound(g) ELSE AtMost(Bound(g), last * size)
             hit    == bound - local
             none   == Bound(g) - local < size \/ (~unsure /\ last = First(g)) \/ hit < size
  <1>1. /\ pc = "lookup" /\ groupsLeft # <<>> /\ UNCHANGED <<answer, numTokens, local>>
        /\ none => Return(0)
        /\ ~none => maxHit' = bound /\ pc' = "lookup"
    BY DEF LookupGroup, Return
  <1>2. TypeOK /\ maxHit \in Nat /\ local \in Nat /\ g \in Groups /\ NoneBeyond(maxHit) /\ local < numTokens
    BY <1>1, GroupsLeft DEF LookupInv, TypeOK, PassOrder, LongestInv
  <1>3. size \in Nat \ {0} /\ numTokens \in Nat
    BY <1>2, GroupTypes, TokensAssumption DEF TypeOK
  <1>4. HitBound \in Nat /\ Bound(g) \in Int
    <2>1. NumKeys(g) \in Nat
      BY <1>3, Quotient DEF NumKeys, KeysIn
    <2> HIDE DEF size
    <2>2. NumKeys(g) * size \in Int
      BY <1>3, <2>1
    <2>3. HitBound \in Nat
      BY <1>2, <1>3 DEF HitBound
    <2> QED BY <1>2, <2>2, <2>3 DEF Bound, AtMost, size
  <1>5. Bound(g) - local >= size => last \in Nat /\ last >= First(g) /\ First(g) \in Nat
    BY <1>2, HitEndFound
  <1>6. First(g) * size <= local /\ First(g) \in Nat
    BY <1>2, <1>3, Quotient DEF First
  <1>7. UNCHANGED <<HitBound, Hits>>
    BY <1>1 DEF HitBound, Hits
  <1> HIDE DEF g, last, unsure, none
  <1>8. ASSUME NEW end \in Nat, end <= HitBound, bound < end, Bound(g) - local >= size
        PROVE  NoKeys(end) \/ ~Servable(Hits \cup Deferred(answer), end)
    <2> HIDE DEF size
    <2>1. last * size \in Int
      BY <1>3, <1>5, <1>8
    <2>2. Bound(g) < end \/ (~unsure /\ last * size < end)
      BY <1>4, <1>8, <2>1 DEF AtMost
    <2>3. CASE Bound(g) < end
      BY <1>2, <1>8, <2>3, BoundGivesNothingAway
    <2>4. CASE ~unsure /\ last * size < end
      BY <1>2, <1>8, <2>4, BoundGivesNothingAway DEF size, last, unsure
    <2> QED BY <2>2, <2>3, <2>4
  <1>9. CASE none
    <2>1. result' = 0
      BY <1>1, <1>9 DEF Return
    <2>2. ASSUME NEW end \in local + 1 .. HitBound
          PROVE  \/ NoKeys(end)
                 \/ end - local < size
                 \/ ~Servable(Hits \cup Deferred(answer), end)
      <3> HIDE DEF size
      <3>1. end \in Nat /\ end <= HitBound /\ local < end
        BY <1>2, <1>4, <2>2
      <3>2. CASE Bound(g) - local < size
        <4>1. CASE Bound(g) < end
          BY <1>2, <3>1, <4>1, BoundGivesNothingAway
        <4>2. CASE end <= Bound(g)
          BY <1>2, <1>3, <1>4, <3>1, <3>2, <4>2
        <4> QED BY <1>4, <3>1, <4>1, <4>2
      <3>3. CASE Bound(g) - local >= size /\ ~unsure /\ last = First(g)
        <4>1. last * size < end
          <5>1. last * size = First(g) * size /\ First(g) * size \in Nat
            BY <1>3, <1>6, <3>3
          <5> QED BY <1>2, <1>6, <3>1, <5>1 DEF size
        <4> QED BY <1>2, <3>1, <3>3, <4>1, BoundGivesNothingAway DEF size, last, unsure
      <3>4. CASE Bound(g) - local >= size /\ hit < size
        <4>1. bound \in Int
          <5>1. last * size \in Int
            BY <1>3, <1>5, <3>4
          <5> QED BY <1>4, <5>1 DEF AtMost
        <4>2. CASE bound < end
          BY <1>8, <3>1, <3>4, <4>2
        <4>3. CASE end <= bound
          <5> HIDE DEF bound
          <5> QED BY <1>2, <1>3, <3>1, <3>4, <4>1, <4>3
        <4> QED BY <3>1, <4>1, <4>2, <4>3
      <3> QED BY <1>2, <1>3, <1>4, <1>9, <3>2, <3>3, <3>4 DEF none, size
    <2>3. HitIsLongest'
      <3> SUFFICES ASSUME NEW end \in local' + result' + 1 .. HitBound'
                   PROVE  (\/ \E h \in Groups : NumKeys(h) * ChunkTokens(h) < end
                           \/ result = 0 /\ \E h \in Groups : end - local < ChunkTokens(h)
                           \/ ~Servable(Hits \cup Deferred(answer), end))'
        BY DEF HitIsLongest
      <3>1. end \in local + 1 .. HitBound
        BY <1>1, <1>2, <1>7, <2>1
      <3>2. NoKeys(end) \/ end - local < size \/ ~Servable(Hits \cup Deferred(answer), end)
        BY <2>2, <3>1
      <3> QED BY <1>1, <1>2, <2>1, <3>2
        DEF NoKeys, Servable, Hits, Deferred, HitKeys, First, NumKeys, KeysIn
    <2>4. pc' # "lookup"
      BY <1>1, <1>9 DEF Return, Later
    <2> QED BY <2>3, <2>4 DEF LongestInv
  <1>10. CASE ~none
    <2>1. Bound(g) - local >= size /\ maxHit' = bound /\ pc' = "lookup"
      BY <1>1, <1>2, <1>3, <1>4, <1>10 DEF none
    <2>2. bound \in Int
      <3> HIDE DEF size
      <3>1. last * size \in Int
        BY <1>3, <1>5, <2>1
      <3> QED BY <1>4, <3>1 DEF AtMost
    <2>3. hit >= size
      BY <1>10, <2>2, <1>2, <1>3 DEF none
    <2>4. NoneBeyond(bound)
      <3> SUFFICES ASSUME NEW end \in bound + 1 .. HitBound
                   PROVE  NoKeys(end) \/ ~Servable(Hits \cup Deferred(answer), end)
        BY DEF NoneBeyond
      <3>1. end \in Nat /\ end <= HitBound /\ bound < end
        <4> HIDE DEF bound
        <4> QED BY <1>2, <1>3, <1>4, <2>2, <2>3
      <3> QED BY <1>8, <2>1, <3>1
    <2>5. NoneBeyond(maxHit)'
      BY <1>1, <2>1, <2>4
        DEF NoneBeyond, NoKeys, Servable, Hits, Deferred, HitKeys, First, NumKeys, KeysIn, HitBound
    <2> QED BY <2>1, <2>5 DEF LongestInv, HitIsLongest, Answered
  <1> QED BY <1>9, <1>10

\* At the end of the loop the bound is the hit.
LEMMA ConcludeLongest ==
  ASSUME LookupInv, LongestInv, Conclude
  PROVE  LongestInv'
  <1>1. /\ pc = "lookup" /\ groupsLeft = <<>> /\ UNCHANGED <<answer, numTokens, local>>
        /\ \/ result' = Later /\ pc' = "waiting"
           \/ result' = numHit /\ pc' \in {"waiting", "alloc"}
    BY DEF Conclude, Return
  <1>2. TypeOK /\ NoneBeyond(maxHit) /\ local + numHit = maxHit
    <2>1. ~(Groups \subseteq InSeq(<<>>))
      BY GroupsAssumption DEF InSeq
    <2> QED BY <1>1, <2>1 DEF LookupInv, PassOrder, LongestInv
  <1>3. CASE pc' = "waiting"
    BY <1>3 DEF LongestInv, HitIsLongest, Answered
  <1>4. CASE pc' = "alloc"
    <2>1. result' = numHit
      BY <1>1, <1>4
    <2>2. NoneBeyond(local + numHit)
      BY <1>2
    <2>3. HitIsLongest'
      <3>1. NoneBeyond(local' + result') /\ HitBound' = HitBound
        BY <1>1, <2>1, <2>2 DEF HitBound
      <3> SUFFICES ASSUME NEW end \in local' + result' + 1 .. HitBound
                   PROVE  (\/ \E h \in Groups : NumKeys(h) * ChunkTokens(h) < end
                           \/ ~Servable(Hits \cup Deferred(answer), end))'
        BY <3>1 DEF HitIsLongest
      <3>2. NoKeys(end) \/ ~Servable(Hits \cup Deferred(answer), end)
        BY <3>1 DEF NoneBeyond
      <3> QED BY <1>1, <3>2 DEF NoKeys, Servable, Hits, Deferred, HitKeys, First, NumKeys, KeysIn
    <2> QED BY <1>4, <2>3 DEF LongestInv
  <1> QED BY <1>1, <1>3, <1>4

\* An answer that becomes known is a hit or a miss: no hit becomes possible.
LEMMA ResolveLongest ==
  ASSUME LookupInv, LongestInv, NEW k \in Chunk, Resolve(k)
  PROVE  LongestInv'
  <1>1. PICK a \in {"hit", "miss"} : answer' = [answer EXCEPT ![k] = a]
    BY DEF Resolve
  <1>2. /\ pc \in {"waiting", "lookup"} /\ k \in DOMAIN answer /\ answer[k] = "deferred"
        /\ UNCHANGED <<numTokens, pc, local, maxHit>>
    BY DEF Resolve, Deferred, loopVars
  <1>3. (Hits \cup Deferred(answer))' \subseteq Hits \cup Deferred(answer)
    BY <1>1, <1>2 DEF Hits, Deferred
  <1>4. NoneBeyond(maxHit) => NoneBeyond(maxHit)'
    BY <1>2, <1>3 DEF NoneBeyond, NoKeys, Servable, HitKeys, First, NumKeys, KeysIn, HitBound
  <1> QED BY <1>2, <1>4 DEF LongestInv, HitIsLongest, Answered

\* _lookup finds the longest hit: a longer one misses a chunk of some group, or
\* is less than a chunk of it, also if all answers still put off were hits.
THEOREM HitLongestCorrect == Spec => []HitIsLongest
  <1>1. Init => LongestInv
    BY DEF Init, LongestInv, HitIsLongest, Answered
  <1>2. ASSUME LookupInv, LongestInv, [Next]_vars PROVE LongestInv'
    <2>1. CASE GetNumNewMatchedTokens
      <3>1. maxHit' = HitBound /\ pc' = "lookup" /\ numTokens' = numTokens
        BY <2>1 DEF GetNumNewMatchedTokens
      <3>2. HitBound' = HitBound /\ HitBound \in Int
        <4>1. numTokens \in Nat
          BY <1>2, TokensAssumption DEF LookupInv, TypeOK
        <4> QED BY <3>1, <4>1 DEF HitBound
      <3>3. HitBound + 1 .. HitBound = {}
        BY <3>2
      <3> QED BY <3>1, <3>2, <3>3 DEF LongestInv, NoneBeyond, HitIsLongest, Answered
    <2>2. CASE LookupGroup
      BY <1>2, <2>2, LookupGroupLongest
    <2>3. CASE Conclude
      BY <1>2, <2>3, ConcludeLongest
    <2>4. ASSUME NEW k \in Chunk, Resolve(k) PROVE LongestInv'
      BY <1>2, <2>4, ResolveLongest
    <2>5. CASE NextPass \/ UpdateStateAfterAlloc \/ LoadEnds \/ Done \/ UNCHANGED vars
      <3>1. /\ UNCHANGED <<answer, numTokens, local, maxHit, result>>
            /\ (pc' = "lookup" => pc = "lookup") /\ (Answered' => Answered)
        BY <2>5 DEF NextPass, UpdateStateAfterAlloc, LoadEnds, Done, vars, loopVars, Answered
      <3> QED BY <1>2, <3>1
        DEF LongestInv, HitIsLongest, NoneBeyond, NoKeys, Servable, Hits, Deferred, HitKeys, First, NumKeys,
            KeysIn, HitBound
    <2> QED BY <1>2, <2>1, <2>2, <2>3, <2>4, <2>5 DEF Next, Lookup
  <1>3. LongestInv => HitIsLongest
    BY DEF LongestInv
  <1> QED BY <1>1, <1>2, <1>3, AlwaysLookupInv, PTL DEF Spec

-----------------------------------------------------------------------------
(***************************************************************************)
(* What is loaded was seen by the lookup, and was not being loaded then.   *)
(* The engine counts the blocks of a window back from the next token, the  *)
(* lookup from the end of the hit.  The two agree when the hit ends a      *)
(* chunk of the group, or one token before: hence the assumption.          *)
(***************************************************************************)
\* The chunks of sliding-window groups divide those of every group.
SWChunksDivide == \A s \in SW, g \in Groups : \E k \in Nat : ChunkTokens(g) = k * ChunkTokens(s)

\* n tokens end a chunk of every sliding-window group, or all but its last token
Aligned(n) == \A s \in SW : \E q \in Nat : n <= q * ChunkTokens(s) /\ q * ChunkTokens(s) <= n + 1

Keyed(g, n) == n <= NumKeys(g) * ChunkTokens(g)

\* a hit that the loop may conclude with
Fits(n) == Aligned(n) /\ \A g \in Groups : Keyed(g, n)

Multiple(n) == \A s \in SW : \E q \in Nat : n = q * ChunkTokens(s)

\* what the GPU holds ends a block of every group
LocalIsWhole == \A g \in Groups : local = (local \div BlockTokens[g]) * BlockTokens[g]

\* While the loop runs, the bound respects the keys of visited groups and ends a
\* chunk, unless it is the whole request; the answer fits, and what it needs is
\* not being loaded.
ConfirmInv ==
    /\ pc = "lookup" => /\ maxHit = HitBound \/ Multiple(maxHit)
                        /\ \A g \in Groups : Visited(g) => Keyed(g, maxHit)
    /\ Answered /\ result > 0 => Fits(Cached) /\ HitKeys(Cached) \cap loading = {}
    /\ pc # "done" => toLoad = {} /\ error = "none"
    /\ LoadsAreConfirmed /\ NoLoadTwice

\* The window of the next token, in blocks, is in the window of the hit, in
\* chunks.
LEMMA WindowOfHit ==
  ASSUME TypeOK, result \in Nat, NEW g \in SW,
         NEW q \in Nat, Cached <= q * ChunkTokens(g), q * ChunkTokens(g) <= Cached + 1
  PROVE  /\ ~(PendingBlocks(g) > WindowChunks(g) * BlockSizeFactor)
         /\ PendingBlocks(g) > 0 =>
              CDiv(Cached, ChunkTokens(g)) - WindowChunks(g) <= LocalBlocks(g) \div BlockSizeFactor
  <1> DEFINE bt == BlockTokens[g]
             ct == ChunkTokens(g)
             f  == BlockSizeFactor
             w  == WindowChunks(g)
             n  == AtLeast(0, Cached - Window[g] + 1)
             fa == FirstAttended(g)
             lb == LocalBlocks(g)
             gb == GpuBlocks(g)
             c  == CDiv(Cached, ct)
  <1>1. g \in Groups
    BY DEF Groups
  <1>2. /\ bt \in Nat \ {0} /\ ct \in Nat \ {0} /\ Window[g] \in Nat \ {0} /\ w \in Nat
        /\ f \in Nat \ {0} /\ local \in Nat /\ ct = bt * f
    BY <1>1, GroupTypes, GroupsAssumption DEF TypeOK, ChunkTokens
  <1>3. Cached \in Nat /\ fa \in Nat /\ lb \in Nat /\ lb \div f \in Nat /\ gb \in Nat
    BY <1>1, LoadTypes
  <1>4. Window[g] <= ct * w
    BY <1>2, RoundedUp DEF WindowChunks
  <1>5. gb = CDiv(Cached, bt) /\ fa = n \div bt
    BY DEF FirstAttended, GpuBlocks
  <1>6. c \in Nat /\ c <= q
    BY <1>2, <1>3, RoundedUp
  <1>7. lb = AtMost(gb, AtLeast(local \div bt, fa)) /\ local \div bt \in Nat
    BY <1>2, Quotient DEF LocalBlocks
  <1>8. PendingBlocks(g) = gb - lb
    BY DEF PendingBlocks
  <1>9. Cached <= q * ct /\ q * ct <= Cached + 1
    OBVIOUS
  <1> HIDE DEF bt, ct, f, w, fa, lb, gb, c
  <1>10. q * f \in Nat /\ (q * f) * bt = q * ct
    BY <1>2
  <1>11. gb <= q * f
    <2>1. Cached <= (q * f) * bt
      BY <1>9, <1>10
    <2> QED BY <1>2, <1>3, <1>5, <1>10, <2>1, RoundedUp
  <1>12. (lb = gb \/ fa <= lb) /\ lb <= gb
    BY <1>3, <1>7 DEF AtMost, AtLeast
  <1>13. w * f \in Nat
    BY <1>2
  <1>14. CASE q <= w
    <2>1. q * f <= w * f
      <3>1. CASE q < w
        <4>1. f * q + f <= f * w /\ f * q = q * f /\ f * w = w * f
          BY <1>2, <3>1, ProductOrder
        <4> QED BY <1>2, <1>10, <1>13, <4>1
      <3> QED BY <1>2, <1>10, <1>14, <3>1
    <2>2. gb - lb <= w * f
      BY <1>3, <1>10, <1>11, <1>13, <2>1
    <2>3. c - w <= lb \div f
      BY <1>2, <1>3, <1>6, <1>14
    <2> QED BY <1>3, <1>8, <1>13, <2>2, <2>3 DEF c, w, f, lb, ct
  <1>15. CASE w < q
    <2>1. PICK s \in Nat : q = w + s
      <3>1. q - w \in Nat /\ q = w + (q - w)
        BY <1>2, <1>15
      <3> QED BY <3>1
    <2>2. ct * s \in Nat /\ ct * w \in Nat /\ q * ct = ct * w + ct * s
      BY <1>2, <2>1
    <2>3. n \in Nat /\ ct * s <= n
      <3>1. ct * s <= Cached - Window[g] + 1
        BY <1>2, <1>3, <1>4, <1>9, <2>2
      <3> QED BY <1>2, <1>3, <2>2, <3>1 DEF AtLeast
    <2> HIDE DEF n
    <2>4. f * s \in Nat /\ bt * (f * s) = ct * s
      BY <1>2
    <2>5. f * s <= fa
      BY <1>2, <1>5, <2>3, <2>4, QuotientGreatest
    <2>6. q * f = w * f + f * s
      BY <1>2, <2>1
    <2>7. gb - lb <= w * f
      BY <1>3, <1>10, <1>11, <1>12, <1>13, <2>4, <2>5, <2>6
    <2>8. ASSUME gb - lb > 0 PROVE c - w <= lb \div f
      <3>1. f * s <= lb
        BY <1>3, <1>12, <2>4, <2>5, <2>8
      <3>2. s <= lb \div f
        BY <1>2, <1>3, <3>1, QuotientGreatest
      <3> QED BY <1>2, <1>3, <1>6, <2>1, <3>2
    <2> QED BY <1>3, <1>8, <1>13, <2>7, <2>8 DEF c, w, f, lb, ct
  <1> QED BY <1>2, <1>14, <1>15

\* No group loads a chunk before the first that the GPU does not hold whole.
LEMMA LoadStartsAfterLocal ==
  ASSUME TypeOK, result \in Nat, NEW g \in Groups, PendingBlocks(g) > 0
  PROVE  First(g) \in Nat /\ First(g) <= LocalBlocks(g) \div BlockSizeFactor
  <1> DEFINE bt == BlockTokens[g]
             f  == BlockSizeFactor
             lb == LocalBlocks(g)
             l  == local \div bt
  <1>1. bt \in Nat \ {0} /\ f \in Nat \ {0} /\ ChunkTokens(g) \in Nat \ {0} /\ local \in Nat /\ ChunkTokens(g) = bt * f
    BY GroupTypes, GroupsAssumption DEF TypeOK, ChunkTokens
  <1>2. lb \in Nat /\ GpuBlocks(g) \in Nat /\ FirstAttended(g) \in Nat /\ l \in Nat
    BY <1>1, LoadTypes, Quotient
  <1>3. l <= lb
    <2>1. lb = AtMost(GpuBlocks(g), AtLeast(l, FirstAttended(g))) /\ lb < GpuBlocks(g)
      BY <1>2 DEF LocalBlocks, PendingBlocks
    <2> HIDE DEF lb, l
    <2> QED BY <1>2, <2>1 DEF AtMost, AtLeast
  <1>4. First(g) \in Nat /\ ChunkTokens(g) * First(g) <= local
    BY <1>1, Quotient DEF First
  <1> HIDE DEF bt, f, lb
  <1>5. f * First(g) \in Nat /\ bt * (f * First(g)) = ChunkTokens(g) * First(g)
    BY <1>1, <1>4
  <1>6. f * First(g) <= l
    BY <1>1, <1>4, <1>5, QuotientGreatest
  <1> HIDE DEF l
  <1>7. f * First(g) <= lb
    BY <1>2, <1>3, <1>5, <1>6
  <1>8. First(g) <= lb \div f
    BY <1>1, <1>2, <1>4, <1>7, QuotientGreatest
  <1> QED BY <1>4, <1>8 DEF lb, f

\* The blocks below those to load hold all that the GPU has.
LEMMA LocalBlocksHold ==
  ASSUME TypeOK, LocalIsWhole, result \in Nat, NEW g \in Groups
  PROVE  ~(local > LocalBlocks(g) * BlockTokens[g])
  <1> DEFINE bt == BlockTokens[g]
             l  == local \div bt
             gb == GpuBlocks(g)
             fa == FirstAttended(g)
             lb == LocalBlocks(g)
  <1>1. bt \in Nat \ {0} /\ local \in Nat /\ Cached \in Nat /\ gb \in Nat /\ fa \in Nat /\ lb \in Nat
    BY LoadTypes, GroupTypes DEF TypeOK
  <1>2. l \in Nat
    BY <1>1, Quotient
  <1>3. local = l * bt /\ local <= Cached /\ lb = AtMost(gb, AtLeast(l, fa))
    BY <1>1 DEF LocalIsWhole, Cached, LocalBlocks
  <1>4. Cached <= gb * bt
    BY <1>1, RoundedUp DEF GpuBlocks
  <1> HIDE DEF bt, l, gb, fa, lb
  <1>5. lb = gb \/ l <= lb
    BY <1>1, <1>2, <1>3 DEF AtMost, AtLeast
  <1>6. gb * bt \in Nat /\ lb * bt \in Nat
    BY <1>1
  <1>7. CASE lb = gb
    BY <1>1, <1>3, <1>4, <1>6, <1>7 DEF lb, bt
  <1>8. CASE l <= lb
    <2>1. l * bt <= lb * bt
      BY <1>1, <1>2, <1>8
    <2> QED BY <1>1, <1>3, <1>6, <2>1 DEF lb, bt
  <1> QED BY <1>5, <1>7, <1>8

\* A hit that fits passes the assertions, and the load is of chunks of the hit.
LEMMA LoadIsOfHit ==
  ASSUME TypeOK, LocalIsWhole, result \in Nat, Fits(Cached)
  PROVE  AllocError = "none" /\ KeysToLoad \subseteq HitKeys(Cached)
  <1>1. ASSUME NEW g \in SW
        PROVE  /\ ~(PendingBlocks(g) > WindowChunks(g) * BlockSizeFactor)
               /\ PendingBlocks(g) > 0 =>
                    CDiv(Cached, ChunkTokens(g)) - WindowChunks(g) <= LocalBlocks(g) \div BlockSizeFactor
    <2>1. PICK q \in Nat : Cached <= q * ChunkTokens(g) /\ q * ChunkTokens(g) <= Cached + 1
      BY DEF Fits, Aligned
    <2> QED BY <2>1, WindowOfHit
  <1>2. ASSUME NEW g \in Groups PROVE ~(NumKeys(g) < CDiv(Cached, ChunkTokens(g)))
    <2>1. NumKeys(g) \in Nat /\ Cached \in Nat /\ CDiv(Cached, ChunkTokens(g)) \in Nat
          /\ ChunkTokens(g) \in Nat \ {0}
      BY LoadTypes, GroupTypes
    <2>2. Cached <= NumKeys(g) * ChunkTokens(g)
      BY DEF Fits, Keyed
    <2>3. CDiv(Cached, ChunkTokens(g)) <= NumKeys(g)
      BY <2>1, <2>2, RoundedUp
    <2> QED BY <2>1, <2>3
  <1>3. ASSUME NEW g \in Groups, PendingBlocks(g) > 0
        PROVE  LocalBlocks(g) \div BlockSizeFactor .. CDiv(Cached, ChunkTokens(g)) - 1
                 \subseteq NeededChunks(g, First(g), CDiv(Cached, ChunkTokens(g)))
    <2>1. /\ LocalBlocks(g) \div BlockSizeFactor \in Nat /\ CDiv(Cached, ChunkTokens(g)) \in Nat
          /\ g \in SW => WindowChunks(g) \in Nat
      BY LoadTypes, GroupTypes
    <2>2. First(g) \in Nat /\ First(g) <= LocalBlocks(g) \div BlockSizeFactor
      BY <1>3, LoadStartsAfterLocal
    <2>3. g \in SW =>
            CDiv(Cached, ChunkTokens(g)) - WindowChunks(g) <= LocalBlocks(g) \div BlockSizeFactor
      BY <1>1, <1>3
    <2> QED BY <2>1, <2>2, <2>3 DEF NeededChunks, AtLeast
  <1>4. AllocError = "none"
    BY <1>1, <1>2, LocalBlocksHold DEF AllocError
  <1>5. KeysToLoad \subseteq HitKeys(Cached)
    BY <1>3 DEF KeysToLoad, HitKeys
  <1> QED BY <1>4, <1>5

\* The whole request but its last token ends a chunk of every group that has
\* keys for it, or all but the last token of one.
LEMMA WholeRequestAligned ==
  ASSUME TypeOK, \A g \in Groups : Keyed(g, HitBound)
  PROVE  Aligned(HitBound)
  <1> SUFFICES ASSUME NEW s \in SW
               PROVE  \E q \in Nat : HitBound <= q * ChunkTokens(s) /\ q * ChunkTokens(s) <= HitBound + 1
    BY DEF Aligned
  <1>1. s \in Groups /\ ChunkTokens(s) \in Nat \ {0} /\ numTokens \in Nat
    BY GroupTypes, TokensAssumption DEF Groups, TypeOK
  <1>2. SWGroups # <<>>
    BY DEF SW, InSeq
  <1>3. NumKeys(s) \in Nat /\ ChunkTokens(s) * NumKeys(s) <= numTokens
    BY <1>1, Quotient DEF NumKeys, KeysIn
  <1>4. HitBound = numTokens - 1 /\ HitBound <= NumKeys(s) * ChunkTokens(s)
    BY <1>1, <1>2 DEF HitBound, Keyed
  <1>5. ChunkTokens(s) * NumKeys(s) = NumKeys(s) * ChunkTokens(s) /\ NumKeys(s) * ChunkTokens(s) \in Nat
    BY <1>1, <1>3
  <1>6. HitBound <= NumKeys(s) * ChunkTokens(s) /\ NumKeys(s) * ChunkTokens(s) <= HitBound + 1
    BY <1>1, <1>3, <1>4, <1>5
  <1> QED BY <1>3, <1>6

\* What ends a chunk of any group ends one of every sliding-window group.
LEMMA ChunkEndsAligned ==
  ASSUME SWChunksDivide, NEW g \in Groups, NEW e \in Nat
  PROVE  Multiple(e * ChunkTokens(g))
  <1> SUFFICES ASSUME NEW s \in SW PROVE \E q \in Nat : e * ChunkTokens(g) = q * ChunkTokens(s)
    BY DEF Multiple
  <1>1. PICK k \in Nat : ChunkTokens(g) = k * ChunkTokens(s)
    BY DEF SWChunksDivide
  <1>2. ChunkTokens(s) \in Nat
    BY GroupTypes DEF Groups
  <1>3. e * k \in Nat /\ e * (k * ChunkTokens(s)) = (e * k) * ChunkTokens(s)
    BY <1>2
  <1> QED BY <1>1, <1>3

\* One iteration of the inner loop.
LEMMA LookupGroupConfirm ==
  ASSUME SWChunksDivide, LookupInv, ConfirmInv, LookupGroup
  PROVE  ConfirmInv'
  <1> DEFINE g      == Head(groupsLeft)
             size   == ChunkTokens(g)
             end    == HitEnd(g, First(g), LastChunk(g))
             unsure == MetDeferred(g, First(g), LastChunk(g))
             bound  == IF unsure THEN Bound(g) ELSE AtMost(Bound(g), end * size)
             hit    == bound - local
             shrunk == hit < numHit
             defer  == deferLookup \/ unsure
             none   == Bound(g) - local < size \/ (~unsure /\ end = First(g)) \/ hit < size
  <1>1. /\ pc = "lookup" /\ groupsLeft # <<>> /\ UNCHANGED <<answer, numTokens, local, loading, toLoad, error>>
        /\ none => Return(0)
        /\ ~none => /\ maxHit' = bound /\ nextGroups' = Again(shrunk, defer)
                    /\ groupsLeft' = Tail(groupsLeft) /\ pc' = "lookup"
    BY DEF LookupGroup, Return
  <1>2. TypeOK /\ maxHit \in Nat /\ g \in Groups /\ groupsLeft \in Seq(Groups)
    BY <1>1, GroupsLeft DEF LookupInv, TypeOK, PassOrder
  <1>3. InSeq(groupsLeft) \subseteq InSeq(Tail(groupsLeft)) \cup {g}
    BY <1>1, <1>2, GroupsLeft
  <1>4. LoadsAreConfirmed' /\ NoLoadTwice' /\ toLoad' = {} /\ error' = "none"
    BY <1>1 DEF ConfirmInv, LoadsAreConfirmed, NoLoadTwice
  <1>5. CASE none
    <2>1. result' = 0 /\ pc' = "alloc"
      BY <1>1, <1>5 DEF Return, Later
    <2> QED BY <1>4, <2>1 DEF ConfirmInv
  <1>6. CASE ~none
    <2>1. size \in Nat \ {0} /\ numTokens \in Nat /\ NumKeys(g) \in Nat
      <3>1. size \in Nat \ {0} /\ numTokens \in Nat
        BY <1>2, GroupTypes, TokensAssumption DEF TypeOK
      <3> QED BY <3>1, Quotient DEF NumKeys, KeysIn
    <2>2. NumKeys(g) * size \in Nat
      <3> HIDE DEF size
      <3> QED BY <2>1
    <2>3. Bound(g) \in Nat /\ Bound(g) <= NumKeys(g) * size /\ Bound(g) \in {NumKeys(g) * size, maxHit}
          /\ Bound(g) <= maxHit
      <3> HIDE DEF size
      <3> QED BY <1>2, <2>2 DEF Bound, AtMost, size
    <2>4. Bound(g) - local >= size
      <3>1. local \in Nat
        BY <1>2 DEF TypeOK
      <3> QED BY <1>6, <2>1, <2>3, <3>1
    <2>5. end \in Nat
      BY <1>2, <2>4, HitEndFound
    <2>6. bound \in {Bound(g), end * size} /\ bound <= Bound(g) /\ bound \in Nat
      <3> HIDE DEF size, end, unsure
      <3>1. end * size \in Nat
        BY <2>1, <2>5
      <3> QED BY <2>3, <3>1 DEF AtMost
    <2>7. maxHit' = HitBound \/ Multiple(maxHit')
      <3>1. Multiple(NumKeys(g) * size) /\ Multiple(end * size)
        BY <1>2, <2>1, <2>5, ChunkEndsAligned
      <3>2. maxHit = HitBound \/ Multiple(maxHit)
        BY <1>1 DEF ConfirmInv
      <3> HIDE DEF end, size, bound
      <3> QED BY <1>1, <1>6, <2>3, <2>6, <3>1, <3>2
    <2>8. ASSUME NEW h \in Groups, Visited(h)' PROVE Keyed(h, bound)
      <3>1. h \notin InSeq(Tail(groupsLeft)) /\ h \notin InSeq(nextGroups')
        BY <1>1, <1>6, <2>8 DEF Visited
      <3>2. CASE h = g
        BY <2>3, <2>6, <2>2, <3>2 DEF Keyed
      <3>3. CASE h # g
        <4>1. h \notin InSeq(groupsLeft)
          BY <1>3, <3>1, <3>3
        <4>2. h \notin InSeq(nextGroups)
          <5>1. nextGroups' \in {LookupGroups, nextGroups} \/ nextGroups = <<>>
            BY <1>1, <1>6 DEF Again
          <5>2. InSeq(<<>>) = {}
            BY DEF InSeq
          <5> QED BY <3>1, <5>1, <5>2, GroupSequences
        <4>3. maxHit <= NumKeys(h) * ChunkTokens(h)
          BY <1>1, <4>1, <4>2 DEF ConfirmInv, Visited, Keyed
        <4>4. NumKeys(h) * ChunkTokens(h) \in Nat
          <5>1. ChunkTokens(h) \in Nat \ {0}
            BY GroupTypes
          <5>2. NumKeys(h) \in Nat
            BY <2>1, <5>1, Quotient DEF NumKeys, KeysIn
          <5> QED BY <5>1, <5>2
        <4> HIDE DEF bound
        <4> QED BY <1>2, <2>3, <2>6, <4>3, <4>4 DEF Keyed
      <3> QED BY <3>2, <3>3
    <2>9. ASSUME NEW h \in Groups, Visited(h)' PROVE Keyed(h, maxHit)'
      BY <1>1, <1>6, <2>8, <2>9 DEF Keyed, NumKeys, KeysIn
    <2>10. (maxHit = HitBound \/ Multiple(maxHit))'
      BY <1>1, <2>7 DEF Multiple, HitBound
    <2> QED BY <1>1, <1>4, <1>6, <2>9, <2>10 DEF ConfirmInv, Answered
  <1> QED BY <1>5, <1>6

\* The loop concludes with a hit that fits and that no one else is loading.
LEMMA ConcludeConfirm ==
  ASSUME LookupInv, ConfirmInv, Conclude
  PROVE  ConfirmInv'
  <1>1. /\ pc = "lookup" /\ groupsLeft = <<>> /\ nextGroups = <<>>
        /\ UNCHANGED <<answer, numTokens, local, loading, toLoad, error>>
        /\ \/ result' = Later /\ pc' = "waiting"
           \/ result' = numHit /\ pc' \in {"waiting", "alloc"} /\ HitKeys(local + numHit) \cap loading = {}
    BY DEF Conclude, Return
  <1>2. LoadsAreConfirmed' /\ NoLoadTwice' /\ toLoad' = {} /\ error' = "none"
    BY <1>1 DEF ConfirmInv, LoadsAreConfirmed, NoLoadTwice
  <1>3. local + numHit = maxHit /\ TypeOK /\ maxHit \in Nat
    <2>1. ~(Groups \subseteq InSeq(<<>>))
      BY GroupsAssumption DEF InSeq
    <2> QED BY <1>1, <2>1 DEF LookupInv, PassOrder
  <1>4. \A g \in Groups : Keyed(g, maxHit)
    BY <1>1 DEF ConfirmInv, Visited, InSeq
  <1>5. Aligned(maxHit)
    <2>1. CASE maxHit = HitBound
      BY <1>3, <1>4, <2>1, WholeRequestAligned
    <2>2. CASE Multiple(maxHit)
      <3> SUFFICES ASSUME NEW s \in SW
                   PROVE  \E q \in Nat : maxHit <= q * ChunkTokens(s) /\ q * ChunkTokens(s) <= maxHit + 1
        BY DEF Aligned
      <3>1. PICK q \in Nat : maxHit = q * ChunkTokens(s)
        BY <2>2 DEF Multiple
      <3>2. maxHit <= q * ChunkTokens(s) /\ q * ChunkTokens(s) <= maxHit + 1
        BY <1>3, <3>1
      <3> QED BY <3>2
    <2> QED BY <1>1, <2>1, <2>2 DEF ConfirmInv
  <1>6. CASE result' = numHit /\ HitKeys(local + numHit) \cap loading = {}
    <2>1. (Fits(Cached) /\ HitKeys(Cached) \cap loading = {})'
      <3>1. Cached' = maxHit
        BY <1>1, <1>3, <1>6 DEF Cached
      <3>2. Fits(maxHit) /\ HitKeys(maxHit) \cap loading = {}
        BY <1>3, <1>4, <1>5, <1>6 DEF Fits
      <3> QED BY <1>1, <3>1, <3>2 DEF Fits, Aligned, Keyed, NumKeys, KeysIn, HitKeys, First
    <2> QED BY <1>1, <1>2, <2>1 DEF ConfirmInv
  <1>7. CASE pc' = "waiting"
    BY <1>2, <1>7 DEF ConfirmInv, Answered
  <1> QED BY <1>1, <1>6, <1>7

\* The GPU never counts a part of a block as computed.
LEMMA AlwaysLocalIsWhole == Spec => []LocalIsWhole
  <1>1. Init => LocalIsWhole
    <2> SUFFICES ASSUME Init, NEW g \in Groups PROVE local = (local \div BlockTokens[g]) * BlockTokens[g]
      BY DEF LocalIsWhole
    <2>1. local = 0 /\ BlockTokens[g] \in Nat \ {0}
      BY GroupTypes DEF Init
    <2> DEFINE d == local \div BlockTokens[g]
    <2>2. d \in Nat /\ BlockTokens[g] * d <= local
      BY <2>1, Quotient
    <2> HIDE DEF d
    <2>3. BlockTokens[g] * d = d * BlockTokens[g] /\ BlockTokens[g] * d \in Nat
      BY <2>1, <2>2
    <2> QED BY <2>1, <2>2, <2>3 DEF d
  <1>2. LocalIsWhole /\ [Next]_vars => LocalIsWhole'
    <2>1. LocalIsWhole /\ UNCHANGED local => LocalIsWhole'
      BY DEF LocalIsWhole
    <2>2. GetNumNewMatchedTokens => LocalIsWhole'
      <3>1. GetNumNewMatchedTokens => local' \in LocalHits
        BY DEF GetNumNewMatchedTokens
      <3> QED BY <3>1, LocalHitsAssumption DEF LocalIsWhole
    <2>3. [Next]_vars => GetNumNewMatchedTokens \/ UNCHANGED local
      BY DEF Next, Lookup, LookupGroup, Return, NextPass, Conclude, UpdateStateAfterAlloc, Resolve, LoadEnds,
             Done, vars
    <2> QED BY <2>1, <2>2, <2>3
  <1> QED BY <1>1, <1>2, PTL DEF Spec

\* The load is of chunks of the answer.
LEMMA LoadConfirm ==
  ASSUME LookupInv, ConfirmInv, LocalIsWhole, UpdateStateAfterAlloc
  PROVE  ConfirmInv'
  <1>1. /\ pc = "alloc" /\ pc' = "done" /\ UNCHANGED <<numTokens, answer, loading, local, result>>
        /\ error' = (IF result = 0 THEN "none" ELSE AllocError)
        /\ toLoad' = (IF result = 0 \/ AllocError # "none" THEN {} ELSE KeysToLoad)
    BY DEF UpdateStateAfterAlloc
  <1>2. TypeOK /\ result \in Nat
    BY <1>1 DEF LookupInv, PassOrder, Answered
  <1>3. (result > 0 => Fits(Cached) /\ HitKeys(Cached) \cap loading = {})'
    BY <1>1 DEF ConfirmInv, Answered, Fits, Aligned, Keyed, NumKeys, KeysIn, HitKeys, First, Cached
  <1>4. CASE result = 0
    BY <1>1, <1>3, <1>4 DEF ConfirmInv, LoadsAreConfirmed, NoLoadTwice
  <1>5. CASE result > 0
    <2>1. Fits(Cached) /\ HitKeys(Cached) \cap loading = {}
      BY <1>1, <1>5 DEF ConfirmInv, Answered
    <2>2. AllocError = "none" /\ KeysToLoad \subseteq HitKeys(Cached)
      BY <1>2, <2>1, LoadIsOfHit
    <2>3. HitKeys(Cached) \subseteq Hits
      BY <1>1, <1>5 DEF LookupInv, HitIsServable, Servable, Answered, Cached
    <2>4. error' = "none" /\ toLoad' \subseteq Hits' /\ toLoad' \cap loading' = {}
      BY <1>1, <2>1, <2>2, <2>3 DEF Hits
    <2> QED BY <1>1, <1>3, <2>4 DEF ConfirmInv, LoadsAreConfirmed, NoLoadTwice
  <1> QED BY <1>2, <1>4, <1>5

\* The invariant holds in every state.
LEMMA AlwaysConfirmInv ==
  ASSUME SWChunksDivide
  PROVE  Spec => []ConfirmInv
  <1>1. Init => ConfirmInv
    BY DEF Init, ConfirmInv, Answered, LoadsAreConfirmed, NoLoadTwice
  <1>2. ASSUME LookupInv, ConfirmInv, LocalIsWhole, [Next]_vars PROVE ConfirmInv'
    <2>1. CASE GetNumNewMatchedTokens
      <3>1. /\ pc = "waiting" /\ pc' = "lookup" /\ maxHit' = HitBound /\ groupsLeft' = LookupGroups
            /\ UNCHANGED <<numTokens, answer, loading, toLoad, error>>
        BY <2>1 DEF GetNumNewMatchedTokens
      <3>2. HitBound' = HitBound /\ \A g \in Groups : ~Visited(g)'
        BY <3>1, GroupSequences DEF HitBound, Visited
      <3> QED BY <1>2, <3>1, <3>2 DEF ConfirmInv, Answered, LoadsAreConfirmed, NoLoadTwice
    <2>2. CASE LookupGroup
      BY <1>2, <2>2, LookupGroupConfirm
    <2>3. CASE NextPass
      <3>1. /\ pc = "lookup" /\ pc' = "lookup" /\ groupsLeft = <<>> /\ groupsLeft' = nextGroups
            /\ UNCHANGED <<numTokens, answer, local, loading, toLoad, error, maxHit>>
        BY <2>3 DEF NextPass
      <3>2. \A g \in Groups : Visited(g)' => Visited(g)
        BY <3>1 DEF Visited, InSeq
      <3>3. \A g \in Groups : Visited(g)' => Keyed(g, maxHit)'
        BY <1>2, <3>1, <3>2 DEF ConfirmInv, Keyed, NumKeys, KeysIn
      <3>4. (maxHit = HitBound \/ Multiple(maxHit))'
        BY <1>2, <3>1 DEF ConfirmInv, Multiple, HitBound
      <3>5. (LoadsAreConfirmed /\ NoLoadTwice /\ toLoad = {} /\ error = "none")'
        BY <1>2, <3>1 DEF ConfirmInv, LoadsAreConfirmed, NoLoadTwice
      <3> QED BY <3>1, <3>3, <3>4, <3>5 DEF ConfirmInv, Answered
    <2>4. CASE Conclude
      BY <1>2, <2>4, ConcludeConfirm
    <2>5. CASE UpdateStateAfterAlloc
      BY <1>2, <2>5, LoadConfirm
    <2>6. ASSUME NEW k \in Chunk, Resolve(k) PROVE ConfirmInv'
      <3>1. pc \in {"waiting", "lookup"} /\ UNCHANGED <<numTokens, loading, pc, local, loopVars, toLoad, error>>
        BY <2>6 DEF Resolve
      <3>2. (LoadsAreConfirmed /\ NoLoadTwice /\ toLoad = {} /\ error = "none")'
        BY <1>2, <3>1 DEF ConfirmInv, LoadsAreConfirmed, NoLoadTwice
      <3>3. pc = "lookup" => (/\ maxHit = HitBound \/ Multiple(maxHit)
                              /\ \A g \in Groups : Visited(g) => Keyed(g, maxHit))'
        BY <1>2, <3>1 DEF ConfirmInv, loopVars, Multiple, HitBound, Visited, Keyed, NumKeys, KeysIn
      <3> QED BY <3>1, <3>2, <3>3 DEF ConfirmInv, Answered
    <2>7. CASE LoadEnds
      <3>1. pc = "waiting" /\ UNCHANGED <<answer, pc, toLoad, error>>
        BY <2>7 DEF LoadEnds
      <3> QED BY <1>2, <3>1 DEF ConfirmInv, Answered, LoadsAreConfirmed, NoLoadTwice
    <2>8. CASE Done \/ UNCHANGED vars
      BY <1>2, <2>8
        DEF Done, vars, loopVars, ConfirmInv, Multiple, HitBound, Visited, Keyed, NumKeys, KeysIn, Answered, Fits,
            Aligned, HitKeys, First, Cached, LoadsAreConfirmed, NoLoadTwice, Hits
    <2> QED BY <1>2, <2>1, <2>2, <2>3, <2>4, <2>5, <2>6, <2>7, <2>8 DEF Next, Lookup
  <1> QED BY <1>1, <1>2, AlwaysLookupInv, AlwaysLocalIsWhole, PTL DEF Spec

\* The assertions of update_state_after_alloc hold for every answer that it is
\* called with, and all it asks the manager for was found by the lookup.
THEOREM LoadsConfirmedCorrect ==
  ASSUME SWChunksDivide
  PROVE  Spec => []LoadsAreConfirmed
  <1>1. ConfirmInv => LoadsAreConfirmed
    BY DEF ConfirmInv
  <1> QED BY AlwaysConfirmInv, <1>1, PTL

\* What is loaded was not being loaded by another request when the lookup
\* ended, and is not since.
THEOREM NoLoadTwiceCorrect ==
  ASSUME SWChunksDivide
  PROVE  Spec => []NoLoadTwice
  <1>1. ConfirmInv => NoLoadTwice
    BY DEF ConfirmInv
  <1> QED BY AlwaysConfirmInv, <1>1, PTL

-----------------------------------------------------------------------------
(***************************************************************************)
(* What stores leave out is not missed: a prefix that was stored is a hit  *)
(* up to the last end of a full-attention chunk.  That it is no less is    *)
(* that the hit is the longest; that it is no more, that it is servable.   *)
(***************************************************************************)
\* Full-attention groups have chunks of one size, and those of sliding-window
\* groups more than the one token that is computed again.
OneAlignment == \A g, h \in Full : ChunkTokens(g) = ChunkTokens(h)
ChunksOfTokens == \A s \in SW : ChunkTokens(s) > 1

HasRoom(g) == local + ChunkTokens(g) <= HitBound

\* Every visited group has room for a chunk.
RoomInv ==
    /\ pc = "lookup" => maxHit <= HitBound /\ \A g \in Groups : Visited(g) => HasRoom(g)
    /\ Answered /\ result > 0 => Cached <= HitBound /\ \A g \in Groups : HasRoom(g)

\* One iteration of the inner loop.
LEMMA LookupGroupRoom ==
  ASSUME LookupInv, RoomInv, LookupGroup
  PROVE  RoomInv'
  <1> DEFINE g      == Head(groupsLeft)
             size   == ChunkTokens(g)
             end    == HitEnd(g, First(g), LastChunk(g))
             unsure == MetDeferred(g, First(g), LastChunk(g))
             bound  == IF unsure THEN Bound(g) ELSE AtMost(Bound(g), end * size)
             hit    == bound - local
             shrunk == hit < numHit
             defer  == deferLookup \/ unsure
             none   == Bound(g) - local < size \/ (~unsure /\ end = First(g)) \/ hit < size
  <1>1. /\ pc = "lookup" /\ groupsLeft # <<>> /\ UNCHANGED <<numTokens, local>>
        /\ none => Return(0)
        /\ ~none => /\ maxHit' = bound /\ nextGroups' = Again(shrunk, defer)
                    /\ groupsLeft' = Tail(groupsLeft) /\ pc' = "lookup"
    BY DEF LookupGroup, Return
  <1>2. TypeOK /\ maxHit \in Nat /\ g \in Groups /\ groupsLeft \in Seq(Groups) /\ local \in Nat
    BY <1>1, GroupsLeft DEF LookupInv, TypeOK, PassOrder
  <1>3. InSeq(groupsLeft) \subseteq InSeq(Tail(groupsLeft)) \cup {g}
    BY <1>1, <1>2, GroupsLeft
  <1>4. CASE none
    <2>1. result' = 0 /\ pc' = "alloc"
      BY <1>1, <1>4 DEF Return, Later
    <2> QED BY <2>1 DEF RoomInv
  <1>5. CASE ~none
    <2>1. size \in Nat \ {0} /\ numTokens \in Nat /\ NumKeys(g) \in Nat
      <3>1. size \in Nat \ {0} /\ numTokens \in Nat
        BY <1>2, GroupTypes, TokensAssumption DEF TypeOK
      <3> QED BY <3>1, Quotient DEF NumKeys, KeysIn
    <2>2. Bound(g) \in Nat /\ Bound(g) <= maxHit
      <3> HIDE DEF size
      <3>1. NumKeys(g) * size \in Nat
        BY <2>1
      <3> QED BY <1>2, <3>1 DEF Bound, AtMost, size
    <2>3. Bound(g) - local >= size
      BY <1>2, <1>5, <2>1, <2>2
    <2>4. end \in Nat
      BY <1>2, <2>3, HitEndFound
    <2>5. bound <= Bound(g) /\ bound \in Nat
      <3> HIDE DEF size, end, unsure
      <3>1. end * size \in Nat
        BY <2>1, <2>4
      <3> QED BY <2>2, <3>1 DEF AtMost
    <2>6. maxHit <= HitBound /\ HitBound \in Int
      BY <1>1, <2>1 DEF RoomInv, HitBound
    <2>7. ASSUME NEW h \in Groups, Visited(h)' PROVE HasRoom(h)
      <3>1. h \notin InSeq(Tail(groupsLeft)) /\ h \notin InSeq(nextGroups')
        BY <1>1, <1>5, <2>7 DEF Visited
      <3>2. CASE h = g
        BY <1>2, <2>1, <2>2, <2>3, <2>6, <3>2 DEF HasRoom
      <3>3. CASE h # g
        <4>1. h \notin InSeq(groupsLeft)
          BY <1>3, <3>1, <3>3
        <4>2. h \notin InSeq(nextGroups)
          <5>1. nextGroups' \in {LookupGroups, nextGroups} \/ nextGroups = <<>>
            BY <1>1, <1>5 DEF Again
          <5>2. InSeq(<<>>) = {}
            BY DEF InSeq
          <5> QED BY <3>1, <5>1, <5>2, GroupSequences
        <4> QED BY <1>1, <4>1, <4>2 DEF RoomInv, Visited
      <3> QED BY <3>2, <3>3
    <2>8. ASSUME NEW h \in Groups, Visited(h)' PROVE HasRoom(h)'
      BY <1>1, <2>7, <2>8 DEF HasRoom, HitBound
    <2>9. (maxHit <= HitBound)'
      <3>1. HitBound' = HitBound
        BY <1>1 DEF HitBound
      <3> HIDE DEF bound
      <3> QED BY <1>1, <1>2, <1>5, <2>2, <2>5, <2>6, <3>1
    <2> QED BY <1>1, <1>5, <2>8, <2>9 DEF RoomInv, Answered
  <1> QED BY <1>4, <1>5

\* The invariant holds in every state.
LEMMA AlwaysRoomInv == Spec => []RoomInv
  <1>1. Init => RoomInv
    BY DEF Init, RoomInv, Answered
  <1>2. ASSUME LookupInv, RoomInv, [Next]_vars PROVE RoomInv'
    <2>1. CASE GetNumNewMatchedTokens
      <3>1. pc' = "lookup" /\ maxHit' = HitBound /\ groupsLeft' = LookupGroups /\ numTokens' = numTokens
        BY <2>1 DEF GetNumNewMatchedTokens
      <3>2. HitBound' = HitBound /\ HitBound \in Int /\ \A g \in Groups : ~Visited(g)'
        <4>1. numTokens \in Nat
          BY <1>2, TokensAssumption DEF LookupInv, TypeOK
        <4> QED BY <3>1, <4>1, GroupSequences DEF HitBound, Visited
      <3> QED BY <3>1, <3>2 DEF RoomInv, Answered
    <2>2. CASE LookupGroup
      BY <1>2, <2>2, LookupGroupRoom
    <2>3. CASE NextPass
      <3>1. /\ pc = "lookup" /\ pc' = "lookup" /\ groupsLeft = <<>> /\ groupsLeft' = nextGroups
            /\ UNCHANGED <<numTokens, local, maxHit>>
        BY <2>3 DEF NextPass
      <3>2. \A g \in Groups : Visited(g)' => Visited(g)
        BY <3>1 DEF Visited, InSeq
      <3> QED BY <1>2, <3>1, <3>2 DEF RoomInv, HasRoom, HitBound, Answered
    <2>4. CASE Conclude
      <3>1. /\ pc = "lookup" /\ groupsLeft = <<>> /\ nextGroups = <<>> /\ UNCHANGED <<numTokens, local>>
            /\ \/ result' = Later /\ pc' = "waiting"
               \/ result' = numHit /\ pc' \in {"waiting", "alloc"}
        BY <2>4 DEF Conclude, Return
      <3>2. local + numHit = maxHit
        <4>1. ~(Groups \subseteq InSeq(<<>>))
          BY GroupsAssumption DEF InSeq
        <4> QED BY <1>2, <3>1, <4>1 DEF LookupInv, PassOrder
      <3>3. maxHit <= HitBound /\ \A g \in Groups : HasRoom(g)
        BY <1>2, <3>1 DEF RoomInv, Visited, InSeq
      <3> QED BY <3>1, <3>2, <3>3 DEF RoomInv, HasRoom, HitBound, Answered, Cached
    <2>5. CASE UpdateStateAfterAlloc
      <3>1. pc = "alloc" /\ pc' = "done" /\ UNCHANGED <<numTokens, local, result>>
        BY <2>5 DEF UpdateStateAfterAlloc
      <3> QED BY <1>2, <3>1 DEF RoomInv, HasRoom, HitBound, Answered, Cached
    <2>6. CASE (\E k \in Chunk : Resolve(k)) \/ LoadEnds \/ Done \/ UNCHANGED vars
      <3>1. UNCHANGED <<numTokens, pc, local, loopVars, result>>
        BY <2>6 DEF Resolve, LoadEnds, Done, vars
      <3> QED BY <1>2, <3>1 DEF loopVars, RoomInv, HasRoom, HitBound, Visited, Answered, Cached
    <2> QED BY <1>2, <2>1, <2>2, <2>3, <2>4, <2>5, <2>6 DEF Next, Lookup
  <1> QED BY <1>1, <1>2, AlwaysLookupInv, PTL DEF Spec

\* What a remainder is.
LEMMA Remainder ==
  ASSUME NEW k \in Nat \ {0}, NEW m \in Nat, NEW r \in 0 .. k - 1
  PROVE  (m * k + r) % k = r
  <1> DEFINE c == k * m + r
             q == c \div k
  <1>1. k * m \in Nat /\ m * k = k * m
    BY ProductOrder
  <1>2. c \in Nat
    BY <1>1
  <1> HIDE DEF c
  <1>3. q \in Nat /\ k * q <= c /\ c < k * q + k /\ c % k = c - k * q
    BY <1>2
  <1> HIDE DEF q
  <1>4. k * q \in Nat /\ k * m <= c /\ c < k * m + k /\ c = k * m + r
    BY <1>1, <1>3 DEF c
  <1>5. q = m
    <2>1. ~(q < m)
      BY <1>2, <1>3, <1>4, ProductOrder
    <2>2. ~(m < q)
      BY <1>1, <1>2, <1>3, <1>4, ProductOrder
    <2> QED BY <1>3, <2>1, <2>2
  <1>6. c % k = r
    BY <1>1, <1>3, <1>4, <1>5
  <1> QED BY <1>1, <1>6 DEF c

\* A chunk that ends in the window before the end of a full-attention chunk is
\* stored.
LEMMA WindowSelected ==
  ASSUME NEW s \in SW, NEW f \in Full, OneAlignment,
         NEW k \in Nat \ {0}, ChunkTokens(f) = k * ChunkTokens(s),
         NEW m \in Nat, NEW c \in m * k .. (m + 1) * k - 1, c >= (m + 1) * k - WindowChunks(s)
  PROVE  Selected(s, c)
  <1> DEFINE d == ChunkTokens(s)
             w == WindowChunks(s)
  <1>1. d \in Nat \ {0} /\ w \in Nat
    BY GroupTypes DEF Groups
  <1>2. Alignments = {k * d}
    BY DEF Alignments, OneAlignment
  <1> HIDE DEF d, w
  <1>3. (k * d) \div d = k
    <2>1. k * d \in Nat
      BY <1>1
    <2>2. d * k <= k * d
      BY <1>1
    <2> DEFINE q == (k * d) \div d
    <2>3. q \in Nat /\ d * q <= k * d
      BY <1>1, <2>1, Quotient
    <2>4. k <= q
      BY <1>1, <2>1, <2>2, QuotientGreatest
    <2> HIDE DEF q
    <2>5. ASSUME k < q PROVE FALSE
      <3>1. d * k + d <= d * q /\ d * k = k * d
        BY <1>1, <2>3, <2>5, ProductOrder
      <3> QED BY <1>1, <2>1, <2>3, <3>1
    <2>6. q = k
      BY <2>3, <2>4, <2>5
    <2> QED BY <2>6 DEF q
  <1>4. m * k \in Nat /\ (m + 1) * k = m * k + k
    OBVIOUS
  <1>5. c - m * k \in 0 .. k - 1 /\ c = m * k + (c - m * k) /\ c - m * k >= k - w
    BY <1>1, <1>4 DEF w
  <1>6. c % k = c - m * k
    <2>1. (m * k + (c - m * k)) % k = c - m * k
      BY <1>5, Remainder
    <2> QED BY <1>5, <2>1
  <1>7. \A a \in Alignments : LET count == a \div ChunkTokens(s) IN c % count >= count - WindowChunks(s)
    BY <1>2, <1>3, <1>5, <1>6 DEF d, w
  <1> QED BY <1>7 DEF Selected

\* A hit that ends with a full-attention chunk that was stored, or all but its
\* last token, needs only chunks that were stored.
LEMMA StoredServes ==
  ASSUME TypeOK, local = 0, OneAlignment, ChunksOfTokens, SWChunksDivide,
         NEW f \in Full, NEW m \in Nat, NEW n \in Nat, n <= numTokens,
         ChunkTokens(f) * (m + 1) <= n,
         NEW end \in Nat, end <= ChunkTokens(f) * (m + 1), ChunkTokens(f) * (m + 1) <= end + 1,
         SW = {} => end = ChunkTokens(f) * (m + 1)
  PROVE  HitKeys(end) \subseteq StoredChunks(n)
  <1> DEFINE a == ChunkTokens(f)
  <1>1. a \in Nat \ {0} /\ numTokens \in NumTokens /\ numTokens \in Nat
    BY GroupTypes, TokensAssumption DEF Groups, TypeOK
  <1>2. a * (m + 1) <= n /\ end <= a * (m + 1) /\ a * (m + 1) <= end + 1 /\ a * (m + 1) \in Nat
    BY <1>1
  <1>3. ASSUME NEW g \in Groups, NEW c \in Nat, (c + 1) * ChunkTokens(g) <= n, Selected(g, c)
        PROVE  <<g, c>> \in StoredChunks(n)
    <2>1. ChunkTokens(g) \in Nat \ {0}
      BY GroupTypes
    <2>2. KeysIn(g, numTokens) \in Nat /\ c + 1 <= KeysIn(g, numTokens)
      <3>1. ChunkTokens(g) * (c + 1) <= numTokens
        BY <1>1, <1>3, <2>1
      <3> QED BY <1>1, <2>1, <3>1, Quotient, QuotientGreatest DEF KeysIn
    <2>3. c \in 0 .. KeysIn(g, numTokens) - 1
      BY <2>2
    <2>4. <<g, c>> \in Chunk
      BY <1>1, <2>3 DEF Chunk, Chunks
    <2> QED BY <1>3, <2>4 DEF StoredChunks
  <1>4. ASSUME NEW g \in Groups, NEW c \in NeededChunks(g, First(g), CDiv(end, ChunkTokens(g)))
        PROVE  <<g, c>> \in StoredChunks(n)
    <2> DEFINE d == ChunkTokens(g)
               q == CDiv(end, d)
    <2>1. d \in Nat \ {0} /\ First(g) = 0 /\ (g \in SW => WindowChunks(g) \in Nat)
      <3>1. d \in Nat \ {0} /\ (g \in SW => WindowChunks(g) \in Nat)
        BY GroupTypes
      <3> QED BY <3>1 DEF First
    <2>2. q \in Nat /\ end <= d * q
      BY <2>1, RoundedUp
    <2>3. c \in Nat /\ c + 1 <= q /\ (g \in SW => c >= q - WindowChunks(g))
      <3> HIDE DEF q
      <3> QED BY <1>4, <2>1, <2>2 DEF NeededChunks, AtLeast, q
    <2>4. CASE g \in Full
      <3>1. d = a /\ g \notin SW
        BY <2>4, GroupsAssumption DEF OneAlignment
      <3>2. q <= m + 1
        <4>1. end <= (m + 1) * d /\ m + 1 \in Nat
          BY <1>1, <1>2, <3>1
        <4> QED BY <2>1, <4>1, RoundedUp
      <3>3. (c + 1) * d <= n
        <4> HIDE DEF d, q, a
        <4>1. c + 1 <= m + 1
          BY <2>2, <2>3, <3>2
        <4>2. a * (c + 1) <= a * (m + 1)
          <5>1. c = m \/ c + 1 < m + 1
            BY <2>3, <4>1
          <5>2. CASE c + 1 < m + 1
            <6>1. a * (c + 1) + a <= a * (m + 1) /\ a * (c + 1) \in Nat
              BY <1>1, <2>3, <5>2, ProductOrder
            <6> QED BY <1>1, <1>2, <6>1
          <5> QED BY <1>2, <5>1, <5>2
        <4>3. (c + 1) * d = a * (c + 1) /\ a * (c + 1) \in Nat
          BY <1>1, <2>3, <3>1
        <4> QED BY <1>2, <4>2, <4>3
      <3>4. Selected(g, c)
        BY <3>1 DEF Selected, LeavesOut
      <3> QED BY <1>3, <2>3, <3>3, <3>4
    <2>5. CASE g \in SW
      <3>1. d > 1
        BY <2>5 DEF ChunksOfTokens
      <3>2. PICK k \in Nat : a = k * d
        BY <2>5 DEF SWChunksDivide, Groups
      <3>3. k \in Nat \ {0}
        BY <1>1, <2>1, <3>2
      <3> DEFINE e == (m + 1) * k
      <3>4. e \in Nat /\ e * d = a * (m + 1) /\ d * e = a * (m + 1) /\ m * k \in Nat /\ e = m * k + k
        <4> HIDE DEF d, a
        <4> QED BY <2>1, <3>2
      <3> HIDE DEF d, q, a, e
      <3>5. q = e
        <4>1. q <= e
          <5>1. end <= e * d
            BY <1>2, <3>4
          <5> QED BY <2>1, <3>4, <5>1, RoundedUp DEF q
        <4>2. ASSUME q < e PROVE FALSE
          <5>1. d * q + d <= d * e /\ d * q \in Nat
            BY <2>1, <2>2, <3>4, <4>2, ProductOrder
          <5> QED BY <1>2, <2>1, <2>2, <3>1, <3>4, <5>1
        <4> QED BY <2>2, <3>4, <4>1, <4>2
      <3>6. (c + 1) * d <= n
        <4>1. d * (c + 1) <= d * e
          <5>1. c + 1 = e \/ c + 1 < e
            BY <2>3, <3>4, <3>5
          <5>2. CASE c + 1 < e
            <6>1. d * (c + 1) + d <= d * e /\ d * (c + 1) \in Nat
              BY <2>1, <2>3, <3>4, <5>2, ProductOrder
            <6> QED BY <1>2, <2>1, <3>4, <6>1
          <5> QED BY <1>2, <3>4, <5>1, <5>2
        <4>2. (c + 1) * d = d * (c + 1) /\ d * (c + 1) \in Nat
          BY <2>1, <2>3
        <4> QED BY <1>2, <3>4, <4>1, <4>2
      <3>7. Selected(g, c)
        <4>1. CASE LeavesOut(g)
          <5>1. WindowChunks(g) < k
            <6>1. ChunkTokens(f) \in Alignments
              BY DEF Alignments
            <6>2. WindowChunks(g) < a \div d
              BY <4>1, <6>1 DEF LeavesOut, a, d
            <6>3. a \div d <= k
              <7>1. a \div d \in Nat /\ d * (a \div d) <= a
                BY <1>1, <2>1, Quotient
              <7> DEFINE p == a \div d
              <7> HIDE DEF p
              <7>2. ASSUME k < p PROVE FALSE
                <8>1. d * k + d <= d * p /\ d * k = a
                  BY <2>1, <3>2, <3>3, <7>1, <7>2, ProductOrder DEF p
                <8> QED BY <1>1, <2>1, <7>1, <8>1 DEF p
              <7> QED BY <3>3, <7>1, <7>2 DEF p
            <6>4. a \div d \in Nat
              BY <1>1, <2>1, Quotient
            <6> QED BY <2>1, <2>5, <3>3, <6>2, <6>3, <6>4
          <5>2. c \in m * k .. e - 1 /\ c >= e - WindowChunks(g)
            BY <2>1, <2>3, <2>5, <3>3, <3>4, <3>5, <5>1
          <5>3. ChunkTokens(f) = k * ChunkTokens(g)
            BY <3>2 DEF a, d
          <5> QED BY <2>5, <3>3, <5>2, <5>3, WindowSelected DEF e
        <4>2. CASE ~LeavesOut(g)
          BY <4>2 DEF Selected
        <4> QED BY <4>1, <4>2
      <3> QED BY <1>3, <2>3, <3>6, <3>7 DEF d
    <2> QED BY <2>4, <2>5 DEF Groups
  <1> QED BY <1>4 DEF HitKeys

\* A hit of chunks that were stored ends with the last of a full-attention group.
LEMMA ServesStored ==
  ASSUME TypeOK, local = 0, NEW f \in Full, NEW n \in Nat, NEW end \in Nat \ {0},
         HitKeys(end) \subseteq StoredChunks(n)
  PROVE  end <= ChunkTokens(f) * (n \div ChunkTokens(f))
  <1> DEFINE a == ChunkTokens(f)
             q == CDiv(end, a)
  <1>1. f \in Groups /\ f \notin SW /\ a \in Nat \ {0}
    BY GroupTypes, GroupsAssumption DEF Groups
  <1>2. q \in Nat /\ end <= a * q /\ First(f) = 0
    <2>1. First(f) = 0
      BY <1>1 DEF First
    <2> QED BY <1>1, <2>1, RoundedUp
  <1>3. q # 0
    <2> HIDE DEF q, a
    <2> QED BY <1>1, <1>2
  <1>4. q - 1 \in NeededChunks(f, First(f), q)
    <2> HIDE DEF q
    <2> QED BY <1>1, <1>2, <1>3 DEF NeededChunks
  <1>5. <<f, q - 1>> \in StoredChunks(n)
    BY <1>1, <1>4 DEF HitKeys
  <1>6. (q - 1 + 1) * a <= n
    BY <1>5 DEF StoredChunks
  <1> HIDE DEF q, a
  <1>7. a * q <= n
    BY <1>1, <1>2, <1>6
  <1>8. q <= n \div a /\ n \div a \in Nat
    BY <1>1, <1>2, <1>7, Quotient, QuotientGreatest
  <1>9. a * q <= a * (n \div a)
    <2> DEFINE p == n \div a
    <2> HIDE DEF p
    <2>1. CASE q = p
      BY <1>1, <1>2, <2>1 DEF p
    <2>2. CASE q < p
      <3>1. a * q + a <= a * p /\ a * q \in Nat /\ a * p \in Nat
        BY <1>1, <1>2, <1>8, <2>2, ProductOrder DEF p
      <3> QED BY <1>1, <3>1 DEF p
    <2> QED BY <1>2, <1>8, <2>1, <2>2 DEF p
  <1>10. a * q \in Nat /\ a * (n \div a) \in Nat
    BY <1>1, <1>2, <1>8
  <1> QED BY <1>2, <1>9, <1>10 DEF a

\* The pool after the prefix was stored, as the manager answers.
LEMMA StoredAnswers ==
  ASSUME TypeOK, NEW n \in 0 .. numTokens,
         answer = [k \in DOMAIN answer |-> IF k \in StoredChunks(n) THEN "hit" ELSE "miss"]
  PROVE  Hits = StoredChunks(n) /\ Deferred(answer) = {}
  <1>1. Hits \subseteq StoredChunks(n) /\ Deferred(answer) = {}
    BY DEF Hits, Deferred
  <1>2. ASSUME NEW k \in StoredChunks(n) PROVE k \in Hits
    <2>1. k \in Chunk /\ (k[2] + 1) * ChunkTokens(k[1]) <= n
      BY DEF StoredChunks
    <2>2. PICK l \in NumTokens : k \in Chunks(l)
      BY <2>1 DEF Chunk
    <2>3. PICK g \in Groups : k \in {g} \X (0 .. KeysIn(g, l) - 1)
      BY <2>2 DEF Chunks
    <2>4. PICK c \in 0 .. KeysIn(g, l) - 1 : k = <<g, c>>
      BY <2>3
    <2>5. numTokens \in Nat /\ ChunkTokens(g) \in Nat \ {0} /\ c \in Nat
      <3>1. numTokens \in Nat /\ ChunkTokens(g) \in Nat \ {0} /\ l \in Nat
        BY GroupTypes, TokensAssumption DEF TypeOK
      <3>2. KeysIn(g, l) \in Nat
        BY <3>1, Quotient DEF KeysIn
      <3> QED BY <2>4, <3>1, <3>2
    <2>6. ChunkTokens(g) * (c + 1) <= numTokens
      <3>1. (c + 1) * ChunkTokens(g) <= n
        BY <2>1, <2>4
      <3>2. (c + 1) * ChunkTokens(g) = ChunkTokens(g) * (c + 1) /\ (c + 1) * ChunkTokens(g) \in Nat
        BY <2>5
      <3> QED BY <2>5, <3>1, <3>2
    <2>7. KeysIn(g, numTokens) \in Nat /\ c + 1 <= KeysIn(g, numTokens)
      <3>1. c + 1 \in Nat
        BY <2>5
      <3> QED BY <2>5, <2>6, <3>1, Quotient, QuotientGreatest DEF KeysIn
    <2>8. c \in 0 .. KeysIn(g, numTokens) - 1
      BY <2>5, <2>7
    <2>9. k \in DOMAIN answer
      <3>1. <<g, c>> \in Chunks(numTokens)
        BY <2>8 DEF Chunks
      <3> QED BY <2>4, <3>1 DEF TypeOK
    <2>10. answer[k] = "hit"
      BY <2>9
    <2> QED BY <2>9, <2>10 DEF Hits
  <1> QED BY <1>1, <1>2

\* In a state of the loop the property follows from what was proved of the hit.
LEMMA StoredPrefix ==
  ASSUME SWChunksDivide, OneAlignment, ChunksOfTokens, LookupInv, RoomInv, HitIsLongest
  PROVE  StoredPrefixIsHit
  <1> DEFINE end(n, a) == AtMost(HitBound, n - (n % a))
  <1> SUFFICES ASSUME NEW n \in 0 .. numTokens, Answered, local = 0,
                      answer = [k \in DOMAIN answer |-> IF k \in StoredChunks(n) THEN "hit" ELSE "miss"],
                      NEW a \in Alignments
               PROVE  result = IF end(n, a) < a THEN 0 ELSE end(n, a)
    BY DEF StoredPrefixIsHit
  <1>1. PICK f \in Full : a = ChunkTokens(f)
    BY DEF Alignments
  <1>2. /\ TypeOK /\ result \in Nat /\ numTokens \in Nat \ {0} /\ n \in Nat /\ n <= numTokens
        /\ a \in Nat \ {0} /\ f \in Groups
    <2>1. TypeOK /\ result \in Nat
      BY DEF LookupInv, PassOrder
    <2>2. numTokens \in Nat \ {0}
      BY <2>1, TokensAssumption DEF TypeOK
    <2> QED BY <1>1, <2>1, <2>2, GroupTypes DEF Groups
  <1> DEFINE m == n \div a
             e == end(n, a)
  <1>3. m \in Nat /\ a * m \in Nat /\ a * m <= n /\ n - (n % a) = a * m
    BY <1>2
  <1> HIDE DEF m
  <1>4. HitBound \in Nat /\ numTokens - 1 <= HitBound /\ (SW = {} => HitBound = numTokens)
    <2>1. SW = {} => SWGroups = <<>>
      BY GroupsAssumption DEF SW, InSeq
    <2> QED BY <1>2, <2>1 DEF HitBound
  <1>5. e = AtMost(HitBound, a * m)
    BY <1>3
  <1> HIDE DEF end, e
  <1>6. /\ e \in Nat /\ e <= a * m /\ e <= HitBound /\ a * m <= e + 1
        /\ SW = {} => e = a * m
        /\ HitBound >= a * m => e = a * m
        /\ e = a * m \/ e = HitBound
    BY <1>2, <1>3, <1>4, <1>5 DEF AtMost
  <1>7. Hits = StoredChunks(n) /\ Deferred(answer) = {}
    BY <1>2, StoredAnswers
  <1>8. ASSUME result > 0 PROVE result <= e /\ a <= HitBound
    <2>1. HitKeys(result) \subseteq StoredChunks(n)
      BY <1>2, <1>7, <1>8 DEF LookupInv, HitIsServable, Servable
    <2>2. result \in Nat \ {0}
      BY <1>2, <1>8
    <2>3. result <= a * m
      BY <1>1, <1>2, <2>1, <2>2, ServesStored DEF m
    <2>4. result <= HitBound /\ a <= HitBound
      <3>1. Cached <= HitBound /\ HasRoom(f)
        BY <1>2, <1>8 DEF RoomInv
      <3> QED BY <1>1, <1>2, <3>1 DEF Cached, HasRoom
    <2> QED BY <1>6, <2>3, <2>4
  <1>9. CASE e < a
    <2>1. ASSUME result > 0 PROVE FALSE
      <3>1. e = a * m
        BY <1>2, <1>4, <1>6, <1>8, <1>9, <2>1
      <3>2. m = 0
        <4>1. ~(0 < m)
          <5>1. 0 < m => a * 0 + a <= a * m
            BY <1>2, <1>3, ProductOrder
          <5>2. a * 0 = 0
            BY <1>2
          <5> QED BY <1>2, <1>3, <1>9, <3>1, <5>1, <5>2
        <4> QED BY <1>3, <4>1
      <3>3. e = 0
        BY <1>2, <3>1, <3>2
      <3> QED BY <1>2, <1>8, <2>1, <3>3
    <2> QED BY <1>2, <1>9, <2>1 DEF e
  <1>10. CASE a <= e
    <2>1. ASSUME result < e PROVE FALSE
      <3>1. m # 0
        <4>1. a * 0 = 0
          BY <1>2
        <4> QED BY <1>2, <1>6, <1>10, <4>1
      <3>2. ASSUME NEW g \in Groups
            PROVE  ChunkTokens(g) \in Nat \ {0} /\ \E k \in Nat \ {0} : a = k * ChunkTokens(g)
        <4>1. ChunkTokens(g) \in Nat \ {0}
          BY GroupTypes
        <4>2. \E k \in Nat : a = k * ChunkTokens(g)
          <5>1. CASE g \in Full
            <6>1. a = 1 * ChunkTokens(g)
              BY <1>1, <4>1, <5>1 DEF OneAlignment
            <6> QED BY <6>1
          <5>2. CASE g \in SW
            BY <1>1, <1>2, <5>2 DEF SWChunksDivide
          <5> QED BY <5>1, <5>2 DEF Groups
        <4>3. \A k \in Nat : a = k * ChunkTokens(g) => k # 0
          BY <1>2, <4>1
        <4> QED BY <4>1, <4>2, <4>3
      <3>3. ASSUME NEW g \in Groups PROVE ~(NumKeys(g) * ChunkTokens(g) < e) /\ ~(e - local < ChunkTokens(g))
        <4> DEFINE d == ChunkTokens(g)
        <4>1. d \in Nat \ {0}
          BY <3>2
        <4>2. PICK k \in Nat \ {0} : a = k * d
          BY <3>2
        <4>3. NumKeys(g) \in Nat
          BY <1>2, <4>1, Quotient DEF NumKeys, KeysIn
        <4>4. a * m <= numTokens
          BY <1>2, <1>3
        <4>5. k * m <= NumKeys(g) /\ k * m \in Nat
          <5> HIDE DEF d
          <5>1. k * m \in Nat /\ d * (k * m) = a * m
            BY <1>3, <4>1, <4>2
          <5>2. k * m <= numTokens \div d
            BY <1>2, <4>1, <4>4, <5>1, QuotientGreatest
          <5> QED BY <5>1, <5>2 DEF NumKeys, KeysIn, d
        <4> HIDE DEF d
        <4>6. a * m <= d * NumKeys(g) /\ d * NumKeys(g) \in Nat
          <5>1. d * (k * m) = a * m
            BY <1>3, <4>1, <4>2
          <5>2. d * (k * m) <= d * NumKeys(g) /\ d * NumKeys(g) \in Nat
            <6> DEFINE x == k * m
            <6>1. x \in Nat /\ x <= NumKeys(g)
              BY <4>5
            <6> HIDE DEF x
            <6>2. CASE x = NumKeys(g)
              BY <4>1, <4>3, <6>2 DEF x
            <6>3. CASE x < NumKeys(g)
              <7>1. d * x + d <= d * NumKeys(g) /\ d * x \in Nat /\ d * NumKeys(g) \in Nat
                BY <4>1, <4>3, <6>1, <6>3, ProductOrder
              <7> QED BY <4>1, <7>1 DEF x
            <6> QED BY <4>3, <6>1, <6>2, <6>3
          <5> QED BY <5>1, <5>2
        <4>7. NumKeys(g) * d = d * NumKeys(g)
          BY <4>1, <4>3
        <4>8. d <= a
          BY <4>1, <4>2
        <4>9. ~(NumKeys(g) * d < e)
          BY <1>3, <1>6, <4>6, <4>7
        <4>10. ~(e - local < d)
          BY <1>2, <1>6, <1>10, <4>1, <4>8
        <4> QED BY <4>9, <4>10 DEF d
      <3>4. HitKeys(e) \subseteq StoredChunks(n)
        <4>1. m - 1 \in Nat /\ (m - 1) + 1 = m
          BY <1>3, <3>1
        <4> DEFINE p == m - 1
        <4> HIDE DEF p
        <4>2. p \in Nat /\ p + 1 = m
          BY <4>1 DEF p
        <4>3. /\ ChunkTokens(f) * (p + 1) <= n /\ e <= ChunkTokens(f) * (p + 1)
              /\ ChunkTokens(f) * (p + 1) <= e + 1
              /\ SW = {} => e = ChunkTokens(f) * (p + 1)
          BY <1>1, <1>3, <1>6, <4>2
        <4> QED BY <1>2, <1>6, <4>2, <4>3, StoredServes
      <3>5. Servable(Hits \cup Deferred(answer), e)
        BY <1>7, <3>4 DEF Servable
      <3>6. e \in local + result + 1 .. HitBound
        BY <1>2, <1>4, <1>6, <2>1
      <3> QED BY <3>3, <3>5, <3>6 DEF HitIsLongest
    <2>2. result <= e
      BY <1>2, <1>6, <1>8
    <2>3. result = e
      BY <1>2, <1>6, <2>1, <2>2
    <2> QED BY <1>2, <1>6, <1>10, <2>3 DEF e
  <1> QED BY <1>2, <1>6, <1>9, <1>10

\* After the first tokens of the prompt were stored, with the chunks left out
\* that alignment_block_count lets stores leave out, the lookup finds all of
\* their full-attention chunks.
THEOREM StoredPrefixCorrect ==
  ASSUME SWChunksDivide, OneAlignment, ChunksOfTokens
  PROVE  Spec => []StoredPrefixIsHit
  BY AlwaysLookupInv, AlwaysRoomInv, HitLongestCorrect, StoredPrefix, PTL

=============================================================================
