------------------------ MODULE OffloadEventsProofs ------------------------
(***************************************************************************)
(* Theorems about OffloadEvents, for all values of its constants.          *)
(***************************************************************************)
EXTENDS OffloadEvents, SequenceTheorems, FunctionTheorems, FiniteSetTheorems, TLAPS

Stores == [keys : SUBSET Keys, age : 0 .. 2]

-----------------------------------------------------------------------------
(***************************************************************************)
(* Keys and hashes.                                                        *)
(***************************************************************************)
\* The number of chunks of a prompt.
LEMMA ChunksType ==
  ASSUME NEW r \in Requests
  PROVE  /\ Len(Prompt[r]) \in Nat
         /\ Chunks(r) \in Nat
         /\ \A c \in 0 .. Chunks(r) - 1 : (c + 1) * Factor <= Len(Prompt[r])
  <1>1. Prompt[r] \in Seq(Range(Prompt[r])) /\ Factor \in Nat \ {0}
    BY EventsAssumption
  <1>2. Len(Prompt[r]) \in Nat
    BY <1>1
  <1>3. \A n \in Nat, f \in Nat \ {0} : n \div f \in Nat /\ (n \div f) * f <= n
    OBVIOUS
  <1>4. Chunks(r) \in Nat /\ Chunks(r) * Factor <= Len(Prompt[r])
    BY <1>1, <1>2, <1>3 DEF Chunks
  <1>5. ASSUME NEW c \in 0 .. Chunks(r) - 1 PROVE (c + 1) * Factor <= Chunks(r) * Factor
    <2>1. \A m, n, f \in Nat : m <= n => m * f <= n * f
      OBVIOUS
    <2>2. c + 1 \in Nat /\ c + 1 <= Chunks(r) /\ Chunks(r) \in Nat /\ Factor \in Nat
      BY <1>1, <1>4
    <2> HIDE DEF Chunks
    <2> QED BY <2>1, <2>2
  <1>6. ASSUME NEW c \in 0 .. Chunks(r) - 1 PROVE (c + 1) * Factor \in Nat
    BY <1>1, <1>4
  <1>7. Chunks(r) * Factor \in Nat
    BY <1>1, <1>4
  <1> QED BY <1>2, <1>4, <1>5, <1>6, <1>7

\* The chunks a request offers are keys.
LEMMA KeyType ==
  ASSUME NEW r \in Requests, NEW c \in 0 .. Chunks(r) - 1
  PROVE  Key(r, c) \in Keys
  BY DEF Keys

\* A key has the blocks of its chunks, and its prefixes are those of the prompt.
LEMMA KeyIsPrefix ==
  ASSUME NEW r \in Requests, NEW c \in 0 .. Chunks(r) - 1
  PROVE  /\ (c + 1) * Factor \in Nat /\ (c + 1) * Factor >= Factor
         /\ Len(Key(r, c)) = (c + 1) * Factor
         /\ \A i \in 1 .. (c + 1) * Factor :
               /\ SubSeq(Key(r, c), 1, i) = SubSeq(Prompt[r], 1, i)
               /\ Len(SubSeq(Prompt[r], 1, i)) = i
               /\ i \in 1 .. Len(Prompt[r])
  <1> DEFINE n == (c + 1) * Factor
  <1>1. Prompt[r] \in Seq(Range(Prompt[r])) /\ Factor \in Nat \ {0}
    BY EventsAssumption
  <1>2. n \in Nat /\ n >= Factor /\ n <= Len(Prompt[r]) /\ Len(Prompt[r]) \in Nat
    <2>1. \A a \in Nat, f \in Nat : (a + 1) * f \in Nat /\ (a + 1) * f >= f
      OBVIOUS
    <2>2. c \in Nat
      BY ChunksType
    <2> QED BY <1>1, <2>1, <2>2, ChunksType
  <1>3. Key(r, c) = SubSeq(Prompt[r], 1, n)
    BY DEF Key
  <1> HIDE DEF n
  <1>4. ASSUME NEW i \in 1 .. n PROVE Len(SubSeq(Prompt[r], 1, i)) = i
    <2>1. \A m \in 1 .. i : Prompt[r][m] \in Range(Prompt[r])
      BY <1>1, <1>2, ElementOfSeq
    <2>2. Len(SubSeq(Prompt[r], 1, i)) = IF 1 <= i THEN i - 1 + 1 ELSE 0
      BY <1>2, <2>1, SubSeqProperties
    <2> QED BY <2>2
  <1>5. Len(Key(r, c)) = n
    BY <1>1, <1>2, <1>3, <1>4
  <1>6. ASSUME NEW i \in 1 .. n PROVE SubSeq(Key(r, c), 1, i) = SubSeq(Prompt[r], 1, i)
    <2>1. 1 \in 1 .. Len(Prompt[r]) /\ n \in 1 .. Len(Prompt[r])
      BY <1>1, <1>2
    <2>2. 1 \in 1 .. n - 1 + 1 /\ i \in 1 .. n - 1 + 1
      BY <1>2
    <2>3. SubSeq(SubSeq(Prompt[r], 1, n), 1, i) = SubSeq(Prompt[r], 1 + 1 - 1, 1 + i - 1)
      BY <1>1, <2>1, <2>2, SubSeqOfSubSeq
    <2>4. 1 + 1 - 1 = 1 /\ 1 + i - 1 = i
      OBVIOUS
    <2> QED BY <1>3, <2>3, <2>4
  <1>7. \A i \in 1 .. n : i \in 1 .. Len(Prompt[r])
    BY <1>2
  <1> QED BY <1>2, <1>4, <1>5, <1>6, <1>7 DEF n

\* A key is the prefix of its last block, its hashes are hashes of its prompt,
\* and so is its parent if it has one.
LEMMA HashesOfKey ==
  ASSUME NEW k \in Keys
  PROVE  /\ k \in Hashes
         /\ BlockHashes(k) \subseteq Hashes
         /\ ParentBlockHash(k) # <<>> => ParentBlockHash(k) \in Hashes
  <1>r. PICK r \in Requests : \E c \in 0 .. Chunks(r) - 1 : k = Key(r, c)
    BY DEF Keys
  <1>1. PICK c \in 0 .. Chunks(r) - 1 : k = Key(r, c)
    BY <1>r
  <1> DEFINE n == (c + 1) * Factor
  <1>2. Factor \in Nat \ {0} /\ n \in Nat /\ n >= Factor /\ Len(k) = n
    BY <1>1, EventsAssumption, KeyIsPrefix
  <1>3. \A i \in 1 .. n : SubSeq(k, 1, i) = SubSeq(Prompt[r], 1, i) /\ i \in 1 .. Len(Prompt[r])
    BY <1>1, KeyIsPrefix
  <1>4. k = SubSeq(Prompt[r], 1, n)
    BY <1>1 DEF Key
  <1> HIDE DEF n
  <1>5. \A i \in 1 .. n : SubSeq(k, 1, i) \in Hashes
    BY <1>3 DEF Hashes
  <1>6. k \in Hashes
    <2>1. n \in 1 .. n
      BY <1>2
    <2> QED BY <1>3, <1>4, <1>5, <2>1
  <1>7. BlockHashes(k) \subseteq Hashes
    <2>1. \A i \in n - Factor + 1 .. n : i \in 1 .. n
      BY <1>2
    <2>2. \A i \in n - Factor + 1 .. n : SubSeq(k, 1, i) \in Hashes
      BY <1>5, <2>1
    <2> QED BY <1>2, <2>2 DEF BlockHashes
  <1>8. ASSUME ParentBlockHash(k) # <<>> PROVE ParentBlockHash(k) \in Hashes
    <2>1. n - Factor \in Int /\ n - Factor <= n
      BY <1>2
    <2>2. n - Factor < 1 => SubSeq(k, 1, n - Factor) = <<>>
      BY <2>1, SubSeqEmpty
    <2>3. n - Factor \in 1 .. n
      BY <1>2, <1>8, <2>1, <2>2 DEF ParentBlockHash
    <2> QED BY <1>2, <1>5, <2>3 DEF ParentBlockHash
  <1> QED BY <1>6, <1>7, <1>8

\* The last hash of a chunk is its key, and no other chunk has that hash: the
\* hashes of a chunk that are keys are its own.
LEMMA TailIsOwn ==
  ASSUME NEW k \in Keys
  PROVE  /\ k \in BlockHashes(k)
         /\ \A h \in BlockHashes(k) \cap Keys : h = k
  <1>r. PICK r \in Requests : \E c \in 0 .. Chunks(r) - 1 : k = Key(r, c)
    BY DEF Keys
  <1>1. PICK c \in 0 .. Chunks(r) - 1 : k = Key(r, c)
    BY <1>r
  <1>2. /\ Factor \in Nat \ {0} /\ (c + 1) * Factor \in Nat /\ (c + 1) * Factor >= Factor
        /\ Len(k) = (c + 1) * Factor /\ c \in Nat
    BY <1>1, EventsAssumption, ChunksType, KeyIsPrefix
  <1>3. k = SubSeq(k, 1, Len(k))
    BY <1>1, <1>2, KeyIsPrefix DEF Key
  <1>4. k \in BlockHashes(k)
    BY <1>2, <1>3 DEF BlockHashes
  <1>5. ASSUME NEW h \in BlockHashes(k) \cap Keys PROVE h = k
    <2>1. PICK i \in Len(k) - Factor + 1 .. Len(k) : h = SubSeq(k, 1, i)
      BY <1>5 DEF BlockHashes
    <2>2. i \in 1 .. (c + 1) * Factor
      BY <1>2
    <2>3. Len(h) = i
      BY <1>1, <2>1, <2>2, KeyIsPrefix
    <2>4. PICK q \in Requests : \E d \in 0 .. Chunks(q) - 1 : h = Key(q, d)
      BY <1>5 DEF Keys
    <2>5. PICK d \in 0 .. Chunks(q) - 1 : h = Key(q, d)
      BY <2>4
    <2>6. i = (d + 1) * Factor /\ d \in Nat
      BY <2>3, <2>5, ChunksType, KeyIsPrefix
    <2>7. ASSUME NEW f \in Nat, NEW a \in Nat, NEW b \in Nat,
                 (a + 1) * f <= (b + 1) * f, (a + 1) * f > (b + 1) * f - f
          PROVE  a = b
      <3>1. a * f < (b + 1) * f /\ b * f < (a + 1) * f
        BY <2>7
      <3>2. \A m, n \in Nat : m <= n => m * f <= n * f
        OBVIOUS
      <3>3. ~(b + 1 <= a) /\ ~(a + 1 <= b)
        <4>1. /\ b + 1 <= a => (b + 1) * f <= a * f
              /\ a + 1 <= b => (a + 1) * f <= b * f
          BY <3>2
        <4>2. a * f \in Nat /\ b * f \in Nat /\ (a + 1) * f \in Nat /\ (b + 1) * f \in Nat
          OBVIOUS
        <4> QED BY <3>1, <4>1, <4>2
      <3> QED BY <3>3
    <2>8. d = c
      BY <1>2, <2>1, <2>6, <2>7
    <2> QED BY <1>2, <1>3, <2>1, <2>6, <2>8
  <1> QED BY <1>4, <1>5

\* The parent of a chunk is the chunk before it, and the first has none.
LEMMA ParentIsPrevious ==
  ASSUME NEW r \in Requests, NEW c \in 0 .. Chunks(r) - 1
  PROVE  ParentBlockHash(Key(r, c)) = IF c = 0 THEN <<>> ELSE Key(r, c - 1)
  <1>1. Factor \in Nat \ {0} /\ c \in Nat /\ Len(Key(r, c)) = (c + 1) * Factor
    BY EventsAssumption, ChunksType, KeyIsPrefix
  <1>2. (c + 1) * Factor - Factor = c * Factor /\ c * Factor \in Nat
    <2>1. \A a, f \in Nat : (a + 1) * f - f = a * f /\ a * f \in Nat
      OBVIOUS
    <2> QED BY <1>1, <2>1
  <1>3. ParentBlockHash(Key(r, c)) = SubSeq(Key(r, c), 1, c * Factor)
    BY <1>1, <1>2 DEF ParentBlockHash
  <1>4. CASE c = 0
    <2>1. c * Factor = 0
      BY <1>1, <1>4
    <2> QED BY <1>3, <1>4, <2>1, SubSeqEmpty
  <1>5. CASE c # 0
    <2>1. c - 1 + 1 = c
      BY <1>1
    <2>2. Key(r, c - 1) = SubSeq(Prompt[r], 1, c * Factor)
      BY <2>1 DEF Key
    <2>3. c * Factor \in 1 .. (c + 1) * Factor
      <3>1. \A a, f \in Nat : a > 0 /\ f > 0 => a * f >= 1 /\ a * f <= (a + 1) * f
        OBVIOUS
      <3>2. (c + 1) * Factor \in Nat
        BY KeyIsPrefix
      <3> QED BY <1>1, <1>2, <1>5, <3>1, <3>2
    <2>4. SubSeq(Key(r, c), 1, c * Factor) = SubSeq(Prompt[r], 1, c * Factor)
      BY <2>3, KeyIsPrefix
    <2> QED BY <1>3, <1>5, <2>2, <2>4
  <1> QED BY <1>4, <1>5

\* There are finitely many keys.
LEMMA FinitelyManyKeys == IsFiniteSet(Keys)
  <1> DEFINE K(r) == {Key(r, c) : c \in 0 .. Chunks(r) - 1}
             f    == [r \in Requests |-> K(r)]
             KK   == {K(r) : r \in Requests}
  <1>1. ASSUME NEW r \in Requests PROVE IsFiniteSet(K(r))
    <2> DEFINE g == [c \in 0 .. Chunks(r) - 1 |-> Key(r, c)]
    <2>1. IsFiniteSet(0 .. Chunks(r) - 1)
      BY ChunksType, FS_Interval
    <2>2. g \in Surjection(0 .. Chunks(r) - 1, K(r))
      BY Fun_IsSurj
    <2> HIDE DEF g, K
    <2> QED BY <2>1, <2>2, FS_Surjection
  <1>2. f \in Surjection(Requests, KK)
    BY Fun_IsSurj
  <1>3. IsFiniteSet(Requests)
    BY EventsAssumption
  <1>4. \A T \in KK : IsFiniteSet(T)
    BY <1>1
  <1>5. IsFiniteSet(KK)
    <2> HIDE DEF f, KK
    <2> QED BY <1>2, <1>3, FS_Surjection
  <1>6. Keys = UNION KK
    BY DEF Keys
  <1> HIDE DEF KK
  <1> QED BY <1>4, <1>5, <1>6, FS_UNION

-----------------------------------------------------------------------------
(***************************************************************************)
(* Type correctness.                                                       *)
(***************************************************************************)
\* What prepare_store evicts was ready.
LEMMA EvictionsType ==
  ASSUME TypeOK, NEW new, NEW evicted \in Evictions(new)
  PROVE  evicted \subseteq ready /\ stores # MaxStores
  BY DEF Evictions, kSubset

\* What a request offers are keys.
LEMMA OfferedType ==
  ASSUME TypeOK, NEW r \in Requests, NEW end \in 0 .. Chunks(r)
  PROVE  {Key(r, c) : c \in nextStored[r] .. end - 1} \subseteq Keys
  <1>1. nextStored[r] \in Nat /\ Chunks(r) \in Nat
    BY ChunksType DEF TypeOK
  <1>2. \A c \in nextStored[r] .. end - 1 : c \in 0 .. Chunks(r) - 1
    BY <1>1
  <1> QED BY <1>2, KeyType

\* Chunks of an event are counted by natural numbers.
LEMMA CountType ==
  ASSUME NEW S \in SUBSET Keys
  PROVE  Cardinality(S) \in Nat
  BY FinitelyManyKeys, FS_Subset, FS_CardinalityType

\* A visit of _build_store_jobs keeps the types.
LEMMA StoreJobsType ==
  ASSUME TypeOK, NEW r \in Requests, NEW end \in 0 .. Chunks(r), StoreJobs(r, end)
  PROVE  TypeOK'
  <1> DEFINE new  == {Key(r, c) : c \in nextStored[r] .. end - 1}
             keys == new \ Held
  <1>1. new \subseteq Keys
    BY OfferedType
  <1>2. end \in Nat
    BY ChunksType
  <1>3. Advanced(r, end) \in [Requests -> Nat] /\ AfterRefusal(r, end) \in [Requests -> Nat]
    BY <1>2 DEF TypeOK, Advanced, AfterRefusal
  <1>4. /\ toStore' \subseteq Requests /\ nextStored' \in [Requests -> Nat]
        /\ UNCHANGED <<pc, steps, resets, consumerVars>>
    BY <1>3 DEF StoreJobs, TypeOK, poolVars
  <1>5. CASE UNCHANGED <<payloads, poolVars, events, overtaken>>
    BY <1>4, <1>5 DEF TypeOK, poolVars, consumerVars
  <1>6. ASSUME NEW evicted \in Evictions(new), IssueStore(new, keys, evicted) PROVE TypeOK'
    <2>1. evicted \subseteq ready /\ stores # MaxStores
      BY EvictionsType
    <2>2. stores' \in 0 .. MaxStores
      BY <1>6, <2>1, EventsAssumption DEF IssueStore, TypeOK
    <2>3. storing' \subseteq Stores
      BY <1>1, <1>6 DEF IssueStore, TypeOK, Stores
    <2>4. Event(TRUE, evicted) \in Events
      BY <2>1 DEF Event, Events, TypeOK
    <2>5. events' \in Seq(Events)
      BY <1>6, <2>4, AppendProperties DEF IssueStore, TypeOK
    <2>6. payloads' \subseteq Keys /\ ready' \subseteq Keys /\ overtaken' \in BOOLEAN
      BY <1>1, <1>6 DEF IssueStore, PayloadsWith, TypeOK
    <2> QED BY <1>4, <2>2, <2>3, <2>5, <2>6 DEF TypeOK, Stores, consumerVars
  <1> QED BY <1>5, <1>6 DEF StoreJobs

\* Taking an event keeps the types.
LEMMA TakeEventType ==
  ASSUME TypeOK, TakeEvent
  PROVE  TypeOK'
  <1> DEFINE e == Head(events)
  <1>1. e \in Events /\ events' \in Seq(Events)
    BY HeadTailProperties DEF TakeEvent, TypeOK
  <1>2. e.keys \subseteq Keys
    BY <1>1 DEF Events
  <1> HIDE DEF e
  <1>3. payloads' \subseteq Keys /\ UNCHANGED <<engineVars, nextStored, poolVars, overtaken>>
    BY DEF TakeEvent, TypeOK
  <1>4. ASSUME ConsumeStored(e)
        PROVE  live' \in [Hashes -> Nat] /\ seen' \subseteq Hashes /\ parents' \subseteq Hashes
    <2>1. \A h \in Hashes : Cardinality({k \in Announced(e) : h \in StoredHashes(k)}) \in Nat
      BY <1>2, CountType DEF Announced, StoredHashes
    <2>2. live' \in [Hashes -> Nat]
      BY <1>4, <2>1 DEF ConsumeStored, TypeOK
    <2>3. Announced(e) \subseteq Keys
      BY <1>2 DEF Announced
    <2>4. seen' \subseteq Hashes /\ parents' \subseteq Hashes
      BY <1>4, <2>3, HashesOfKey DEF ConsumeStored, StoredHashes, TypeOK
    <2> QED BY <2>2, <2>4
  <1>5. ASSUME ConsumeRemoved(e)
        PROVE  live' \in [Hashes -> Nat] /\ seen' \subseteq Hashes /\ parents' \subseteq Hashes
    <2> DEFINE named(h) == Cardinality({k \in e.keys : h \in RemovedHashes(k)})
    <2>1. \A h \in Hashes : named(h) \in Nat
      BY <1>2, CountType
    <2>2. live' = [h \in Hashes |-> IF live[h] > named(h) THEN live[h] - named(h) ELSE 0]
      BY <1>5 DEF ConsumeRemoved
    <2> HIDE DEF named
    <2>3. live' \in [Hashes -> Nat]
      BY <2>1, <2>2 DEF TypeOK
    <2> QED BY <1>5, <2>3 DEF ConsumeRemoved, TypeOK
  <1>6. live' \in [Hashes -> Nat] /\ seen' \subseteq Hashes /\ parents' \subseteq Hashes
    BY <1>4, <1>5 DEF TakeEvent, e
  <1> QED BY <1>1, <1>3, <1>6 DEF TypeOK, engineVars, poolVars

\* Every step keeps the types.
LEMMA EventsNextType ==
  ASSUME TypeOK, [Next]_vars
  PROVE  TypeOK'
  <1> USE DEF TypeOK
  <1>1. ASSUME NEW scheduled \in SUBSET Requests, StartStep(scheduled) PROVE TypeOK'
    <2>1. storing' \subseteq Stores
      <3>1. \A s \in Stores : [s EXCEPT !.age = IF @ < 2 THEN @ + 1 ELSE 2] \in Stores
        BY DEF Stores
      <3>2. storing \subseteq Stores
        BY DEF Stores
      <3>3. storing' = {[s EXCEPT !.age = IF @ < 2 THEN @ + 1 ELSE 2] : s \in storing}
        BY <1>1 DEF StartStep
      <3> QED BY <3>1, <3>2, <3>3
    <2>2. steps' \in 0 .. 2
      BY <1>1 DEF StartStep
    <2> QED BY <1>1, <2>1, <2>2 DEF StartStep, Stores, consumerVars
  <1>2. ASSUME NEW r \in Requests, NEW c \in 0 .. Chunks(r), LoadHit(r, c) PROVE TypeOK'
    <2>1. c \in Nat
      BY ChunksType
    <2> QED BY <1>2, <2>1 DEF LoadHit, engineVars, poolVars, consumerVars
  <1>3. ASSUME NEW r \in Requests, NEW c \in 0 .. Chunks(r), StoreJobs(r, c) PROVE TypeOK'
    BY <1>3, StoreJobsType
  <1>4. CASE EndConnectorMeta
    BY <1>4 DEF EndConnectorMeta, poolVars, consumerVars
  <1>5. CASE TakeOutput
    BY <1>5 DEF TakeOutput, poolVars, consumerVars
  <1>6. ASSUME NEW s \in storing, CompleteStore(s) PROVE TypeOK'
    <2>1. Event(FALSE, s.keys) \in Events /\ s.keys \subseteq Keys
      BY DEF Event, Events
    <2>2. events' \in Seq(Events)
      BY <1>6, <2>1, AppendProperties DEF CompleteStore
    <2> QED BY <1>6, <2>1, <2>2 DEF CompleteStore, engineVars, consumerVars
  <1>7. CASE BeginDrain
    BY <1>7 DEF BeginDrain, poolVars, consumerVars
  <1>8. CASE TakeEvent
    BY <1>8, TakeEventType
  <1>9. CASE EndDrain
    BY <1>9 DEF EndDrain, poolVars, consumerVars
  <1>10. CASE ResetCache
    <2>1. events' \in Seq(Events)
      <3>1. events' = events \/ events' = <<>>
        BY <1>10 DEF ResetCache
      <3>2. <<>> \in Seq(Events) /\ events \in Seq(Events)
        OBVIOUS
      <3> QED BY <3>1, <3>2
    <2>2. storing' = {} /\ ready' = {} /\ payloads' = {}
      BY <1>10 DEF ResetCache, PayloadsAfterReset
    <2>3. nextStored' \in [Requests -> Nat]
      BY <1>10 DEF ResetCache
    <2>4. resets' \in 0 .. MaxResets
      BY <1>10, EventsAssumption DEF ResetCache
    <2>5. UNCHANGED <<pc, steps, toStore, stores, live, seen, parents, overtaken>>
      BY <1>10 DEF ResetCache, engineVars, consumerVars
    <2> QED BY <2>1, <2>3, <2>4, <2>5, <2>2
  <1>11. CASE UNCHANGED vars
    BY <1>11 DEF vars, engineVars, poolVars, consumerVars
  <1> QED
    BY <1>1, <1>2, <1>3, <1>4, <1>5, <1>6, <1>7, <1>8, <1>9, <1>10, <1>11 DEF Next

\* The types are kept in every state: events name chunks of requests' prompts,
\* the consumer's index holds hashes of blocks of them, and its reference counts
\* are never negative.
THEOREM EventsTypeCorrect == Spec => []TypeOK
  <1>1. ASSUME Init PROVE TypeOK
    <2>1. /\ nextStored \in [Requests -> Nat] /\ live \in [Hashes -> Nat]
          /\ events \in Seq(Events) /\ storing = {}
      BY <1>1 DEF Init
    <2>2. stores \in 0 .. MaxStores /\ resets \in 0 .. MaxResets /\ steps \in 0 .. 2
      BY <1>1, EventsAssumption DEF Init
    <2> QED BY <1>1, <2>1, <2>2 DEF Init, TypeOK
  <1> QED BY <1>1, EventsNextType, PTL DEF Spec

-----------------------------------------------------------------------------
(***************************************************************************)
(* The side table.                                                         *)
(***************************************************************************)
\* An event appended to the manager's list awaits to be taken, and the others
\* still do.
LEMMA AwaitingAppend ==
  ASSUME events \in Seq(Events), NEW e \in Events, events' = Append(events, e)
  PROVE  /\ Awaiting(FALSE) \subseteq Awaiting(FALSE)'
         /\ ~e.removed => e.keys \subseteq Awaiting(FALSE)'
  <1>1. /\ \A i \in 1 .. Len(events) : i \in DOMAIN events' /\ events'[i] = events[i]
        /\ Len(events) + 1 \in DOMAIN events' /\ events'[Len(events) + 1] = e
    BY AppendProperties
  <1>2. Range(events) \subseteq Range(events)' /\ e \in Range(events)'
    BY <1>1 DEF Range
  <1>3. e.removed \in BOOLEAN
    BY DEF Events
  <1> QED BY <1>2, <1>3 DEF Awaiting

\* An event leaves the list when it is taken, and no other does.
LEMMA AwaitingTail ==
  ASSUME events \in Seq(Events), events # <<>>, events' = Tail(events)
  PROVE  Awaiting(FALSE) \subseteq Awaiting(FALSE)' \cup Head(events).keys
  <1>1. /\ Len(events') = Len(events) - 1 /\ events' \in Seq(Events)
        /\ \A i \in 1 .. Len(events') : events'[i] = events[i + 1]
    BY HeadTailProperties
  <1>2. ASSUME NEW i \in 1 .. Len(events), i # 1 PROVE events[i] \in Range(events)'
    <2>1. i - 1 \in 1 .. Len(events')
      BY <1>1, <1>2
    <2>2. events'[i - 1] = events[i - 1 + 1] /\ i - 1 + 1 = i
      BY <1>1, <2>1
    <2>3. DOMAIN events' = 1 .. Len(events')
      BY <1>1
    <2> QED BY <2>1, <2>2, <2>3 DEF Range
  <1>3. Head(events) = events[1]
    OBVIOUS
  <1>4. \A e \in Range(events) : e = Head(events) \/ e \in Range(events)'
    BY <1>2, <1>3 DEF Range
  <1> QED BY <1>4 DEF Awaiting

\* Every step keeps the side table within the stores under way.
LEMMA PayloadsNext ==
  ASSUME TypeOK, PayloadsBelongToStores, [Next]_vars
  PROVE  PayloadsBelongToStores'
  <1> USE DEF PayloadsBelongToStores
  <1>1. ASSUME UNCHANGED <<payloads, events, storing>> PROVE PayloadsBelongToStores'
    BY <1>1 DEF KeysInFlight, Awaiting
  <1>2. ASSUME NEW scheduled \in SUBSET Requests, StartStep(scheduled)
        PROVE  PayloadsBelongToStores'
    <2>1. UNCHANGED <<payloads, events>>
      BY <1>2 DEF StartStep
    <2>2. ASSUME NEW s \in storing PROVE \E t \in storing' : t.keys = s.keys
      <3> DEFINE t == [s EXCEPT !.age = IF @ < 2 THEN @ + 1 ELSE 2]
      <3>1. t \in storing'
        BY <1>2 DEF StartStep
      <3>2. t.keys = s.keys
        BY DEF TypeOK
      <3> HIDE DEF t
      <3> QED BY <3>1, <3>2
    <2>3. KeysInFlight \subseteq KeysInFlight'
      BY <2>2 DEF KeysInFlight
    <2> QED BY <2>1, <2>3 DEF Awaiting
  <1>3. ASSUME NEW r \in Requests, NEW end \in 0 .. Chunks(r), StoreJobs(r, end)
        PROVE  PayloadsBelongToStores'
    <2> DEFINE new  == {Key(r, c) : c \in nextStored[r] .. end - 1}
               keys == new \ Held
    <2>1. ASSUME NEW evicted \in Evictions(new), IssueStore(new, keys, evicted)
          PROVE  PayloadsBelongToStores'
      <3>1. KeysInFlight' = KeysInFlight \cup keys
        <4> DEFINE s == [keys |-> keys, age |-> 0]
        <4>1. storing' = storing \cup {s} /\ s.keys = keys
          BY <2>1 DEF IssueStore
        <4> HIDE DEF s, keys
        <4> QED BY <4>1 DEF KeysInFlight
      <3>2. payloads' = payloads \cup keys
        BY <2>1 DEF IssueStore, PayloadsWith
      <3>3. Awaiting(FALSE) \subseteq Awaiting(FALSE)'
        <4>1. Event(TRUE, evicted) \in Events
          BY EvictionsType DEF Event, Events, TypeOK
        <4>2. CASE events' = events
          BY <4>2 DEF Awaiting
        <4>3. CASE events' = Append(events, Event(TRUE, evicted))
          BY <4>1, <4>3, AwaitingAppend DEF TypeOK
        <4> QED BY <2>1, <4>2, <4>3 DEF IssueStore
      <3> QED BY <3>1, <3>2, <3>3
    <2> QED BY <1>1, <1>3, <2>1 DEF StoreJobs, poolVars
  <1>4. ASSUME NEW s \in storing, CompleteStore(s) PROVE PayloadsBelongToStores'
    <2>1. Event(FALSE, s.keys) \in Events /\ events' = Append(events, Event(FALSE, s.keys))
      BY <1>4 DEF CompleteStore, Event, Events, TypeOK
    <2>2. Awaiting(FALSE) \cup s.keys \subseteq Awaiting(FALSE)'
      BY <2>1, AwaitingAppend DEF TypeOK, Event
    <2>3. KeysInFlight \subseteq KeysInFlight' \cup s.keys /\ payloads' = payloads
      BY <1>4 DEF CompleteStore, KeysInFlight
    <2> QED BY <2>2, <2>3
  <1>5. CASE TakeEvent
    <2>1. payloads' = payloads \ Head(events).keys /\ storing' = storing
      BY <1>5 DEF TakeEvent, poolVars
    <2>2. Awaiting(FALSE) \subseteq Awaiting(FALSE)' \cup Head(events).keys
      BY <1>5, AwaitingTail DEF TakeEvent, TypeOK
    <2> QED BY <2>1, <2>2 DEF KeysInFlight
  <1>6. CASE ResetCache
    BY <1>6 DEF ResetCache, PayloadsAfterReset
  <1> QED
    BY <1>1, <1>2, <1>3, <1>4, <1>5, <1>6
    DEF Next, LoadHit, EndConnectorMeta, TakeOutput, BeginDrain, EndDrain, vars, poolVars

\* The side table holds a payload only for a chunk that is being stored or whose
\* stored event is still to be taken: for any number of requests, prompts and
\* resets, in any order of stores, evictions and reports, it leaks nothing.
THEOREM SideTableBounded == Spec => []PayloadsBelongToStores
  <1>1. Init => PayloadsBelongToStores
    BY DEF Init, PayloadsBelongToStores
  <1> QED BY <1>1, EventsTypeCorrect, PayloadsNext, PTL DEF Spec

-----------------------------------------------------------------------------
(***************************************************************************)
(* The events that wait to be taken, by their places in the list, and what *)
(* each step of the connector and the manager makes of them.               *)
(***************************************************************************)
Places(rem, k)   == {i \in 1 .. Len(events) : events[i].removed = rem /\ k \in events[i].keys}
Announcements(k) == Places(FALSE, k)
Removals(k)      == Places(TRUE, k)

\* What is left of places when the first is taken.
MovedUp(S) == {i \in Nat : i >= 1 /\ i + 1 \in S}

\* A chunk awaits to be announced or removed at some place of the list.
LEMMA AwaitingPlace ==
  ASSUME events \in Seq(Events), NEW rem, NEW k
  PROVE  k \in Awaiting(rem) <=> Places(rem, k) # {}
  <1>1. DOMAIN events = 1 .. Len(events) /\ Len(events) \in Nat
    OBVIOUS
  <1>2. Range(events) = {events[i] : i \in 1 .. Len(events)}
    BY <1>1 DEF Range
  <1>3. k \in Awaiting(rem) <=> \E e \in Range(events) : e.removed = rem /\ k \in e.keys
    BY DEF Awaiting
  <1> QED BY <1>1, <1>2, <1>3 DEF Places

\* Places are within the list.
LEMMA PlacesType ==
  ASSUME events \in Seq(Events), NEW k
  PROVE  /\ Len(events) + 1 \in Nat
         /\ Announcements(k) \subseteq 1 .. Len(events) /\ Removals(k) \subseteq 1 .. Len(events)
         /\ Announcements(k) \in SUBSET Nat /\ Removals(k) \in SUBSET Nat
         /\ \A i \in Announcements(k) \cup Removals(k) : i >= 1 /\ i < Len(events) + 1
         /\ Announcements(k) \cap Removals(k) = {}
  BY DEF Announcements, Removals, Places

\* The event appended comes last.
LEMMA PlacesAppend ==
  ASSUME events \in Seq(Events), NEW e \in Events, events' = Append(events, e),
         NEW rem, NEW k
  PROVE  Places(rem, k)' =
            IF e.removed = rem /\ k \in e.keys THEN Places(rem, k) \cup {Len(events) + 1}
            ELSE Places(rem, k)
  <1>1. /\ Len(events) \in Nat /\ Len(events') = Len(events) + 1
        /\ \A j \in 1 .. Len(events) : events'[j] = events[j]
        /\ events'[Len(events) + 1] = e
    BY AppendProperties
  <1> QED BY <1>1 DEF Places

\* The others move up when the first is taken.
LEMMA PlacesTail ==
  ASSUME events \in Seq(Events), events # <<>>, events' = Tail(events), NEW rem, NEW k
  PROVE  /\ Places(rem, k)' = MovedUp(Places(rem, k))
         /\ 1 \in Places(rem, k) <=> Head(events).removed = rem /\ k \in Head(events).keys
  <1>1. /\ Len(events) \in Nat /\ Len(events') = Len(events) - 1 /\ Len(events) >= 1
        /\ \A j \in 1 .. Len(events') : events'[j] = events[j + 1]
        /\ Head(events) = events[1]
    BY HeadTailProperties, EmptySeq
  <1>2. ASSUME NEW i \in Nat PROVE i \in Places(rem, k)' <=> i >= 1 /\ i + 1 \in Places(rem, k)
    BY <1>1 DEF Places
  <1>3. Places(rem, k)' \subseteq Nat
    BY <1>1 DEF Places
  <1> QED BY <1>1, <1>2, <1>3 DEF Places, MovedUp

\* Ageing leaves the keys of the stores in flight.
LEMMA AgedStores ==
  ASSUME TypeOK, NEW scheduled, StartStep(scheduled)
  PROVE  /\ KeysInFlight' = KeysInFlight
         /\ \A s \in storing' : \E t \in storing :
               s = [t EXCEPT !.age = IF @ < 2 THEN @ + 1 ELSE 2] /\ s.keys = t.keys
  <1> DEFINE Aged(t) == [t EXCEPT !.age = IF @ < 2 THEN @ + 1 ELSE 2]
  <1>1. storing' = {Aged(t) : t \in storing}
    BY DEF StartStep
  <1>2. \A t \in storing : Aged(t).keys = t.keys
    BY DEF TypeOK
  <1>3. KeysInFlight = UNION {t.keys : t \in storing} /\ KeysInFlight' = UNION {s.keys : s \in storing'}
    BY DEF KeysInFlight
  <1> HIDE DEF Aged
  <1>4. KeysInFlight' = KeysInFlight
    BY <1>1, <1>2, <1>3
  <1>5. \A s \in storing' : \E t \in storing : s = Aged(t) /\ s.keys = t.keys
    BY <1>1, <1>2
  <1> QED BY <1>4, <1>5 DEF Aged

\* What the manager evicts for new chunks is none of them.
LEMMA EvictionsApart ==
  ASSUME NEW new, NEW evicted \in Evictions(new)
  PROVE  evicted \subseteq ready \ new
  BY DEF Evictions, kSubset

\* A store is issued: its keys join the stores in flight, and what is evicted
\* awaits its removal.
LEMMA IssuedStore ==
  ASSUME TypeOK, NEW new \in SUBSET Keys, NEW evicted \in Evictions(new),
         IssueStore(new, new \ Held, evicted)
  PROVE  /\ evicted \subseteq ready \ new
         /\ KeysInFlight' = KeysInFlight \cup (new \ Held)
         /\ ready' = ready \ evicted
         /\ payloads' = payloads \cup (new \ Held)
         /\ \A k : Announcements(k)' = Announcements(k)
         /\ \A k : Removals(k)' = IF k \in evicted THEN Removals(k) \cup {Len(events) + 1}
                                  ELSE Removals(k)
  <1>1. evicted \subseteq ready \ new
    BY EvictionsApart
  <1>2. KeysInFlight' = KeysInFlight \cup (new \ Held)
    <2> DEFINE keys == new \ Held
               s    == [keys |-> keys, age |-> 0]
    <2>1. storing' = storing \cup {s} /\ s.keys = keys
      BY DEF IssueStore
    <2> HIDE DEF s, keys
    <2>2. KeysInFlight' = KeysInFlight \cup keys
      BY <2>1 DEF KeysInFlight
    <2> QED BY <2>2 DEF keys
  <1>3. ready' = ready \ evicted /\ payloads' = payloads \cup (new \ Held)
    BY DEF IssueStore, PayloadsWith
  <1>4. ASSUME NEW k
        PROVE  /\ Places(FALSE, k)' = Places(FALSE, k)
               /\ Places(TRUE, k)' = IF k \in evicted THEN Places(TRUE, k) \cup {Len(events) + 1}
                                     ELSE Places(TRUE, k)
    <2>1. CASE evicted = {}
      <3>1. events' = events
        BY <2>1 DEF IssueStore
      <3> QED BY <2>1, <3>1 DEF Places
    <2>2. CASE evicted # {}
      <3> DEFINE e == Event(TRUE, evicted)
      <3>1. e \in Events /\ e.removed = TRUE /\ e.keys = evicted
        BY <1>1 DEF Event, Events, TypeOK
      <3>2. events' = Append(events, e) /\ events \in Seq(Events)
        BY <2>2 DEF IssueStore, TypeOK
      <3> HIDE DEF e
      <3>3. \A rem : Places(rem, k)' =
               IF e.removed = rem /\ k \in e.keys THEN Places(rem, k) \cup {Len(events) + 1}
               ELSE Places(rem, k)
        BY <3>1, <3>2, PlacesAppend
      <3> QED BY <3>1, <3>3
    <2> QED BY <2>1, <2>2
  <1> QED BY <1>1, <1>2, <1>3, <1>4 DEF Announcements, Removals

\* A store completes: its chunks are ready, and await to be announced.
LEMMA CompletedStore ==
  ASSUME TypeOK, NEW s \in storing, CompleteStore(s)
  PROVE  /\ s.keys \subseteq Keys
         /\ storing' = storing \ {s}
         /\ ready' = ready \cup s.keys
         /\ UNCHANGED <<nextStored, payloads, resets, live, seen, parents, overtaken>>
         /\ \A k : Announcements(k)' = IF k \in s.keys THEN Announcements(k) \cup {Len(events) + 1}
                                       ELSE Announcements(k)
         /\ \A k : Removals(k)' = Removals(k)
  <1> DEFINE e == Event(FALSE, s.keys)
  <1>1. s.keys \subseteq Keys
    BY DEF TypeOK
  <1>2. e \in Events /\ e.removed = FALSE /\ e.keys = s.keys
    BY <1>1 DEF Event, Events
  <1>3. events' = Append(events, e) /\ events \in Seq(Events)
    BY DEF CompleteStore, TypeOK
  <1> HIDE DEF e
  <1>4. ASSUME NEW k
        PROVE  /\ Places(TRUE, k)' = Places(TRUE, k)
               /\ Places(FALSE, k)' = IF k \in s.keys THEN Places(FALSE, k) \cup {Len(events) + 1}
                                      ELSE Places(FALSE, k)
    <2>1. \A rem : Places(rem, k)' =
             IF e.removed = rem /\ k \in e.keys THEN Places(rem, k) \cup {Len(events) + 1}
             ELSE Places(rem, k)
      BY <1>2, <1>3, PlacesAppend
    <2> QED BY <1>2, <2>1
  <1> QED BY <1>1, <1>4 DEF CompleteStore, consumerVars, Announcements, Removals

\* An event is taken: the others move up, and the pool stays as it is.
LEMMA TakenEvent ==
  ASSUME TypeOK, TakeEvent
  PROVE  /\ UNCHANGED <<nextStored, storing, ready, resets, overtaken>>
         /\ KeysInFlight' = KeysInFlight
         /\ Head(events) \in Events
         /\ payloads' = payloads \ Head(events).keys
         /\ Head(events).removed => ConsumeRemoved(Head(events))
         /\ ~Head(events).removed => ConsumeStored(Head(events))
         /\ \A k : Announcements(k)' = MovedUp(Announcements(k))
         /\ \A k : Removals(k)' = MovedUp(Removals(k))
         /\ \A k : 1 \in Announcements(k) <=> ~Head(events).removed /\ k \in Head(events).keys
         /\ \A k : 1 \in Removals(k) <=> Head(events).removed /\ k \in Head(events).keys
  <1>1. events \in Seq(Events) /\ events # <<>> /\ events' = Tail(events)
    BY DEF TakeEvent, TypeOK
  <1>2. Head(events) \in Events
    BY <1>1, HeadTailProperties
  <1>3. Head(events).removed \in BOOLEAN
    BY <1>2 DEF Events
  <1>4. \A rem, k :
           /\ Places(rem, k)' = MovedUp(Places(rem, k))
           /\ 1 \in Places(rem, k) <=> Head(events).removed = rem /\ k \in Head(events).keys
    BY <1>1, PlacesTail
  <1> QED BY <1>2, <1>3, <1>4 DEF TakeEvent, poolVars, KeysInFlight, Announcements, Removals

\* The last hash of a chunk is counted for the events of that chunk alone: once
\* for a removal, and once for an announcement with a payload.
LEMMA TailCounted ==
  ASSUME TypeOK, TakeEvent, NEW k \in Keys
  PROVE  LET e == Head(events)
         IN  live'[k] = IF k \notin e.keys THEN live[k]
                        ELSE IF e.removed THEN (IF live[k] > 1 THEN live[k] - 1 ELSE 0)
                        ELSE IF k \in payloads THEN live[k] + 1 ELSE live[k]
  <1> DEFINE e == Head(events)
  <1>1. e.keys \subseteq Keys /\ k \in Hashes /\ live[k] \in Nat
    BY TakenEvent, HashesOfKey DEF Events, TypeOK
  <1>2. Cardinality({k}) = 1 /\ Cardinality({}) = 0
    BY FS_Singleton, FS_EmptySet
  <1>3. ASSUME e.removed
        PROVE  live'[k] = IF k \notin e.keys THEN live[k]
                          ELSE IF live[k] > 1 THEN live[k] - 1 ELSE 0
    <2> DEFINE N == {j \in e.keys : k \in RemovedHashes(j)}
    <2>1. \A j \in e.keys : k \in RemovedHashes(j) <=> j = k
      BY <1>1, TailIsOwn DEF RemovedHashes
    <2>2. N = IF k \in e.keys THEN {k} ELSE {}
      BY <2>1
    <2>3. live'[k] = IF live[k] > Cardinality(N) THEN live[k] - Cardinality(N) ELSE 0
      BY <1>1, <1>3, TakenEvent DEF ConsumeRemoved
    <2> HIDE DEF N, e
    <2> QED BY <1>1, <1>2, <2>2, <2>3
  <1>4. ASSUME ~e.removed
        PROVE  live'[k] = IF k \in e.keys \cap payloads THEN live[k] + 1 ELSE live[k]
    <2> DEFINE N == {j \in Announced(e) : k \in StoredHashes(j)}
    <2>1. \A j \in e.keys : k \in StoredHashes(j) <=> j = k
      BY <1>1, TailIsOwn DEF StoredHashes
    <2>2. N = IF k \in e.keys \cap payloads THEN {k} ELSE {}
      BY <2>1 DEF Announced
    <2>3. live'[k] = live[k] + Cardinality(N)
      BY <1>1, <1>4, TakenEvent DEF ConsumeStored
    <2> HIDE DEF N, e
    <2> QED BY <1>1, <1>2, <2>2, <2>3
  <1> QED BY <1>3, <1>4

-----------------------------------------------------------------------------
(***************************************************************************)
(* Announcements and removals of a chunk take turns.                       *)
(***************************************************************************)

\* The turns of a chunk announced at the places A and removed at the places R:
\* an announcement has its removal behind it unless the chunk is ready, one lies
\* between any two announcements, and one lies before an announcement of a chunk
\* that is counted.
Turns(A, R, isReady, count) ==
    /\ \A i \in A : isReady \/ \E j \in R : i < j
    /\ \A i \in A : \A j \in A : i < j => \E m \in R : i < m /\ m < j
    /\ \A i \in A : count = 0 \/ \E j \in R : j < i
    /\ count <= 1
    /\ count = 1 => isReady \/ R # {}

StoresAreApart ==
    \A k \in Keys : \A s \in storing : k \in s.keys =>
        /\ k \notin ready
        /\ \A t \in storing : k \in t.keys => t = s

TurnsTaken ==
    /\ StoresAreApart
    /\ \A k \in Keys : Turns(Announcements(k), Removals(k), k \in ready, live[k])

\* A removal behind everything ends the turn of a chunk that is ready.
LEMMA TurnsEvicted ==
  ASSUME NEW A \in SUBSET Nat, NEW R \in SUBSET Nat, NEW n \in Nat, NEW count \in Nat,
         \A i \in A \cup R : i < n, NEW wasReady, NEW isReady, Turns(A, R, wasReady, count)
  PROVE  Turns(A, R \cup {n}, isReady, count)
  BY DEF Turns

\* An announcement behind everything begins one of a chunk that is not ready.
LEMMA TurnsAnnounced ==
  ASSUME NEW A \in SUBSET Nat, NEW R \in SUBSET Nat, NEW n \in Nat, NEW count \in Nat,
         \A i \in A \cup R : i < n, Turns(A, R, FALSE, count)
  PROVE  Turns(A \cup {n}, R, TRUE, count)
  <1> DEFINE B == A \cup {n}
  <1>1. \A i \in B : \A j \in B : i < j => \E m \in R : i < m /\ m < j
    <2> SUFFICES ASSUME NEW i \in B, NEW j \in B, i < j PROVE \E m \in R : i < m /\ m < j
      OBVIOUS
    <2>1. i \in A /\ i < n
      OBVIOUS
    <2>2. CASE j \in A
      BY <2>1, <2>2 DEF Turns
    <2>3. CASE j = n
      <3>1. PICK m \in R : i < m
        BY <2>1 DEF Turns
      <3> QED BY <2>3, <3>1
    <2> QED BY <2>2, <2>3
  <1>2. \A i \in B : count = 0 \/ \E j \in R : j < i
    <2>1. count = 0 \/ count = 1
      BY DEF Turns
    <2>2. count = 1 => \E j \in R : j < n
      BY DEF Turns
    <2> QED BY <2>1, <2>2 DEF Turns
  <1>3. count <= 1
    BY DEF Turns
  <1> HIDE DEF B
  <1>4. Turns(B, R, TRUE, count)
    BY <1>1, <1>2, <1>3 DEF Turns
  <1> QED BY <1>4 DEF B

\* Taking the first event keeps them.
LEMMA TurnsMoved ==
  ASSUME NEW A \in SUBSET Nat, NEW R \in SUBSET Nat, NEW count \in Nat, NEW after \in Nat,
         \A i \in A \cup R : i >= 1, A \cap R = {}, NEW isReady, Turns(A, R, isReady, count),
         1 \in A => after \in {count, count + 1},
         1 \in R => after = IF count > 1 THEN count - 1 ELSE 0,
         1 \notin A \cup R => after = count
  PROVE  Turns(MovedUp(A), MovedUp(R), isReady, after)
  <1>1. \A i \in Nat : i \in MovedUp(A) <=> i >= 1 /\ i + 1 \in A
    BY DEF MovedUp
  <1>2. \A i \in Nat : i \in MovedUp(R) <=> i >= 1 /\ i + 1 \in R
    BY DEF MovedUp
  <1>3. MovedUp(A) \subseteq Nat /\ MovedUp(R) \subseteq Nat
    BY DEF MovedUp
  <1>4. \A j \in R : j > 1 => j - 1 \in MovedUp(R)
    <2> SUFFICES ASSUME NEW j \in R, j > 1 PROVE j - 1 \in MovedUp(R)
      OBVIOUS
    <2>1. j - 1 \in Nat /\ j - 1 >= 1 /\ j - 1 + 1 = j
      OBVIOUS
    <2> QED BY <1>2, <2>1
  <1>5. \A i \in MovedUp(A) : isReady \/ \E j \in MovedUp(R) : i < j
    <2> SUFFICES ASSUME NEW i \in MovedUp(A), ~isReady PROVE \E j \in MovedUp(R) : i < j
      OBVIOUS
    <2>1. i \in Nat /\ i + 1 \in A
      BY <1>1, <1>3
    <2>2. PICK j \in R : i + 1 < j
      BY <2>1 DEF Turns
    <2>3. j - 1 \in MovedUp(R) /\ i < j - 1
      BY <1>4, <2>1, <2>2
    <2> QED BY <2>3
  <1>6. \A i \in MovedUp(A) : \A j \in MovedUp(A) :
           i < j => \E m \in MovedUp(R) : i < m /\ m < j
    <2> SUFFICES ASSUME NEW i \in MovedUp(A), NEW j \in MovedUp(A), i < j
                 PROVE  \E m \in MovedUp(R) : i < m /\ m < j
      OBVIOUS
    <2>1. i \in Nat /\ i + 1 \in A /\ j \in Nat /\ j + 1 \in A /\ i + 1 < j + 1
      BY <1>1, <1>3
    <2>2. PICK m \in R : i + 1 < m /\ m < j + 1
      BY <2>1 DEF Turns
    <2>3. m - 1 \in MovedUp(R) /\ i < m - 1 /\ m - 1 < j
      BY <1>4, <2>1, <2>2
    <2> QED BY <2>3
  <1>7. \A i \in MovedUp(A) : after = 0 \/ \E j \in MovedUp(R) : j < i
    <2> SUFFICES ASSUME NEW i \in MovedUp(A) PROVE after = 0 \/ \E j \in MovedUp(R) : j < i
      OBVIOUS
    <2>1. i \in Nat /\ i >= 1 /\ i + 1 \in A
      BY <1>1, <1>3
    <2>2. ASSUME NEW j \in R, j < i + 1, j > 1 PROVE \E m \in MovedUp(R) : m < i
      <3>1. j - 1 \in MovedUp(R) /\ j - 1 < i
        BY <1>4, <2>1, <2>2
      <3> QED BY <3>1
    <2>3. CASE 1 \in A
      <3>1. 1 < i + 1
        BY <2>1
      <3>2. PICK j \in R : 1 < j /\ j < i + 1
        BY <2>1, <2>3, <3>1 DEF Turns
      <3> QED BY <2>2, <3>2
    <2>4. CASE 1 \in R
      BY <2>4 DEF Turns
    <2>5. CASE 1 \notin A \cup R
      <3>1. count = 0 \/ \E j \in R : j < i + 1
        BY <2>1 DEF Turns
      <3>2. \A j \in R : j > 1
        BY <2>5
      <3> QED BY <2>2, <2>5, <3>1, <3>2
    <2> QED BY <2>3, <2>4, <2>5
  <1>8. after <= 1 /\ (after = 1 => isReady \/ MovedUp(R) # {})
    <2>1. count <= 1
      BY DEF Turns
    <2>2. CASE 1 \in A
      <3>1. \A j \in R : ~(j < 1)
        OBVIOUS
      <3>2. count = 0
        BY <2>2, <3>1 DEF Turns
      <3>3. isReady \/ \E j \in R : 1 < j
        BY <2>2 DEF Turns
      <3> QED BY <1>4, <2>2, <3>2, <3>3
    <2>3. CASE 1 \in R
      BY <2>1, <2>3
    <2>4. CASE 1 \notin A \cup R
      <3>1. \A j \in R : j > 1
        BY <2>4
      <3> QED BY <1>4, <2>1, <2>4, <3>1 DEF Turns
    <2> QED BY <2>2, <2>3, <2>4
  <1> HIDE DEF MovedUp
  <1> QED BY <1>5, <1>6, <1>7, <1>8 DEF Turns

\* A step that leaves the list, the pool and the consumer keeps the turns.
LEMMA TurnsQuiet ==
  ASSUME TurnsTaken, UNCHANGED <<ready, events, live>>, StoresAreApart'
  PROVE  TurnsTaken'
  <1>1. \A k : Announcements(k)' = Announcements(k) /\ Removals(k)' = Removals(k)
    BY DEF Announcements, Removals, Places
  <1> QED BY <1>1 DEF TurnsTaken

\* Issuing a store keeps the turns: what is evicted was ready, so that its
\* removal follows its announcement.
LEMMA TurnsIssue ==
  ASSUME TypeOK, TurnsTaken, NEW new \in SUBSET Keys, NEW evicted \in Evictions(new),
         IssueStore(new, new \ Held, evicted), live' = live
  PROVE  TurnsTaken'
  <1> DEFINE keys == new \ Held
             s0   == [keys |-> keys, age |-> 0]
             n    == Len(events) + 1
  <1>1. /\ evicted \subseteq ready \ new /\ ready' = ready \ evicted
        /\ \A k : Announcements(k)' = Announcements(k)
        /\ \A k : Removals(k)' = IF k \in evicted THEN Removals(k) \cup {n} ELSE Removals(k)
    BY IssuedStore
  <1>2. StoresAreApart'
    <2>1. storing' = storing \cup {s0} /\ s0.keys = keys
      BY DEF IssueStore
    <2>2. \A k \in keys : k \notin ready /\ \A t \in storing : k \notin t.keys
      BY DEF Held, KeysInFlight
    <2> HIDE DEF s0, keys
    <2> QED BY <1>1, <2>1, <2>2 DEF TurnsTaken, StoresAreApart
  <1> HIDE DEF n, keys
  <1>3. ASSUME NEW k \in Keys
        PROVE  Turns(Announcements(k)', Removals(k)', (k \in ready)', live[k]')
    <2>1. Turns(Announcements(k), Removals(k), k \in ready, live[k])
      BY DEF TurnsTaken
    <2>2. CASE k \in evicted
      <3>1. /\ Announcements(k) \in SUBSET Nat /\ Removals(k) \in SUBSET Nat
            /\ n \in Nat /\ \A i \in Announcements(k) \cup Removals(k) : i < n
        BY PlacesType DEF TypeOK, n
      <3>2. live[k] \in Nat
        BY HashesOfKey DEF TypeOK
      <3>3. Turns(Announcements(k), Removals(k) \cup {n}, (k \in ready)', live[k])
        BY <2>1, <3>1, <3>2, TurnsEvicted
      <3> QED BY <1>1, <2>2, <3>3
    <2>3. CASE k \notin evicted
      <3>1. (k \in ready)' <=> k \in ready
        BY <1>1, <2>3
      <3>2. Turns(Announcements(k), Removals(k), (k \in ready)', live[k])
        BY <2>1, <3>1 DEF Turns
      <3> QED BY <1>1, <2>3, <3>2
    <2> QED BY <2>2, <2>3
  <1> QED BY <1>2, <1>3 DEF TurnsTaken

\* Completing a store keeps the turns: its chunks were not ready, so that every
\* earlier announcement of them has its removal behind it, and what the consumer
\* still counts of them awaits to be removed.
LEMMA TurnsComplete ==
  ASSUME TypeOK, TurnsTaken, NEW s \in storing, CompleteStore(s)
  PROVE  TurnsTaken'
  <1> DEFINE n == Len(events) + 1
  <1>1. /\ ready' = ready \cup s.keys /\ storing' = storing \ {s} /\ live' = live
        /\ \A k : Announcements(k)' = IF k \in s.keys THEN Announcements(k) \cup {n}
                                      ELSE Announcements(k)
        /\ \A k : Removals(k)' = Removals(k)
    BY CompletedStore
  <1>2. StoresAreApart'
    BY <1>1 DEF TurnsTaken, StoresAreApart
  <1> HIDE DEF n
  <1>3. ASSUME NEW k \in Keys
        PROVE  Turns(Announcements(k)', Removals(k)', (k \in ready)', live[k]')
    <2>1. Turns(Announcements(k), Removals(k), k \in ready, live[k])
      BY DEF TurnsTaken
    <2>2. CASE k \in s.keys
      <3>1. /\ Announcements(k) \in SUBSET Nat /\ Removals(k) \in SUBSET Nat
            /\ n \in Nat /\ \A i \in Announcements(k) \cup Removals(k) : i < n
        BY PlacesType DEF TypeOK, n
      <3>2. live[k] \in Nat /\ k \notin ready
        BY <2>2, HashesOfKey DEF TypeOK, TurnsTaken, StoresAreApart
      <3>3. Turns(Announcements(k) \cup {n}, Removals(k), TRUE, live[k])
        <4>1. Turns(Announcements(k), Removals(k), FALSE, live[k])
          BY <2>1, <3>2 DEF Turns
        <4> QED BY <3>1, <3>2, <4>1, TurnsAnnounced
      <3>4. (k \in ready)' <=> TRUE
        BY <1>1, <2>2
      <3>5. Turns(Announcements(k) \cup {n}, Removals(k), (k \in ready)', live[k])
        BY <3>3, <3>4 DEF Turns
      <3> QED BY <1>1, <2>2, <3>5
    <2>3. CASE k \notin s.keys
      <3>1. (k \in ready)' <=> k \in ready
        BY <1>1, <2>3
      <3>2. Turns(Announcements(k), Removals(k), (k \in ready)', live[k])
        BY <2>1, <3>1 DEF Turns
      <3> QED BY <1>1, <2>3, <3>2
    <2> QED BY <2>2, <2>3
  <1> QED BY <1>2, <1>3 DEF TurnsTaken

\* Taking an event keeps the turns.
LEMMA TurnsTake ==
  ASSUME TypeOK, TurnsTaken, TakeEvent
  PROVE  TurnsTaken'
  <1> DEFINE e == Head(events)
  <1>1. /\ ready' = ready /\ storing' = storing
        /\ \A k : Announcements(k)' = MovedUp(Announcements(k)) /\ Removals(k)' = MovedUp(Removals(k))
        /\ \A k : 1 \in Announcements(k) <=> ~e.removed /\ k \in e.keys
        /\ \A k : 1 \in Removals(k) <=> e.removed /\ k \in e.keys
        /\ e.removed \in BOOLEAN
    BY TakenEvent DEF Events
  <1>2. \A k \in Keys :
           /\ live[k] \in Nat
           /\ live'[k] = IF k \notin e.keys THEN live[k]
                         ELSE IF e.removed THEN (IF live[k] > 1 THEN live[k] - 1 ELSE 0)
                         ELSE IF k \in payloads THEN live[k] + 1 ELSE live[k]
    BY TailCounted, HashesOfKey DEF TypeOK
  <1> HIDE DEF e
  <1>3. StoresAreApart'
    BY <1>1 DEF TurnsTaken, StoresAreApart
  <1>4. ASSUME NEW k \in Keys
        PROVE  Turns(Announcements(k)', Removals(k)', (k \in ready)', live[k]')
    <2>1. Turns(Announcements(k), Removals(k), k \in ready, live[k])
      BY DEF TurnsTaken
    <2>2. /\ Announcements(k) \in SUBSET Nat /\ Removals(k) \in SUBSET Nat
          /\ \A i \in Announcements(k) \cup Removals(k) : i >= 1
          /\ Announcements(k) \cap Removals(k) = {}
      BY PlacesType DEF TypeOK
    <2>3. /\ live[k] \in Nat /\ live'[k] \in Nat
          /\ 1 \in Announcements(k) => live'[k] \in {live[k], live[k] + 1}
          /\ 1 \in Removals(k) => live'[k] = IF live[k] > 1 THEN live[k] - 1 ELSE 0
          /\ 1 \notin Announcements(k) \cup Removals(k) => live'[k] = live[k]
      BY <1>1, <1>2
    <2>4. Turns(MovedUp(Announcements(k)), MovedUp(Removals(k)), k \in ready, live'[k])
      BY <2>1, <2>2, <2>3, TurnsMoved
    <2> QED BY <1>1, <2>4
  <1> QED BY <1>3, <1>4 DEF TurnsTaken

\* Every step before the first reset_cache keeps the turns.
LEMMA TurnsNext ==
  ASSUME TypeOK, TurnsTaken, [Next]_vars, resets' = 0
  PROVE  TurnsTaken'
  <1>1. ASSUME UNCHANGED <<storing, ready, events, live>> PROVE TurnsTaken'
    BY <1>1, TurnsQuiet DEF TurnsTaken, StoresAreApart
  <1>2. ASSUME NEW scheduled \in SUBSET Requests, StartStep(scheduled) PROVE TurnsTaken'
    <2>1. UNCHANGED <<ready, events, live>>
      BY <1>2 DEF StartStep, consumerVars
    <2>2. StoresAreApart'
      <3>1. \A s \in storing' : \E t \in storing :
               s = [t EXCEPT !.age = IF @ < 2 THEN @ + 1 ELSE 2] /\ s.keys = t.keys
        BY <1>2, AgedStores
      <3> QED BY <2>1, <3>1 DEF TurnsTaken, StoresAreApart
    <2> QED BY <2>1, <2>2, TurnsQuiet
  <1>3. ASSUME NEW r \in Requests, NEW end \in 0 .. Chunks(r), StoreJobs(r, end)
        PROVE  TurnsTaken'
    <2> DEFINE new == {Key(r, c) : c \in nextStored[r] .. end - 1}
    <2>1. new \in SUBSET Keys /\ live' = live
      BY <1>3, OfferedType DEF StoreJobs, consumerVars
    <2>2. ASSUME NEW evicted \in Evictions(new), IssueStore(new, new \ Held, evicted)
          PROVE  TurnsTaken'
      <3> HIDE DEF new
      <3> QED BY <2>1, <2>2, TurnsIssue
    <2> QED BY <1>1, <1>3, <2>1, <2>2 DEF StoreJobs, poolVars
  <1>4. ASSUME NEW s \in storing, CompleteStore(s) PROVE TurnsTaken'
    BY <1>4, TurnsComplete
  <1>5. CASE TakeEvent
    BY <1>5, TurnsTake
  <1>6. CASE ResetCache
    <2>1. resets' = resets + 1 /\ resets \in Nat
      BY <1>6, EventsAssumption DEF ResetCache, TypeOK
    <2> QED BY <2>1
  <1> QED
    BY <1>1, <1>2, <1>3, <1>4, <1>5, <1>6
    DEF Next, LoadHit, EndConnectorMeta, TakeOutput, BeginDrain, EndDrain, vars, poolVars, consumerVars

\* What holds before the first reset_cache is kept by steps before it.
LEMMA ResetsOnly ==
  ASSUME TypeOK, [Next]_vars, resets' = 0
  PROVE  resets = 0
  <1>1. resets \in Nat
    BY EventsAssumption DEF TypeOK
  <1>2. CASE ResetCache
    BY <1>1, <1>2 DEF ResetCache
  <1>3. ASSUME NEW r \in Requests, NEW end \in 0 .. Chunks(r), StoreJobs(r, end)
        PROVE  resets' = resets
    BY <1>3 DEF StoreJobs, poolVars
  <1> QED
    BY <1>2, <1>3
    DEF Next, StartStep, LoadHit, EndConnectorMeta, TakeOutput, CompleteStore, BeginDrain,
        TakeEvent, EndDrain, vars, poolVars

TurnsUntilReset == resets = 0 => TurnsTaken

\* Before the first reset_cache, announcements and removals of a chunk take
\* turns, in any order of stores, evictions, reports and drains.
THEOREM TurnsCorrect == Spec => []TurnsUntilReset
  <1>1. ASSUME Init PROVE TurnsTaken
    <2>1. storing = {} /\ events = <<>> /\ \A h \in Hashes : live[h] = 0
      BY <1>1 DEF Init
    <2>2. \A k : Announcements(k) = {} /\ Removals(k) = {}
      BY <2>1 DEF Announcements, Removals, Places
    <2> QED BY <2>1, <2>2, HashesOfKey DEF TurnsTaken, StoresAreApart, Turns
  <1>2. ASSUME TypeOK, TurnsUntilReset, [Next]_vars PROVE TurnsUntilReset'
    <2> SUFFICES ASSUME resets' = 0 PROVE TurnsTaken'
      BY DEF TurnsUntilReset
    <2>1. resets = 0
      BY <1>2, ResetsOnly
    <2> QED BY <1>2, <2>1, TurnsNext DEF TurnsUntilReset
  <1> QED BY <1>1, <1>2, EventsTypeCorrect, PTL DEF Spec, TurnsUntilReset

\* The last hash of a chunk is credited only while the pool holds the chunk or
\* its removal is still to be taken, and never twice: for any number of requests,
\* prompts, evictions and stores, with and without payloads.
THEOREM TailsCorrect == Spec => []TailsNotOvercredited
  <1>1. ASSUME TypeOK, TurnsUntilReset PROVE TailsNotOvercredited
    <2> SUFFICES ASSUME resets = 0, NEW k \in Keys
                 PROVE  /\ live[k] <= 1
                        /\ live[k] = 1 => k \in ready \cup Awaiting(TRUE)
      BY DEF TailsNotOvercredited
    <2>1. Turns(Announcements(k), Removals(k), k \in ready, live[k])
      BY <1>1 DEF TurnsUntilReset, TurnsTaken
    <2>2. k \in Awaiting(TRUE) <=> Removals(k) # {}
      BY <1>1, AwaitingPlace DEF TypeOK, Removals
    <2> QED BY <2>1, <2>2 DEF Turns
  <1> QED BY <1>1, EventsTypeCorrect, TurnsCorrect, PTL

-----------------------------------------------------------------------------
(***************************************************************************)
(* Every chunk that was offered is known to the consumer, or will be.      *)
(***************************************************************************)
Known == seen \cup KeysInFlight \cup Awaiting(FALSE)

ReadyIsKnown == ready \subseteq seen \cup Awaiting(FALSE)

\* The first announcement of a chunk has its payload.
FirstHasPayload == KeysInFlight \cup Awaiting(FALSE) \subseteq seen \cup payloads

RemovedAfterStored ==
    \A k \in Keys : \A i \in Removals(k) : k \in seen \/ \E j \in Announcements(k) : j < i

OfferedIsKnown == \A r \in Requests : \A c \in Nat : c < nextStored[r] => Key(r, c) \in Known

ParentsKnown ==
    /\ \A k \in payloads : ParentBlockHash(k) # <<>> => ParentBlockHash(k) \in Known
    /\ parents \subseteq Known

AllKnown ==
    ReadyIsKnown /\ FirstHasPayload /\ RemovedAfterStored /\ OfferedIsKnown /\ ParentsKnown

\* The chunks that await an announcement, after each of the steps that change the
\* list.
LEMMA AwaitingNext ==
  ASSUME TypeOK, TypeOK'
  PROVE  /\ \A new \in SUBSET Keys : \A evicted \in Evictions(new) :
               IssueStore(new, new \ Held, evicted) => Awaiting(FALSE)' = Awaiting(FALSE)
         /\ \A s \in storing : CompleteStore(s) =>
               Awaiting(FALSE)' = Awaiting(FALSE) \cup s.keys
         /\ TakeEvent =>
               /\ Awaiting(FALSE)' \subseteq Awaiting(FALSE)
               /\ Awaiting(FALSE) \subseteq Awaiting(FALSE)' \cup Head(events).keys
               /\ ~Head(events).removed => Head(events).keys \subseteq Awaiting(FALSE)
  <1>1. \A k : /\ k \in Awaiting(FALSE) <=> Announcements(k) # {}
               /\ k \in Awaiting(FALSE)' <=> Announcements(k)' # {}
    <2>1. \A k : k \in Awaiting(FALSE) <=> Places(FALSE, k) # {}
      BY AwaitingPlace DEF TypeOK
    <2>2. (\A k : k \in Awaiting(FALSE) <=> Places(FALSE, k) # {})'
      <3>1. events' \in Seq(Events)
        BY DEF TypeOK
      <3>2. DOMAIN events' = 1 .. Len(events')
        BY <3>1
      <3>3. \A k : k \in Awaiting(FALSE)' <=>
               \E i \in DOMAIN events' : events'[i].removed = FALSE /\ k \in events'[i].keys
        BY DEF Awaiting, Range
      <3> QED BY <3>2, <3>3 DEF Places
    <2> QED BY <2>1, <2>2 DEF Announcements
  <1>2. ASSUME NEW new \in SUBSET Keys, NEW evicted \in Evictions(new),
               IssueStore(new, new \ Held, evicted)
        PROVE  Awaiting(FALSE)' = Awaiting(FALSE)
    <2>1. \A k : Announcements(k)' = Announcements(k)
      BY <1>2, IssuedStore
    <2> QED BY <1>1, <2>1
  <1>3. ASSUME NEW s \in storing, CompleteStore(s)
        PROVE  Awaiting(FALSE)' = Awaiting(FALSE) \cup s.keys
    <2>1. \A k : Announcements(k)' = IF k \in s.keys THEN Announcements(k) \cup {Len(events) + 1}
                                     ELSE Announcements(k)
      BY <1>3, CompletedStore
    <2> QED BY <1>1, <2>1
  <1>4. ASSUME TakeEvent
        PROVE  /\ Awaiting(FALSE)' \subseteq Awaiting(FALSE)
               /\ Awaiting(FALSE) \subseteq Awaiting(FALSE)' \cup Head(events).keys
               /\ ~Head(events).removed => Head(events).keys \subseteq Awaiting(FALSE)
    <2>1. \A k : /\ Announcements(k)' = MovedUp(Announcements(k))
                 /\ 1 \in Announcements(k) <=> ~Head(events).removed /\ k \in Head(events).keys
      BY <1>4, TakenEvent
    <2>2. ASSUME NEW k, NEW i \in Announcements(k), i # 1
          PROVE  MovedUp(Announcements(k)) # {}
      <3>1. i \in Nat /\ i >= 1
        BY PlacesType DEF TypeOK
      <3>2. i - 1 \in Nat /\ i - 1 >= 1 /\ i - 1 + 1 = i
        BY <2>2, <3>1
      <3>3. i - 1 \in MovedUp(Announcements(k))
        BY <3>2 DEF MovedUp
      <3> QED BY <3>3
    <2>3. \A k : MovedUp(Announcements(k)) # {} => Announcements(k) # {}
      BY DEF MovedUp
    <2> QED BY <1>1, <2>1, <2>2, <2>3
  <1> QED BY <1>2, <1>3, <1>4

\* What a request has offered, or offers now, is known.
LEMMA OfferKnown ==
  ASSUME TypeOK, AllKnown, NEW r \in Requests, NEW end \in 0 .. Chunks(r),
         NEW K, Known \cup ({Key(r, c) : c \in nextStored[r] .. end - 1} \ Held) \subseteq K
  PROVE  /\ \A c \in Nat : c < end => Key(r, c) \in K
         /\ \A c \in nextStored[r] .. end - 1 :
               ParentBlockHash(Key(r, c)) # <<>> => ParentBlockHash(Key(r, c)) \in K
  <1>1. nextStored[r] \in Nat /\ Chunks(r) \in Nat /\ end \in Nat /\ end <= Chunks(r)
    BY ChunksType DEF TypeOK
  <1>2. ASSUME NEW c \in Nat, c < end PROVE Key(r, c) \in K
    <2>1. CASE c < nextStored[r]
      BY <2>1 DEF AllKnown, OfferedIsKnown
    <2>2. CASE ~(c < nextStored[r])
      <3>1. c \in nextStored[r] .. end - 1
        BY <1>1, <1>2, <2>2
      <3>2. Key(r, c) \in Held => Key(r, c) \in Known
        BY DEF Held, AllKnown, ReadyIsKnown, Known
      <3> QED BY <3>1, <3>2
    <2> QED BY <2>1, <2>2
  <1>3. ASSUME NEW c \in nextStored[r] .. end - 1, ParentBlockHash(Key(r, c)) # <<>>
        PROVE  ParentBlockHash(Key(r, c)) \in K
    <2>1. c \in 0 .. Chunks(r) - 1 /\ c \in Nat /\ c < end
      BY <1>1
    <2>2. c # 0 /\ ParentBlockHash(Key(r, c)) = Key(r, c - 1)
      BY <1>3, <2>1, ParentIsPrevious
    <2>3. c - 1 \in Nat /\ c - 1 < end
      BY <2>1, <2>2, <1>1
    <2> QED BY <1>2, <2>2, <2>3
  <1> QED BY <1>2, <1>3

\* Visiting a request keeps everything offered known.
LEMMA KnownStoreJobs ==
  ASSUME TypeOK, TypeOK', AllKnown, NEW r \in Requests, NEW end \in 0 .. Chunks(r),
         StoreJobs(r, end)
  PROVE  AllKnown'
  <1> DEFINE new  == {Key(r, c) : c \in nextStored[r] .. end - 1}
             keys == new \ Held
  <1>1. new \in SUBSET Keys /\ UNCHANGED <<seen, parents>>
    BY OfferedType DEF StoreJobs, consumerVars
  <1>2. nextStored \in [Requests -> Nat] /\ end \in Nat
    BY ChunksType DEF TypeOK
  <1>3. CASE /\ UNCHANGED <<payloads, poolVars, events>>
             /\ (keys = {} /\ nextStored' = Advanced(r, end)) \/ nextStored' = nextStored
    <2>1. Known' = Known /\ UNCHANGED <<ready, storing, events, payloads>>
      BY <1>1, <1>3 DEF Known, KeysInFlight, Awaiting, poolVars
    <2>2. OfferedIsKnown'
      <3>1. keys = {} => \A c \in Nat : c < end => Key(r, c) \in Known
        BY OfferKnown
      <3> HIDE DEF keys
      <3> QED BY <1>2, <1>3, <2>1, <3>1 DEF AllKnown, OfferedIsKnown, Advanced
    <2>3. ReadyIsKnown' /\ ParentsKnown'
      BY <1>1, <2>1 DEF AllKnown, ReadyIsKnown, ParentsKnown, Awaiting
    <2>4. FirstHasPayload' /\ RemovedAfterStored'
      BY <1>1, <2>1
      DEF AllKnown, FirstHasPayload, RemovedAfterStored, KeysInFlight, Awaiting, Removals,
          Announcements, Places
    <2> QED BY <2>2, <2>3, <2>4 DEF AllKnown
  <1>4. ASSUME NEW evicted \in Evictions(new), IssueStore(new, keys, evicted),
               nextStored' = Advanced(r, end)
        PROVE  AllKnown'
    <2>1. /\ evicted \subseteq ready /\ KeysInFlight' = KeysInFlight \cup keys
          /\ ready' = ready \ evicted /\ payloads' = payloads \cup keys
          /\ \A k : Announcements(k)' = Announcements(k)
          /\ \A k : Removals(k)' = IF k \in evicted THEN Removals(k) \cup {Len(events) + 1}
                                   ELSE Removals(k)
      <3> HIDE DEF new
      <3> QED BY <1>1, <1>4, IssuedStore
    <2>2. Awaiting(FALSE)' = Awaiting(FALSE)
      <3> HIDE DEF new
      <3> QED BY <1>1, <1>4, AwaitingNext
    <2>3. Known' = Known \cup keys
      BY <1>1, <2>1, <2>2 DEF Known
    <2>4. /\ \A c \in Nat : c < end => Key(r, c) \in Known'
          /\ \A c \in nextStored[r] .. end - 1 :
                ParentBlockHash(Key(r, c)) # <<>> => ParentBlockHash(Key(r, c)) \in Known'
      BY <2>3, OfferKnown
    <2>5. \A k \in keys : ParentBlockHash(k) # <<>> => ParentBlockHash(k) \in Known'
      BY <2>4
    <2> HIDE DEF new, keys
    <2>6. OfferedIsKnown'
      BY <1>2, <1>4, <2>3, <2>4 DEF AllKnown, OfferedIsKnown, Advanced
    <2>7. ReadyIsKnown' /\ FirstHasPayload'
      BY <1>1, <2>1, <2>2 DEF AllKnown, ReadyIsKnown, FirstHasPayload
    <2>8. ParentsKnown'
      BY <1>1, <2>1, <2>3, <2>5 DEF AllKnown, ParentsKnown
    <2>9. RemovedAfterStored'
      <3> SUFFICES ASSUME NEW k \in Keys, NEW i \in Removals(k)', k \notin seen
                   PROVE  \E j \in Announcements(k) : j < i
        BY <1>1, <2>1 DEF RemovedAfterStored
      <3>1. CASE i \in Removals(k)
        BY <3>1 DEF AllKnown, RemovedAfterStored
      <3>2. CASE i = Len(events) + 1 /\ k \in evicted
        <4>1. k \in Awaiting(FALSE)
          BY <2>1, <3>2 DEF AllKnown, ReadyIsKnown
        <4>2. Announcements(k) # {} /\ \A j \in Announcements(k) : j < Len(events) + 1
          BY <4>1, AwaitingPlace, PlacesType DEF TypeOK, Announcements
        <4> QED BY <3>2, <4>2
      <3> QED BY <2>1, <3>1, <3>2
    <2> QED BY <2>6, <2>7, <2>8, <2>9 DEF AllKnown
  <1> QED BY <1>3, <1>4 DEF StoreJobs, AfterRefusal

\* Taking an event keeps everything offered known: what leaves the list has its
\* hash in the index.
LEMMA KnownTake ==
  ASSUME TypeOK, TypeOK', AllKnown, TakeEvent
  PROVE  AllKnown'
  <1> DEFINE e == Head(events)
  <1>1. /\ UNCHANGED <<nextStored, storing, ready>> /\ KeysInFlight' = KeysInFlight
        /\ e.keys \subseteq Keys /\ e.removed \in BOOLEAN /\ payloads' = payloads \ e.keys
        /\ \A k : Announcements(k)' = MovedUp(Announcements(k)) /\ Removals(k)' = MovedUp(Removals(k))
        /\ \A k : 1 \in Announcements(k) <=> ~e.removed /\ k \in e.keys
        /\ \A k : 1 \in Removals(k) <=> e.removed /\ k \in e.keys
    BY TakenEvent DEF Events
  <1>2. /\ Awaiting(FALSE)' \subseteq Awaiting(FALSE)
        /\ Awaiting(FALSE) \subseteq Awaiting(FALSE)' \cup e.keys
        /\ ~e.removed => e.keys \subseteq Awaiting(FALSE)
    BY AwaitingNext
  <1>3. /\ ~e.removed => /\ seen' = seen \cup UNION {BlockHashes(k) : k \in e.keys \cap payloads}
                         /\ parents' = parents \cup ({ParentBlockHash(k) : k \in e.keys \cap payloads} \ {<<>>})
        /\ e.removed => UNCHANGED <<seen, parents>>
    BY TakenEvent DEF ConsumeStored, ConsumeRemoved, Announced, StoredHashes
  <1> HIDE DEF e
  <1>4. seen \subseteq seen'
    BY <1>1, <1>3
  <1>5. e.keys \subseteq seen'
    <2> SUFFICES ASSUME NEW k \in e.keys, k \notin seen PROVE k \in seen'
      BY <1>4
    <2>1. CASE e.removed
      <3>1. 1 \in Removals(k) /\ k \in Keys
        BY <1>1, <2>1
      <3>2. \A j \in Announcements(k) : j >= 1
        BY PlacesType DEF TypeOK
      <3>3. PICK j \in Announcements(k) : j < 1
        BY <3>1 DEF AllKnown, RemovedAfterStored
      <3> QED BY <3>2, <3>3, PlacesType DEF TypeOK
    <2>2. CASE ~e.removed
      <3>1. k \in payloads
        BY <1>2, <2>2 DEF AllKnown, FirstHasPayload
      <3>2. k \in BlockHashes(k)
        BY <1>1, TailIsOwn
      <3> QED BY <1>3, <2>2, <3>1, <3>2
    <2> QED BY <2>1, <2>2
  <1>6. Known \subseteq Known'
    BY <1>1, <1>2, <1>4, <1>5 DEF Known
  <1>7. ReadyIsKnown' /\ FirstHasPayload'
    BY <1>1, <1>2, <1>4, <1>5 DEF AllKnown, ReadyIsKnown, FirstHasPayload
  <1>8. RemovedAfterStored'
    <2> SUFFICES ASSUME NEW k \in Keys, NEW i \in Removals(k)', k \notin seen'
                 PROVE  \E j \in Announcements(k)' : j < i
      BY DEF RemovedAfterStored
    <2>1. i \in Nat /\ i + 1 \in Removals(k) /\ k \notin seen /\ k \notin e.keys
      BY <1>1, <1>4, <1>5 DEF MovedUp
    <2>2. PICK j \in Announcements(k) : j < i + 1
      BY <2>1 DEF AllKnown, RemovedAfterStored
    <2>3. j \in Nat /\ j >= 1 /\ j # 1
      BY <1>1, <2>1, PlacesType DEF TypeOK
    <2>4. j - 1 \in Nat /\ j - 1 >= 1 /\ j - 1 + 1 = j /\ j - 1 < i
      BY <2>1, <2>2, <2>3
    <2>5. j - 1 \in Announcements(k)'
      BY <1>1, <2>2, <2>4 DEF MovedUp
    <2> QED BY <2>4, <2>5
  <1>9. OfferedIsKnown'
    BY <1>1, <1>6 DEF AllKnown, OfferedIsKnown
  <1>10. ParentsKnown'
    <2>1. \A k \in payloads : ParentBlockHash(k) # <<>> => ParentBlockHash(k) \in Known'
      BY <1>6 DEF AllKnown, ParentsKnown
    <2>2. parents \subseteq Known'
      BY <1>6 DEF AllKnown, ParentsKnown
    <2>3. parents' \subseteq Known'
      BY <1>1, <1>3, <2>1, <2>2
    <2> QED BY <1>1, <2>1, <2>3 DEF ParentsKnown
  <1> QED BY <1>7, <1>8, <1>9, <1>10 DEF AllKnown

\* Completing a store keeps everything offered known.
LEMMA KnownComplete ==
  ASSUME TypeOK, TypeOK', AllKnown, NEW s \in storing, CompleteStore(s)
  PROVE  AllKnown'
  <1>1. /\ s.keys \subseteq Keys /\ storing' = storing \ {s} /\ ready' = ready \cup s.keys
        /\ UNCHANGED <<nextStored, payloads, seen, parents>>
        /\ \A k : Announcements(k) \subseteq Announcements(k)' /\ Removals(k)' = Removals(k)
    BY CompletedStore
  <1>2. Awaiting(FALSE)' = Awaiting(FALSE) \cup s.keys
    BY AwaitingNext
  <1>3. KeysInFlight \subseteq KeysInFlight' \cup s.keys /\ KeysInFlight' \subseteq KeysInFlight
    BY <1>1 DEF KeysInFlight
  <1>4. s.keys \subseteq KeysInFlight
    BY DEF KeysInFlight
  <1>5. Known \subseteq Known'
    BY <1>1, <1>2, <1>3 DEF Known
  <1>6. ReadyIsKnown' /\ FirstHasPayload'
    BY <1>1, <1>2, <1>3, <1>4 DEF AllKnown, ReadyIsKnown, FirstHasPayload
  <1>7. OfferedIsKnown' /\ ParentsKnown'
    BY <1>1, <1>5 DEF AllKnown, OfferedIsKnown, ParentsKnown
  <1>8. RemovedAfterStored'
    BY <1>1 DEF AllKnown, RemovedAfterStored
  <1> QED BY <1>6, <1>7, <1>8 DEF AllKnown

\* A request that loads its first chunks finds them stored.
LEMMA KnownLoad ==
  ASSUME TypeOK, AllKnown, NEW r \in Requests, NEW end \in 0 .. Chunks(r), LoadHit(r, end)
  PROVE  AllKnown'
  <1>1. end \in Nat /\ nextStored' = [nextStored EXCEPT ![r] = end]
    BY ChunksType DEF LoadHit
  <1>2. UNCHANGED <<payloads, storing, ready, events, seen, parents>>
    BY DEF LoadHit, poolVars, consumerVars
  <1>3. Known' = Known /\ KeysInFlight' = KeysInFlight /\ Awaiting(FALSE)' = Awaiting(FALSE)
    BY <1>2 DEF Known, KeysInFlight, Awaiting
  <1>4. \A c \in Nat : c < end => Key(r, c) \in Known
    <2> SUFFICES ASSUME NEW c \in Nat, c < end PROVE Key(r, c) \in Known
      OBVIOUS
    <2>1. c \in 0 .. end - 1
      BY <1>1
    <2>2. Key(r, c) \in ready
      BY <2>1 DEF LoadHit
    <2> QED BY <2>2 DEF AllKnown, ReadyIsKnown, Known
  <1>5. OfferedIsKnown'
    BY <1>1, <1>3, <1>4 DEF AllKnown, OfferedIsKnown, TypeOK
  <1>6. ReadyIsKnown' /\ FirstHasPayload' /\ ParentsKnown'
    BY <1>2, <1>3 DEF AllKnown, ReadyIsKnown, FirstHasPayload, ParentsKnown
  <1>7. RemovedAfterStored'
    BY <1>2 DEF AllKnown, RemovedAfterStored, Removals, Announcements, Places
  <1> QED BY <1>5, <1>6, <1>7 DEF AllKnown

\* Every step before the first reset_cache keeps everything offered known.
LEMMA KnownNext ==
  ASSUME TypeOK, TypeOK', AllKnown, [Next]_vars, resets' = 0
  PROVE  AllKnown'
  <1>1. ASSUME UNCHANGED <<nextStored, payloads, ready, events, seen, parents>>,
               KeysInFlight' = KeysInFlight
        PROVE  AllKnown'
    <2>1. Known' = Known /\ Awaiting(FALSE)' = Awaiting(FALSE)
      BY <1>1 DEF Known, Awaiting
    <2>2. ReadyIsKnown' /\ FirstHasPayload' /\ ParentsKnown' /\ OfferedIsKnown'
      BY <1>1, <2>1 DEF AllKnown, ReadyIsKnown, FirstHasPayload, ParentsKnown, OfferedIsKnown
    <2>3. RemovedAfterStored'
      BY <1>1 DEF AllKnown, RemovedAfterStored, Removals, Announcements, Places
    <2> QED BY <2>2, <2>3 DEF AllKnown
  <1>2. ASSUME NEW scheduled \in SUBSET Requests, StartStep(scheduled) PROVE AllKnown'
    BY <1>1, <1>2, AgedStores DEF StartStep, consumerVars
  <1>3. ASSUME NEW r \in Requests, NEW end \in 0 .. Chunks(r), StoreJobs(r, end) PROVE AllKnown'
    BY <1>3, KnownStoreJobs
  <1>4. ASSUME NEW r \in Requests, NEW end \in 0 .. Chunks(r), LoadHit(r, end) PROVE AllKnown'
    BY <1>4, KnownLoad
  <1>5. ASSUME NEW s \in storing, CompleteStore(s) PROVE AllKnown'
    BY <1>5, KnownComplete
  <1>6. CASE TakeEvent
    BY <1>6, KnownTake
  <1>7. CASE ResetCache
    <2>1. resets' = resets + 1 /\ resets \in Nat
      BY <1>7, EventsAssumption DEF ResetCache, TypeOK
    <2> QED BY <2>1
  <1>8. ASSUME UNCHANGED storing PROVE KeysInFlight' = KeysInFlight
    BY <1>8 DEF KeysInFlight
  <1> QED
    BY <1>1, <1>2, <1>3, <1>4, <1>5, <1>6, <1>7, <1>8
    DEF Next, EndConnectorMeta, TakeOutput, BeginDrain, EndDrain, vars, poolVars, consumerVars

KnownUntilReset == resets = 0 => AllKnown

\* Before the first reset_cache, every chunk a request has offered or loaded is in
\* the consumer's index, is being stored, or awaits to be announced.
THEOREM KnownCorrect == Spec => []KnownUntilReset
  <1>1. ASSUME Init PROVE AllKnown
    <2>1. /\ ready = {} /\ storing = {} /\ events = <<>> /\ payloads = {} /\ parents = {}
          /\ \A r \in Requests : nextStored[r] = 0
      BY <1>1 DEF Init
    <2>2. \A k : Removals(k) = {}
      BY <2>1 DEF Removals, Places
    <2>3. KeysInFlight = {} /\ Awaiting(FALSE) = {}
      BY <2>1 DEF KeysInFlight, Awaiting, Range
    <2>4. OfferedIsKnown
      BY <2>1 DEF OfferedIsKnown
    <2>5. RemovedAfterStored
      BY <2>2 DEF RemovedAfterStored
    <2>6. ReadyIsKnown /\ FirstHasPayload /\ ParentsKnown
      BY <2>1, <2>3 DEF ReadyIsKnown, FirstHasPayload, ParentsKnown
    <2> QED BY <2>4, <2>5, <2>6 DEF AllKnown
  <1>2. ASSUME TypeOK, TypeOK', KnownUntilReset, [Next]_vars PROVE KnownUntilReset'
    <2> SUFFICES ASSUME resets' = 0 PROVE AllKnown'
      BY DEF KnownUntilReset
    <2>1. resets = 0
      BY <1>2, ResetsOnly
    <2> QED BY <1>2, <2>1, KnownNext DEF KnownUntilReset
  <1> QED BY <1>1, <1>2, EventsTypeCorrect, PTL DEF Spec, KnownUntilReset

\* Check 3 of decode_capture.py, over the whole stream: the parent of an announced
\* chunk was announced, or its own store is still under way.
THEOREM ParentsCorrect == Spec => []ParentsAreAnnounced
  <1>1. KnownUntilReset => ParentsAreAnnounced
    BY DEF KnownUntilReset, AllKnown, ParentsKnown, Known, ParentsAreAnnounced
  <1> QED BY <1>1, KnownCorrect, PTL

-----------------------------------------------------------------------------
(***************************************************************************)
(* As long as no chunk is stored again before its removal is taken.        *)
(***************************************************************************)
\* At most one announcement of a chunk, and behind it at most one removal.
InOrder(A, R) ==
    /\ \A i \in A : \A j \in R : i < j
    /\ \A i \in A : \A j \in A : i = j
    /\ \A i \in R : \A j \in R : i = j

Undisturbed(k) ==
    /\ Removals(k) # {} => k \notin Held
    /\ k \in KeysInFlight \/ Announcements(k) # {} => k \in payloads
    /\ InOrder(Announcements(k), Removals(k))
    /\ k \in ready /\ Announcements(k) = {} => \A h \in BlockHashes(k) : live[h] > 0

AllUndisturbed == \A k \in Keys : Undisturbed(k)

\* Taking the first event keeps the order.
LEMMA OrderMoved ==
  ASSUME NEW A \in SUBSET Nat, NEW R \in SUBSET Nat, \A i \in A \cup R : i >= 1, InOrder(A, R)
  PROVE  /\ InOrder(MovedUp(A), MovedUp(R))
         /\ MovedUp(A) = {} <=> A \subseteq {1}
         /\ MovedUp(R) = {} <=> R \subseteq {1}
         /\ 1 \in A => A = {1}
         /\ 1 \in R => R = {1} /\ A = {}
  <1>1. \A i \in MovedUp(A) : i \in Nat /\ i >= 1 /\ i + 1 \in A
    BY DEF MovedUp
  <1>2. \A i \in MovedUp(R) : i \in Nat /\ i >= 1 /\ i + 1 \in R
    BY DEF MovedUp
  <1>3. ASSUME NEW S \in SUBSET Nat, NEW i \in S, i # 1, i >= 1 PROVE i - 1 \in MovedUp(S)
    <2>1. i - 1 \in Nat /\ i - 1 >= 1 /\ i - 1 + 1 = i
      BY <1>3
    <2> QED BY <2>1 DEF MovedUp
  <1>4. InOrder(MovedUp(A), MovedUp(R))
    <2>1. ASSUME NEW i \in MovedUp(A), NEW j \in MovedUp(R) PROVE i < j
      <3>1. i \in Nat /\ j \in Nat /\ i + 1 < j + 1
        BY <1>1, <1>2 DEF InOrder
      <3> QED BY <3>1
    <2>2. ASSUME NEW i \in MovedUp(A), NEW j \in MovedUp(A) PROVE i = j
      <3>1. i \in Nat /\ j \in Nat /\ i + 1 = j + 1
        BY <1>1 DEF InOrder
      <3> QED BY <3>1
    <2>3. ASSUME NEW i \in MovedUp(R), NEW j \in MovedUp(R) PROVE i = j
      <3>1. i \in Nat /\ j \in Nat /\ i + 1 = j + 1
        BY <1>2 DEF InOrder
      <3> QED BY <3>1
    <2> QED BY <2>1, <2>2, <2>3 DEF InOrder
  <1>m. ASSUME NEW S \in SUBSET Nat, \A i \in S : i >= 1
        PROVE  MovedUp(S) = {} <=> S \subseteq {1}
    <2>1. ASSUME S \subseteq {1}, NEW i \in MovedUp(S) PROVE FALSE
      <3>1. i \in Nat /\ i >= 1 /\ i + 1 \in S
        BY DEF MovedUp
      <3>2. i + 1 = 1
        BY <2>1, <3>1
      <3> QED BY <3>1, <3>2
    <2>2. ASSUME MovedUp(S) = {}, NEW i \in S PROVE i = 1
      BY <1>3, <1>m, <2>2
    <2> QED BY <2>1, <2>2
  <1>5. MovedUp(A) = {} <=> A \subseteq {1}
    BY <1>m
  <1>6. MovedUp(R) = {} <=> R \subseteq {1}
    BY <1>m
  <1>7. 1 \in A => A = {1}
    BY DEF InOrder
  <1>8. 1 \in R => R = {1} /\ A = {}
    <2>1. 1 \in R => R = {1}
      BY DEF InOrder
    <2>2. ASSUME 1 \in R, NEW i \in A PROVE FALSE
      <3>1. i \in Nat /\ i >= 1 /\ i < 1
        BY <2>2 DEF InOrder
      <3> QED BY <3>1
    <2> QED BY <2>1, <2>2
  <1> QED BY <1>4, <1>5, <1>6, <1>7, <1>8

\* The places of a chunk say whether it awaits an announcement or a removal.
LEMMA AwaitingPlaces ==
  ASSUME TypeOK, NEW k
  PROVE  /\ k \in Awaiting(FALSE) <=> Announcements(k) # {}
         /\ k \in Awaiting(TRUE) <=> Removals(k) # {}
  BY AwaitingPlace DEF TypeOK, Announcements, Removals

\* A step that leaves the list, the pool and the consumer disturbs nothing.
LEMMA UndisturbedQuiet ==
  ASSUME AllUndisturbed, UNCHANGED <<payloads, ready, events, live>>, KeysInFlight' = KeysInFlight
  PROVE  AllUndisturbed'
  <1>1. \A k : Announcements(k)' = Announcements(k) /\ Removals(k)' = Removals(k)
    BY DEF Announcements, Removals, Places
  <1>2. Held' = Held
    BY DEF Held
  <1> QED BY <1>1, <1>2 DEF AllUndisturbed, Undisturbed

\* A chunk evicted was ready and none of its events is left behind it.
LEMMA UndisturbedIssue ==
  ASSUME TypeOK, TurnsTaken, AllUndisturbed, NEW new \in SUBSET Keys,
         NEW evicted \in Evictions(new), IssueStore(new, new \ Held, evicted),
         ~overtaken', live' = live
  PROVE  AllUndisturbed'
  <1> DEFINE n    == Len(events) + 1
             keys == new \ Held
  <1>1. /\ evicted \subseteq ready /\ KeysInFlight' = KeysInFlight \cup keys
        /\ ready' = ready \ evicted /\ payloads' = payloads \cup keys
        /\ \A k : Announcements(k)' = Announcements(k)
        /\ \A k : Removals(k)' = IF k \in evicted THEN Removals(k) \cup {n} ELSE Removals(k)
    BY IssuedStore
  <1>2. \A k \in keys : Removals(k) = {}
    BY AwaitingPlaces DEF IssueStore
  <1>3. \A k \in keys : k \notin Held
    OBVIOUS
  <1>4. \A k \in Keys : k \in ready => k \notin KeysInFlight
    BY DEF TurnsTaken, StoresAreApart, KeysInFlight
  <1> HIDE DEF n, keys
  <1>5. Held' = (Held \ evicted) \cup keys
    BY <1>1, <1>3, <1>4 DEF Held, TypeOK
  <1> SUFFICES ASSUME NEW k \in Keys PROVE Undisturbed(k)'
    BY DEF AllUndisturbed
  <1>6. Undisturbed(k)
    BY DEF AllUndisturbed
  <1>7. CASE k \in evicted
    <2>1. k \in Held /\ k \notin Held' /\ Removals(k)' = {n} /\ Announcements(k)' = Announcements(k)
      BY <1>1, <1>3, <1>5, <1>6, <1>7 DEF Held, Undisturbed
    <2>2. \A i \in Announcements(k) : i < n
      BY PlacesType DEF TypeOK, n
    <2>3. InOrder(Announcements(k)', Removals(k)')
      BY <1>6, <2>1, <2>2 DEF InOrder, Undisturbed
    <2> QED BY <1>1, <1>6, <2>1, <2>3 DEF Undisturbed, Held
  <1>8. CASE k \notin evicted
    <2>1. Announcements(k)' = Announcements(k) /\ Removals(k)' = Removals(k)
      BY <1>1, <1>8
    <2>2. Removals(k) # {} => k \notin Held'
      BY <1>2, <1>5, <1>6 DEF Undisturbed
    <2> QED BY <1>1, <1>6, <2>1, <2>2 DEF Undisturbed
  <1> QED BY <1>7, <1>8

\* A chunk that completes has no event left, and its payload.
LEMMA UndisturbedComplete ==
  ASSUME TypeOK, TurnsTaken, AllUndisturbed, NEW s \in storing, CompleteStore(s)
  PROVE  AllUndisturbed'
  <1> DEFINE n == Len(events) + 1
  <1>1. /\ s.keys \subseteq Keys /\ storing' = storing \ {s} /\ ready' = ready \cup s.keys
        /\ UNCHANGED <<payloads, live>>
        /\ \A k : Announcements(k)' = IF k \in s.keys THEN Announcements(k) \cup {n}
                                      ELSE Announcements(k)
        /\ \A k : Removals(k)' = Removals(k)
    BY CompletedStore
  <1>2. s.keys \subseteq KeysInFlight /\ KeysInFlight' \subseteq KeysInFlight
    BY <1>1 DEF KeysInFlight
  <1> HIDE DEF n
  <1>3. Held' \subseteq Held
    BY <1>1, <1>2 DEF Held
  <1> SUFFICES ASSUME NEW k \in Keys PROVE Undisturbed(k)'
    BY DEF AllUndisturbed
  <1>4. Undisturbed(k)
    BY DEF AllUndisturbed
  <1>5. CASE k \in s.keys
    <2>1. k \in Held /\ Removals(k) = {} /\ k \in payloads
      BY <1>2, <1>4, <1>5 DEF Held, Undisturbed
    <2>2. k \notin ready
      BY <1>5 DEF TurnsTaken, StoresAreApart
    <2>3. Announcements(k) = {}
      BY <2>1, <2>2 DEF TurnsTaken, Turns
    <2>4. Announcements(k)' = {n} /\ Removals(k)' = {}
      BY <1>1, <1>5, <2>1, <2>3
    <2> QED BY <1>1, <2>1, <2>4 DEF Undisturbed, InOrder
  <1>6. CASE k \notin s.keys
    <2>1. Announcements(k)' = Announcements(k) /\ Removals(k)' = Removals(k)
      BY <1>1, <1>6
    <2> QED BY <1>1, <1>2, <1>3, <1>4, <1>6, <2>1 DEF Undisturbed
  <1> QED BY <1>5, <1>6

\* An announcement adds a reference to every hash of its chunk, and takes none.
LEMMA CountedStored ==
  ASSUME TypeOK, TakeEvent, ~Head(events).removed
  PROVE  /\ \A h \in Hashes : live'[h] \in Nat /\ live'[h] >= live[h]
         /\ \A k \in Head(events).keys \cap payloads : \A h \in BlockHashes(k) : live'[h] > 0
  <1> DEFINE e    == Head(events)
             N(h) == {k \in Announced(e) : h \in StoredHashes(k)}
  <1>1. e.keys \subseteq Keys /\ \A h \in Hashes : live[h] \in Nat
    BY TakenEvent DEF Events, TypeOK
  <1>2. \A h \in Hashes : live'[h] = live[h] + Cardinality(N(h))
    BY TakenEvent DEF ConsumeStored
  <1>3. \A h : N(h) \in SUBSET Keys
    BY <1>1 DEF Announced
  <1>4. \A h : IsFiniteSet(N(h)) /\ Cardinality(N(h)) \in Nat
    BY <1>3, FinitelyManyKeys, FS_Subset, FS_CardinalityType
  <1>5. ASSUME NEW k \in e.keys \cap payloads, NEW h \in BlockHashes(k) PROVE live'[h] > 0
    <2>1. k \in N(h)
      BY <1>5 DEF Announced, StoredHashes
    <2>2. h \in Hashes
      BY <1>1, HashesOfKey
    <2> HIDE DEF N
    <2>3. Cardinality(N(h)) # 0
      BY <1>4, <2>1, FS_EmptySet
    <2> QED BY <1>1, <1>2, <1>4, <2>2, <2>3
  <1> HIDE DEF N
  <1> QED BY <1>1, <1>2, <1>4, <1>5

\* The removal of chunks without payloads names their last hashes: no hash of
\* another chunk loses a reference.
LEMMA CountedRemoved ==
  ASSUME TypeOK, TakeEvent, Head(events).removed, Head(events).keys \cap payloads = {},
         NEW k \in Keys, k \notin Head(events).keys, NEW h \in BlockHashes(k), live[h] > 0
  PROVE  live'[h] > 0
  <1> DEFINE e == Head(events)
             N == {j \in e.keys : h \in RemovedHashes(j)}
  <1>1. e.keys \subseteq Keys /\ h \in Hashes /\ live[h] \in Nat
    BY TakenEvent, HashesOfKey DEF Events, TypeOK
  <1>2. live'[h] = IF live[h] > Cardinality(N) THEN live[h] - Cardinality(N) ELSE 0
    BY <1>1, TakenEvent DEF ConsumeRemoved
  <1>3. \A j \in e.keys : RemovedHashes(j) = {j}
    BY DEF RemovedHashes
  <1>4. \A j \in e.keys : j # h
    BY <1>1, TailIsOwn
  <1>5. N = {}
    BY <1>3, <1>4
  <1> HIDE DEF N
  <1> QED BY <1>1, <1>2, <1>5, FS_EmptySet

\* Taking an event disturbs nothing: an announcement has its payload, and a
\* removal has none left.
LEMMA UndisturbedTake ==
  ASSUME TypeOK, TurnsTaken, PayloadsBelongToStores, AllUndisturbed, TakeEvent
  PROVE  AllUndisturbed'
  <1> DEFINE e == Head(events)
  <1>1. /\ ready' = ready /\ storing' = storing /\ KeysInFlight' = KeysInFlight /\ Held' = Held
        /\ e.keys \subseteq Keys /\ payloads' = payloads \ e.keys
        /\ \A k : Announcements(k)' = MovedUp(Announcements(k)) /\ Removals(k)' = MovedUp(Removals(k))
        /\ \A k : 1 \in Announcements(k) <=> ~e.removed /\ k \in e.keys
        /\ \A k : 1 \in Removals(k) <=> e.removed /\ k \in e.keys
    BY TakenEvent DEF Events, Held
  <1>2. \A k \in Keys : Undisturbed(k)
    BY DEF AllUndisturbed
  <1>3. \A k \in Keys :
           /\ InOrder(MovedUp(Announcements(k)), MovedUp(Removals(k)))
           /\ MovedUp(Announcements(k)) = {} <=> Announcements(k) \subseteq {1}
           /\ MovedUp(Removals(k)) = {} <=> Removals(k) \subseteq {1}
           /\ 1 \in Announcements(k) => Announcements(k) = {1}
           /\ 1 \in Removals(k) => Removals(k) = {1} /\ Announcements(k) = {}
    <2> SUFFICES ASSUME NEW k \in Keys
                 PROVE  /\ InOrder(MovedUp(Announcements(k)), MovedUp(Removals(k)))
                        /\ MovedUp(Announcements(k)) = {} <=> Announcements(k) \subseteq {1}
                        /\ MovedUp(Removals(k)) = {} <=> Removals(k) \subseteq {1}
                        /\ 1 \in Announcements(k) => Announcements(k) = {1}
                        /\ 1 \in Removals(k) => Removals(k) = {1} /\ Announcements(k) = {}
      OBVIOUS
    <2>1. /\ Announcements(k) \in SUBSET Nat /\ Removals(k) \in SUBSET Nat
          /\ \A i \in Announcements(k) \cup Removals(k) : i >= 1
          /\ InOrder(Announcements(k), Removals(k))
      BY <1>2, PlacesType DEF TypeOK, Undisturbed
    <2> DEFINE A == Announcements(k)
               R == Removals(k)
    <2>2. /\ A \in SUBSET Nat /\ R \in SUBSET Nat
          /\ \A i \in A \cup R : i >= 1
          /\ InOrder(A, R)
      BY <2>1
    <2> HIDE DEF A, R, e
    <2>3. /\ InOrder(MovedUp(A), MovedUp(R))
          /\ MovedUp(A) = {} <=> A \subseteq {1}
          /\ MovedUp(R) = {} <=> R \subseteq {1}
          /\ 1 \in A => A = {1}
          /\ 1 \in R => R = {1} /\ A = {}
      BY <2>2, OrderMoved
    <2> QED BY <2>3 DEF A, R
  <1>4. \A k \in e.keys : k \notin KeysInFlight
    <2> SUFFICES ASSUME NEW k \in e.keys PROVE k \notin KeysInFlight
      OBVIOUS
    <2>1. Announcements(k) # {} \/ Removals(k) # {}
      BY <1>1
    <2>2. k \in ready \/ Removals(k) # {}
      BY <1>1, <2>1 DEF TurnsTaken, Turns
    <2>3. k \in ready => k \notin KeysInFlight
      BY <1>1 DEF TurnsTaken, StoresAreApart, KeysInFlight
    <2>4. Removals(k) # {} => k \notin KeysInFlight
      BY <1>1, <1>2 DEF Undisturbed, Held
    <2> QED BY <2>2, <2>3, <2>4
  <1>5. e.removed => e.keys \cap payloads = {}
    <2> SUFFICES ASSUME e.removed, NEW k \in e.keys PROVE k \notin payloads
      OBVIOUS
    <2>1. Announcements(k) = {}
      BY <1>1, <1>3
    <2> QED BY <1>4, <2>1, AwaitingPlaces DEF PayloadsBelongToStores
  <1>6. ~e.removed => e.keys \subseteq payloads
    BY <1>1, <1>2 DEF Undisturbed
  <1> SUFFICES ASSUME NEW k \in Keys PROVE Undisturbed(k)'
    BY DEF AllUndisturbed
  <1>7. Removals(k)' # {} => k \notin Held'
    BY <1>1, <1>2, <1>3 DEF Undisturbed
  <1>8. k \in KeysInFlight' \/ Announcements(k)' # {} => k \in payloads'
    BY <1>1, <1>2, <1>3, <1>4 DEF Undisturbed
  <1>9. ASSUME k \in ready', Announcements(k)' = {}, NEW h \in BlockHashes(k) PROVE live'[h] > 0
    <2>1. h \in Hashes /\ live[h] \in Nat
      BY HashesOfKey DEF TypeOK
    <2>2. CASE 1 \in Announcements(k)
      <3>1. ~e.removed /\ k \in e.keys \cap payloads
        BY <1>1, <1>6, <2>2
      <3> QED BY <1>9, <3>1, CountedStored
    <2>3. CASE 1 \notin Announcements(k)
      <3>1. Announcements(k) = {}
        BY <1>1, <1>3, <1>9, <2>3
      <3>2. live[h] > 0
        BY <1>1, <1>2, <1>9, <3>1 DEF Undisturbed
      <3>3. CASE e.removed
        <4>1. k \notin e.keys
          <5>1. k \in Held
            BY <1>1, <1>9 DEF Held
          <5>2. Removals(k) = {}
            BY <1>2, <5>1 DEF Undisturbed
          <5> QED BY <1>1, <3>3, <5>2
        <4> QED BY <1>5, <1>9, <3>2, <3>3, <4>1, CountedRemoved
      <3>4. CASE ~e.removed
        <4>1. live'[h] \in Nat /\ live'[h] >= live[h]
          BY <2>1, <3>4, CountedStored
        <4> QED BY <2>1, <3>2, <4>1
      <3> QED BY <3>3, <3>4
    <2> QED BY <2>2, <2>3
  <1>10. InOrder(Announcements(k)', Removals(k)')
    BY <1>1, <1>3
  <1> HIDE DEF e
  <1> QED BY <1>7, <1>8, <1>9, <1>10 DEF Undisturbed

\* Every step before the first reset_cache, and before a chunk is stored again too
\* early, disturbs nothing.
LEMMA UndisturbedNext ==
  ASSUME TypeOK, TurnsTaken, PayloadsBelongToStores, AllUndisturbed, [Next]_vars,
         resets' = 0, ~overtaken'
  PROVE  AllUndisturbed'
  <1>1. ASSUME UNCHANGED <<payloads, storing, ready, events, live>> PROVE AllUndisturbed'
    BY <1>1, UndisturbedQuiet DEF KeysInFlight
  <1>2. ASSUME NEW scheduled \in SUBSET Requests, StartStep(scheduled) PROVE AllUndisturbed'
    BY <1>2, AgedStores, UndisturbedQuiet DEF StartStep, consumerVars
  <1>3. ASSUME NEW r \in Requests, NEW end \in 0 .. Chunks(r), StoreJobs(r, end)
        PROVE  AllUndisturbed'
    <2> DEFINE new == {Key(r, c) : c \in nextStored[r] .. end - 1}
    <2>1. new \in SUBSET Keys /\ live' = live
      BY <1>3, OfferedType DEF StoreJobs, consumerVars
    <2>2. ASSUME NEW evicted \in Evictions(new), IssueStore(new, new \ Held, evicted)
          PROVE  AllUndisturbed'
      <3> HIDE DEF new
      <3> QED BY <2>1, <2>2, UndisturbedIssue
    <2> QED BY <1>1, <1>3, <2>1, <2>2 DEF StoreJobs, poolVars
  <1>4. ASSUME NEW s \in storing, CompleteStore(s) PROVE AllUndisturbed'
    BY <1>4, UndisturbedComplete
  <1>5. CASE TakeEvent
    BY <1>5, UndisturbedTake
  <1>6. CASE ResetCache
    <2>1. resets' = resets + 1 /\ resets \in Nat
      BY <1>6, EventsAssumption DEF ResetCache, TypeOK
    <2> QED BY <2>1
  <1> QED
    BY <1>1, <1>2, <1>3, <1>4, <1>5, <1>6
    DEF Next, LoadHit, EndConnectorMeta, TakeOutput, BeginDrain, EndDrain, vars, poolVars, consumerVars

\* A chunk once stored again too early stays so.
LEMMA OvertakenOnly ==
  ASSUME TypeOK, [Next]_vars, ~overtaken'
  PROVE  ~overtaken
  <1>1. ASSUME NEW r \in Requests, NEW end \in 0 .. Chunks(r), StoreJobs(r, end)
        PROVE  ~overtaken
    BY <1>1 DEF StoreJobs, IssueStore
  <1> QED
    BY <1>1
    DEF Next, StartStep, LoadHit, EndConnectorMeta, TakeOutput, CompleteStore, BeginDrain,
        TakeEvent, EndDrain, ResetCache, vars

UndisturbedUntilOvertaken == resets = 0 /\ ~overtaken => AllUndisturbed

\* Until a chunk is stored again before its removal is taken (or the cache is
\* reset), each chunk has at most one announcement and one removal under way, in
\* this order, and its payload exactly until it is announced.
THEOREM UndisturbedCorrect == Spec => []UndisturbedUntilOvertaken
  <1>1. ASSUME Init PROVE AllUndisturbed
    <2>1. storing = {} /\ ready = {} /\ events = <<>>
      BY <1>1 DEF Init
    <2>2. \A k : Announcements(k) = {} /\ Removals(k) = {}
      BY <2>1 DEF Announcements, Removals, Places
    <2>3. KeysInFlight = {}
      BY <2>1 DEF KeysInFlight
    <2> QED BY <2>1, <2>2, <2>3 DEF AllUndisturbed, Undisturbed, InOrder
  <1>2. ASSUME TypeOK, TurnsUntilReset, PayloadsBelongToStores, UndisturbedUntilOvertaken, [Next]_vars
        PROVE  UndisturbedUntilOvertaken'
    <2> SUFFICES ASSUME resets' = 0, ~overtaken' PROVE AllUndisturbed'
      BY DEF UndisturbedUntilOvertaken
    <2>1. resets = 0 /\ ~overtaken
      BY <1>2, ResetsOnly, OvertakenOnly
    <2> QED BY <1>2, <2>1, UndisturbedNext DEF UndisturbedUntilOvertaken, TurnsUntilReset
  <1> QED
    BY <1>1, <1>2, EventsTypeCorrect, TurnsCorrect, SideTableBounded, PTL
    DEF Spec, UndisturbedUntilOvertaken

\* The consumer has every block of every announced chunk the pool holds, whatever
\* was evicted: prompts that share blocks do not take each other's references.
THEOREM ResidentCorrect == Spec => []ResidentChunksAreIndexed
  <1>1. ASSUME TypeOK, UndisturbedUntilOvertaken PROVE ResidentChunksAreIndexed
    <2> SUFFICES ASSUME ~overtaken, resets = 0, NEW k \in ready \ Awaiting(FALSE),
                        NEW h \in BlockHashes(k)
                 PROVE  live[h] > 0
      BY DEF ResidentChunksAreIndexed
    <2>1. k \in Keys /\ Announcements(k) = {}
      BY <1>1, AwaitingPlaces DEF TypeOK
    <2> QED BY <1>1, <2>1 DEF UndisturbedUntilOvertaken, AllUndisturbed, Undisturbed
  <1> QED BY <1>1, EventsTypeCorrect, UndisturbedCorrect, PTL

=============================================================================
