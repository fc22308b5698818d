---------------------- MODULE OffloadSchedulerProofs ----------------------
(***************************************************************************)
(* Theorems about OffloadScheduler, for all values of its constants.       *)
(***************************************************************************)
EXTENDS OffloadScheduler, SequenceTheorems, TLAPS

-----------------------------------------------------------------------------
(***************************************************************************)
(* Block tables.                                                           *)
(***************************************************************************)
\* A block table names blocks only.
LEMMA TableBlocksType == \A t \in Tables : TableBlocks(t) \subseteq Blocks
  BY DEF Tables, TableBlocks, BlockId

\* The empty table is a table.
LEMMA EmptyTableType == EmptyTable \in Tables
  BY DEF Tables, EmptyTable

\* Appending blocks to a table gives a table.
LEMMA ConcatType == \A t, u \in Tables : Concat(t, u) \in Tables
  BY DEF Tables, Concat

\* Freeing the blocks that left the window leaves a table.
LEMMA SkippedType ==
  ASSUME table \in [Requests -> Tables], NEW r \in Requests
  PROVE  Skipped(r) \in Tables
  BY DEF Tables, Skipped, BlockId

\* What a running request is given is a table.
LEMMA ExtensionsType ==
  ASSUME NEW r, NEW n \in Nat
  PROVE  Extensions(r, n) \subseteq Tables
  <1> DEFINE free  == Blocks \ UNION {TableBlocks(IF q = r THEN Skipped(r) ELSE table[q]) : q \in Requests}
             slots == Groups \X (1 .. n)
  <1> SUFFICES ASSUME NEW t \in Extensions(r, n) PROVE t \in Tables
    OBVIOUS
  <1>1. PICK f \in Injection(slots, free) : t = [g \in Groups |-> [i \in 1 .. n |-> f[<<g, i>>]]]
    BY DEF Extensions
  <1>2. f \in [slots -> Blocks]
    BY DEF Injection
  <1>3. \A g \in Groups, i \in 1 .. n : f[<<g, i>>] \in BlockId
    BY <1>2 DEF BlockId
  <1> QED BY <1>1, <1>3 DEF Tables

\* What an admitted request is given is a table.
LEMMA TablesForType ==
  ASSUME NEW r, NEW local, NEW hit, NEW end \in Nat
  PROVE  TablesFor(r, local, hit, end) \subseteq Tables
  <1> DEFINE slots(g)  == (Needed(g, hit) \cup hit .. end - 1)
             used      == {s \in Groups \X (0 .. end - 1) : s[2] \in slots(s[1])}
             cachedAt  == {s \in used : s[2] < local}
             freshAt   == {s \in used : s[2] >= local}
             hitBlocks == {f \in [cachedAt -> Blocks] :
                             \A s \in cachedAt : content[f[s]] = Data(r, s[1], s[2])}
             entry(f, h, s) == CASE s \in cachedAt -> h[s]
                                 [] s \in freshAt  -> f[s]
                                 [] OTHER          -> NullBlock
  <1> SUFFICES ASSUME NEW t \in TablesFor(r, local, hit, end) PROVE t \in Tables
    OBVIOUS
  <1> DEFINE with(h) == {[g \in Groups |-> [i \in 1 .. end |-> entry(f, h, <<g, i - 1>>)]] :
                           f \in Injection(freshAt, Free \ Range(h))}
  <1>a. TablesFor(r, local, hit, end) = UNION {with(h) : h \in hitBlocks}
    BY Zenon DEF TablesFor
  <1>b. PICK h \in hitBlocks : t \in with(h)
    <2> HIDE DEF with, hitBlocks
    <2> QED BY <1>a
  <1>1. PICK f \in Injection(freshAt, Free \ Range(h)) :
          t = [g \in Groups |-> [i \in 1 .. end |-> entry(f, h, <<g, i - 1>>)]]
    BY <1>b
  <1>2. h \in [cachedAt -> Blocks]
    OBVIOUS
  <1>3. f \in [freshAt -> Blocks]
    BY DEF Injection, Free
  <1> HIDE DEF cachedAt, freshAt
  <1>4. ASSUME NEW s PROVE entry(f, h, s) \in BlockId
    <2>1. s \in cachedAt => h[s] \in Blocks
      BY <1>2
    <2>2. s \in freshAt => f[s] \in Blocks
      BY <1>3
    <2> QED BY <2>1, <2>2 DEF BlockId
  <1> HIDE DEF entry
  <1> QED BY <1>1, <1>4 DEF Tables

-----------------------------------------------------------------------------
(***************************************************************************)
(* What the tables that the engine hands out hold.                         *)
(***************************************************************************)
\* A table given to a request reaches to the end it was asked for.
LEMMA TablesForShape ==
  ASSUME NEW r \in Requests, NEW local \in Nat, NEW hit \in Nat, NEW end \in Nat,
         NEW t \in TablesFor(r, local, hit, end)
  PROVE  \A g \in Groups : DOMAIN t[g] = 1 .. end /\ Len(t[g]) = end
  <1> DEFINE slots(h)  == (Needed(h, hit) \cup hit .. end - 1)
             used      == {s \in Groups \X (0 .. end - 1) : s[2] \in slots(s[1])}
             cachedAt  == {s \in used : s[2] < local}
             freshAt   == {s \in used : s[2] >= local}
             hitBlocks == {f \in [cachedAt -> Blocks] :
                             \A s \in cachedAt : content[f[s]] = Data(r, s[1], s[2])}
             entry(f, h, s) == CASE s \in cachedAt -> h[s]
                                 [] s \in freshAt  -> f[s]
                                 [] OTHER          -> NullBlock
             with(h) == {[q \in Groups |-> [i \in 1 .. end |-> entry(f, h, <<q, i - 1>>)]] :
                           f \in Injection(freshAt, Free \ Range(h))}
  <1>1. TablesFor(r, local, hit, end) = UNION {with(h) : h \in hitBlocks}
    BY Zenon DEF TablesFor
  <1>2. PICK h \in hitBlocks : t \in with(h)
    <2> HIDE DEF with, hitBlocks
    <2> QED BY <1>1
  <1>3. PICK f \in Injection(freshAt, Free \ Range(h)) :
          t = [q \in Groups |-> [i \in 1 .. end |-> entry(f, h, <<q, i - 1>>)]]
    BY <1>2
  <1> HIDE DEF entry
  <1> QED BY <1>3

\* Below the GPU prefix hit such a table shares blocks that hold the data, above it
\* has free blocks of its own, and full-attention groups have a block everywhere.
LEMMA TablesForEntries ==
  ASSUME NEW r \in Requests, NEW local \in Nat, NEW hit \in Nat, NEW end \in Nat, hit <= end,
         NEW t \in TablesFor(r, local, hit, end), NEW g \in Groups
  PROVE  /\ \A i \in 1 .. end : i <= local /\ t[g][i] \in Blocks => content[t[g][i]] = Data(r, g, i - 1)
         /\ \A i \in 1 .. end : i > local /\ t[g][i] \in Blocks =>
              /\ t[g][i] \in Free
              /\ \A h \in Groups : \A k \in 1 .. end : t[h][k] = t[g][i] => h = g /\ k = i
         /\ g \in FullGroups => \A i \in 1 .. end : t[g][i] \in Blocks
  <1> DEFINE slots(h)  == (Needed(h, hit) \cup hit .. end - 1)
             used      == {s \in Groups \X (0 .. end - 1) : s[2] \in slots(s[1])}
             cachedAt  == {s \in used : s[2] < local}
             freshAt   == {s \in used : s[2] >= local}
             hitBlocks == {f \in [cachedAt -> Blocks] :
                             \A s \in cachedAt : content[f[s]] = Data(r, s[1], s[2])}
             entry(f, h, s) == CASE s \in cachedAt -> h[s]
                                 [] s \in freshAt  -> f[s]
                                 [] OTHER          -> NullBlock
             with(h) == {[q \in Groups |-> [i \in 1 .. end |-> entry(f, h, <<q, i - 1>>)]] :
                           f \in Injection(freshAt, Free \ Range(h))}
  <1>1. TablesFor(r, local, hit, end) = UNION {with(h) : h \in hitBlocks}
    BY Zenon DEF TablesFor
  <1>2. PICK h \in hitBlocks : t \in with(h)
    <2> HIDE DEF with, hitBlocks
    <2> QED BY <1>1
  <1>3. PICK f \in Injection(freshAt, Free \ Range(h)) :
          t = [q \in Groups |-> [i \in 1 .. end |-> entry(f, h, <<q, i - 1>>)]]
    BY <1>2
  <1>4. h \in [cachedAt -> Blocks] /\ \A s \in cachedAt : content[h[s]] = Data(r, s[1], s[2])
    OBVIOUS
  <1>5. /\ f \in [freshAt -> Free \ Range(h)]
        /\ \A s, u \in freshAt : f[s] = f[u] => s = u
    BY <1>3 DEF Injection, IsInjective
  <1>6. \A q \in Groups : \A i \in 1 .. end : t[q][i] = entry(f, h, <<q, i - 1>>)
    <2> HIDE DEF entry
    <2> QED BY <1>3
  <1>7. \A q \in Groups : \A i \in 1 .. end :
          /\ <<q, i - 1>> \in cachedAt => <<q, i - 1>> \in used /\ i - 1 < local
          /\ <<q, i - 1>> \in freshAt => <<q, i - 1>> \in used /\ i - 1 >= local
          /\ <<q, i - 1>> \in used => <<q, i - 1>> \in cachedAt \/ <<q, i - 1>> \in freshAt
    OBVIOUS
  <1>8. g \in FullGroups => \A i \in 1 .. end : <<g, i - 1>> \in used
    <2> SUFFICES ASSUME g \in FullGroups, NEW i \in 1 .. end PROVE <<g, i - 1>> \in used
      OBVIOUS
    <2>1. i - 1 \in slots(g)
      BY SetsAssumption DEF Needed
    <2> HIDE DEF slots
    <2> QED BY <2>1
  <1>10. \A s : ~(s \in cachedAt /\ s \in freshAt)
    <2>1. \A s \in used : s[2] \in Nat
      OBVIOUS
    <2> HIDE DEF used
    <2> QED BY <2>1
  <1> HIDE DEF cachedAt, freshAt, used
  <1>11. \A q \in Groups : \A i \in 1 .. end :
           /\ <<q, i - 1>> \in cachedAt => t[q][i] = h[<<q, i - 1>>]
           /\ <<q, i - 1>> \notin cachedAt /\ <<q, i - 1>> \in freshAt => t[q][i] = f[<<q, i - 1>>]
           /\ <<q, i - 1>> \notin used => t[q][i] = NullBlock
    <2>1. \A s : s \in cachedAt => entry(f, h, s) = h[s]
      BY <1>10, Zenon
    <2>2. \A s : s \notin cachedAt /\ s \in freshAt => entry(f, h, s) = f[s]
      BY Zenon
    <2>3. \A s : s \notin cachedAt /\ s \notin freshAt => entry(f, h, s) = NullBlock
      BY Zenon
    <2> HIDE DEF entry
    <2>4. ASSUME NEW q \in Groups, NEW i \in 1 .. end
          PROVE  /\ <<q, i - 1>> \in cachedAt => t[q][i] = h[<<q, i - 1>>]
                 /\ <<q, i - 1>> \notin cachedAt /\ <<q, i - 1>> \in freshAt => t[q][i] = f[<<q, i - 1>>]
                 /\ <<q, i - 1>> \notin used => t[q][i] = NullBlock
      <3>1. t[q][i] = entry(f, h, <<q, i - 1>>)
        BY <1>6
      <3>2. <<q, i - 1>> \notin used => <<q, i - 1>> \notin cachedAt /\ <<q, i - 1>> \notin freshAt
        BY <1>7
      <3> QED BY <2>1, <2>2, <2>3, <3>1, <3>2
    <2> QED BY <2>4
  <1> HIDE DEF entry
  <1>12. \A s \in cachedAt : h[s] \in Range(h) /\ h[s] \in Blocks
    BY <1>4 DEF Range
  <1>13. \A s \in freshAt : f[s] \in Free /\ f[s] \notin Range(h) /\ f[s] \in Blocks
    BY <1>5 DEF Free
  <1>14. ASSUME NEW i \in 1 .. end, i <= local, t[g][i] \in Blocks
         PROVE  content[t[g][i]] = Data(r, g, i - 1)
    <2>1. <<g, i - 1>> \in cachedAt
      BY <1>7, <1>11, <1>14, SetsAssumption
    <2> QED BY <2>1, <1>4, <1>11
  <1>15. ASSUME NEW i \in 1 .. end, i > local, t[g][i] \in Blocks
         PROVE  /\ t[g][i] \in Free
                /\ \A k \in Groups : \A m \in 1 .. end : t[k][m] = t[g][i] => k = g /\ m = i
    <2>1. <<g, i - 1>> \in freshAt /\ <<g, i - 1>> \notin cachedAt
      BY <1>7, <1>11, <1>15, SetsAssumption
    <2>2. t[g][i] = f[<<g, i - 1>>]
      BY <2>1, <1>11
    <2>3. ASSUME NEW k \in Groups, NEW m \in 1 .. end, t[k][m] = t[g][i]
          PROVE  k = g /\ m = i
      <3>1. <<k, m - 1>> \in freshAt /\ <<k, m - 1>> \notin cachedAt
        BY <2>1, <2>2, <2>3, <1>7, <1>11, <1>12, <1>13, <1>15, SetsAssumption
      <3>2. <<k, m - 1>> = <<g, i - 1>>
        BY <3>1, <2>1, <2>2, <2>3, <1>5, <1>11
      <3> QED BY <3>2
    <2> QED BY <2>1, <2>2, <2>3, <1>13
  <1>16. ASSUME g \in FullGroups, NEW i \in 1 .. end
         PROVE  t[g][i] \in Blocks
    BY <1>7, <1>8, <1>11, <1>12, <1>13, <1>16
  <1> QED BY <1>14, <1>15, <1>16

\* An extension has n entries for every group.
LEMMA ExtensionsShape ==
  ASSUME NEW r \in Requests, NEW n \in Nat, NEW e \in Extensions(r, n)
  PROVE  \A g \in Groups : DOMAIN e[g] = 1 .. n /\ Len(e[g]) = n
  <1>1. PICK f : e = [g \in Groups |-> [i \in 1 .. n |-> f[<<g, i>>]]]
    BY DEF Extensions
  <1> QED BY <1>1

\* A running request is given n blocks per group that nobody holds, all different.
LEMMA ExtensionsEntries ==
  ASSUME NEW r \in Requests, NEW n \in Nat, NEW e \in Extensions(r, n)
  PROVE  \A g \in Groups : \A i \in 1 .. n :
            /\ e[g][i] \in Blocks
            /\ \A q \in Requests \ {r} : e[g][i] \notin TableBlocks(table[q])
            /\ e[g][i] \notin TableBlocks(Skipped(r))
            /\ \A h \in Groups : \A k \in 1 .. n : e[h][k] = e[g][i] => h = g /\ k = i
  <1> DEFINE free  == Blocks \ UNION {TableBlocks(IF q = r THEN Skipped(r) ELSE table[q]) : q \in Requests}
             slots == Groups \X (1 .. n)
  <1>1. PICK f \in Injection(slots, free) : e = [g \in Groups |-> [i \in 1 .. n |-> f[<<g, i>>]]]
    BY DEF Extensions
  <1>2. f \in [slots -> free] /\ \A s, u \in slots : f[s] = f[u] => s = u
    BY <1>1 DEF Injection, IsInjective
  <1>3. \A g \in Groups : \A i \in 1 .. n : <<g, i>> \in slots /\ e[g][i] = f[<<g, i>>]
    BY <1>1
  <1>5. \A b \in free : /\ b \in Blocks
                        /\ \A q \in Requests \ {r} : b \notin TableBlocks(table[q])
                        /\ b \notin TableBlocks(Skipped(r))
    OBVIOUS
  <1> HIDE DEF free
  <1>6. \A g \in Groups : \A i \in 1 .. n : e[g][i] \in free
    <2> SUFFICES ASSUME NEW g \in Groups, NEW i \in 1 .. n PROVE e[g][i] \in free
      OBVIOUS
    <2>1. <<g, i>> \in slots
      OBVIOUS
    <2> HIDE DEF slots
    <2>2. f[<<g, i>>] \in free
      BY <1>2, <2>1
    <2> QED BY <1>3, <2>2
  <1>7. \A g, h \in Groups : \A i, k \in 1 .. n : e[h][k] = e[g][i] => <<h, k>> = <<g, i>>
    <2> SUFFICES ASSUME NEW g \in Groups, NEW h \in Groups, NEW i \in 1 .. n, NEW k \in 1 .. n
                 PROVE  e[h][k] = e[g][i] => <<h, k>> = <<g, i>>
      OBVIOUS
    <2>1. <<g, i>> \in slots /\ <<h, k>> \in slots
      OBVIOUS
    <2>2. e[g][i] = f[<<g, i>>] /\ e[h][k] = f[<<h, k>>]
      BY <1>3
    <2> HIDE DEF slots
    <2>3. f[<<h, k>>] = f[<<g, i>>] => <<h, k>> = <<g, i>>
      BY <1>2, <2>1
    <2> QED BY <2>2, <2>3
  <1>8. \A g, h \in Groups : \A i, k \in 1 .. n : e[h][k] = e[g][i] => h = g /\ k = i
    BY <1>7
  <1> QED BY <1>5, <1>6, <1>8

-----------------------------------------------------------------------------
(***************************************************************************)
(* Positions and chunks.                                                   *)
(***************************************************************************)
\* What a quotient is.
LEMMA Quotient ==
  ASSUME NEW a \in Nat, NEW f \in Nat \ {0}
  PROVE  a \div f \in Nat /\ f * (a \div f) <= a /\ a < f * (a \div f) + f
  OBVIOUS

\* Products keep the order.
LEMMA ProductOrder ==
  ASSUME NEW f \in Nat \ {0}, NEW x \in Int, NEW y \in Int, x < y
  PROVE  f * x + f <= f * y
  <1>1. f * (x + 1) <= f * y
    <2>1. x + 1 <= y
      OBVIOUS
    <2>2. PICK d \in Nat : y = x + 1 + d
      <3>1. y - x - 1 \in Nat /\ y = x + 1 + (y - x - 1)
        BY <2>1
      <3> QED BY <3>1
    <2>3. f * y = f * (x + 1) + f * d
      BY <2>2
    <2>4. f * d \in Nat
      OBVIOUS
    <2> QED BY <2>3, <2>4
  <1>2. f * (x + 1) = f * x + f
    OBVIOUS
  <1> QED BY <1>1, <1>2

\* Later positions are in later chunks.
LEMMA ChunkOrder ==
  ASSUME NEW a \in Nat, NEW b \in Nat, a <= b
  PROVE  ChunkOf(a) \in Nat /\ ChunkOf(b) \in Nat /\ ChunkOf(a) <= ChunkOf(b)
  <1>1. BlockSizeFactor \in Nat \ {0}
    BY CountsAssumption
  <1> DEFINE f == BlockSizeFactor
             x == a \div f
             y == b \div f
  <1>2. x \in Nat /\ y \in Nat /\ a < f * x + f /\ f * x <= a /\ f * y <= b /\ b < f * y + f
    BY <1>1, Quotient
  <1> HIDE DEF x, y, f
  <1>3. ASSUME y < x PROVE FALSE
    <2>1. f * y + f <= f * x
      BY <1>1, <1>2, <1>3, ProductOrder DEF f
    <2>2. f * x \in Nat /\ f * y \in Nat /\ f \in Nat
      BY <1>1, <1>2 DEF f
    <2> QED BY <1>2, <2>1, <2>2
  <1>4. x <= y
    BY <1>2, <1>3
  <1> QED BY <1>2, <1>4 DEF ChunkOf, x, y, f

\* A position of the window of a hit is in one of its last WindowChunks chunks.
LEMMA WindowInChunks ==
  ASSUME NEW c \in Nat, NEW p \in Nat, c * BlockSizeFactor - Window <= p
  PROVE  c - WindowChunks <= ChunkOf(p)
  <1>1. BlockSizeFactor \in Nat \ {0} /\ Window \in Nat \ {0}
    BY CountsAssumption
  <1> DEFINE f == BlockSizeFactor
             w == Window
             q == p \div f
             k == (w + f - 1) \div f
  <1>2. q \in Nat /\ p < f * q + f
    BY <1>1, Quotient
  <1>3. k \in Nat /\ w + f - 1 < f * k + f
    <2>1. w + f - 1 \in Nat
      BY <1>1
    <2> QED BY <1>1, <2>1, Quotient
  <1>4. f \in Nat \ {0} /\ w \in Nat /\ f * c - w <= p
    BY <1>1
  <1> HIDE DEF q, k, f, w
  <1>5. ASSUME q + k < c PROVE FALSE
    <2>1. f * (q + k) + f <= f * c
      BY <1>2, <1>3, <1>4, <1>5, ProductOrder
    <2>2. f * (q + k) = f * q + f * k
      BY <1>2, <1>3, <1>4
    <2>3. f * q \in Nat /\ f * k \in Nat /\ f * c \in Nat
      BY <1>2, <1>3, <1>4
    <2> QED BY <1>2, <1>3, <1>4, <2>1, <2>2, <2>3
  <1>6. c <= q + k
    BY <1>2, <1>3, <1>5
  <1>7. WindowChunks = k /\ ChunkOf(p) = q
    BY DEF WindowChunks, CDiv, ChunkOf, k, q, f, w
  <1> QED BY <1>2, <1>3, <1>6, <1>7

-----------------------------------------------------------------------------
(***************************************************************************)
(* Keys and copies.                                                        *)
(***************************************************************************)
\* A chunk of a request has a key.
LEMMA KeyType == \A r \in Requests, g \in Groups, c \in Nat : Key(r, g, c) \in Keys
  BY DEF Key, Keys, Prompts

\* A block of a request has a datum.
LEMMA DataType == \A r \in Requests, g \in Groups, p \in Nat : Data(r, g, p) \in Datum
  BY DEF Data, Datum, Prompts

\* A load copies blocks of the request's table.
LEMMA LoadCopiesType ==
  ASSUME NEW t, NEW local \in Nat, NEW hit \in Nat
  PROVE  LoadCopies(t, local, hit) \subseteq Copy
  BY DEF LoadCopies, Copy

\* A load reads keys.
LEMMA LoadKeysType ==
  ASSUME NEW r \in Requests, NEW copies, NEW c \in Nat
  PROVE  LoadKeys(r, copies, c) \subseteq Keys
  BY DEF LoadKeys, Key, Keys, Prompts

\* A store copies blocks that the connector knows.
LEMMA StoreCopiesType ==
  ASSUME NEW r \in Requests, NEW end \in Nat, NEW keys
  PROVE  StoreCopies(r, end, keys) \subseteq Copy
  BY CountsAssumption DEF StoreCopies, Copy

-----------------------------------------------------------------------------
(***************************************************************************)
(* Type correctness: one lemma per action that does more than move values  *)
(* of the right type around.                                               *)
(***************************************************************************)
\* An exception leaves every variable its type.
LEMMA RaiseType ==
  ASSUME TypeOK, error' \in Errors, pc' = "dead",
         UNCHANGED <<engineVars, requestVars, jobVars, batchVars, workerVars, managerVars,
                     staleJob, loading, resets>>
  PROVE  TypeOK'
  BY DEF TypeOK, engineVars, requestVars, jobVars, batchVars, workerVars, managerVars

\* A new job is a job.
LEMMA NewJobType ==
  ASSUME TypeOK, NEW r \in Requests, NEW isStore \in BOOLEAN, NEW keys \in SUBSET Keys,
         NEW copies \in SUBSET Copy, jobCounter < MaxJobs, NewJob(r, isStore, keys, copies)
  PROVE  /\ jobCounter \in JobIds
         /\ (jobCounter \in 0 .. MaxJobs)'
         /\ (jobs \subseteq JobIds)'
         /\ (job \in [JobIds -> Job])'
         /\ (pending \in Counts)'
         /\ (transferJobs \in [Requests -> SUBSET JobIds])'
  <1> DEFINE new == [req |-> r, isStore |-> isStore, keys |-> keys, copies |-> copies]
  <1>1. jobCounter \in JobIds /\ jobCounter + 1 \in 0 .. MaxJobs
    BY CountsAssumption DEF TypeOK, JobIds
  <1>2. new \in Job
    BY DEF Job
  <1>3. job' = [job EXCEPT ![jobCounter] = new] /\ job \in [JobIds -> Job]
    BY DEF NewJob, TypeOK
  <1>4. (job \in [JobIds -> Job])'
    <2> HIDE DEF new
    <2> QED BY <1>1, <1>2, <1>3
  <1>5. (pending \in Counts)'
    BY <1>1, CountsAssumption DEF NewJob, TypeOK, Counts, ReportsExpected
  <1> QED
    BY <1>1, <1>4, <1>5 DEF NewJob, TypeOK

\* A request that is put off keeps the types.
LEMMA NotAdmittedType ==
  ASSUME TypeOK, NEW r \in Requests, NotAdmitted(r)
  PROVE  TypeOK'
  BY EmptyTableType
  DEF TypeOK, NotAdmitted, engineVars, jobVars, batchVars, workerVars, managerVars

\* Admitting a request without a load keeps the types.
LEMMA AdmitWithoutLoadType ==
  ASSUME TypeOK, NEW r \in Requests, NEW n \in 1 .. MaxChunk, AdmitWithoutLoad(r, n)
  PROVE  TypeOK'
  <1>1. PICK local \in 0 .. PromptLen : AdmitWithoutLoad(r, n)!(local)
    BY DEF AdmitWithoutLoad
  <1>2. PICK t \in TablesFor(r, local, local, local + n) : StartOn(r, t, local, n)
    BY <1>1
  <1>3. t \in Tables
    BY <1>2, TablesForType, CountsAssumption
  <1> QED
    BY <1>1, <1>2, <1>3, EmptyTableType, CountsAssumption
    DEF StartOn, TypeOK, Overwritten, Phases, jobVars, batchVars, workerVars, managerVars

\* Scheduling a request whose load arrived keeps the types.
LEMMA ScheduleLoadedType ==
  ASSUME TypeOK, NEW r \in Requests, NEW n \in 1 .. MaxChunk, ScheduleLoaded(r, n)
  PROVE  TypeOK'
  <1>1. PICK e \in Extensions(r, n) :
           LET t == Concat(Skipped(r), e)
           IN  /\ table' = [table EXCEPT ![r] = t]
               /\ sched' = [sched EXCEPT ![r] = [n |-> n, fresh |-> TRUE, new |-> t]]
               /\ content' = Overwritten(TableBlocks(e))
    BY DEF ScheduleLoaded
  <1>2. Concat(Skipped(r), e) \in Tables
    BY <1>1, ExtensionsType, SkippedType, ConcatType DEF TypeOK
  <1> QED
    BY <1>1, <1>2
    DEF ScheduleLoaded, TypeOK, Overwritten, Phases, requestVars, jobVars, batchVars,
        workerVars, managerVars

\* Scheduling a running request keeps the types.
LEMMA ScheduleRunningType ==
  ASSUME TypeOK, NEW r \in Requests, NEW n \in 1 .. MaxChunk, ScheduleRunning(r, n)
  PROVE  TypeOK'
  <1>1. PICK e \in Extensions(r, n) :
           /\ table' = [table EXCEPT ![r] = Concat(Skipped(r), e)]
           /\ sched' = [sched EXCEPT ![r] = [n |-> n, fresh |-> FALSE, new |-> e]]
           /\ content' = Overwritten(TableBlocks(e))
    BY DEF ScheduleRunning
  <1>2. e \in Tables /\ Concat(Skipped(r), e) \in Tables
    BY <1>1, ExtensionsType, SkippedType, ConcatType DEF TypeOK
  <1> QED
    BY <1>1, <1>2
    DEF ScheduleRunning, TypeOK, Overwritten, requestVars, jobVars, batchVars,
        workerVars, managerVars

\* Admitting a request with a load, or raising instead, keeps the types.
LEMMA AdmitWithLoadType ==
  ASSUME TypeOK, NEW r \in Requests, AdmitWithLoad(r)
  PROVE  TypeOK'
  <1>1. PICK local \in 0 .. PromptLen : \E c \in LoadableChunks(r, local) : AdmitWithLoad(r)!(local)!(c)
    BY DEF AdmitWithLoad
  <1>2. PICK c \in LoadableChunks(r, local) : AdmitWithLoad(r)!(local)!(c)
    BY <1>1
  <1> DEFINE hit == c * BlockSizeFactor
  <1>3. c \in Nat /\ hit \in Nat /\ local \in Nat
    BY CountsAssumption DEF LoadableChunks
  <1>4. PICK t \in TablesFor(r, local, hit, hit) :
           IF transferJobs[r] # {}
           THEN Raise("load issued while jobs are pending")
           ELSE /\ IssueLoad(r, t, local, c)
                /\ table' = [table EXCEPT ![r] = t]
                /\ content' = Overwritten(Claimed(t, local))
                /\ computed' = [computed EXCEPT ![r] = hit]
                /\ phase' = [phase EXCEPT ![r] = "loading"]
                /\ blockIds' = [blockIds EXCEPT ![r] = EmptyTable]
                /\ UNCHANGED <<pc, sched, preempted, finishedIds, tracked, workerVars,
                               managerVars, staleJob, error, resets>>
    BY <1>2 DEF LoadInto
  <1>5. CASE transferJobs[r] # {}
    <2>1. error' \in Errors /\ pc' = "dead"
      BY <1>4, <1>5 DEF Raise, Errors
    <2>2. UNCHANGED <<engineVars, requestVars, jobVars, batchVars, workerVars, managerVars,
                      staleJob, loading, resets>>
      BY <1>4, <1>5 DEF Raise
    <2> QED BY <2>1, <2>2, RaiseType
  <1>6. CASE transferJobs[r] = {}
    <2> DEFINE copies == LoadCopies(t, local, hit)
               keys   == LoadKeys(r, copies, c)
    <2>1. copies \in SUBSET Copy /\ keys \in SUBSET Keys
      BY <1>3, LoadCopiesType, LoadKeysType
    <2>2. NewJob(r, FALSE, keys, copies) /\ jobCounter < MaxJobs
      BY <1>2, <1>4, <1>6 DEF IssueLoad
    <2>3. t \in Tables /\ TableBlocks(t) \subseteq Blocks
      BY <1>3, <1>4, TablesForType, TableBlocksType
    <2> HIDE DEF copies, keys, hit
    <2>4. /\ jobCounter \in JobIds
          /\ (jobCounter \in 0 .. MaxJobs)'
          /\ (jobs \subseteq JobIds)'
          /\ (job \in [JobIds -> Job])'
          /\ (pending \in Counts)'
          /\ (transferJobs \in [Requests -> SUBSET JobIds])'
      BY <2>1, <2>2, NewJobType
    <2>5. /\ batchLoads' = batchLoads \cup {jobCounter}
          /\ loading' = IF PrefixCaching THEN loading \cup keys ELSE loading
          /\ allocated' = allocated \cup TableBlocks(t)
          /\ nextStored' = IF BlockLevel THEN [nextStored EXCEPT ![r] = [g \in Groups |-> c]]
                                         ELSE nextStored
          /\ UNCHANGED <<pendingJobs, batchStores, toFlush, toStore>>
      BY <1>4, <1>6 DEF IssueLoad, copies, keys, hit
    <2>6. /\ table' = [table EXCEPT ![r] = t]
          /\ content' = Overwritten(Claimed(t, local))
          /\ computed' = [computed EXCEPT ![r] = hit]
          /\ phase' = [phase EXCEPT ![r] = "loading"]
          /\ blockIds' = [blockIds EXCEPT ![r] = EmptyTable]
          /\ UNCHANGED <<pc, sched, preempted, finishedIds, tracked, workerVars,
                         managerVars, staleJob, error, resets>>
      BY <1>4, <1>6
    <2>7. (content \in [Blocks -> Datum \cup {Nothing}])'
      BY <2>6 DEF TypeOK, Overwritten
    <2>8. (nextStored \in [Requests -> [Groups -> Nat]])'
      BY <1>3, <2>5 DEF TypeOK
    <2> QED
      BY <1>3, <2>1, <2>3, <2>4, <2>5, <2>6, <2>7, <2>8, EmptyTableType
      DEF TypeOK, Phases, workerVars, managerVars
  <1> QED BY <1>5, <1>6

\* Preempting a request keeps the types.
LEMMA PreemptType ==
  ASSUME TypeOK, NEW r \in Requests, Preempt(r)
  PROVE  TypeOK'
  <1>1. /\ phase' = [phase EXCEPT ![r] = "waiting"]
        /\ computed' = [computed EXCEPT ![r] = 0]
        /\ table' = [table EXCEPT ![r] = EmptyTable]
        /\ preempted' = preempted \cup {r}
        /\ UNCHANGED <<pc, content, sched, finishedIds, requestVars, jobVars, batchVars,
                       workerVars, managerVars, staleJob, loading, error, resets>>
    BY DEF Preempt
  <1> QED
    BY <1>1, EmptyTableType
    DEF TypeOK, Phases, requestVars, jobVars, batchVars, workerVars, managerVars

\* The block lists that _update_req_states leaves are tables.
LEMMA UpdatedIdsType ==
  ASSUME TypeOK, NEW r \in Requests
  PROVE  UpdatedIds(r) \in Tables
  <1>1. KnownIds(r) \in Tables /\ sched[r].new \in Tables
    BY EmptyTableType DEF TypeOK, KnownIds
  <1>2. \A g \in Groups : Concat(KnownIds(r), sched[r].new)[g] = KnownIds(r)[g] \o sched[r].new[g]
    BY DEF Concat
  <1> HIDE DEF KnownIds
  <1>3. ASSUME NEW g \in Groups, NEW i \in 1 .. Len(KnownIds(r)[g]) + Len(sched[r].new[g])
        PROVE  Concat(KnownIds(r), sched[r].new)[g][i] \in BlockId
    <2>1. KnownIds(r)[g] \in Seq(BlockId) /\ sched[r].new[g] \in Seq(BlockId)
      BY <1>1 DEF Tables
    <2>2. Concat(KnownIds(r), sched[r].new)[g] \in Seq(BlockId)
      BY <1>2, <2>1, ConcatProperties
    <2>3. i \in 1 .. Len(Concat(KnownIds(r), sched[r].new)[g])
      BY <1>2, <2>1, ConcatProperties
    <2> QED BY <2>2, <2>3, ElementOfSeq
  <1>4. \A g \in Groups : Len(KnownIds(r)[g]) + Len(sched[r].new[g]) \in Nat
    BY <1>1 DEF Tables
  <1>5. ASSUME NEW g \in Groups
        PROVE  UpdatedIds(r)[g] \in Seq(BlockId)
    <2> DEFINE ids(i) == IF Stale(r, g, i) THEN NullBlock ELSE Concat(KnownIds(r), sched[r].new)[g][i]
               len    == Len(KnownIds(r)[g]) + Len(sched[r].new[g])
    <2>1. UpdatedIds(r)[g] = [i \in 1 .. len |-> ids(i)]
      BY DEF UpdatedIds
    <2>2. \A i \in 1 .. len : ids(i) \in BlockId
      BY <1>3 DEF BlockId
    <2>3. len \in Nat
      BY <1>4
    <2> HIDE DEF ids, len
    <2> QED BY <2>1, <2>2, <2>3
  <1> QED BY <1>5 DEF UpdatedIds, Tables

\* One sequence appended to another, of which some entries are replaced.
LEMMA AppendedEntries ==
  ASSUME NEW S, NEW s \in Seq(S), NEW u \in Seq(S), NEW Z \in SUBSET (1 .. Len(s)), NEW v,
         NEW ids, ids = [i \in 1 .. Len(s) + Len(u) |-> IF i \in Z THEN v ELSE (s \o u)[i]]
  PROVE  /\ Len(s) \in Nat /\ Len(u) \in Nat
         /\ Len(ids) = Len(s) + Len(u) /\ DOMAIN ids = 1 .. Len(s) + Len(u)
         /\ \A i \in 1 .. Len(s) : ids[i] = (IF i \in Z THEN v ELSE s[i])
         /\ \A k \in 1 .. Len(u) : ids[Len(s) + k] = u[k]
  <1>1. Len(s) \in Nat /\ Len(u) \in Nat
    OBVIOUS
  <1> SUFFICES ASSUME NEW m \in Nat, m = Len(s), NEW n \in Nat, n = Len(u)
               PROVE  /\ Len(ids) = m + n /\ DOMAIN ids = 1 .. m + n
                      /\ \A i \in 1 .. m : ids[i] = (IF i \in Z THEN v ELSE s[i])
                      /\ \A k \in 1 .. n : ids[m + k] = u[k]
    BY <1>1
  <1>2. \A i \in 1 .. m + n : (s \o u)[i] = (IF i <= m THEN s[i] ELSE u[i - m])
    BY ConcatProperties
  <1> DEFINE w == s \o u
  <1>3. ids = [i \in 1 .. m + n |-> IF i \in Z THEN v ELSE w[i]]
    OBVIOUS
  <1> HIDE DEF w
  <1>4. Len(ids) = m + n /\ DOMAIN ids = 1 .. m + n
    BY <1>3
  <1>5. \A i \in 1 .. m : ids[i] = (IF i \in Z THEN v ELSE s[i])
    BY <1>2, <1>3 DEF w
  <1>6. \A k \in 1 .. n : ids[m + k] = u[k]
    <2> SUFFICES ASSUME NEW k \in 1 .. n PROVE ids[m + k] = u[k]
      OBVIOUS
    <2>1. m + k \in 1 .. m + n /\ ~(m + k <= m) /\ (m + k) - m = k /\ m + k \notin Z
      OBVIOUS
    <2> QED BY <2>1, <1>2, <1>3 DEF w
  <1> QED BY <1>4, <1>5, <1>6

\* _update_req_states appends what was allocated and zeroes what went stale.
LEMMA UpdatedEntries ==
  ASSUME TypeOK, NEW r \in Requests, NEW g \in Groups
  PROVE  /\ KnownIds(r)[g] \in Seq(BlockId) /\ sched[r].new[g] \in Seq(BlockId)
         /\ Len(KnownIds(r)[g]) \in Nat /\ Len(sched[r].new[g]) \in Nat
         /\ Len(UpdatedIds(r)[g]) = Len(KnownIds(r)[g]) + Len(sched[r].new[g])
         /\ DOMAIN UpdatedIds(r)[g] = 1 .. Len(KnownIds(r)[g]) + Len(sched[r].new[g])
         /\ \A i \in 1 .. Len(KnownIds(r)[g]) :
               UpdatedIds(r)[g][i] = (IF Stale(r, g, i) THEN NullBlock ELSE KnownIds(r)[g][i])
         /\ \A k \in 1 .. Len(sched[r].new[g]) :
               UpdatedIds(r)[g][Len(KnownIds(r)[g]) + k] = sched[r].new[g][k]
  <1> DEFINE known == KnownIds(r)[g]
             new   == sched[r].new[g]
             zero  == {i \in 1 .. Len(known) : Stale(r, g, i)}
  <1>1. known \in Seq(BlockId) /\ new \in Seq(BlockId)
    BY EmptyTableType DEF TypeOK, KnownIds, Tables
  <1>2. UpdatedIds(r)[g] = [i \in 1 .. Len(known) + Len(new) |-> IF Stale(r, g, i) THEN NullBlock ELSE (known \o new)[i]]
    BY DEF UpdatedIds, Concat
  <1>3. \A i \in 1 .. Len(known) + Len(new) : Stale(r, g, i) <=> i \in zero
    BY <1>1 DEF Stale
  <1>4. \A i \in 1 .. Len(known) : Stale(r, g, i) <=> i \in zero
    OBVIOUS
  <1>5. zero \in SUBSET (1 .. Len(known))
    OBVIOUS
  <1> HIDE DEF known, new, zero
  <1>6. UpdatedIds(r)[g] = [i \in 1 .. Len(known) + Len(new) |-> IF i \in zero THEN NullBlock ELSE (known \o new)[i]]
    BY <1>2, <1>3
  <1>7. /\ Len(known) \in Nat /\ Len(new) \in Nat
        /\ Len(UpdatedIds(r)[g]) = Len(known) + Len(new) /\ DOMAIN UpdatedIds(r)[g] = 1 .. Len(known) + Len(new)
        /\ \A i \in 1 .. Len(known) : UpdatedIds(r)[g][i] = (IF i \in zero THEN NullBlock ELSE known[i])
        /\ \A k \in 1 .. Len(new) : UpdatedIds(r)[g][Len(known) + k] = new[k]
    BY <1>1, <1>5, <1>6, AppendedEntries
  <1> QED BY <1>1, <1>4, <1>7 DEF known, new

\* _update_req_states and the flush set keep the types.
LEMMA BeginConnectorMetaType ==
  ASSUME TypeOK, BeginConnectorMeta
  PROVE  TypeOK'
  <1>1. \/ Raise("scheduled request has no status")
        \/ Raise("unknown job of a preempted request")
        \/ Raise("preempted request has a load")
        \/ /\ pc' = "store"
           /\ blockIds' = [r \in Requests |-> IF r \in tracked THEN UpdatedIds(r) ELSE blockIds[r]]
           /\ allocated' = AllocatedNow
           /\ toFlush' = toFlush \cup FlushPreempted \cup FlushReused \cup FlushAll
           /\ toStore' = Scheduled
           /\ UNCHANGED <<engineVars, tracked, nextStored, jobVars, batchLoads, batchStores,
                          workerVars, managerVars, staleJob, loading, error, resets>>
    BY DEF BeginConnectorMeta
  <1>2. CASE \/ Raise("scheduled request has no status")
             \/ Raise("unknown job of a preempted request")
             \/ Raise("preempted request has a load")
    BY <1>2, RaiseType DEF Raise, Errors
  <1>3. CASE /\ pc' = "store"
             /\ blockIds' = [r \in Requests |-> IF r \in tracked THEN UpdatedIds(r) ELSE blockIds[r]]
             /\ allocated' = AllocatedNow
             /\ toFlush' = toFlush \cup FlushPreempted \cup FlushReused \cup FlushAll
             /\ toStore' = Scheduled
             /\ UNCHANGED <<engineVars, tracked, nextStored, jobVars, batchLoads, batchStores,
                            workerVars, managerVars, staleJob, loading, error, resets>>
    <2>1. AllocatedNow \subseteq Blocks
      BY TableBlocksType DEF TypeOK, AllocatedNow, Scheduled
    <2>2. (blockIds \in [Requests -> Tables])'
      BY <1>3, UpdatedIdsType DEF TypeOK
    <2>3. (toFlush \subseteq JobIds)'
      BY <1>3, <2>1 DEF TypeOK, FlushPreempted, FlushReused, FlushAll
    <2> QED
      BY <1>3, <2>1, <2>2, <2>3
      DEF TypeOK, Scheduled, engineVars, jobVars, workerVars, managerVars
  <1> QED BY <1>1, <1>2, <1>3

\* The manager holds chunks of requests.
LEMMA StoreChunksType ==
  ASSUME TypeOK, NEW r \in Requests, NEW end \in Nat, StoreChunks(r, end),
         UNCHANGED <<pc, engineVars, tracked, blockIds, batchLoads, toFlush, allocated,
                     workerVars, staleJob, loading, resets>>,
         toStore' = toStore \ {r}
  PROVE  TypeOK'
  <1> DEFINE new  == {Key(r, s[1], s[2]) : s \in NewChunks(r, end)}
             keys == new \ Held
             copies == StoreCopies(r, end, keys)
  <1>1. \A n \in [Requests -> [Groups -> Nat]] : SkipStore(n) => TypeOK'
    BY DEF SkipStore, TypeOK, engineVars, jobVars, workerVars, managerVars
  <1>2. Advanced(r, end) \in [Requests -> [Groups -> Nat]]
    BY DEF TypeOK, Advanced
  <1>3. CASE SkipStore(Advanced(r, end)) \/ SkipStore(nextStored)
    BY <1>1, <1>2, <1>3 DEF TypeOK
  <1>4. CASE Evictions(new) # {} /\ \E evicted \in Evictions(new) : IssueStore(r, end, keys, evicted)
    <2>1. PICK evicted \in Evictions(new) : IssueStore(r, end, keys, evicted)
      BY <1>4
    <2>2. keys \in SUBSET Keys
      BY DEF NewChunks, Key, Keys, Prompts
    <2>3. copies \in SUBSET Copy
      BY StoreCopiesType
    <2>4. jobCounter < MaxJobs
      BY <1>4, CountsAssumption DEF Evictions, TypeOK
    <2> HIDE DEF keys, new
    <2>5. NewJob(r, TRUE, keys, copies)
      BY <2>1 DEF IssueStore
    <2>6. /\ jobCounter \in JobIds
          /\ (jobCounter \in 0 .. MaxJobs)'
          /\ (jobs \subseteq JobIds)'
          /\ (job \in [JobIds -> Job])'
          /\ (pending \in Counts)'
          /\ (transferJobs \in [Requests -> SUBSET JobIds])'
      BY <2>2, <2>3, <2>4, <2>5, NewJobType
    <2>7. /\ batchStores' = batchStores \cup {jobCounter}
          /\ pendingJobs' = [b \in Blocks |->
               IF \E d \in copies : d[1] \in SWGroups /\ d[3] = b
               THEN pendingJobs[b] \cup {jobCounter} ELSE pendingJobs[b]]
          /\ nextStored' = Advanced(r, end)
          /\ ready' = ready \ evicted
          /\ stored' = (stored \ StoredOf(evicted \cup keys)) \cup {Data(r, d[1], d[2]) : d \in copies}
          /\ UNCHANGED error
      BY <2>1 DEF IssueStore
    <2>8. (pendingJobs \in [Blocks -> SUBSET JobIds])'
      BY <2>6, <2>7 DEF TypeOK
    <2>9. {Data(r, d[1], d[2]) : d \in copies} \subseteq Datum
      BY <2>3, DataType DEF Copy
    <2> HIDE DEF copies
    <2> QED
      BY <1>2, <2>6, <2>7, <2>8, <2>9 DEF TypeOK, engineVars, workerVars
  <1> QED BY <1>3, <1>4 DEF StoreChunks

\* An iteration of _build_store_jobs keeps the types.
LEMMA StoreJobsType ==
  ASSUME TypeOK, NEW r \in Requests, StoreJobs(r)
  PROVE  TypeOK'
  <1>1. PICK tokens \in Offloadable(r) : StoreJobs(r)!2!(tokens)
    BY DEF StoreJobs
  <1> DEFINE end == ChunkOf(tokens)
  <1>2. CASE r \in tracked /\ Refused(r, end) # "none"
    <2>1. Refused(r, end) \in Errors
      BY DEF Refused, Errors
    <2> QED BY <1>1, <1>2, <2>1, RaiseType DEF Raise
  <1>3. CASE ~(r \in tracked /\ Refused(r, end) # "none")
    <2>1. /\ IF r \in tracked THEN StoreChunks(r, end) ELSE SkipStore(nextStored)
          /\ toStore' = toStore \ {r}
          /\ UNCHANGED <<pc, engineVars, tracked, blockIds, batchLoads, toFlush, allocated,
                         workerVars, staleJob, loading, resets>>
      BY <1>1, <1>3
    <2>2. end \in Nat
      <3>1. tokens \in Nat
        BY CountsAssumption DEF Offloadable, TypeOK, AtMost, AtLeast0
      <3> QED BY <3>1, CountsAssumption DEF ChunkOf
    <2>3. CASE r \in tracked
      BY <2>1, <2>2, <2>3, StoreChunksType
    <2>4. CASE r \notin tracked
      BY <2>1, <2>4
      DEF SkipStore, TypeOK, engineVars, jobVars, workerVars, managerVars
    <2> QED BY <2>3, <2>4
  <1> QED BY <1>2, <1>3

\* The execution of a step keeps the types.
LEMMA EndConnectorMetaType ==
  ASSUME TypeOK, EndConnectorMeta
  PROVE  TypeOK'
  <1> DEFINE filled(b) == {f \in Scheduled \X Groups \X (0 .. MaxLen - 1) :
                             /\ f[3] \in computed[f[1]] .. computed[f[1]] + sched[f[1]].n - 1
                             /\ table[f[1]][f[2]][f[3] + 1] = b}
             rep == [j \in JobIds |-> IF j \in toFlush THEN done[j] + left[j] ELSE done[j]]
  <1>1. (content \in [Blocks -> Datum \cup {Nothing}])'
    <2>1. content' = [b \in Blocks |->
            IF filled(b) = {} THEN content[b]
            ELSE LET f == CHOOSE f \in filled(b) : TRUE IN Data(f[1], f[2], f[3])]
      BY DEF EndConnectorMeta
    <2>2. ASSUME NEW b \in Blocks, filled(b) # {}
          PROVE  (LET f == CHOOSE f \in filled(b) : TRUE IN Data(f[1], f[2], f[3])) \in Datum
      <3> DEFINE f == CHOOSE f \in filled(b) : TRUE
      <3>1. f \in filled(b)
        BY <2>2
      <3>2. \A x \in filled(b) : x[1] \in Requests /\ x[2] \in Groups /\ x[3] \in Nat
        BY CountsAssumption DEF Scheduled
      <3> HIDE DEF f, filled
      <3>3. Data(f[1], f[2], f[3]) \in Datum
        BY <3>1, <3>2, DataType
      <3> QED BY <3>3 DEF f
    <2> HIDE DEF filled
    <2> QED BY <2>1, <2>2 DEF TypeOK
  <1>2. (outputs \in Seq(Counts))'
    <2>1. rep \in Counts
      BY DEF TypeOK, Counts
    <2>2. outputs' = Append(outputs, rep)
      BY DEF EndConnectorMeta
    <2> HIDE DEF rep
    <2> QED BY <2>1, <2>2 DEF TypeOK
  <1>3. (left \in Counts)'
    BY CountsAssumption DEF EndConnectorMeta, TypeOK, Counts
  <1>4. (computed \in [Requests -> Nat])'
    <2>1. computed' = [r \in Requests |-> computed[r] + sched[r].n]
      BY DEF EndConnectorMeta
    <2>2. \A r \in Requests : computed[r] \in Nat /\ sched[r].n \in Nat
      BY DEF TypeOK
    <2> QED BY <2>1, <2>2
  <1>5. (sched \in [Requests -> [n : Nat, fresh : BOOLEAN, new : Tables]])'
    BY EmptyTableType DEF EndConnectorMeta, NotScheduled
  <1>6. (done \in Counts)'
    BY DEF EndConnectorMeta, Counts, NoReport
  <1>7. /\ pc' = "idle" /\ preempted' = {} /\ batchLoads' = {} /\ batchStores' = {}
        /\ toFlush' = {} /\ allocated' = {}
        /\ UNCHANGED <<phase, table, finishedIds, requestVars, jobVars, report, managerVars,
                       staleJob, loading, toStore, error, resets>>
    BY DEF EndConnectorMeta
  <1> QED
    BY <1>1, <1>2, <1>3, <1>4, <1>5, <1>6, <1>7
    DEF TypeOK, requestVars, jobVars, managerVars

\* Taking a report keeps the types.
LEMMA TakeOutputType ==
  ASSUME TypeOK, TakeOutput
  PROVE  TypeOK'
  <1>1. (outputs \in Seq(Counts))' /\ (report \in Counts)'
    BY HeadTailProperties DEF TakeOutput, TypeOK
  <1>2. pc' \in {"idle", "output"}
    BY DEF TakeOutput, AfterReport
  <1>3. UNCHANGED <<engineVars, requestVars, jobVars, batchVars, left, done, managerVars,
                    staleJob, loading, error, resets>>
    BY DEF TakeOutput
  <1> QED
    BY <1>1, <1>2, <1>3
    DEF TypeOK, engineVars, requestVars, jobVars, batchVars, managerVars

\* Forgetting a request keeps the types.
LEMMA ForgetType ==
  ASSUME TypeOK, NEW r, Forget(r) \/ UNCHANGED requestVars
  PROVE  /\ (tracked \subseteq Requests)'
         /\ (blockIds \in [Requests -> Tables])'
         /\ (nextStored \in [Requests -> [Groups -> Nat]])'
  <1>1. CASE UNCHANGED requestVars
    BY <1>1 DEF requestVars, TypeOK
  <1>2. CASE Forget(r)
    <2>1. (tracked \subseteq Requests)'
      BY <1>2 DEF Forget, TypeOK
    <2>2. (blockIds \in [Requests -> Tables])'
      BY <1>2, EmptyTableType DEF Forget, TypeOK
    <2>3. (nextStored \in [Requests -> [Groups -> Nat]])'
      BY <1>2 DEF Forget, TypeOK
    <2> QED BY <2>1, <2>2, <2>3
  <1> QED BY <1>1, <1>2

\* What a completed job leaves.
LEMMA CompleteJobType ==
  ASSUME TypeOK, NEW j \in JobIds, job[j].req \in Requests, job[j] \in Job, CompleteJob(j)
  PROVE  /\ (ready \subseteq Keys)'
         /\ (loading \subseteq Keys)'
         /\ (pendingJobs \in [Blocks -> SUBSET JobIds])'
         /\ (jobs \subseteq JobIds)'
         /\ (transferJobs \in [Requests -> SUBSET JobIds])'
         /\ (tracked \subseteq Requests)'
         /\ (blockIds \in [Requests -> Tables])'
         /\ (nextStored \in [Requests -> [Groups -> Nat]])'
  <1>1. job[j].keys \subseteq Keys
    BY DEF Job, NoJob
  <1>2. (ready \subseteq Keys)' /\ (loading \subseteq Keys)' /\ (jobs \subseteq JobIds)'
    BY <1>1 DEF CompleteJob, TypeOK
  <1>3. (pendingJobs \in [Blocks -> SUBSET JobIds])'
    BY DEF CompleteJob, TypeOK
  <1>4. (transferJobs \in [Requests -> SUBSET JobIds])'
    BY DEF CompleteJob, TypeOK, OtherTransferJobs
  <1>5. Forget(job[j].req) \/ UNCHANGED requestVars
    BY DEF CompleteJob
  <1>6. /\ (tracked \subseteq Requests)'
        /\ (blockIds \in [Requests -> Tables])'
        /\ (nextStored \in [Requests -> [Groups -> Nat]])'
    BY <1>5, ForgetType
  <1> QED BY <1>2, <1>3, <1>4, <1>6

\* What the engine does when a load is over.
LEMMA LoadArrivedType ==
  ASSUME TypeOK, NEW j \in JobIds, LoadArrived(j)
  PROVE  /\ (phase \in [Requests -> Phases])'
         /\ (table \in [Requests -> Tables])'
         /\ (content \in [Blocks -> Datum \cup {Nothing}])'
  <1> DEFINE r == job[j].req
             data(b) == {d \in job[j].copies : d[3] = b}
  <1>1. CASE UNCHANGED <<phase, table, content>>
    BY <1>1 DEF TypeOK
  <1>2. CASE /\ phase' = [phase EXCEPT ![r] = IF @ = "loading" THEN "loaded" ELSE @]
             /\ table' = [table EXCEPT ![r] = IF Finished(r) THEN EmptyTable ELSE @]
             /\ content' = [b \in Blocks |->
                  IF data(b) = {} \/ Finished(r) THEN content[b]
                  ELSE LET d == CHOOSE d \in data(b) : TRUE IN Data(r, d[1], d[2])]
    <2>1. (phase \in [Requests -> Phases])' /\ (table \in [Requests -> Tables])'
      BY <1>2, EmptyTableType DEF TypeOK, Phases
    <2>2. ASSUME NEW b \in Blocks, data(b) # {}
          PROVE  (LET d == CHOOSE d \in data(b) : TRUE IN Data(r, d[1], d[2])) \in Datum
      <3> DEFINE d == CHOOSE d \in data(b) : TRUE
      <3>1. d \in job[j].copies
        BY <2>2
      <3>2. r \in Requests /\ d \in Copy
        BY <3>1 DEF TypeOK, Job, NoJob
      <3> QED BY <3>2, DataType DEF Copy
    <2>3. (content \in [Blocks -> Datum \cup {Nothing}])'
      <3> HIDE DEF data, r
      <3> QED BY <1>2, <2>2 DEF TypeOK
    <2> QED BY <2>1, <2>3
  <1> QED BY <1>1, <1>2 DEF LoadArrived

\* Reading the report of a job keeps the types: no count goes below zero.
LEMMA UpdateConnectorOutputType ==
  ASSUME TypeOK, NEW j \in JobIds, UpdateConnectorOutput(j)
  PROVE  TypeOK'
  <1>1. CASE j >= staleJob /\ CompletionError(j) # "none"
    <2>1. CompletionError(j) \in Errors
      BY DEF CompletionError, Errors
    <2> QED BY <1>1, <2>1, RaiseType DEF UpdateConnectorOutput, Raise
  <1>2. CASE ~(j >= staleJob /\ CompletionError(j) # "none")
    <2>1. /\ LoadArrived(j)
          /\ job' = IF Drained(j) THEN [job EXCEPT ![j] = NoJob] ELSE job
          /\ report' = [report EXCEPT ![j] = 0]
          /\ pc' = AfterReport([report EXCEPT ![j] = 0])
          /\ UNCHANGED <<computed, sched, preempted, finishedIds, jobCounter, batchVars, left, done,
                         outputs, stored, staleJob, error, resets>>
      BY <1>2 DEF UpdateConnectorOutput
    <2>2. /\ (phase \in [Requests -> Phases])'
          /\ (table \in [Requests -> Tables])'
          /\ (content \in [Blocks -> Datum \cup {Nothing}])'
      BY <2>1, LoadArrivedType
    <2>3. /\ (job \in [JobIds -> Job])'
          /\ (report \in Counts)'
          /\ pc' \in {"idle", "output"}
      BY <2>1 DEF TypeOK, Job, Counts, AfterReport
    <2>4. /\ (pending \in Counts)'
          /\ (ready \subseteq Keys)'
          /\ (loading \subseteq Keys)'
          /\ (pendingJobs \in [Blocks -> SUBSET JobIds])'
          /\ (jobs \subseteq JobIds)'
          /\ (transferJobs \in [Requests -> SUBSET JobIds])'
          /\ (tracked \subseteq Requests)'
          /\ (blockIds \in [Requests -> Tables])'
          /\ (nextStored \in [Requests -> [Groups -> Nat]])'
      <3>1. CASE j < staleJob
        BY <1>2, <3>1 DEF UpdateConnectorOutput, TypeOK, requestVars
      <3>2. CASE ~(j < staleJob)
        <4>1. CompletionError(j) = "none"
          BY <1>2, <3>2 DEF TypeOK, JobIds
        <4>2. pending' = [pending EXCEPT ![j] = @ - report[j]]
          BY <1>2, <3>2 DEF UpdateConnectorOutput
        <4>3. report[j] <= pending[j]
          BY <4>1 DEF CompletionError, TypeOK, Counts
        <4>4. (pending \in Counts)'
          BY <4>2, <4>3 DEF TypeOK, Counts
        <4>5. CASE report[j] < pending[j]
          BY <1>2, <3>2, <4>4, <4>5 DEF UpdateConnectorOutput, TypeOK, requestVars
        <4>6. CASE ~(report[j] < pending[j])
          <5>1. CompleteJob(j)
            BY <1>2, <3>2, <4>6 DEF UpdateConnectorOutput
          <5>2. job[j].req \in Requests /\ job[j] \in Job
            BY <4>1, <4>3, <4>6 DEF CompletionError, TypeOK
          <5> QED BY <4>4, <5>1, <5>2, CompleteJobType
        <4> QED BY <4>5, <4>6
      <3> QED BY <3>1, <3>2
    <2> QED
      BY <2>1, <2>2, <2>3, <2>4 DEF TypeOK, batchVars
  <1> QED BY <1>1, <1>2

\* The end of a request keeps the types.
LEMMA RequestFinishedType ==
  ASSUME TypeOK, NEW r \in Requests, RequestFinished(r)
  PROVE  TypeOK'
  <1>1. CASE Raise("unknown job of a finished request")
    BY <1>1, RaiseType DEF Raise, Errors
  <1>2. CASE ~Raise("unknown job of a finished request")
    <2>1. /\ phase' = [phase EXCEPT ![r] = "finished"]
          /\ computed' = [computed EXCEPT ![r] = 0]
          /\ table' = IF phase[r] = "loading" THEN table ELSE [table EXCEPT ![r] = EmptyTable]
          /\ finishedIds' = TRUE
          /\ Forget(r) \/ UNCHANGED requestVars
          /\ pendingJobs' = [b \in Blocks |->
               pendingJobs[b] \cup {j \in transferJobs[r] : job[j].isStore /\ b \in FullBlocks(j)}]
          /\ UNCHANGED <<pc, content, sched, preempted, transferJobs, jobs, job, pending, jobCounter,
                         batchVars, workerVars, managerVars, staleJob, loading, error, resets>>
      BY <1>2 DEF RequestFinished
    <2>2. /\ (tracked \subseteq Requests)'
          /\ (blockIds \in [Requests -> Tables])'
          /\ (nextStored \in [Requests -> [Groups -> Nat]])'
      BY <2>1, ForgetType
    <2>3. (phase \in [Requests -> Phases])' /\ (computed \in [Requests -> Nat])'
      BY <2>1 DEF TypeOK, Phases
    <2>4. (table \in [Requests -> Tables])'
      BY <2>1, EmptyTableType DEF TypeOK
    <2>5. (pendingJobs \in [Blocks -> SUBSET JobIds])'
      BY <2>1 DEF TypeOK
    <2> QED
      BY <2>1, <2>2, <2>3, <2>4, <2>5
      DEF TypeOK, batchVars, workerVars, managerVars
  <1> QED BY <1>1, <1>2

\* reset_cache keeps the types.
LEMMA ResetCacheType ==
  ASSUME TypeOK, ResetCache
  PROVE  TypeOK'
  <1>1. CASE Raise("reset_cache in the middle of a step")
    BY <1>1, RaiseType DEF Raise, Errors
  <1>2. CASE ~Raise("reset_cache in the middle of a step")
    <2>1. /\ resets' = resets + 1
          /\ toFlush' = jobs
          /\ ready' = {}
          /\ stored' = {}
          /\ nextStored' = [r \in Requests |-> [g \in Groups |-> 0]]
          /\ staleJob' = jobCounter
          /\ jobs' = {}
          /\ pendingJobs' = [b \in Blocks |-> {}]
          /\ loading' = {}
          /\ UNCHANGED <<pc, engineVars, tracked, blockIds, transferJobs, job, pending, jobCounter,
                         batchLoads, batchStores, allocated, toStore, workerVars, error>>
      BY <1>2 DEF ResetCache, FlushedByReset, StaleBelow
    <2>2. /\ (nextStored \in [Requests -> [Groups -> Nat]])'
          /\ (pendingJobs \in [Blocks -> SUBSET JobIds])'
          /\ (resets \in Nat)'
      BY <2>1 DEF TypeOK
    <2> QED
      BY <2>1, <2>2 DEF TypeOK, engineVars, workerVars
  <1> QED BY <1>1, <1>2

-----------------------------------------------------------------------------
\* Every step of the scheduler keeps the types.
LEMMA NextType ==
  ASSUME TypeOK, [Next]_vars
  PROVE  TypeOK'
  <1>1. CASE StartStep
    BY <1>1
    DEF StartStep, TypeOK, requestVars, jobVars, batchVars, workerVars, managerVars
  <1>2. CASE BeginConnectorMeta
    BY <1>2, BeginConnectorMetaType
  <1>3. ASSUME NEW r \in Requests, StoreJobs(r) PROVE TypeOK'
    BY <1>3, StoreJobsType
  <1>4. CASE EndConnectorMeta
    BY <1>4, EndConnectorMetaType
  <1>5. CASE TakeOutput
    BY <1>5, TakeOutputType
  <1>6. ASSUME NEW j \in JobIds, UpdateConnectorOutput(j) PROVE TypeOK'
    BY <1>6, UpdateConnectorOutputType
  <1>7. ASSUME NEW r \in Requests, NotAdmitted(r) PROVE TypeOK'
    BY <1>7, NotAdmittedType
  <1>8. ASSUME NEW r \in Requests, AdmitWithLoad(r) PROVE TypeOK'
    BY <1>8, AdmitWithLoadType
  <1>9. ASSUME NEW r \in Requests, Preempt(r) PROVE TypeOK'
    BY <1>9, PreemptType
  <1>10. ASSUME NEW r \in Requests, NEW n \in 1 .. MaxChunk, AdmitWithoutLoad(r, n) PROVE TypeOK'
    BY <1>10, AdmitWithoutLoadType
  <1>11. ASSUME NEW r \in Requests, NEW n \in 1 .. MaxChunk, ScheduleLoaded(r, n) PROVE TypeOK'
    BY <1>11, ScheduleLoadedType
  <1>12. ASSUME NEW r \in Requests, NEW n \in 1 .. MaxChunk, ScheduleRunning(r, n) PROVE TypeOK'
    BY <1>12, ScheduleRunningType
  <1>13. ASSUME NEW r \in Requests, OnNewRequest(r) PROVE TypeOK'
    BY <1>13
    DEF OnNewRequest, TypeOK, Phases, jobVars, batchVars, workerVars, managerVars
  <1>14. ASSUME NEW r \in Requests, RequestFinished(r) PROVE TypeOK'
    BY <1>14, RequestFinishedType
  <1>15. ASSUME NEW j \in JobIds, WorkerDone(j) PROVE TypeOK'
    BY <1>15
    DEF WorkerDone, TypeOK, Counts, engineVars, requestVars, jobVars, batchVars, managerVars
  <1>16. CASE ResetCache
    BY <1>16, ResetCacheType
  <1>17. CASE UNCHANGED vars
    BY <1>17
    DEF vars, TypeOK, engineVars, requestVars, jobVars, batchVars, workerVars, managerVars
  <1> QED
    BY <1>1, <1>2, <1>3, <1>4, <1>5, <1>6, <1>7, <1>8, <1>9, <1>10, <1>11, <1>12, <1>13,
       <1>14, <1>15, <1>16, <1>17
    DEF Next, EngineLoop, Scheduling, Calls, Stopped

\* Every variable of the connector, the engine, the workers and the manager has
\* its type in every state: no list of block ids ever names something that is not
\* a block, no count of reports goes below zero, and no exception occurs that the
\* code does not raise.
THEOREM TypeCorrect == Spec => []TypeOK
  <1>1. Init => TypeOK
    <2> SUFFICES ASSUME Init PROVE TypeOK
      OBVIOUS
    <2>1. /\ phase \in [Requests -> Phases]
          /\ computed \in [Requests -> Nat]
          /\ content \in [Blocks -> Datum \cup {Nothing}]
          /\ nextStored \in [Requests -> [Groups -> Nat]]
          /\ transferJobs \in [Requests -> SUBSET JobIds]
          /\ pendingJobs \in [Blocks -> SUBSET JobIds]
      BY DEF Init, Phases
    <2>2. /\ table \in [Requests -> Tables]
          /\ blockIds \in [Requests -> Tables]
          /\ sched \in [Requests -> [n : Nat, fresh : BOOLEAN, new : Tables]]
      BY EmptyTableType DEF Init, NotScheduled
    <2>3. job \in [JobIds -> Job]
      BY DEF Init, Job
    <2>4. NoReport \in Counts
      BY DEF NoReport, Counts
    <2>5. /\ left \in Counts /\ done \in Counts /\ report \in Counts /\ pending \in Counts
      BY <2>4 DEF Init, NoReport
    <2>6. outputs \in Seq(Counts)
      BY DEF Init
    <2>7. jobCounter \in 0 .. MaxJobs /\ staleJob \in 0 .. MaxJobs
      BY CountsAssumption DEF Init
    <2> QED
      BY <2>1, <2>2, <2>3, <2>5, <2>6, <2>7 DEF Init, TypeOK, Errors
  <1> QED BY <1>1, NextType, PTL DEF Spec

=============================================================================
