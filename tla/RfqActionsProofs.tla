-------------------------- MODULE RfqActionsProofs --------------------------
(***************************************************************************)
(* What is written of an RFQ transaction: the search in nested messages    *)
(* answers with the first value, a rerun writes the same rows, the inner   *)
(* reason of an error wins, and lateness is what the limits say, for all   *)
(* transactions, keys, orders of maps, and for every depth of the search.  *)
(***************************************************************************)
EXTENDS RfqActions, MinMaxTheorems, SequenceTheorems

-----------------------------------------------------------------------------
(* The messages. *)

\* What FlattenSeq returns; its recursion is well-founded, as a shortest list of which
\* it is not would show.
LEMMA FlattenIsSeq ==
  ASSUME NEW S, NEW seqs \in Seq(Seq(S))
  PROVE  FlattenSeq(seqs) \in Seq(S)
  <1> DEFINE n == Len(seqs)
             join(head, i) == head \o seqs[i]
             level(g, i) == IF i = 1 THEN seqs[i] ELSE join(g[i - 1], i)
             Is(g, k) == g = [i \in 1 .. k |-> level(g, i)]
             Bad == {k \in Nat : k # 0 /\ k <= n /\ ~\E g : Is(g, k)}
  <1>1. n \in Nat /\ \A i \in 1 .. n : seqs[i] \in Seq(S)
    OBVIOUS
  <1>2. \A head \in Seq(S), i \in 1 .. n : join(head, i) \in Seq(S)
    BY <1>1
  <1> HIDE DEF n, join
  <1>3. Bad = {}
    <2> SUFFICES ASSUME Bad # {} PROVE FALSE
      OBVIOUS
    <2>1. PICK k \in Bad : \A j \in Bad : k <= j
      <3> HIDE DEF Bad
      <3>1. Bad \in SUBSET Nat
        BY DEF Bad
      <3> QED
        BY <3>1, LeastNat
    <2>2. k \in Nat /\ k # 0 /\ k <= n
      OBVIOUS
    <2>3. CASE k = 1
      <3> DEFINE g == [i \in 1 .. k |-> seqs[i]]
      <3>1. \A i \in 1 .. k : i = 1
        BY <2>3
      <3>2. \A i \in 1 .. k : level(g, i) = seqs[i]
        BY <3>1, Zenon
      <3>3. Is(g, k)
        BY <3>2, Zenon
      <3> QED
        BY <3>3
    <2>4. CASE k # 1
      <3>1. k - 1 \in Nat /\ k - 1 # 0 /\ k - 1 <= n /\ k - 1 \notin Bad
        <4>1. k - 1 \in Nat /\ k - 1 # 0 /\ k - 1 <= n /\ ~(k <= k - 1)
          BY <1>1, <2>2, <2>4
        <4> HIDE DEF Bad
        <4> QED
          BY <2>1, <4>1
      <3>2. PICK g : Is(g, k - 1)
        BY <3>1, Zenon
      <3> DEFINE h == [i \in 1 .. k |-> level(g, i)]
      <3>3. ASSUME NEW i \in 1 .. k - 1 PROVE h[i] = g[i]
        <4>1. g[i] = level(g, i)
          BY <3>2, Zenon
        <4>2. i \in 1 .. k
          BY <2>2
        <4> QED
          BY <4>1, <4>2, Zenon
      <3>4. ASSUME NEW i \in 1 .. k PROVE level(g, i) = level(h, i)
        <4>1. i # 1 => i - 1 \in 1 .. k - 1
          BY <2>2
        <4> HIDE DEF h
        <4> QED
          BY <3>3, <4>1
      <3>5. Is(h, k)
        <4> HIDE DEF h, level
        <4>1. h = [i \in 1 .. k |-> level(g, i)]
          BY DEF h
        <4> QED
          BY <3>4, <4>1, Zenon
      <3> QED
        BY <3>5
    <2> QED
      BY <2>3, <2>4
  <1>4. CASE n = 0
    <2>1. FlattenSeq(seqs) = seqs /\ seqs = <<>>
      BY <1>4, EmptySeq DEF FlattenSeq, n
    <2> QED
      BY <2>1, EmptySeq
  <1>5. CASE n # 0
    <2> DEFINE f == CHOOSE g : Is(g, n)
               Wrong == {i \in 1 .. n : f[i] \notin Seq(S)}
    <2>1. FlattenSeq(seqs) = f[n]
      BY <1>5 DEF FlattenSeq, n, join
    <2>2. \A i \in 1 .. n : f[i] = level(f, i)
      <3>1. Is(f, n)
        <4>1. \E g : Is(g, n)
          <5>1. n \notin Bad /\ n \in Nat /\ n <= n
            <6> HIDE DEF Bad
            <6> QED
              BY <1>1, <1>3
          <5> HIDE DEF level
          <5> QED
            BY <1>5, <5>1, Zenon
        <4> QED
          BY <4>1, Zenon
      <3> HIDE DEF f, level
      <3> QED
        BY <3>1, Zenon
    <2> HIDE DEF f
    <2>3. Wrong = {}
      <3> SUFFICES ASSUME Wrong # {} PROVE FALSE
        OBVIOUS
      <3>1. PICK i \in Wrong : \A j \in Wrong : i <= j
        <4> HIDE DEF Wrong
        <4>1. Wrong \in SUBSET Nat
          BY <1>1 DEF Wrong
        <4> QED
          BY <4>1, LeastNat
      <3>2. i # 1 => f[i - 1] \in Seq(S)
        <4> SUFFICES ASSUME i # 1 PROVE f[i - 1] \in Seq(S)
          OBVIOUS
        <4>1. i - 1 \in 1 .. n /\ ~(i <= i - 1)
          BY <1>1
        <4> QED
          BY <3>1, <4>1
      <3> QED
        BY <1>1, <1>2, <2>2, <3>2
    <2> QED
      BY <1>1, <1>5, <2>1, <2>3
  <1> QED
    BY <1>4, <1>5

-----------------------------------------------------------------------------
(* The search. *)

\* The levels of the search are those of its definition.
IsSearch(g, n, doc, key, order) ==
  g = [depth \in 0 .. n |-> IF depth = 0 THEN [at \in doc \cup {<<>>} |-> NotFound]
                            ELSE Deeper(doc, key, order, g[depth - 1])]

LEMMA SearchExists ==
  ASSUME NEW n \in Nat, NEW doc, NEW key, NEW order
  PROVE  \E g : IsSearch(g, n, doc, key, order)
  <1> DEFINE start == [at \in doc \cup {<<>>} |-> NotFound]
             deeper(found) == Deeper(doc, key, order, found)
             level(g, depth) == IF depth = 0 THEN start ELSE deeper(g[depth - 1])
             Bad == {k \in Nat : ~\E g : g = [depth \in 0 .. k |-> level(g, depth)]}
  <1>1. Bad = {}
    <2> SUFFICES ASSUME Bad # {} PROVE FALSE
      OBVIOUS
    <2>1. PICK k \in Bad : \A m \in Bad : k <= m
      <3> HIDE DEF Bad
      <3>1. Bad \in SUBSET Nat
        BY DEF Bad
      <3> QED
        BY <3>1, LeastNat
    <2> HIDE DEF start, deeper
    <2>2. CASE k = 0
      <3> DEFINE g == [depth \in 0 .. k |-> start]
      <3>1. g = [depth \in 0 .. k |-> level(g, depth)]
        <4>1. \A depth \in 0 .. k : depth = 0
          BY <2>2
        <4>2. \A depth \in 0 .. k : level(g, depth) = start
          BY <4>1, Zenon
        <4> QED
          BY <4>2, Zenon
      <3> QED
        BY <3>1
    <2>3. CASE k # 0
      <3>1. k - 1 \in Nat /\ k - 1 \notin Bad
        <4>1. k \in Nat
          OBVIOUS
        <4> HIDE DEF Bad
        <4> QED
          BY <2>1, <2>3, <4>1
      <3>2. PICK g : g = [depth \in 0 .. k - 1 |-> level(g, depth)]
        BY <3>1, Zenon
      <3> DEFINE h == [depth \in 0 .. k |-> level(g, depth)]
      <3>3. ASSUME NEW depth \in 0 .. k - 1 PROVE h[depth] = g[depth]
        <4>1. g[depth] = level(g, depth)
          BY <3>2, Zenon
        <4>2. depth \in 0 .. k
          OBVIOUS
        <4> QED
          BY <4>1, <4>2, Zenon
      <3>4. ASSUME NEW depth \in 0 .. k PROVE level(g, depth) = level(h, depth)
        <4>1. depth # 0 => depth - 1 \in 0 .. k - 1
          OBVIOUS
        <4> HIDE DEF h
        <4> QED
          BY <3>3, <4>1
      <3>5. h = [depth \in 0 .. k |-> level(h, depth)]
        <4> HIDE DEF h, level
        <4>1. h = [depth \in 0 .. k |-> level(g, depth)]
          BY DEF h
        <4> QED
          BY <3>4, <4>1, Zenon
      <3> QED
        BY <3>5
    <2> QED
      BY <2>2, <2>3
  <1> QED
    BY <1>1 DEF IsSearch

\* What the levels are, one by one.
Unfolds(g, n, doc, key, order) ==
  /\ g[0] = [at \in doc \cup {<<>>} |-> NotFound]
  /\ \A depth \in 1 .. n : g[depth] = Deeper(doc, key, order, g[depth - 1])

LEMMA SearchUnfolds ==
  ASSUME NEW n \in Nat, NEW doc, NEW key, NEW order, NEW g, IsSearch(g, n, doc, key, order)
  PROVE  Unfolds(g, n, doc, key, order)
  <1> DEFINE level(depth) == IF depth = 0 THEN [at \in doc \cup {<<>>} |-> NotFound]
                             ELSE Deeper(doc, key, order, g[depth - 1])
  <1>1. \A depth \in 0 .. n : g[depth] = level(depth)
    BY Zenon DEF IsSearch
  <1>2. 0 \in 0 .. n /\ \A depth \in 1 .. n : depth \in 0 .. n /\ depth # 0
    OBVIOUS
  <1> QED
    BY <1>1, <1>2, Zenon DEF Unfolds

LEMMA FoundUnfolds ==
  ASSUME NEW doc, NEW key, NEW order
  PROVE  Unfolds(Found(doc, key, order), MaxDepth, doc, key, order)
  <1> DEFINE g == Found(doc, key, order)
  <1>1. g = CHOOSE f : IsSearch(f, MaxDepth, doc, key, order)
    BY DEF Found, IsSearch
  <1>2. MaxDepth \in Nat
    BY ActionsAssumption
  <1> HIDE DEF g
  <1>3. IsSearch(g, MaxDepth, doc, key, order)
    BY <1>1, <1>2, SearchExists, Zenon
  <1>4. Unfolds(g, MaxDepth, doc, key, order)
    BY <1>2, <1>3, SearchUnfolds, Zenon
  <1> QED
    BY <1>4 DEF g

\* One key deeper.
LEMMA OneDeeper ==
  ASSUME NEW at \in Seq(Keys), NEW k \in Keys
  PROVE  /\ at \o <<k>> \in Seq(Keys) /\ Len(at \o <<k>>) = Len(at) + 1
         /\ \A i \in 1 .. Len(at) : (at \o <<k>>)[i] = at[i]
         /\ (at \o <<k>>)[Len(at) + 1] = k
  OBVIOUS

LEMMA StepTowards ==
  ASSUME NEW at \in Seq(Keys), NEW path \in Seq(Keys), Len(at) < Len(path),
         \A i \in 1 .. Len(at) : path[i] = at[i]
  PROVE  /\ path[Len(at) + 1] \in Keys
         /\ SubSeq(path, 1, Len(at) + 1) = at \o <<path[Len(at) + 1]>>
  <1> DEFINE k == path[Len(at) + 1]
             s == SubSeq(path, 1, Len(at) + 1)
             t == at \o <<k>>
  <1>1. Len(at) \in Nat /\ Len(path) \in Nat /\ k \in Keys
    OBVIOUS
  <1>2. s \in Seq(Keys) /\ Len(s) = Len(at) + 1 /\ \A i \in 1 .. Len(at) + 1 : s[i] = path[i]
    BY <1>1
  <1>3. t \in Seq(Keys) /\ Len(t) = Len(at) + 1 /\ \A i \in 1 .. Len(at) + 1 : t[i] = path[i]
    BY <1>1, OneDeeper
  <1> HIDE DEF s, t
  <1>4. s = t
    BY <1>2, <1>3, SeqEqual
  <1> QED
    BY <1>1, <1>4 DEF s, t

\* The values within so many levels below an object.
Below(doc, key, at, depth) ==
  {path \in doc : /\ Last(path) = key
                  /\ Len(at) < Len(path) /\ Len(path) <= Len(at) + depth
                  /\ \A i \in 1 .. Len(at) : path[i] = at[i]}

Leads(path, others) ==
  path \in others /\ \A other \in others \ {path} : Before(path, other) \/ IsPrefix(path, other)

\* What the search finds below every object is the first of the values there are.
Answers(found, doc, key, depth) ==
  \A at \in doc \cup {<<>>} :
    IF Below(doc, key, at, depth) = {} THEN found[at] = NotFound
    ELSE Leads(found[at], Below(doc, key, at, depth))

LEMMA PlacesAreSeqs ==
  ASSUME NEW doc, IsDoc(doc), NEW at \in doc \cup {<<>>}
  PROVE  at \in Seq(Keys) /\ Len(at) \in Nat /\ <<>> \notin doc /\ Len(<<>>) = 0
  <1>1. at \in Seq(Keys)
    <2>1. CASE at = <<>>
      BY <2>1, EmptySeq
    <2>2. CASE at \in doc
      BY <2>2 DEF IsDoc
    <2> QED
      BY <2>1, <2>2
  <1>2. <<>> \notin doc
    BY DEF IsDoc
  <1> QED
    BY <1>1, <1>2, EmptySeq

\* A value below an object is its own or is below one of its children.
LEMMA BelowChild ==
  ASSUME NEW doc, IsDoc(doc), NEW key \in Keys, NEW at \in doc \cup {<<>>}, NEW depth \in Nat,
         at \o <<key>> \notin doc
  PROVE  /\ \A path \in Below(doc, key, at, depth + 1) :
              /\ path[Len(at) + 1] \in Children(doc, at)
              /\ path \in Below(doc, key, at \o <<path[Len(at) + 1]>>, depth)
              /\ Len(at) + 1 < Len(path)
         /\ \A k \in Children(doc, at) :
              Below(doc, key, at \o <<k>>, depth) \subseteq Below(doc, key, at, depth + 1)
  <1>1. at \in Seq(Keys) /\ Len(at) \in Nat
    BY PlacesAreSeqs
  <1>2. ASSUME NEW path \in Below(doc, key, at, depth + 1)
        PROVE  /\ path[Len(at) + 1] \in Children(doc, at)
               /\ path \in Below(doc, key, at \o <<path[Len(at) + 1]>>, depth)
               /\ Len(at) + 1 < Len(path)
    <2> DEFINE k == path[Len(at) + 1]
    <2>1. /\ path \in doc /\ path \in Seq(Keys) /\ Len(path) \in Nat /\ path[Len(path)] = key
          /\ Len(at) < Len(path) /\ Len(path) <= Len(at) + (depth + 1)
          /\ \A i \in 1 .. Len(at) : path[i] = at[i]
      BY <1>2 DEF Below, Last, IsDoc
    <2>2. k \in Keys /\ SubSeq(path, 1, Len(at) + 1) = at \o <<k>>
      BY <1>1, <2>1, StepTowards
    <2>3. at \o <<k>> \in doc
      <3>1. Len(at) + 1 \in 1 .. Len(path)
        BY <1>1, <2>1
      <3>2. SubSeq(path, 1, Len(at) + 1) \in doc
        BY <2>1, <3>1 DEF IsDoc
      <3> QED
        BY <2>2, <3>2
    <2>4. k # key
      BY <2>3
    <2>5. Len(at) + 1 < Len(path)
      BY <1>1, <2>1, <2>4
    <2>6. /\ Len(at \o <<k>>) = Len(at) + 1
          /\ \A i \in 1 .. Len(at) : (at \o <<k>>)[i] = at[i]
          /\ (at \o <<k>>)[Len(at) + 1] = k
      BY <1>1, <2>2, OneDeeper
    <2>7. \A i \in 1 .. Len(at \o <<k>>) : path[i] = (at \o <<k>>)[i]
      <3> HIDE DEF k
      <3>1. k = path[Len(at) + 1]
        BY DEF k
      <3> QED
        BY <1>1, <2>1, <2>6, <3>1
    <2>8. path \in Below(doc, key, at \o <<k>>, depth)
      <3> HIDE DEF k
      <3> QED
        BY <1>1, <2>1, <2>5, <2>6, <2>7 DEF Below, Last
    <2> QED
      BY <2>2, <2>3, <2>5, <2>8 DEF Children
  <1>3. ASSUME NEW k \in Children(doc, at), NEW path \in Below(doc, key, at \o <<k>>, depth)
        PROVE  path \in Below(doc, key, at, depth + 1)
    <2>1. k \in Keys
      BY DEF Children
    <2>2. /\ Len(at \o <<k>>) = Len(at) + 1
          /\ \A i \in 1 .. Len(at) : (at \o <<k>>)[i] = at[i]
      BY <1>1, <2>1, OneDeeper
    <2>3. path \in doc /\ Len(path) \in Nat
      BY <1>3 DEF Below, IsDoc
    <2> QED
      BY <1>1, <1>3, <2>2, <2>3 DEF Below
  <1> QED
    BY <1>2, <1>3

\* The level above answers what the definition says.
LEMMA DeeperAnswers ==
  ASSUME NEW doc, IsDoc(doc), NEW key \in Keys, NEW order, NEW depth \in Nat, NEW found,
         Answers(found, doc, key, depth)
  PROVE  Answers(Deeper(doc, key, order, found), doc, key, depth + 1)
  <1> SUFFICES ASSUME NEW at \in doc \cup {<<>>}
               PROVE  LET f == Deeper(doc, key, order, found)[at]
                          C == Below(doc, key, at, depth + 1)
                      IN IF C = {} THEN f = NotFound ELSE Leads(f, C)
    BY DEF Answers
  <1> DEFINE f == Deeper(doc, key, order, found)[at]
             C == Below(doc, key, at, depth + 1)
             n == Len(at) + 1
             hits == {k \in Children(doc, at) : found[at \o <<k>>] # NotFound}
  <1>1. at \in Seq(Keys) /\ Len(at) \in Nat /\ n \in Nat /\ <<>> \notin doc
    BY PlacesAreSeqs
  <1>2. \A path \in C : /\ path \in doc /\ path \in Seq(Keys) /\ Len(path) \in Nat /\ n <= Len(path)
                        /\ DOMAIN path = 1 .. Len(path) /\ path[Len(path)] = key
                        /\ \A i \in 1 .. Len(at) : path[i] = at[i]
    BY <1>1 DEF Below, IsDoc, Last
  <1>3. f = IF at \o <<key>> \in doc THEN at \o <<key>>
            ELSE IF hits = {} THEN NotFound ELSE found[at \o <<Min(hits)>>]
    BY DEF Deeper, FirstVisited
  <1>4. CASE at \o <<key>> \in doc
    <2>1. f = at \o <<key>>
      BY <1>3, <1>4
    <2>2. /\ Len(f) = n /\ f \in Seq(Keys) /\ f[n] = key
          /\ \A i \in 1 .. Len(at) : f[i] = at[i]
      BY <1>1, <2>1, OneDeeper
    <2>3. f \in C
      <3>1. f \in doc /\ Last(f) = key
        BY <1>4, <2>1, <2>2 DEF Last
      <3> HIDE DEF f
      <3>2. Len(at) < Len(f) /\ Len(f) <= Len(at) + (depth + 1)
        BY <1>1, <2>2
      <3> QED
        BY <2>2, <3>1, <3>2 DEF Below
    <2>4. ASSUME NEW path \in C PROVE Before(f, path) \/ IsPrefix(f, path)
      <3> HIDE DEF f, C
      <3>1. CASE path[n] = key
        <4>1. SubSeq(path, 1, n) = f
          <5>1. path[Len(at) + 1] = key
            BY <3>1
          <5>2. SubSeq(path, 1, Len(at) + 1) = at \o <<path[Len(at) + 1]>>
            BY <1>1, <1>2, StepTowards
          <5> QED
            BY <2>1, <5>1, <5>2
        <4>2. SubSeq(f, 1, n) = f
          BY <2>2, SubSeqFull
        <4> QED
          BY <1>2, <2>2, <4>1, <4>2 DEF IsPrefix
      <3>2. CASE path[n] # key
        <4>1. n \in DOMAIN f /\ n \in DOMAIN path
          BY <1>1, <1>2, <2>2
        <4>2. \A j \in 1 .. (n - 1) : f[j] = path[j]
          BY <1>1, <1>2, <2>2
        <4> QED
          BY <2>2, <3>2, <4>1, <4>2 DEF Before
      <3> QED
        BY <3>1, <3>2
    <2> QED
      BY <2>3, <2>4 DEF Leads
  <1>5. CASE at \o <<key>> \notin doc
    <2> DEFINE B(k) == Below(doc, key, at \o <<k>>, depth)
    <2>1. /\ \A path \in C : path[n] \in Children(doc, at) /\ path \in B(path[n]) /\ n < Len(path)
          /\ \A k \in Children(doc, at) : B(k) \subseteq C
      BY <1>5, BelowChild
    <2>2. \A k \in Children(doc, at) : k \in Keys /\ at \o <<k>> \in doc
      BY DEF Children
    <2>3. \A k \in Children(doc, at) : IF B(k) = {} THEN found[at \o <<k>>] = NotFound
                                       ELSE Leads(found[at \o <<k>>], B(k))
      BY <2>2 DEF Answers
    <2>4. \A k \in Children(doc, at) : k \in hits <=> B(k) # {}
      BY <1>1, <2>3 DEF Leads, Below, NotFound
    <2>5. CASE hits = {}
      BY <1>3, <1>5, <2>1, <2>4, <2>5
    <2>6. CASE hits # {}
      <3> DEFINE m == Min(hits)
      <3>1. m \in hits /\ \A k \in hits : m <= k /\ m \in Nat /\ k \in Nat
        <4>1. hits \in SUBSET Nat
          BY <2>2, ActionsAssumption
        <4> HIDE DEF hits
        <4>2. PICK l : IsLeast(l, hits)
          BY <2>6, <4>1, LeastNat DEF IsLeast
        <4>3. m = l
          BY <4>1, <4>2, LeastIsMin
        <4> QED
          BY <4>1, <4>2, <4>3 DEF IsLeast
      <3> HIDE DEF m
      <3>2. f = found[at \o <<m>>] /\ Leads(f, B(m)) /\ m \in Keys /\ m \in Children(doc, at)
        BY <1>3, <1>5, <2>2, <2>3, <2>4, <2>6, <3>1 DEF m
      <3>3. f \in C /\ f[n] = m
        <4>1. f \in C /\ f \in B(m)
          BY <2>1, <3>2 DEF Leads
        <4>2. Len(at \o <<m>>) = n /\ (at \o <<m>>)[n] = m
          BY <1>1, <3>2, OneDeeper
        <4> QED
          BY <1>1, <4>1, <4>2 DEF Below
      <3>4. ASSUME NEW path \in C \ {f} PROVE Before(f, path) \/ IsPrefix(f, path)
        <4> HIDE DEF f, C, B
        <4>1. path[n] \in hits
          BY <2>1, <2>4 DEF C
        <4>2. CASE path[n] = m
          BY <2>1, <3>2, <4>2 DEF Leads
        <4>3. CASE path[n] # m
          <5>1. m < path[n] /\ n < Len(path)
            BY <2>1, <3>1, <4>1, <4>3
          <5>2. n \in DOMAIN f /\ n \in DOMAIN path
            BY <1>1, <1>2, <3>3
          <5>3. \A j \in 1 .. (n - 1) : f[j] = path[j]
            BY <1>1, <1>2, <3>3
          <5>4. f[n] # path[n] /\ n # Len(path) /\ f[n] < path[n]
            BY <1>1, <1>2, <3>3, <5>1, <4>3
          <5> QED
            BY <5>2, <5>3, <5>4 DEF Before
        <4> QED
          BY <4>2, <4>3
      <3> QED
        BY <3>3, <3>4 DEF Leads
    <2> QED
      BY <2>5, <2>6
  <1> QED
    BY <1>4, <1>5

LEMMA FoundAnswers ==
  ASSUME NEW doc, IsDoc(doc), NEW key \in Keys, NEW order
  PROVE  \A depth \in 0 .. MaxDepth : Answers(Found(doc, key, order)[depth], doc, key, depth)
  <1> DEFINE g == Found(doc, key, order)
             Bad == {d \in 0 .. MaxDepth : ~Answers(g[d], doc, key, d)}
  <1>1. MaxDepth \in Nat
    BY ActionsAssumption
  <1>2. /\ g[0] = [at \in doc \cup {<<>>} |-> NotFound]
        /\ \A depth \in 1 .. MaxDepth : g[depth] = Deeper(doc, key, order, g[depth - 1])
    <2>1. Unfolds(g, MaxDepth, doc, key, order)
      BY FoundUnfolds
    <2> HIDE DEF g
    <2> QED
      BY <2>1 DEF Unfolds
  <1> HIDE DEF g
  <1> SUFFICES ASSUME Bad # {} PROVE FALSE
    BY DEF g
  <1>3. PICK d \in Bad : \A k \in Bad : d <= k
    <2> HIDE DEF Bad
    <2>1. Bad \in SUBSET Nat
      BY <1>1 DEF Bad
    <2> QED
      BY <2>1, LeastNat
  <1>4. CASE d = 0
    <2>1. ASSUME NEW at \in doc \cup {<<>>}
          PROVE  g[0][at] = NotFound /\ Below(doc, key, at, 0) = {}
      <3>1. ASSUME NEW path \in Below(doc, key, at, 0) PROVE FALSE
        <4>1. Len(at) \in Nat /\ Len(path) \in Nat
          BY <3>1, PlacesAreSeqs DEF Below, IsDoc
        <4> QED
          BY <3>1, <4>1 DEF Below
      <3> QED
        BY <1>2, <3>1
    <2> QED
      BY <1>3, <1>4, <2>1 DEF Answers
  <1>5. CASE d # 0
    <2>1. d \in 1 .. MaxDepth /\ d - 1 \in 0 .. MaxDepth /\ d - 1 \in Nat /\ (d - 1) + 1 = d
      BY <1>1, <1>5
    <2>2. Answers(g[d - 1], doc, key, d - 1)
      BY <1>3, <2>1
    <2>3. Answers(Deeper(doc, key, order, g[d - 1]), doc, key, (d - 1) + 1)
      BY <2>1, <2>2, DeeperAnswers
    <2> QED
      BY <1>2, <1>3, <2>1, <2>3
  <1> QED
    BY <1>4, <1>5

\* The whole search does not depend on how the maps are iterated.
LEMMA SameFinding ==
  ASSUME NEW doc, NEW key, NEW order, NEW other
  PROVE  FindKey(doc, key, order) = FindKey(doc, key, other)
  BY DEF FindKey, Found, Deeper, FirstVisited

LEMMA FindKeyFinds ==
  ASSUME NEW doc, IsDoc(doc), NEW key \in Keys, NEW order
  PROVE  /\ FindKey(doc, key, order) = NotFound <=> Candidates(doc, key) = {}
         /\ Candidates(doc, key) # {} => Leads(FindKey(doc, key, order), Candidates(doc, key))
  <1> DEFINE found == FindKey(doc, key, order)
             C == Candidates(doc, key)
  <1>1. MaxDepth \in Nat /\ MaxDepth \in 0 .. MaxDepth
    BY ActionsAssumption
  <1>2. Answers(Found(doc, key, order)[MaxDepth], doc, key, MaxDepth)
    BY <1>1, FoundAnswers
  <1>3. C = Below(doc, key, <<>>, MaxDepth)
    <2>1. ASSUME NEW path \in doc
          PROVE  /\ Len(<<>>) < Len(path)
                 /\ Len(path) <= Len(<<>>) + MaxDepth <=> Len(path) <= MaxDepth
                 /\ \A i \in 1 .. Len(<<>>) : path[i] = <<>>[i]
      <3>1. path \in Seq(Keys) /\ path # <<>> /\ Len(path) \in Nat
        BY DEF IsDoc
      <3>2. Len(path) # 0 /\ Len(<<>>) = 0
        BY <3>1, EmptySeq
      <3> QED
        BY <1>1, <3>1, <3>2
    <2> QED
      BY <2>1 DEF Candidates, Below
  <1>4. IF C = {} THEN found = NotFound ELSE Leads(found, C)
    BY <1>2, <1>3 DEF Answers, FindKey
  <1>5. \A path \in C : path # NotFound
    BY DEF Candidates, IsDoc, NotFound
  <1> QED
    BY <1>4, <1>5 DEF Leads

-----------------------------------------------------------------------------
(* The points. *)

\* The points of one call.
Written(order) ==
  WasmErrorPoints(Messages, order)
    \cup IF Actions(Messages) = {} THEN {}
         ELSE LET m == Messages[Min(Actions(Messages))]
              IN {RfqPoint(m, order)} \cup QuotePoints(m, order)

PointsInv ==
  /\ tx \in Txs
  /\ \A p \in points : \E order \in Orders : p \in Written(order)

LEMMA SameWritten ==
  ASSUME tx' = tx
  PROVE  \A order : Written(order)' = Written(order)
  <1>1. \A order, m : RfqPoint(m, order)' = RfqPoint(m, order)
    BY DEF RfqPoint, Failed
  <1>2. \A order, m : QuotePoints(m, order)' = QuotePoints(m, order)
    BY DEF QuotePoints, QuoteResults
  <1>3. \A order, msgs : WasmErrorPoints(msgs, order)' = WasmErrorPoints(msgs, order)
    BY DEF WasmErrorPoints
  <1>4. Messages' = Messages
    BY DEF Messages
  <1> QED
    BY <1>1, <1>2, <1>3, <1>4 DEF Written

\* Every point is one of those that some call writes of the transaction.
THEOREM PointsAreWritten == Spec => []PointsInv
  <1>1. Init => PointsInv
    BY DEF Init, PointsInv
  <1>2. PointsInv /\ [Next]_vars => PointsInv'
    <2> SUFFICES ASSUME PointsInv, [Next]_vars PROVE PointsInv'
      OBVIOUS
    <2>1. ASSUME NEW order \in Orders, TxPoints(order) PROVE PointsInv'
      <3>1. tx' = tx
        BY <2>1 DEF TxPoints
      <3>2. points' = points \cup Written(order)
        BY <2>1 DEF TxPoints, Written, Messages
      <3> QED
        BY <3>1, <3>2, SameWritten DEF PointsInv
    <2>2. CASE UNCHANGED vars
      BY <2>2, SameWritten DEF PointsInv, vars
    <2> QED
      BY <2>1, <2>2 DEF Next
  <1> QED
    BY <1>1, <1>2, PTL DEF Spec

\* The nested search answers with the first value there is within its depth.
THEOREM SearchFindsFirst == Spec => []FindsFirst
  <1>1. PointsInv => FindsFirst
    <2> SUFFICES ASSUME PointsInv, NEW i \in Actions(Messages), NEW order \in Orders
                 PROVE  LET found == FindKey(Messages[i].doc, AcceptQuote, order)
                            candidates == Candidates(Messages[i].doc, AcceptQuote)
                        IN /\ found = NotFound <=> candidates = {}
                           /\ \A path \in candidates \ {found} :
                                found \in candidates /\ (Before(found, path) \/ IsPrefix(found, path))
      BY DEF FindsFirst
    <2>1. IsDoc(Messages[i].doc)
      <3>1. tx \in Txs /\ i \in DOMAIN Messages
        BY DEF PointsInv, Actions
      <3>2. IsTx(tx)
        BY <3>1, TxsAssumption
      <3>3. Messages[i] \in ToSet(Messages)
        BY <3>1 DEF ToSet
      <3> QED
        BY <3>2, <3>3, Zenon DEF IsTx, Messages
    <2>2. AcceptQuote \in Keys
      BY ActionsAssumption
    <2> QED
      BY <2>1, <2>2, FindKeyFinds DEF Leads
  <1> QED
    BY <1>1, PointsAreWritten, PTL

-----------------------------------------------------------------------------
(* Reruns. *)

LEMMA SameArgs ==
  ASSUME NEW m, NEW order, NEW other
  PROVE  Args(m, order) = Args(m, other)
  <1>1. ArgsPath(m, order) = ArgsPath(m, other)
    BY SameFinding DEF ArgsPath
  <1> QED
    BY <1>1 DEF Args

\* An order of a map names every key.
LEMMA OrdersAreOnto ==
  ASSUME NEW order \in Orders, NEW k \in Keys
  PROVE  \E i \in DOMAIN order : order[i] = k
  <1> DEFINE n == Cardinality(Keys)
  <1>1. IsFiniteSet(Keys) /\ n \in Nat
    BY ActionsAssumption, FS_CardinalityType
  <1>2. Cardinality(1 .. n) = n
    BY <1>1, FS_Interval
  <1>3. order \in Injection(1 .. n, Keys)
    BY DEF Orders, Injection
  <1> HIDE DEF n
  <1>4. order \in Surjection(1 .. n, Keys)
    BY <1>1, <1>2, <1>3, FS_Injection DEF n
  <1> QED
    BY <1>4 DEF Surjection

\* A payload with one key has the method that it names.
LEMMA OneKeyOneMethod ==
  ASSUME NEW m, Cardinality(Children(m.doc, <<>>)) <= 1, NEW order \in Orders, NEW other \in Orders
  PROVE  Method(m, order) = Method(m, other)
  <1> DEFINE top == IF m.parses THEN Children(m.doc, <<>>) ELSE {}
             places(o) == {i \in DOMAIN o : o[i] \in top}
  <1>1. top \subseteq Keys /\ IsFiniteSet(Children(m.doc, <<>>))
    BY ActionsAssumption, FS_Subset DEF Children
  <1>2. CASE top = {}
    BY <1>2 DEF Method
  <1>3. CASE top # {}
    <2>1. PICK k : top = {k}
      <3>1. top = Children(m.doc, <<>>)
        BY <1>3
      <3>2. Cardinality(top) \in Nat /\ Cardinality(top) # 0 /\ Cardinality(top) <= 1
        BY <1>1, <1>3, <3>1, FS_EmptySet, FS_CardinalityType
      <3>3. Cardinality(top) = 1
        BY <3>2
      <3> QED
        BY <1>1, <3>1, <3>3, FS_Singleton
    <2>2. ASSUME NEW o \in Orders PROVE o[Min(places(o))] = k
      <3>1. places(o) \in SUBSET Nat /\ places(o) # {}
        <4>1. PICK i \in DOMAIN o : o[i] = k
          BY <1>1, <2>1, OrdersAreOnto
        <4>2. DOMAIN o \subseteq Nat
          BY DEF Orders
        <4> QED
          BY <2>1, <4>1, <4>2
      <3>2. PICK l : IsLeast(l, places(o))
        <4> HIDE DEF places
        <4> QED
          BY <3>1, LeastNat DEF IsLeast
      <3>3. Min(places(o)) = l
        <4> HIDE DEF places
        <4>1. places(o) \in SUBSET Int
          BY <3>1
        <4> QED
          BY <3>2, <4>1, LeastIsMin
      <3> QED
        BY <2>1, <3>2, <3>3 DEF IsLeast
    <2> QED
      BY <1>3, <2>2 DEF Method
  <1> QED
    BY <1>2, <1>3

LEMMA MeasurementsOf ==
  \A msgs, m, order :
    /\ \A r \in WasmErrorPoints(msgs, order) : r.measurement = "coremon_wasm_errors"
    /\ RfqPoint(m, order).measurement = "coremon_rfq_txs"
    /\ \A r \in QuotePoints(m, order) : r.measurement = "coremon_rfq_quotes"
  <1>1. \A name, n, tags, args, stale, late : Point(name, n, tags, args, stale, late).measurement = name
    BY DEF Point
  <1>2. \A msgs, order : \A r \in WasmErrorPoints(msgs, order) : r.measurement = "coremon_wasm_errors"
    <2> SUFFICES ASSUME NEW msgs, NEW order, NEW r \in WasmErrorPoints(msgs, order)
                 PROVE  r.measurement = "coremon_wasm_errors"
      OBVIOUS
    <2>1. PICK tags : r = Point("coremon_wasm_errors", 0, tags, NoArgs, FALSE, NoLate)
      BY Zenon DEF WasmErrorPoints
    <2> QED
      BY <2>1 DEF Point
  <1>3. \A m, order : RfqPoint(m, order).measurement = "coremon_rfq_txs"
    BY <1>1 DEF RfqPoint
  <1>4. \A m, order : \A r \in QuotePoints(m, order) : r.measurement = "coremon_rfq_quotes"
    <2> SUFFICES ASSUME NEW m, NEW order, NEW r \in QuotePoints(m, order)
                 PROVE  r.measurement = "coremon_rfq_quotes"
      OBVIOUS
    <2>1. PICK n, tags, stale, late : r = Point("coremon_rfq_quotes", n, tags, NoArgs, stale, late)
      BY Zenon DEF QuotePoints
    <2> QED
      BY <2>1 DEF Point
  <1> QED
    BY <1>2, <1>3, <1>4

LEMMA WrittenAgree ==
  ASSUME NEW order \in Orders, NEW other \in Orders,
         NEW p \in Written(order), NEW q \in Written(other),
         p.measurement = q.measurement, p.n = q.n
  PROVE  p = q \/ (p.measurement = "coremon_wasm_errors" /\ ~OneMethod)
  <1> DEFINE m == Messages[Min(Actions(Messages))]
             failed == Messages[Min(WasmExecs(Messages))]
             rows(o) == IF Actions(Messages) = {} THEN {} ELSE {RfqPoint(m, o)} \cup QuotePoints(m, o)
  <1>1. \A o : /\ \A r \in WasmErrorPoints(Messages, o) : r.measurement = "coremon_wasm_errors"
               /\ RfqPoint(m, o).measurement = "coremon_rfq_txs"
               /\ \A r \in QuotePoints(m, o) : r.measurement = "coremon_rfq_quotes"
    BY MeasurementsOf
  <1>2. Args(m, order) = Args(m, other)
    BY SameArgs
  <1>3. \A o : Written(o) = WasmErrorPoints(Messages, o) \cup rows(o)
    BY DEF Written
  <1>4. CASE p.measurement = "coremon_wasm_errors"
    <2>1. p \in WasmErrorPoints(Messages, order) /\ q \in WasmErrorPoints(Messages, other)
      BY <1>1, <1>3, <1>4
    <2>2. CASE WasmExecs(Messages) = {}
      BY <2>1, <2>2 DEF WasmErrorPoints
    <2>3. CASE WasmExecs(Messages) # {} /\ OneMethod
      <3>1. Method(failed, order) = Method(failed, other)
        BY <2>3, OneKeyOneMethod DEF OneMethod
      <3> QED
        BY <2>1, <3>1 DEF WasmErrorPoints
    <2> QED
      BY <1>4, <2>2, <2>3
  <1>5. CASE p.measurement = "coremon_rfq_txs"
    <2>1. p = RfqPoint(m, order) /\ q = RfqPoint(m, other)
      BY <1>1, <1>3, <1>5
    <2> QED
      BY <1>2, <2>1 DEF RfqPoint
  <1>6. CASE p.measurement = "coremon_rfq_quotes"
    <2>1. p \in QuotePoints(m, order) /\ q \in QuotePoints(m, other)
      BY <1>1, <1>3, <1>6
    <2>2. QuotePoints(m, order) = QuotePoints(m, other)
      BY <1>2 DEF QuotePoints
    <2>3. \A r, t \in QuotePoints(m, order) : r.n = t.n => r = t
      BY DEF QuotePoints, Point
    <2> QED
      BY <2>1, <2>2, <2>3
  <1>7. \/ p.measurement = "coremon_wasm_errors" \/ p.measurement = "coremon_rfq_txs"
        \/ p.measurement = "coremon_rfq_quotes"
    <2>1. p \in WasmErrorPoints(Messages, order) \/ p = RfqPoint(m, order) \/ p \in QuotePoints(m, order)
      BY <1>3
    <2> HIDE DEF m
    <2> QED
      BY <1>1, <2>1
  <1> QED
    BY <1>4, <1>5, <1>6, <1>7

\* A transaction that is handled again, its maps iterated in whatever order, writes the
\* rows it wrote before.
THEOREM RerunsWriteTheSame == Spec => []RerunsAgree
  <1>1. PointsInv => RerunsAgree
    BY WrittenAgree DEF PointsInv, RerunsAgree
  <1> QED
    BY <1>1, PointsAreWritten, PTL

-----------------------------------------------------------------------------
(* Classification. *)

\* What is looked for before the wrapper.
InsidePatterns ==
  StalePatterns \o ClockPatterns \o ReplayPatterns \o SignaturePatterns \o PricePatterns
    \o FillPatterns \o FundsPatterns \o MakerPatterns \o SettlementPatterns
    \o IntentPatterns

IsSequence(s) == \E S : s \in Seq(S)

\* Patterns that a wrapper does not match.
Inside(s) == IsSequence(s) /\ \A i \in DOMAIN s : "No_quote_was_filled" \notin s[i].on

LEMMA Joined ==
  ASSUME NEW s, NEW t, IsSequence(s), IsSequence(t)
  PROVE  /\ IsSequence(s \o t) /\ Len(s) \in Nat /\ Len(t) \in Nat
         /\ DOMAIN s = 1 .. Len(s) /\ DOMAIN t = 1 .. Len(t)
         /\ Len(s \o t) = Len(s) + Len(t) /\ DOMAIN (s \o t) = 1 .. Len(s) + Len(t)
         /\ \A i \in 1 .. Len(s) : (s \o t)[i] = s[i]
         /\ \A i \in Len(s) + 1 .. Len(s) + Len(t) : (s \o t)[i] = t[i - Len(s)]
  <1>1. PICK S, T : s \in Seq(S) /\ t \in Seq(T)
    BY DEF IsSequence
  <1>2. s \in Seq(S \cup T) /\ t \in Seq(S \cup T)
    BY <1>1
  <1>3. s \o t \in Seq(S \cup T)
    BY <1>2
  <1> QED
    BY <1>2, <1>3 DEF IsSequence

LEMMA JoinedInside ==
  ASSUME NEW s, NEW t, Inside(s), Inside(t)
  PROVE  Inside(s \o t)
  <1>1. IsSequence(s) /\ IsSequence(t)
    BY DEF Inside
  <1>2. ASSUME NEW i \in DOMAIN (s \o t) PROVE "No_quote_was_filled" \notin (s \o t)[i].on
    <2>1. CASE i \in 1 .. Len(s)
      BY <1>1, <2>1, Joined DEF Inside
    <2>2. CASE i \in Len(s) + 1 .. Len(s) + Len(t)
      <3>1. i - Len(s) \in DOMAIN t /\ (s \o t)[i] = t[i - Len(s)]
        BY <1>1, <2>2, Joined
      <3> QED
        BY <3>1 DEF Inside
    <2> QED
      BY <1>1, <2>1, <2>2, Joined
  <1> QED
    BY <1>1, <1>2, Joined DEF Inside

LEMMA PatternsAreSequences ==
  /\ IsSequence(StalePatterns) /\ IsSequence(ClockPatterns) /\ IsSequence(ReplayPatterns)
  /\ IsSequence(SignaturePatterns) /\ IsSequence(PricePatterns) /\ IsSequence(FillPatterns)
  /\ IsSequence(FundsPatterns) /\ IsSequence(MakerPatterns) /\ IsSequence(SettlementPatterns)
  /\ IsSequence(IntentPatterns) /\ IsSequence(WrapperPatterns) /\ IsSequence(OtherPatterns)
  <1>1. StalePatterns \in Seq(ToSet(StalePatterns))
    BY DEF StalePatterns, ToSet
  <1>2. ClockPatterns \in Seq(ToSet(ClockPatterns))
    BY DEF ClockPatterns, ToSet
  <1>3. ReplayPatterns \in Seq(ToSet(ReplayPatterns))
    BY DEF ReplayPatterns, ToSet
  <1>4. SignaturePatterns \in Seq(ToSet(SignaturePatterns))
    BY DEF SignaturePatterns, ToSet
  <1>5. PricePatterns \in Seq(ToSet(PricePatterns))
    BY DEF PricePatterns, ToSet
  <1>6. FillPatterns \in Seq(ToSet(FillPatterns))
    BY DEF FillPatterns, ToSet
  <1>7. FundsPatterns \in Seq(ToSet(FundsPatterns))
    BY DEF FundsPatterns, ToSet
  <1>8. MakerPatterns \in Seq(ToSet(MakerPatterns))
    BY DEF MakerPatterns, ToSet
  <1>9. SettlementPatterns \in Seq(ToSet(SettlementPatterns))
    BY DEF SettlementPatterns, ToSet
  <1>10. IntentPatterns \in Seq(ToSet(IntentPatterns))
    BY DEF IntentPatterns, ToSet
  <1>11. WrapperPatterns \in Seq(ToSet(WrapperPatterns))
    BY DEF WrapperPatterns, ToSet
  <1>12. OtherPatterns \in Seq(ToSet(OtherPatterns))
    BY DEF OtherPatterns, ToSet
  <1> QED
    BY <1>1, <1>2, <1>3, <1>4, <1>5, <1>6, <1>7, <1>8, <1>9, <1>10, <1>11, <1>12, Zenon DEF IsSequence

LEMMA PatternsAreInside == Inside(InsidePatterns)
  <1>1. \A i \in DOMAIN StalePatterns : "No_quote_was_filled" \notin StalePatterns[i].on
    BY DEF StalePatterns, Pattern
  <1>2. \A i \in DOMAIN ClockPatterns : "No_quote_was_filled" \notin ClockPatterns[i].on
    BY DEF ClockPatterns, Pattern
  <1>3. \A i \in DOMAIN ReplayPatterns : "No_quote_was_filled" \notin ReplayPatterns[i].on
    BY DEF ReplayPatterns, Pattern
  <1>4. \A i \in DOMAIN SignaturePatterns : "No_quote_was_filled" \notin SignaturePatterns[i].on
    BY DEF SignaturePatterns, Pattern
  <1>5. \A i \in DOMAIN PricePatterns : "No_quote_was_filled" \notin PricePatterns[i].on
    BY DEF PricePatterns, Pattern
  <1>6. \A i \in DOMAIN FillPatterns : "No_quote_was_filled" \notin FillPatterns[i].on
    BY DEF FillPatterns, Pattern
  <1>7. \A i \in DOMAIN FundsPatterns : "No_quote_was_filled" \notin FundsPatterns[i].on
    BY DEF FundsPatterns, Pattern
  <1>8. \A i \in DOMAIN MakerPatterns : "No_quote_was_filled" \notin MakerPatterns[i].on
    BY DEF MakerPatterns, Pattern
  <1>9. \A i \in DOMAIN SettlementPatterns : "No_quote_was_filled" \notin SettlementPatterns[i].on
    BY DEF SettlementPatterns, Pattern
  <1>10. \A i \in DOMAIN IntentPatterns : "No_quote_was_filled" \notin IntentPatterns[i].on
    BY DEF IntentPatterns, Pattern
  <1>11. /\ Inside(StalePatterns) /\ Inside(ClockPatterns) /\ Inside(ReplayPatterns)
         /\ Inside(SignaturePatterns) /\ Inside(PricePatterns) /\ Inside(FillPatterns)
         /\ Inside(FundsPatterns) /\ Inside(MakerPatterns) /\ Inside(SettlementPatterns)
         /\ Inside(IntentPatterns)
    BY <1>1, <1>2, <1>3, <1>4, <1>5, <1>6, <1>7, <1>8, <1>9, <1>10, PatternsAreSequences, Zenon DEF Inside
  <1> QED
    BY <1>11, JoinedInside, Zenon DEF InsidePatterns

\* Where the patterns are among all of them.
LEMMA PatternPlaces ==
  LET n == Len(InsidePatterns)
  IN /\ n \in Nat /\ DOMAIN ErrPatterns = 1 .. n + 4
     /\ \A i \in 1 .. n : i \in DOMAIN InsidePatterns /\ ErrPatterns[i] = InsidePatterns[i]
     /\ \A i \in (n + 2) .. (n + 4) : ErrPatterns[i].class \in {"input", "chain"}
  <1> DEFINE A == InsidePatterns
             n == Len(A)
             B == A \o WrapperPatterns
  <1>1. IsSequence(A)
    BY PatternsAreInside DEF Inside
  <1>2. IsSequence(WrapperPatterns) /\ Len(WrapperPatterns) = 1
    <2>1. Len(WrapperPatterns) = 1
      BY DEF WrapperPatterns
    <2> QED
      BY <2>1, PatternsAreSequences
  <1>3. /\ IsSequence(OtherPatterns) /\ Len(OtherPatterns) = 3
        /\ \A i \in 1 .. 3 : OtherPatterns[i].class \in {"input", "chain"}
    <2>1. Len(OtherPatterns) = 3 /\ \A i \in 1 .. 3 : OtherPatterns[i].class \in {"input", "chain"}
      BY DEF OtherPatterns, Pattern
    <2> QED
      BY <2>1, PatternsAreSequences
  <1>4. ErrPatterns = B \o OtherPatterns
    BY DEF ErrPatterns, InsidePatterns
  <1> HIDE DEF A, B
  <1>5. /\ IsSequence(B) /\ n \in Nat /\ DOMAIN A = 1 .. n /\ Len(B) = n + 1
        /\ \A i \in 1 .. n : B[i] = A[i]
    <2>1. /\ IsSequence(B) /\ n \in Nat /\ DOMAIN A = 1 .. n /\ Len(B) = n + Len(WrapperPatterns)
          /\ \A i \in 1 .. n : B[i] = A[i]
      BY <1>1, <1>2, Joined, Zenon DEF B
    <2> QED
      BY <1>2, <2>1
  <1>6. /\ DOMAIN ErrPatterns = 1 .. n + 4
        /\ \A i \in 1 .. n + 1 : ErrPatterns[i] = B[i]
        /\ \A i \in (n + 2) .. (n + 4) : ErrPatterns[i] = OtherPatterns[i - (n + 1)]
    <2>1. /\ DOMAIN ErrPatterns = 1 .. Len(B) + Len(OtherPatterns)
          /\ \A i \in 1 .. Len(B) : ErrPatterns[i] = B[i]
          /\ \A i \in Len(B) + 1 .. Len(B) + Len(OtherPatterns) :
               ErrPatterns[i] = OtherPatterns[i - Len(B)]
      BY <1>3, <1>4, <1>5, Joined, Zenon
    <2>2. Len(B) + 1 = n + 2 /\ Len(B) + Len(OtherPatterns) = n + 4
      BY <1>3, <1>5
    <2> QED
      BY <1>5, <2>1, <2>2
  <1>7. \A i \in (n + 2) .. (n + 4) : i - (n + 1) \in 1 .. 3
    BY <1>5
  <1> QED
    BY <1>3, <1>5, <1>6, <1>7 DEF A

StartsStale(s) ==
  IsSequence(s) /\ Len(s) \in Nat /\ Len(s) >= 4 /\ \A i \in 1 .. 4 : s[i] = StalePatterns[i]

LEMMA StaleFirst ==
  \A i \in 1 .. 4 : i \in DOMAIN ErrPatterns /\ ErrPatterns[i] = StalePatterns[i]
  <1>1. ASSUME NEW s, NEW t, StartsStale(s), IsSequence(t) PROVE StartsStale(s \o t)
    <2>1. IsSequence(s) /\ Len(s) \in Nat /\ Len(s) >= 4 /\ \A i \in 1 .. 4 : s[i] = StalePatterns[i]
      BY <1>1 DEF StartsStale
    <2>2. /\ IsSequence(s \o t) /\ Len(t) \in Nat /\ Len(s \o t) = Len(s) + Len(t)
          /\ \A i \in 1 .. Len(s) : (s \o t)[i] = s[i]
      BY <1>1, <2>1, Joined, Zenon
    <2> QED
      BY <2>1, <2>2 DEF StartsStale
  <1>2. StartsStale(StalePatterns)
    <2>1. Len(StalePatterns) = 4
      BY DEF StalePatterns
    <2> QED
      BY <2>1, PatternsAreSequences DEF StartsStale
  <1>3. StartsStale(ErrPatterns)
    BY <1>1, <1>2, PatternsAreSequences, Zenon DEF ErrPatterns
  <1>4. PICK S : ErrPatterns \in Seq(S)
    BY <1>3 DEF StartsStale, IsSequence
  <1> QED
    BY <1>3, <1>4 DEF StartsStale

\* The first of the patterns that match.
LEMMA FirstMatch ==
  ASSUME NEW log, Matching(log) # {}
  PROVE  /\ IsLeast(Min(Matching(log)), Matching(log))
         /\ Classify(log) = LET p == ErrPatterns[Min(Matching(log))]
                            IN [class |-> p.class, key |-> p.key, stale |-> p.class = "stale"]
  <1>1. Matching(log) \in SUBSET Nat
    BY PatternPlaces DEF Matching
  <1>2. PICK l : IsLeast(l, Matching(log))
    BY <1>1, LeastNat DEF IsLeast
  <1>3. Matching(log) \in SUBSET Int
    BY <1>1
  <1> QED
    BY <1>2, <1>3, LeastIsMin DEF Classify

LEMMA HeadAndTail ==
  ASSUME NEW s \in Seq(STRING), s # <<>>
  PROVE  ToSet(s) = {Head(s)} \cup ToSet(Tail(s))
  <1> DEFINE t == Tail(s)
  <1>1. /\ t \in Seq(STRING) /\ Len(s) \in Nat \ {0} /\ Len(t) = Len(s) - 1
        /\ Head(s) = s[1] /\ \A i \in 1 .. Len(t) : t[i] = s[i + 1]
    OBVIOUS
  <1>2. DOMAIN s = 1 .. Len(s) /\ DOMAIN t = 1 .. Len(t)
    BY <1>1
  <1> HIDE DEF t
  <1>3. ASSUME NEW i \in 1 .. Len(s) PROVE s[i] \in {s[1]} \cup ToSet(t)
    <2>1. CASE i = 1
      BY <2>1
    <2>2. CASE i # 1
      <3>1. i - 1 \in 1 .. Len(t) /\ (i - 1) + 1 = i
        BY <1>1, <2>2
      <3>2. s[i] = t[i - 1]
        BY <1>1, <3>1
      <3> QED
        BY <1>2, <3>1, <3>2 DEF ToSet
    <2> QED
      BY <2>1, <2>2
  <1>4. ASSUME NEW i \in 1 .. Len(t) PROVE t[i] \in ToSet(s)
    <2>1. i + 1 \in 1 .. Len(s) /\ t[i] = s[i + 1]
      BY <1>1
    <2> QED
      BY <1>2, <2>1 DEF ToSet
  <1>5. s[1] \in ToSet(s)
    <2>1. 1 \in 1 .. Len(s)
      BY <1>1
    <2> QED
      BY <1>2, <2>1 DEF ToSet
  <1> QED
    BY <1>1, <1>2, <1>3, <1>4, <1>5 DEF ToSet, t

LEMMA WrapperLosesTo ==
  ASSUME NEW log, NEW inner, ToSet(log.says) = {"No_quote_was_filled"} \cup ToSet(inner.says)
  PROVE  \/ Classify(log) = Classify(inner)
         \/ Classify(inner).class \in {"input", "chain", "other"}
  <1> DEFINE n == Len(InsidePatterns)
             M == Matching(inner)
  <1>1. /\ n \in Nat /\ DOMAIN ErrPatterns = 1 .. n + 4
        /\ \A i \in 1 .. n : "No_quote_was_filled" \notin ErrPatterns[i].on
        /\ \A i \in (n + 2) .. (n + 4) : ErrPatterns[i].class \in {"input", "chain"}
    BY PatternsAreInside, PatternPlaces DEF Inside
  <1> HIDE DEF n
  <1>2. /\ M \subseteq Matching(log) /\ Matching(log) \subseteq 1 .. n + 4
        /\ \A i \in 1 .. n : i \in Matching(log) <=> i \in M
    BY <1>1 DEF Matching
  <1>3. CASE M = {}
    BY <1>3 DEF Classify
  <1>4. CASE M # {}
    <2> DEFINE l == Min(M)
               k == Min(Matching(log))
    <2>1. IsLeast(l, M) /\ IsLeast(k, Matching(log))
      BY <1>2, <1>4, FirstMatch
    <2> HIDE DEF l, k
    <2>2. l \in Nat /\ k \in Nat /\ k <= l
      BY <1>1, <1>2, <2>1 DEF IsLeast
    <2>3. CASE l <= n + 1
      <3>1. k = l
        <4>1. SUFFICES ASSUME k < l PROVE FALSE
          BY <2>2
        <4>2. k \in 1 .. n /\ k \in Matching(log)
          BY <1>1, <1>2, <2>1, <2>2, <2>3, <4>1 DEF IsLeast
        <4> QED
          BY <1>2, <2>1, <2>2, <4>1, <4>2 DEF IsLeast
      <3> QED
        BY <1>2, <1>4, <3>1, FirstMatch DEF l, k
    <2>4. CASE n + 1 < l
      <3>1. l \in (n + 2) .. (n + 4)
        BY <1>1, <1>2, <2>1, <2>2, <2>4 DEF IsLeast
      <3>2. Classify(inner).class = ErrPatterns[l].class
        BY <1>4, FirstMatch DEF l
      <3> QED
        BY <1>1, <3>1, <3>2
    <2> QED
      BY <1>1, <2>2, <2>3, <2>4
  <1> QED
    BY <1>3, <1>4

LEMMA LogsAreLogs ==
  ASSUME PointsInv
  PROVE  /\ IsLog(tx.log)
         /\ \A n \in DOMAIN QuoteResults :
              /\ IsLog(QuoteResults[n].log)
              /\ ~QuoteResults[n].rejected => QuoteResults[n].log.limits = {}
  <1>1. IsTx(tx)
    BY TxsAssumption DEF PointsInv
  <1>2. \A n \in DOMAIN QuoteResults : QuoteResults[n] \in ToSet(QuoteResults)
    BY DEF ToSet
  <1> QED
    BY <1>1, <1>2, Zenon DEF IsTx, QuoteResults

\* An error in a wrapper has the class of its inner reason, the validation errors that
\* are looked for after the wrapper excepted.
THEOREM InnerReasonsWin == Spec => []InnerReasonWins
  <1>1. ASSUME PointsInv, NEW log \in Logs,
               log.says # <<>> /\ Head(log.says) = "No_quote_was_filled"
        PROVE  LET inner == [log EXCEPT !.says = Tail(log.says)]
               IN \/ Classify(log) = Classify(inner)
                  \/ Classify(inner).class \in {"input", "chain", "other"}
    <2> DEFINE inner == [log EXCEPT !.says = Tail(log.says)]
    <2>1. IsLog(log)
      BY <1>1, LogsAreLogs DEF Logs
    <2>2. inner.says = Tail(log.says) /\ log.says \in Seq(STRING)
      BY <2>1 DEF IsLog
    <2>3. ToSet(log.says) = {"No_quote_was_filled"} \cup ToSet(inner.says)
      BY <1>1, <2>2, HeadAndTail
    <2> HIDE DEF inner
    <2> QED
      BY <2>3, WrapperLosesTo DEF inner
  <1>2. PointsInv => InnerReasonWins
    BY <1>1 DEF InnerReasonWins
  <1> QED
    BY <1>2, PointsAreWritten, PTL

-----------------------------------------------------------------------------
(* Lateness. *)

\* A text with limits is that of a stale error.
LEMMA StaleWins ==
  ASSUME NEW log, IsLog(log), log.limits # {}
  PROVE  Classify(log).stale
  <1>1. PICK i \in DOMAIN StalePatterns : StalePatterns[i].on \cap ToSet(log.says) # {}
    BY DEF IsLog
  <1>2. Len(StalePatterns) = 4 /\ DOMAIN StalePatterns = 1 .. 4
    BY DEF StalePatterns
  <1>3. \A j \in 1 .. 4 : StalePatterns[j].class = "stale"
    BY DEF StalePatterns, Pattern
  <1>4. /\ DOMAIN ErrPatterns = 1 .. Len(InsidePatterns) + 4 /\ Len(InsidePatterns) \in Nat
        /\ \A j \in 1 .. 4 : j \in DOMAIN ErrPatterns /\ ErrPatterns[j] = StalePatterns[j]
    BY StaleFirst, PatternPlaces
  <1>5. i \in Matching(log)
    BY <1>1, <1>2, <1>4 DEF Matching
  <1> DEFINE k == Min(Matching(log))
  <1>6. k \in Matching(log) /\ k <= i
    BY <1>5, FirstMatch DEF IsLeast
  <1>7. k \in 1 .. 4
    BY <1>2, <1>4, <1>6 DEF Matching
  <1>8. Classify(log).stale = (ErrPatterns[k].class = "stale")
    BY <1>5, FirstMatch
  <1> QED
    BY <1>3, <1>4, <1>7, <1>8

Missed(log, id) == {limit \in Limits(log) : Lateness(limit, id) # {}}

\* Each limit alone: its lateness is the lead with which it is met, and with less it is not.
LEMMA LatenessMeets ==
  ASSUME NEW limit, IsLimit(limit), NEW id \in Nat, NEW late \in Lateness(limit, id)
  PROVE  /\ late \in Int /\ Lateness(limit, id) = {late} /\ Meets(limit, id, late)
         /\ \A sooner \in Nat : sooner < late => ~Meets(limit, id, sooner)
  <1>1. CASE limit.kind = "expiry"
    <2>1. limit.until \in Int /\ limit.current \in Int
      BY <1>1 DEF IsLimit
    <2>2. Lateness(limit, id) = {limit.current - limit.until}
      BY <1>1 DEF Lateness
    <2>3. \A sooner : Meets(limit, id, sooner) <=> limit.current - sooner <= limit.until
      BY <1>1, Zenon DEF Meets
    <2>4. late = limit.current - limit.until
      BY <2>2
    <2> QED
      BY <2>1, <2>2, <2>3, <2>4
  <1>2. CASE limit.kind # "expiry"
    <2>1. /\ limit.from \in Int /\ limit.until \in Int /\ limit.from <= limit.until
      BY <1>2 DEF IsLimit
    <2>2. \A sooner : Meets(limit, id, sooner)
                        <=> limit.from - sooner <= id /\ id <= limit.until - sooner
      BY <1>2, Zenon DEF Meets
    <2>3. CASE id < limit.from
      <3>1. Lateness(limit, id) = {limit.from - id}
        BY <1>2, <2>1, <2>3 DEF Lateness
      <3>2. late = limit.from - id
        BY <3>1
      <3> QED
        BY <2>1, <2>2, <2>3, <3>1, <3>2
    <2>4. CASE ~(id < limit.from)
      <3>1. Lateness(limit, id) = {limit.until - id} /\ id > limit.until
        BY <1>2, <2>1, <2>4 DEF Lateness
      <3>2. late = limit.until - id
        BY <3>1
      <3> QED
        BY <2>1, <2>2, <2>4, <3>1, <3>2
    <2> QED
      BY <2>3, <2>4
  <1> QED
    BY <1>1, <1>2

LEMMA LateIsLeast ==
  ASSUME NEW log, IsLog(log), NEW id \in Nat
  PROVE  LET late == StaleLateBy(log, id)
         IN /\ late.found <=> Missed(log, id) # {}
            /\ late.found => /\ \E limit \in Missed(log, id) : Meets(limit, id, late.by)
                             /\ \A limit \in Missed(log, id), sooner \in 0 .. late.by - 1 :
                                  ~Meets(limit, id, sooner)
  <1> DEFINE lates == Latenesses(log, id)
             late == StaleLateBy(log, id)
             M == Missed(log, id)
  <1>1. IsFiniteSet(Limits(log)) /\ \A limit \in Limits(log) : IsLimit(limit)
    BY DEF IsLog
  <1>2. \A limit \in M : limit \in Limits(log) /\ \E l \in Lateness(limit, id) : l \in lates
    BY DEF Missed, Latenesses
  <1>3. \A l \in lates : l \in Int /\ \E limit \in M : l \in Lateness(limit, id)
    BY <1>1, LatenessMeets DEF Missed, Latenesses
  <1>4. late = [found |-> lates # {}, by |-> IF lates = {} THEN 0 ELSE Min(lates)]
    BY DEF StaleLateBy, LeastOf
  <1>5. IsFiniteSet(lates)
    <2> DEFINE f == [limit \in Limits(log) |-> Lateness(limit, id)]
               L == {f[limit] : limit \in Limits(log)}
    <2>1. f \in Surjection(Limits(log), L)
      BY DEF Surjection
    <2>2. IsFiniteSet(L)
      BY <1>1, <2>1, FS_Surjection
    <2>3. ASSUME NEW limit \in Limits(log) PROVE IsFiniteSet(Lateness(limit, id))
      <3>1. CASE Lateness(limit, id) = {}
        BY <3>1, FS_EmptySet
      <3>2. CASE Lateness(limit, id) # {}
        <4>1. PICK l : Lateness(limit, id) = {l}
          BY <1>1, <3>2, LatenessMeets
        <4> QED
          BY <4>1, FS_Singleton
      <3> QED
        BY <3>1, <3>2
    <2>4. \A T \in L : IsFiniteSet(T)
      BY <2>3
    <2>5. lates = UNION L
      BY DEF Latenesses
    <2> HIDE DEF L, lates
    <2> QED
      BY <2>2, <2>4, <2>5, FS_UNION
  <1> HIDE DEF lates, M, late
  <1>6. (late.found <=> lates # {}) /\ (late.found <=> M # {})
    <2>1. late.found <=> lates # {}
      BY <1>4
    <2> QED
      BY <1>2, <1>3, <2>1
  <1>7. ASSUME lates # {}
        PROVE  /\ \E limit \in M : Meets(limit, id, late.by)
               /\ \A limit \in M, sooner \in 0 .. late.by - 1 : ~Meets(limit, id, sooner)
    <2>1. lates \in SUBSET Int
      BY <1>3
    <2>2. PICK least : IsLeast(least, lates)
      BY <1>5, <1>7, <2>1, FiniteHasLeast
    <2>3. late.by = least /\ least \in Int /\ least \in lates /\ \A l \in lates : least <= l
      BY <1>4, <1>7, <2>1, <2>2, LeastIsMin DEF IsLeast
    <2>4. \A limit \in M : IsLimit(limit)
      BY <1>1, <1>2
    <2>5. \E limit \in M : Meets(limit, id, least)
      BY <1>3, <2>3, <2>4, LatenessMeets
    <2>6. ASSUME NEW limit \in M, NEW sooner \in 0 .. least - 1 PROVE ~Meets(limit, id, sooner)
      <3>1. PICK l \in Lateness(limit, id) : l \in lates
        BY <1>2
      <3>2. sooner \in Nat /\ sooner < l
        BY <1>3, <2>3, <3>1
      <3> QED
        BY <2>4, <3>1, <3>2, LatenessMeets
    <2> QED
      BY <2>3, <2>5, <2>6
  <1> QED
    BY <1>6, <1>7 DEF M, late

\* The request id is that of arguments that are in the message.
LEMMA IdsAreNumbers ==
  ASSUME NEW m, IsAction(m), IsDoc(m.doc), NEW order,
         m.args \in [m.doc -> [parses : BOOLEAN, id : Nat, quotes : Nat]]
  PROVE  Args(m, order).id \in Nat
  <1> DEFINE path == ArgsPath(m, order)
  <1>1. CASE path # NotFound /\ m.args[path].parses
    <2>1. path \in m.doc
      <3>1. CASE Kind(m) = "atomic_exec"
        <4>1. path = FindKey(m.doc, AcceptQuote, order)
          BY <3>1 DEF ArgsPath
        <4>2. AcceptQuote \in Keys
          BY ActionsAssumption
        <4> QED
          BY <1>1, <4>1, <4>2, FindKeyFinds DEF Leads, Candidates
      <3>2. CASE Kind(m) = "accept_quote"
        BY <3>2 DEF ArgsPath, Kind
      <3>3. CASE Kind(m) = "signed_intent"
        BY <3>3 DEF ArgsPath, Kind, IsAction
      <3> QED
        BY <3>1, <3>2, <3>3 DEF Kind
    <2>2. Args(m, order) = m.args[path]
      BY <1>1 DEF Args
    <2> QED
      BY <2>1, <2>2
  <1>2. CASE ~(path # NotFound /\ m.args[path].parses)
    BY <1>2 DEF Args, NoArgs
  <1> QED
    BY <1>1, <1>2

LEMMA FirstAction ==
  ASSUME PointsInv, Actions(Messages) # {}
  PROVE  LET m == Messages[Min(Actions(Messages))]
         IN m \in ToSet(Messages) /\ IsAction(m)
  <1> DEFINE A == Actions(Messages)
  <1>1. A \in SUBSET Nat
    <2>1. IsTx(tx)
      BY TxsAssumption DEF PointsInv
    <2>2. Messages \in Seq(ToSet(Messages))
      BY <2>1, FlattenIsSeq, Zenon DEF IsTx, Messages, Unwrap
    <2> QED
      BY <2>2 DEF Actions
  <1>2. PICK i : IsLeast(i, A)
    BY <1>1, LeastNat DEF IsLeast
  <1>3. Min(A) = i
    BY <1>1, <1>2, LeastIsMin
  <1> QED
    BY <1>2, <1>3 DEF IsLeast, Actions, ToSet

\* What a point says of lateness, and which log it is about.
LEMMA LateOf ==
  ASSUME PointsInv, NEW order \in Orders, NEW p \in Written(order),
         Actions(Messages) # {}
  PROVE  LET id == Args(Messages[Min(Actions(Messages))], order).id
         IN /\ IsLog(LogOf(p))
            /\ p.fields.late \in {NoLate, StaleLateBy(LogOf(p), id)}
            /\ ByContract(p) /\ LogOf(p).limits # {} => p.fields.late = StaleLateBy(LogOf(p), id)
            /\ p.measurement = "coremon_rfq_txs" => p.fields.args.id = id
  <1> DEFINE m == Messages[Min(Actions(Messages))]
             id == Args(m, order).id
  <1>1. CASE p \in WasmErrorPoints(Messages, order)
    <2>1. p.measurement = "coremon_wasm_errors"
      BY <1>1, MeasurementsOf
    <2>2. PICK tags : p = Point("coremon_wasm_errors", 0, tags, NoArgs, FALSE, NoLate)
      BY <1>1, Zenon DEF WasmErrorPoints
    <2>3. p.fields.late = NoLate
      BY <2>2 DEF Point
    <2> QED
      BY <2>1, <2>3, LogsAreLogs DEF LogOf, ByContract
  <1>2. CASE p = RfqPoint(m, order)
    <2> DEFINE err == IF Failed THEN ClassifyFailure(tx.codespace, tx.log) ELSE Fine
    <2>1. p.measurement = "coremon_rfq_txs" /\ LogOf(p) = tx.log
      BY <1>2, MeasurementsOf DEF LogOf
    <2>2. PICK tags : p = Point("coremon_rfq_txs", 0, tags, Args(m, order), err.stale,
                                LateBy(err, tx.log, Args(m, order)))
      BY <1>2, Zenon DEF RfqPoint
    <2>3. /\ p.fields.late = IF err.stale THEN StaleLateBy(tx.log, id) ELSE NoLate
          /\ p.fields.args = Args(m, order)
      BY <2>2 DEF Point, LateBy
    <2>4. ByContract(p) /\ tx.log.limits # {} => err.stale
      BY <2>1, LogsAreLogs, StaleWins DEF ByContract, ClassifyFailure, Failed
    <2> QED
      BY <2>1, <2>3, <2>4, LogsAreLogs
  <1>3. CASE p \in QuotePoints(m, order)
    <2>1. PICK n \in DOMAIN QuoteResults :
            LET err == IF QuoteResults[n].rejected THEN Classify(QuoteResults[n].log) ELSE Fine
            IN \E tags : p = Point("coremon_rfq_quotes", n, tags, NoArgs, err.stale,
                                   LateBy(err, QuoteResults[n].log, Args(m, order)))
      BY <1>3, Zenon DEF QuotePoints
    <2> DEFINE log == QuoteResults[n].log
               err == IF QuoteResults[n].rejected THEN Classify(log) ELSE Fine
    <2>2. /\ p.measurement = "coremon_rfq_quotes" /\ p.n = n
          /\ p.fields.late = IF err.stale THEN StaleLateBy(log, id) ELSE NoLate
      BY <2>1 DEF Point, LateBy
    <2>3. LogOf(p) = log /\ IsLog(log)
      BY <2>2, LogsAreLogs DEF LogOf
    <2>4. log.limits # {} => err.stale
      BY <2>3, LogsAreLogs, StaleWins
    <2> QED
      BY <2>2, <2>3, <2>4
  <1> QED
    BY <1>1, <1>2, <1>3 DEF Written

\* "late_by" is the lead with which one of the limits that were missed would have been
\* met, the least of them, and it is there whenever the contract rejects for one.
THEOREM LateByIsLeast == Spec => []LeastLate
  <1>1. ASSUME PointsInv, NEW p \in points, NEW q \in points, q.measurement = "coremon_rfq_txs"
        PROVE  LET id == q.fields.args.id
                   late == p.fields.late
                   missed(limits) == {limit \in limits : Lateness(limit, id) # {}}
                   all == missed(Limits(LogOf(p)))
               IN /\ late.found => /\ \E limit \in all : Meets(limit, id, late.by)
                                  /\ \A limit \in all, sooner \in 0 .. late.by - 1 :
                                       ~Meets(limit, id, sooner)
                  /\ ByContract(p) /\ missed(LogOf(p).limits) # {} => late.found
    <2> DEFINE m == Messages[Min(Actions(Messages))]
               id == q.fields.args.id
               log == LogOf(p)
    <2>1. PICK order \in Orders, other \in Orders : p \in Written(order) /\ q \in Written(other)
      BY <1>1 DEF PointsInv
    <2>2. Actions(Messages) # {}
      BY <1>1, <2>1, MeasurementsOf DEF Written
    <2>3. id = Args(m, other).id /\ id = Args(m, order).id
      BY <1>1, <2>1, <2>2, LateOf, SameArgs
    <2>4. id \in Nat
      <3>1. m \in ToSet(Messages) /\ IsAction(m)
        BY <1>1, <2>2, FirstAction
      <3>2. IsTx(tx)
        BY <1>1, TxsAssumption DEF PointsInv
      <3>3. IsDoc(m.doc) /\ m.args \in [m.doc -> [parses : BOOLEAN, id : Nat, quotes : Nat]]
        BY <3>1, <3>2, Zenon DEF IsTx, Messages
      <3> QED
        BY <2>3, <3>1, <3>3, IdsAreNumbers
    <2>5. /\ IsLog(log) /\ p.fields.late \in {NoLate, StaleLateBy(log, id)}
          /\ ByContract(p) /\ log.limits # {} => p.fields.late = StaleLateBy(log, id)
      BY <1>1, <2>1, <2>2, <2>3, LateOf
    <2> HIDE DEF id, log, m
    <2>6. LET late == StaleLateBy(log, id)
          IN /\ late.found <=> Missed(log, id) # {}
             /\ late.found => /\ \E limit \in Missed(log, id) : Meets(limit, id, late.by)
                              /\ \A limit \in Missed(log, id), sooner \in 0 .. late.by - 1 :
                                   ~Meets(limit, id, sooner)
      BY <2>4, <2>5, LateIsLeast
    <2>7. {limit \in log.limits : Lateness(limit, id) # {}} \subseteq Missed(log, id)
      BY DEF Missed, Limits
    <2>8. NoLate.found = FALSE
      BY DEF NoLate
    <2> QED
      BY <2>5, <2>6, <2>7, <2>8 DEF Missed, id, log
  <1>2. PointsInv => LeastLate
    BY <1>1, Zenon DEF LeastLate
  <1> QED
    BY <1>2, PointsAreWritten, PTL

=============================================================================
