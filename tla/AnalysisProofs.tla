---------------------------- MODULE AnalysisProofs --------------------------
(***************************************************************************)
(* What the analysis of a captured plan guarantees for showplans of any    *)
(* shape and size, and the callers of a live call for whatever it meets.   *)
(***************************************************************************)
EXTENDS Analysis, CaptureProofs, SequenceTheorems, FiniteSetTheorems, WellFoundedInduction

(* Induction, from the well-foundedness of < on Nat.                       *)
LEMMA InductiveSet ==
  ASSUME NEW S, 0 \in S, \A n \in Nat : n \in S => n + 1 \in S
  PROVE  \A n \in Nat : n \in S
  <1>1. ASSUME NEW z \in Nat \ S PROVE FALSE
    <2>1. PICK x \in Nat \ S : \A y \in Nat \ S : ~ (<<y, x>> \in OpToRel(<, Nat))
      BY WFMin, NatLessThanWellFounded
    <2>2. \A y \in Nat \ S : ~ (y < x)
      BY <2>1, Zenon DEF OpToRel
    <2>3. x # 0 /\ x - 1 \in Nat /\ x - 1 < x /\ (x - 1) + 1 = x
      OBVIOUS
    <2>4. x - 1 \in S
      BY <2>2, <2>3
    <2>5. QED
      BY <2>3, <2>4
  <1>2. QED
    BY <1>1

(* f holds what step makes of first, again and again, N times.             *)
Iterates(f, step, first, X, N) ==
  /\ f \in [0 .. N -> X]
  /\ f[0] = first
  /\ \A i \in 1 .. N : f[i] = step[i][f[i - 1]]

(* What is defined by recursion on a number exists.                        *)
LEMMA Iteration ==
  ASSUME NEW X, NEW first \in X, NEW step \in [Nat -> [X -> X]], NEW N \in Nat
  PROVE  \E f : Iterates(f, step, first, X, N)
  <1> DEFINE S == {m \in Nat : \E f : Iterates(f, step, first, X, m)}
  <1>1. 0 \in S
    <2>1. Iterates([i \in 0 .. 0 |-> first], step, first, X, 0)
      BY DEF Iterates
    <2>2. QED
      BY <2>1
  <1>2. ASSUME NEW m \in Nat, m \in S PROVE m + 1 \in S
    <2>1. PICK f : Iterates(f, step, first, X, m)
      BY <1>2
    <2> DEFINE g == [i \in 0 .. m + 1 |-> IF i = m + 1 THEN step[m + 1][f[m]] ELSE f[i]]
    <2>2. step[m + 1][f[m]] \in X
      BY <2>1 DEF Iterates
    <2>3. g \in [0 .. m + 1 -> X] /\ g[0] = first
      BY <2>1, <2>2 DEF Iterates
    <2>4. ASSUME NEW i \in 1 .. m + 1 PROVE g[i] = step[i][g[i - 1]]
      <3>1. CASE i = m + 1
        <4>1. g[i - 1] = f[m] /\ g[i] = step[m + 1][f[m]]
          BY <3>1, <1>2
        <4>2. QED
          BY <3>1, <4>1
      <3>2. CASE i # m + 1
        <4>1. i \in 1 .. m /\ i - 1 \in 0 .. m + 1 /\ i - 1 # m + 1 /\ i \in 0 .. m + 1
          BY <3>2, <1>2
        <4>2. g[i - 1] = f[i - 1] /\ g[i] = f[i]
          BY <3>2, <4>1
        <4>3. QED
          BY <2>1, <4>1, <4>2 DEF Iterates
      <3>3. QED
        BY <3>1, <3>2
    <2> HIDE DEF g
    <2>5. Iterates(g, step, first, X, m + 1)
      BY <2>3, <2>4 DEF Iterates
    <2>6. QED
      BY <2>5
  <1>3. \A m \in Nat : m \in S
    <2>1. \A m \in Nat : m \in S => m + 1 \in S
      BY <1>2
    <2> HIDE DEF S
    <2>2. QED
      BY <1>1, <2>1, InductiveSet
  <1>4. QED
    BY <1>3

-----------------------------------------------------------------------------

(* s names the elements of S, each once, in increasing order.              *)
Lists(s, S) ==
  /\ s \in Seq(S)
  /\ \A x \in S : \E i \in DOMAIN s : s[i] = x
  /\ \A i, j \in DOMAIN s : i < j => s[i] < s[j]

(* Kept is the recursive function it is meant to be.                       *)
LEMMA KeptDef ==
  ASSUME NEW T, NEW s \in Seq(T), NEW I
  PROVE  \E f : /\ f = [n \in 0 .. Len(s) |->
                          IF n = 0 THEN <<>>
                          ELSE IF n \in I THEN Append(f[n - 1], s[n]) ELSE f[n - 1]]
                /\ Kept(s, I) = f[Len(s)]
  <1> DEFINE upTo[n \in 0 .. Len(s)] ==
               IF n = 0 THEN <<>>
               ELSE IF n \in I THEN Append(upTo[n - 1], s[n]) ELSE upTo[n - 1]
             step == [n \in Nat |-> [t \in Seq(T) |->
                       IF n \in I /\ n \in DOMAIN s THEN Append(t, s[n]) ELSE t]]
             X == Seq(T)
  <1>1. \E f : f = [n \in 0 .. Len(s) |->
                      IF n = 0 THEN <<>>
                      ELSE IF n \in I THEN Append(f[n - 1], s[n]) ELSE f[n - 1]]
    <2>1. step \in [Nat -> [X -> X]] /\ <<>> \in X /\ Len(s) \in Nat
      OBVIOUS
    <2>2. PICK f : Iterates(f, step, <<>>, X, Len(s))
      <3> HIDE DEF step, X
      <3>1. QED
        BY <2>1, Iteration
    <2>3. f = [n \in 0 .. Len(s) |-> f[n]]
      BY <2>2 DEF Iterates
    <2>4. ASSUME NEW n \in 0 .. Len(s)
          PROVE  f[n] = IF n = 0 THEN <<>>
                        ELSE IF n \in I THEN Append(f[n - 1], s[n]) ELSE f[n - 1]
      <3>1. CASE n = 0
        BY <3>1, <2>2 DEF Iterates
      <3>2. CASE n # 0
        <4>1. n \in Nat /\ n \in DOMAIN s /\ n \in 1 .. Len(s) /\ n - 1 \in 0 .. Len(s)
          BY <3>2
        <4>2. f[n - 1] \in Seq(T) /\ f[n] = step[n][f[n - 1]]
          BY <4>1, <2>2 DEF Iterates
        <4>3. step[n][f[n - 1]] = IF n \in I THEN Append(f[n - 1], s[n]) ELSE f[n - 1]
          BY <4>1, <4>2
        <4>4. QED
          BY <3>2, <4>2, <4>3
      <3>3. QED
        BY <3>1, <3>2
    <2>5. QED
      BY <2>3, <2>4, Zenon
  <1>2. upTo = [n \in 0 .. Len(s) |->
                  IF n = 0 THEN <<>>
                  ELSE IF n \in I THEN Append(upTo[n - 1], s[n]) ELSE upTo[n - 1]]
    BY <1>1
  <1>3. Kept(s, I) = upTo[Len(s)]
    BY DEF Kept
  <1> HIDE DEF upTo
  <1>4. QED
    BY <1>2, <1>3

(* A comprehension yields the elements at the chosen indexes, in their order. *)
LEMMA KeptFacts ==
  ASSUME NEW T, NEW s \in Seq(T), NEW I \in SUBSET DOMAIN s
  PROVE  /\ Kept(s, I) \in Seq(T)
         /\ \E p : /\ Lists(p, I)
                   /\ Len(p) = Len(Kept(s, I))
                   /\ \A k \in DOMAIN p : Kept(s, I)[k] = s[p[k]]
  <1>1. PICK f : /\ f = [n \in 0 .. Len(s) |->
                           IF n = 0 THEN <<>>
                           ELSE IF n \in I THEN Append(f[n - 1], s[n]) ELSE f[n - 1]]
                 /\ Kept(s, I) = f[Len(s)]
    BY KeptDef
  <1> DEFINE So(m) == f[m] \in Seq(T) /\ \E p : /\ Lists(p, {i \in I : i <= m})
                                 /\ Len(p) = Len(f[m])
                                 /\ \A k \in DOMAIN p : f[m][k] = s[p[k]]
             S == {m \in Nat : m <= Len(s) => So(m)}
  <1>2. So(0)
    <2>1. f[0] = <<>> /\ {i \in I : i <= 0} = {}
      BY <1>1
    <2> DEFINE p == <<>>
    <2>2. p \in Seq({}) /\ Len(p) = 0 /\ DOMAIN p = {} /\ f[0] \in Seq(T) /\ Len(f[0]) = 0
      BY <2>1
    <2> HIDE DEF p
    <2>3. Lists(p, {})
      BY <2>2 DEF Lists
    <2>4. QED
      BY <2>1, <2>2, <2>3
  <1>3. ASSUME NEW m \in Nat, m + 1 <= Len(s), So(m) PROVE So(m + 1)
    <2>1. f[m] \in Seq(T) /\ s[m + 1] \in T
      BY <1>3
    <2>2. PICK p : /\ Lists(p, {i \in I : i <= m})
                   /\ Len(p) = Len(f[m])
                   /\ \A k \in DOMAIN p : f[m][k] = s[p[k]]
      BY <1>3
    <2>3. f[m + 1] = IF m + 1 \in I THEN Append(f[m], s[m + 1]) ELSE f[m]
      <3>1. m + 1 \in 0 .. Len(s) /\ m + 1 # 0 /\ (m + 1) - 1 = m
        BY <1>3
      <3>2. QED
        BY <1>1, <3>1
    <2>4. CASE m + 1 \notin I
      <3>1. {i \in I : i <= m} = {i \in I : i <= m + 1}
        BY <2>4
      <3>2. QED
        BY <2>1, <2>2, <2>3, <2>4, <3>1
    <2>5. CASE m + 1 \in I
      <3> DEFINE q == Append(p, m + 1)
                 J == {i \in I : i <= m}
                 K == {i \in I : i <= m + 1}
      <3>1. K = J \cup {m + 1} /\ p \in Seq(J) /\ p \in Seq(K) /\ m + 1 \in K
        BY <2>2, <2>5 DEF Lists
      <3>2. /\ q \in Seq(K) /\ Len(q) = Len(p) + 1 /\ q[Len(p) + 1] = m + 1
            /\ \A k \in 1 .. Len(p) : q[k] = p[k] /\ q[k] \in J
        BY <3>1
      <3>3. /\ f[m + 1] \in Seq(T) /\ Len(f[m + 1]) = Len(p) + 1
            /\ f[m + 1][Len(p) + 1] = s[m + 1]
            /\ \A k \in 1 .. Len(p) : f[m + 1][k] = f[m][k]
        BY <2>1, <2>2, <2>3, <2>5
      <3>4. DOMAIN p = 1 .. Len(p) /\ DOMAIN q = 1 .. Len(p) + 1 /\ Len(p) \in Nat
        BY <3>1, <3>2
      <3> HIDE DEF q
      <3>5. ASSUME NEW i \in DOMAIN q, NEW j \in DOMAIN q, i < j PROVE q[i] < q[j]
        <4>1. i \in 1 .. Len(p) /\ q[i] = p[i] /\ q[i] \in J
          BY <3>2, <3>4, <3>5
        <4>2. CASE j = Len(p) + 1
          <5>1. q[i] <= m /\ q[i] \in Nat
            BY <4>1
          <5>2. QED
            BY <4>2, <5>1, <3>2
        <4>3. CASE j # Len(p) + 1
          <5>1. j \in DOMAIN p /\ i \in DOMAIN p /\ q[j] = p[j]
            BY <4>1, <4>3, <3>2, <3>4
          <5>2. QED
            BY <5>1, <4>1, <3>5, <2>2 DEF Lists
        <4>4. QED
          BY <4>2, <4>3
      <3>6. \A x \in K : \E i \in DOMAIN q : q[i] = x
        <4>1. ASSUME NEW x \in J PROVE \E i \in DOMAIN q : q[i] = x
          BY <2>2, <3>2, <3>4 DEF Lists
        <4>2. q[Len(p) + 1] = m + 1 /\ Len(p) + 1 \in DOMAIN q
          BY <3>2, <3>4
        <4>3. QED
          BY <3>1, <4>1, <4>2
      <3>7. Lists(q, K)
        BY <3>2, <3>5, <3>6 DEF Lists
      <3>8. ASSUME NEW k \in DOMAIN q PROVE f[m + 1][k] = s[q[k]]
        <4>1. CASE k = Len(p) + 1
          BY <4>1, <3>2, <3>3
        <4>2. CASE k \in DOMAIN p
          BY <4>2, <2>2, <3>2, <3>3, <3>4
        <4>3. QED
          BY <4>1, <4>2, <3>4
      <3>9. QED
        BY <3>2, <3>3, <3>7, <3>8
    <2>6. QED
      BY <2>4, <2>5
  <1> HIDE DEF So
  <1>4. \A m \in Nat : m \in S
    <2>1. 0 \in S /\ \A m \in Nat : m \in S => m + 1 \in S
      BY <1>2, <1>3
    <2> HIDE DEF S
    <2>2. QED
      BY <2>1, InductiveSet
  <1>5. So(Len(s))
    BY <1>4
  <1>6. {i \in I : i <= Len(s)} = I
    OBVIOUS
  <1>7. QED
    BY <1>1, <1>5, <1>6 DEF So

(* f[i] is what the first i of seqs make together.                         *)
Joins(f, seqs, T) ==
  /\ f \in [0 .. Len(seqs) -> Seq(T)]
  /\ f[0] = <<>>
  /\ \A i \in 1 .. Len(seqs) : f[i] = f[i - 1] \o seqs[i]

(* FlattenSeq joins its sequences from the left.                           *)
LEMMA FlattenFacts ==
  ASSUME NEW T, NEW seqs \in Seq(Seq(T))
  PROVE  \E f : Joins(f, seqs, T) /\ FlattenSeq(seqs) = f[Len(seqs)]
  <1> DEFINE N == Len(seqs)
             X == Seq(T)
             step == [i \in Nat |-> [t \in X |-> IF i \in DOMAIN seqs THEN t \o seqs[i] ELSE t]]
  <1>1. N \in Nat /\ DOMAIN seqs = 1 .. N /\ \A i \in 1 .. N : seqs[i] \in X
    OBVIOUS
  <1>2. \A t, u \in X : t \o u \in X
    OBVIOUS
  <1>3. step \in [Nat -> [X -> X]] /\ <<>> \in X
    BY <1>1, <1>2
  <1>4. PICK f : Iterates(f, step, <<>>, X, N)
    <2> HIDE DEF step, X, N
    <2>1. QED
      BY <1>1, <1>3, Iteration
  <1>5. ASSUME NEW i \in 1 .. N PROVE f[i] = f[i - 1] \o seqs[i]
    <2>1. i \in Nat /\ i - 1 \in 0 .. N /\ i \in DOMAIN seqs
      BY <1>1
    <2>2. f[i - 1] \in X /\ f[i] = step[i][f[i - 1]]
      BY <1>4, <2>1 DEF Iterates
    <2>3. QED
      BY <2>1, <2>2
  <1>6. Joins(f, seqs, T)
    BY <1>4, <1>5 DEF Iterates, Joins
  <1>10. ASSUME N # 0 PROVE f[1] = seqs[1]
    <2>1. 1 \in 1 .. N /\ 1 - 1 = 0
      BY <1>1, <1>10
    <2>2. f[1] = f[0] \o seqs[1] /\ f[0] = <<>> /\ seqs[1] \in Seq(T)
      BY <1>1, <1>5, <1>6, <2>1 DEF Joins
    <2>3. QED
      BY <2>2
  <1>7. CASE N = 0
    <2>1. seqs = <<>> /\ FlattenSeq(seqs) = seqs
      BY <1>7 DEF FlattenSeq
    <2>2. QED
      BY <1>6, <1>7, <2>1 DEF Joins
  <1>8. CASE N # 0
    <2> DEFINE flatten[i \in 1 .. Len(seqs)] ==
                 IF i = 1 THEN seqs[i] ELSE flatten[i - 1] \o seqs[i]
    <2>1. \E h : h = [i \in 1 .. Len(seqs) |-> IF i = 1 THEN seqs[i] ELSE h[i - 1] \o seqs[i]]
      <3> DEFINE h == [i \in 1 .. Len(seqs) |-> f[i]]
      <3>1. ASSUME NEW i \in 1 .. Len(seqs)
            PROVE  f[i] = IF i = 1 THEN seqs[i] ELSE h[i - 1] \o seqs[i]
        <4>1. CASE i = 1
          BY <1>8, <1>10, <4>1
        <4>2. CASE i # 1
          <5>1. i - 1 \in 1 .. Len(seqs)
            BY <4>2
          <5>2. QED
            BY <1>5, <4>2, <5>1
        <4>3. QED
          BY <4>1, <4>2
      <3>2. h = [i \in 1 .. Len(seqs) |-> IF i = 1 THEN seqs[i] ELSE h[i - 1] \o seqs[i]]
        BY <3>1, Zenon
      <3> HIDE DEF h
      <3>3. QED
        BY <3>2
    <2>2. flatten = [i \in 1 .. Len(seqs) |->
                       IF i = 1 THEN seqs[i] ELSE flatten[i - 1] \o seqs[i]]
      BY <2>1
    <2>3. FlattenSeq(seqs) = flatten[Len(seqs)]
      BY <1>8 DEF FlattenSeq
    <2> HIDE DEF flatten
    <2> DEFINE S == {m \in Nat : m \in 1 .. N => flatten[m] = f[m]}
    <2>4. 0 \in S
      OBVIOUS
    <2>5. ASSUME NEW m \in Nat, m \in S PROVE m + 1 \in S
      <3> SUFFICES ASSUME m + 1 \in 1 .. N PROVE flatten[m + 1] = f[m + 1]
        OBVIOUS
      <3>1. CASE m = 0
        <4>1. flatten[1] = seqs[1]
          BY <2>2, <3>1
        <4>2. QED
          BY <1>8, <1>10, <3>1, <4>1
      <3>2. CASE m # 0
        <4>1. m \in 1 .. N /\ (m + 1) - 1 = m /\ m + 1 # 1
          BY <3>2
        <4>2. flatten[m + 1] = flatten[m] \o seqs[m + 1]
          BY <2>2, <4>1
        <4>3. QED
          BY <1>5, <2>5, <4>1, <4>2
      <3>3. QED
        BY <3>1, <3>2
    <2>6. \A m \in Nat : m \in S
      <3>1. \A m \in Nat : m \in S => m + 1 \in S
        BY <2>5
      <3> HIDE DEF S
      <3>2. QED
        BY <2>4, <3>1, InductiveSet
    <2>7. flatten[N] = f[N]
      <3>1. N \in 1 .. N /\ N \in Nat
        BY <1>1, <1>8
      <3>2. N \in S
        BY <2>6, <3>1
      <3>3. QED
        BY <3>1, <3>2
    <2>8. QED
      BY <1>6, <2>3, <2>7
  <1>9. QED
    BY <1>7, <1>8

(* The list of a set followed by the list of what is above it.             *)
LEMMA ConcatLists ==
  ASSUME NEW A \in SUBSET Nat, NEW B \in SUBSET Nat, NEW s, NEW t,
         Lists(s, A), Lists(t, B), \A a \in A, b \in B : a < b
  PROVE  Lists(s \o t, A \cup B)
  <1> DEFINE C == A \cup B
             u == s \o t
             m == Len(s)
             n == Len(t)
  <1>1. s \in Seq(A) /\ t \in Seq(B) /\ s \in Seq(C) /\ t \in Seq(C)
    BY DEF Lists
  <1>2. m \in Nat /\ n \in Nat /\ DOMAIN s = 1 .. m /\ DOMAIN t = 1 .. n
    BY <1>1
  <1>3. u \in Seq(C) /\ DOMAIN u = 1 .. m + n
        /\ (\A i \in 1 .. m : u[i] = s[i] /\ u[i] \in A)
        /\ (\A i \in 1 .. n : u[m + i] = t[i] /\ u[m + i] \in B)
    BY <1>1, <1>2
  <1> HIDE DEF u, m, n
  <1>4. \A i \in 1 .. m + n : i \in 1 .. m \/ (i - m \in 1 .. n /\ i = m + (i - m) /\ i > m)
    BY <1>2
  <1>5. ASSUME NEW x \in C PROVE \E i \in DOMAIN u : u[i] = x
    <2>1. CASE x \in A
      <3>1. PICK i \in DOMAIN s : s[i] = x
        BY <2>1 DEF Lists
      <3>2. i \in DOMAIN u /\ u[i] = x
        BY <3>1, <1>2, <1>3
      <3>3. QED
        BY <3>2
    <2>2. CASE x \in B
      <3>1. PICK i \in DOMAIN t : t[i] = x
        BY <2>2 DEF Lists
      <3>2. m + i \in DOMAIN u /\ u[m + i] = x
        BY <3>1, <1>2, <1>3
      <3>3. QED
        BY <3>2
    <2>3. QED
      BY <2>1, <2>2
  <1>6. ASSUME NEW i \in DOMAIN u, NEW j \in DOMAIN u, i < j PROVE u[i] < u[j]
    <2>1. i \in 1 .. m + n /\ j \in 1 .. m + n
      BY <1>3
    <2>2. CASE j \in 1 .. m
      <3>1. i \in 1 .. m /\ i \in DOMAIN s /\ j \in DOMAIN s
        BY <1>2, <1>6, <2>1, <2>2
      <3>2. s[i] < s[j]
        BY <1>6, <3>1 DEF Lists
      <3>3. QED
        BY <1>3, <2>2, <3>1, <3>2
    <2>3. CASE i \in 1 .. m /\ j \notin 1 .. m
      <3>1. u[i] \in A /\ j - m \in 1 .. n /\ j = m + (j - m)
        BY <1>3, <1>4, <2>1, <2>3
      <3>2. u[j] \in B
        BY <1>3, <3>1
      <3>3. QED
        BY <3>1, <3>2
    <2>4. CASE i \notin 1 .. m
      <3> DEFINE k == i - m
                 l == j - m
      <3>1. k \in 1 .. n /\ l \in 1 .. n /\ k < l /\ i = m + k /\ j = m + l
        BY <1>2, <1>4, <1>6, <2>1, <2>4
      <3> HIDE DEF k, l
      <3>2. t[k] < t[l]
        BY <1>2, <3>1 DEF Lists
      <3>3. u[i] = t[k] /\ u[j] = t[l]
        BY <1>3, <3>1
      <3>4. QED
        BY <3>2, <3>3
    <2>5. QED
      BY <2>2, <2>3, <2>4
  <1>7. Lists(u, C)
    BY <1>3, <1>5, <1>6 DEF Lists
  <1>8. QED
    BY <1>7 DEF u

(* What is in a concatenation, and where.                                  *)
LEMMA ConcatFacts ==
  ASSUME NEW T, NEW s \in Seq(T), NEW t \in Seq(T)
  PROVE  /\ s \o t \in Seq(T) /\ Len(s \o t) = Len(s) + Len(t)
         /\ \A k \in 1 .. Len(s) : (s \o t)[k] = s[k]
         /\ \A k \in 1 .. Len(t) : (s \o t)[Len(s) + k] = t[k]
         /\ \A k \in 1 .. Len(s) + Len(t) :
              k \in 1 .. Len(s) \/ (k - Len(s) \in 1 .. Len(t) /\ k = Len(s) + (k - Len(s)))
         /\ ToSet(s \o t) = ToSet(s) \cup ToSet(t)
  <1> DEFINE u == s \o t
             m == Len(s)
             n == Len(t)
  <1>1. m \in Nat /\ n \in Nat /\ DOMAIN s = 1 .. m /\ DOMAIN t = 1 .. n
    OBVIOUS
  <1>2. /\ u \in Seq(T) /\ Len(u) = m + n /\ DOMAIN u = 1 .. m + n
        /\ \A k \in 1 .. m : u[k] = s[k]
        /\ \A k \in 1 .. n : u[m + k] = t[k]
    OBVIOUS
  <1> HIDE DEF u, m, n
  <1>3. \A k \in 1 .. m + n : k \in 1 .. m \/ (k - m \in 1 .. n /\ k = m + (k - m))
    BY <1>1
  <1>4. ToSet(u) = ToSet(s) \cup ToSet(t)
    <2>1. ASSUME NEW k \in 1 .. m + n PROVE u[k] \in ToSet(s) \cup ToSet(t)
      <3>1. CASE k \in 1 .. m
        BY <1>1, <1>2, <3>1 DEF ToSet
      <3>2. CASE k - m \in 1 .. n /\ k = m + (k - m)
        <4>1. u[k] = t[k - m]
          BY <1>2, <3>2
        <4>2. QED
          BY <1>1, <3>2, <4>1 DEF ToSet
      <3>3. QED
        BY <1>3, <3>1, <3>2
    <2>2. ASSUME NEW k \in 1 .. m PROVE s[k] \in ToSet(u)
      <3>1. k \in DOMAIN u /\ u[k] = s[k]
        BY <1>1, <1>2
      <3>2. QED
        BY <3>1 DEF ToSet
    <2>3. ASSUME NEW k \in 1 .. n PROVE t[k] \in ToSet(u)
      <3>1. m + k \in DOMAIN u /\ u[m + k] = t[k]
        BY <1>1, <1>2
      <3>2. QED
        BY <3>1 DEF ToSet
    <2>4. QED
      BY <1>1, <1>2, <2>1, <2>2, <2>3 DEF ToSet
  <1>5. QED
    BY <1>2, <1>3, <1>4 DEF u, m, n

(* part says from which of the first n of seqs each element of flat is.    *)
Positions(part, seqs, flat, n) ==
  /\ part \in [1 .. Len(flat) -> 1 .. n]
  /\ \A k \in 1 .. Len(flat) : \E j \in DOMAIN seqs[part[k]] : flat[k] = seqs[part[k]][j]
  /\ \A k, m \in 1 .. Len(flat) : k < m => part[k] <= part[m]
  /\ \A i \in 1 .. n : \A j \in DOMAIN seqs[i] :
       \E k \in 1 .. Len(flat) : part[k] = i /\ flat[k] = seqs[i][j]

(* One more sequence is appended.                                          *)
LEMMA NextPositions ==
  ASSUME NEW T, NEW seqs \in Seq(Seq(T)), NEW flat \in Seq(T), NEW n \in Nat,
         n + 1 <= Len(seqs), NEW part, Positions(part, seqs, flat, n)
  PROVE  \E q : Positions(q, seqs, flat \o seqs[n + 1], n + 1)
  <1> DEFINE t == seqs[n + 1]
             u == flat \o t
             a == Len(flat)
             b == Len(t)
             q == [k \in 1 .. Len(u) |-> IF k \in 1 .. a THEN part[k] ELSE n + 1]
  <1>1. t \in Seq(T)
    OBVIOUS
  <1>2. /\ a \in Nat /\ b \in Nat /\ DOMAIN t = 1 .. b
        /\ u \in Seq(T) /\ Len(u) = a + b
        /\ \A k \in 1 .. a : u[k] = flat[k]
        /\ \A k \in 1 .. b : u[a + k] = t[k]
        /\ \A k \in 1 .. a + b : k \in 1 .. a \/ (k - a \in 1 .. b /\ k = a + (k - a))
    BY <1>1, ConcatFacts
  <1>3. /\ part \in [1 .. a -> 1 .. n]
        /\ \A k \in 1 .. a : \E j \in DOMAIN seqs[part[k]] : flat[k] = seqs[part[k]][j]
        /\ \A k, m \in 1 .. a : k < m => part[k] <= part[m]
        /\ \A i \in 1 .. n : \A j \in DOMAIN seqs[i] :
             \E k \in 1 .. a : part[k] = i /\ flat[k] = seqs[i][j]
    BY DEF Positions
  <1>4. /\ \A k \in 1 .. a : k \in 1 .. a + b /\ q[k] = part[k] /\ part[k] \in 1 .. n
        /\ \A k \in 1 .. b : a + k \in 1 .. a + b /\ q[a + k] = n + 1
        /\ q \in [1 .. Len(u) -> 1 .. n + 1]
    <2> HIDE DEF u, t, a, b
    <2>1. \A k \in 1 .. a : k \in 1 .. a + b /\ q[k] = part[k] /\ part[k] \in 1 .. n
      BY <1>2, <1>3
    <2>2. \A k \in 1 .. b : a + k \in 1 .. a + b /\ q[a + k] = n + 1
      BY <1>2
    <2>3. ASSUME NEW k \in 1 .. a + b PROVE q[k] \in 1 .. n + 1
      <3>1. 1 .. n \subseteq 1 .. n + 1 /\ n + 1 \in 1 .. n + 1
        OBVIOUS
      <3>2. QED
        BY <1>2, <2>1, <2>2, <3>1
    <2>4. QED
      BY <1>2, <2>1, <2>2, <2>3
  <1>5. t = seqs[n + 1]
    OBVIOUS
  <1> HIDE DEF q, u, t, a, b
  <1>6. ASSUME NEW k \in 1 .. a + b
        PROVE  \E j \in DOMAIN seqs[q[k]] : u[k] = seqs[q[k]][j]
    <2>1. CASE k \in 1 .. a
      <3>1. q[k] = part[k] /\ u[k] = flat[k]
        BY <1>2, <1>4, <2>1
      <3>2. QED
        BY <1>3, <2>1, <3>1
    <2>2. CASE k - a \in 1 .. b /\ k = a + (k - a)
      <3>1. q[k] = n + 1 /\ u[k] = t[k - a] /\ k - a \in DOMAIN t
        BY <1>2, <1>4, <2>2
      <3>2. QED
        BY <1>5, <3>1
    <2>3. QED
      BY <1>2, <2>1, <2>2
  <1>7. ASSUME NEW k \in 1 .. a + b, NEW m \in 1 .. a + b, k < m PROVE q[k] <= q[m]
    <2>1. CASE m \in 1 .. a
      <3>1. k \in 1 .. a
        BY <1>2, <1>7, <2>1
      <3>2. QED
        BY <1>3, <1>4, <1>7, <2>1, <3>1
    <2>2. CASE m - a \in 1 .. b /\ m = a + (m - a)
      <3>1. q[m] = n + 1 /\ q[k] \in 1 .. n + 1
        BY <1>2, <1>4, <2>2
      <3>2. QED
        BY <3>1
    <2>3. QED
      BY <1>2, <2>1, <2>2
  <1>8. ASSUME NEW i \in 1 .. n + 1, NEW j \in DOMAIN seqs[i]
        PROVE  \E k \in 1 .. a + b : q[k] = i /\ u[k] = seqs[i][j]
    <2>1. CASE i \in 1 .. n
      <3>1. PICK k \in 1 .. a : part[k] = i /\ flat[k] = seqs[i][j]
        BY <1>3, <2>1
      <3>2. k \in 1 .. a + b /\ q[k] = i /\ u[k] = seqs[i][j]
        BY <1>2, <1>4, <3>1
      <3>3. QED
        BY <3>2
    <2>2. CASE i = n + 1
      <3>1. j \in 1 .. b
        BY <1>2, <1>5, <1>8, <2>2
      <3>2. a + j \in 1 .. a + b /\ q[a + j] = i /\ u[a + j] = seqs[i][j]
        BY <1>2, <1>4, <1>5, <2>2, <3>1
      <3>3. QED
        BY <3>2
    <2>3. QED
      BY <2>1, <2>2
  <1>9. Positions(q, seqs, u, n + 1)
    BY <1>2, <1>4, <1>6, <1>7, <1>8 DEF Positions
  <1>10. QED
    BY <1>9 DEF u, t

(* FlattenSeq keeps what is in its sequences, in their order.              *)
LEMMA FlattenPositions ==
  ASSUME NEW T, NEW seqs \in Seq(Seq(T))
  PROVE  /\ FlattenSeq(seqs) \in Seq(T)
         /\ \E part : Positions(part, seqs, FlattenSeq(seqs), Len(seqs))
  <1>1. PICK f : Joins(f, seqs, T) /\ FlattenSeq(seqs) = f[Len(seqs)]
    BY FlattenFacts
  <1> DEFINE S == {n \in Nat : n <= Len(seqs) => \E part : Positions(part, seqs, f[n], n)}
  <1>2. /\ Len(seqs) \in Nat /\ f[0] = <<>>
        /\ \A i \in 1 .. Len(seqs) : f[i] = f[i - 1] \o seqs[i]
        /\ \A i \in 0 .. Len(seqs) : f[i] \in Seq(T)
    <2>1. Len(seqs) \in Nat
      OBVIOUS
    <2> HIDE DEF S
    <2>2. QED
      BY <1>1, <2>1 DEF Joins
  <1>3. 0 \in S
    <2> DEFINE part == [k \in 1 .. 0 |-> 0]
    <2>1. part \in [1 .. 0 -> 1 .. 0] /\ Len(f[0]) = 0
      BY <1>2
    <2> HIDE DEF part
    <2>2. Positions(part, seqs, f[0], 0)
      BY <2>1 DEF Positions
    <2>3. QED
      BY <2>2
  <1>4. ASSUME NEW n \in S PROVE n + 1 \in S
    <2> SUFFICES ASSUME n + 1 <= Len(seqs) PROVE \E part : Positions(part, seqs, f[n + 1], n + 1)
      OBVIOUS
    <2>1. n \in Nat /\ n \in 0 .. Len(seqs) /\ n + 1 \in 1 .. Len(seqs) /\ (n + 1) - 1 = n
      BY <1>2
    <2>2. PICK part : Positions(part, seqs, f[n], n)
      BY <2>1, <1>2
    <2>3. f[n + 1] = f[n] \o seqs[n + 1] /\ f[n] \in Seq(T)
      BY <1>2, <2>1
    <2>4. QED
      BY <2>1, <2>2, <2>3, NextPositions
  <1>5. \A n \in Nat : n \in S
    <2>1. \A n \in Nat : n \in S => n + 1 \in S
      BY <1>4
    <2> HIDE DEF S
    <2>2. QED
      BY <1>3, <2>1, InductiveSet
  <1>6. QED
    BY <1>1, <1>2, <1>5

(* Lists of parts that follow each other make the list of the whole.       *)
LEMMA FlattenLists ==
  ASSUME NEW seqs \in Seq(Seq(Nat)), NEW part \in [1 .. Len(seqs) -> SUBSET Nat],
         \A i \in 1 .. Len(seqs) : Lists(seqs[i], part[i]),
         \A i, j \in 1 .. Len(seqs) : i < j => \A a \in part[i], b \in part[j] : a < b
  PROVE  Lists(FlattenSeq(seqs), UNION {part[i] : i \in 1 .. Len(seqs)})
  <1> DEFINE N == Len(seqs)
             Upto(m) == {x \in Nat : \E i \in 1 .. m : x \in part[i]}
  <1>1. PICK f : Joins(f, seqs, Nat) /\ FlattenSeq(seqs) = f[N]
    BY FlattenFacts
  <1> DEFINE S == {m \in Nat : m <= N => Lists(f[m], Upto(m))}
  <1>2. Lists(f[0], Upto(0))
    <2>1. f[0] = <<>> /\ f[0] \in Seq({}) /\ Upto(0) = {} /\ DOMAIN f[0] = {}
      BY <1>1 DEF Joins
    <2> HIDE DEF Upto
    <2>2. QED
      BY <2>1 DEF Lists
  <1>3. ASSUME NEW m \in Nat, m + 1 <= N, Lists(f[m], Upto(m))
        PROVE  Lists(f[m + 1], Upto(m + 1))
    <2>1. m + 1 \in 1 .. N /\ (m + 1) - 1 = m
      BY <1>3
    <2>2. f[m + 1] = f[m] \o seqs[m + 1]
      BY <1>1, <2>1 DEF Joins
    <2>3. Upto(m + 1) = Upto(m) \cup part[m + 1]
      <3>1. part[m + 1] \in SUBSET Nat
        BY <2>1
      <3>2. ASSUME NEW x \in Nat
            PROVE  (\E i \in 1 .. m + 1 : x \in part[i])
                     <=> (\E i \in 1 .. m : x \in part[i]) \/ x \in part[m + 1]
        <4>1. \A i : i \in 1 .. m + 1 <=> i \in 1 .. m \/ i = m + 1
          BY <1>3
        <4>2. QED
          BY <4>1, Zenon
      <3>3. QED
        BY <3>1, <3>2
    <2>4. ASSUME NEW a \in Upto(m), NEW b \in part[m + 1] PROVE a < b
      <3>1. PICK i \in 1 .. m : a \in part[i]
        BY <2>4
      <3>2. i \in 1 .. Len(seqs) /\ i < m + 1
        BY <1>3
      <3>3. QED
        BY <2>1, <3>1, <3>2
    <2>5. Lists(seqs[m + 1], part[m + 1]) /\ part[m + 1] \in SUBSET Nat /\ Upto(m) \in SUBSET Nat
      BY <2>1
    <2> HIDE DEF Upto
    <2>6. Lists(f[m] \o seqs[m + 1], Upto(m) \cup part[m + 1])
      BY <1>3, <2>4, <2>5, ConcatLists
    <2>7. QED
      BY <2>2, <2>3, <2>6
  <1>4. \A m \in Nat : m \in S
    <2> HIDE DEF Upto
    <2>1. 0 \in S /\ \A m \in Nat : m \in S => m + 1 \in S
      BY <1>2, <1>3
    <2> HIDE DEF S
    <2>2. QED
      BY <2>1, InductiveSet
  <1>5. Lists(f[N], Upto(N))
    <2> HIDE DEF Upto
    <2>1. N \in Nat
      OBVIOUS
    <2>2. QED
      BY <1>4, <2>1
  <1>6. Upto(N) = UNION {part[i] : i \in 1 .. N}
    OBVIOUS
  <1>7. QED
    BY <1>1, <1>5, <1>6

(* A set of numbers has a least element ...                                *)
LEMMA LeastElement ==
  ASSUME NEW S \in SUBSET Nat, S # {}
  PROVE  \E x \in S : \A y \in S : x <= y
  <1>1. PICK x \in S : \A y \in S : ~ (<<y, x>> \in OpToRel(<, Nat))
    BY WFMin, NatLessThanWellFounded
  <1>2. \A y \in S : ~ (y < x)
    BY <1>1, Zenon DEF OpToRel
  <1>3. QED
    BY <1>2

(* ... and, if it is bounded, a greatest.                                  *)
LEMMA GreatestElement ==
  ASSUME NEW S \in SUBSET Nat, S # {}, NEW b \in Nat, \A x \in S : x <= b
  PROVE  \E x \in S : \A y \in S : y <= x
  <1> DEFINE R == {z \in Nat : b - z \in S}
  <1>1. R \in SUBSET Nat /\ R # {}
    <2>1. PICK x \in S : TRUE
      OBVIOUS
    <2>2. b - x \in Nat /\ b - (b - x) = x
      BY <2>1
    <2>3. QED
      BY <2>1, <2>2
  <1>2. PICK z \in R : \A y \in R : z <= y
    <2> HIDE DEF R
    <2>1. QED
      BY <1>1, LeastElement
  <1>3. b - z \in S /\ z \in Nat
    BY <1>2
  <1>4. ASSUME NEW y \in S PROVE y <= b - z
    <2>1. b - y \in Nat /\ b - (b - y) = y
      BY <1>4
    <2>2. z <= b - y
      BY <1>2, <2>1
    <2>3. QED
      BY <1>3, <2>1, <2>2
  <1>5. QED
    BY <1>3, <1>4

(* A list is over 1 .. Len, and only of elements of its set.               *)
LEMMA ListFacts ==
  ASSUME NEW A, NEW s, Lists(s, A)
  PROVE  /\ s \in Seq(A) /\ Len(s) \in Nat /\ DOMAIN s = 1 .. Len(s)
         /\ \A i \in DOMAIN s : s[i] \in A
         /\ s \in [1 .. Len(s) -> A]
  BY DEF Lists

(* A set has one list only.                                                *)
LEMMA ListsAreUnique ==
  ASSUME NEW A \in SUBSET Nat, NEW s, NEW t, Lists(s, A), Lists(t, A)
  PROVE  s = t
  <1>1. s \in Seq(A) /\ t \in Seq(A) /\ Len(s) \in Nat /\ Len(t) \in Nat
        /\ DOMAIN s = 1 .. Len(s) /\ DOMAIN t = 1 .. Len(t)
        /\ (\A i \in DOMAIN s : s[i] \in A) /\ (\A i \in DOMAIN t : t[i] \in A)
    BY ListFacts
  <1>2. /\ \A i \in DOMAIN s : \E j \in DOMAIN t : t[j] = s[i]
        /\ \A i \in DOMAIN t : \E j \in DOMAIN s : s[j] = t[i]
    BY <1>1 DEF Lists
  <1>3. (\A i \in DOMAIN s : s[i] \in Nat) /\ (\A i \in DOMAIN t : t[i] \in Nat)
    BY <1>1
  <1> DEFINE Agree(i) == i \in DOMAIN s /\ i \in DOMAIN t /\ s[i] = t[i]
             R == {i \in Nat \ {0} : (i \in DOMAIN s \/ i \in DOMAIN t) /\ ~ Agree(i)}
  <1>4. R = {}
    <2> SUFFICES ASSUME R # {} PROVE FALSE
      OBVIOUS
    <2>1. PICK m \in R : \A y \in R : m <= y
      <3>1. R \in SUBSET Nat
        OBVIOUS
      <3> HIDE DEF R
      <3>2. QED
        BY <3>1, LeastElement
    <2>2. m \in Nat \ {0} /\ (m \in DOMAIN s \/ m \in DOMAIN t) /\ ~ Agree(m)
      BY <2>1
    <2>3. ASSUME NEW i \in 1 .. m - 1 PROVE Agree(i)
      <3>1. i \in Nat \ {0} /\ ~ (m <= i) /\ (i \in DOMAIN s \/ i \in DOMAIN t)
        BY <1>1, <2>2
      <3>2. QED
        BY <2>1, <3>1
    <2> HIDE DEF R
    <2>4. CASE m \in DOMAIN s /\ (m \notin DOMAIN t \/ s[m] < t[m])
      <3>1. PICK j \in DOMAIN t : t[j] = s[m]
        BY <1>2, <2>4
      <3>2. j \in 1 .. m - 1
        <4>1. CASE m \notin DOMAIN t
          BY <4>1, <1>1, <2>2, <3>1
        <4>2. CASE m \in DOMAIN t /\ s[m] < t[m]
          <5>1. ~ (m < j) /\ j # m
            BY <4>2, <3>1, <1>3, <2>4 DEF Lists
          <5>2. QED
            BY <5>1, <1>1, <2>2, <3>1
        <4>3. QED
          BY <2>4, <4>1, <4>2
      <3>3. s[j] = t[j] /\ j \in DOMAIN s /\ j < m
        BY <2>2, <2>3, <3>2
      <3>4. s[j] < s[m]
        BY <2>4, <3>3 DEF Lists
      <3>5. QED
        BY <1>3, <2>4, <3>1, <3>3, <3>4
    <2>5. CASE m \in DOMAIN t /\ (m \notin DOMAIN s \/ t[m] < s[m])
      <3>1. PICK j \in DOMAIN s : s[j] = t[m]
        BY <1>2, <2>5
      <3>2. j \in 1 .. m - 1
        <4>1. CASE m \notin DOMAIN s
          BY <4>1, <1>1, <2>2, <3>1
        <4>2. CASE m \in DOMAIN s /\ t[m] < s[m]
          <5>1. ~ (m < j) /\ j # m
            BY <4>2, <3>1, <1>3, <2>5 DEF Lists
          <5>2. QED
            BY <5>1, <1>1, <2>2, <3>1
        <4>3. QED
          BY <2>5, <4>1, <4>2
      <3>3. s[j] = t[j] /\ j \in DOMAIN t /\ j < m
        BY <2>2, <2>3, <3>2
      <3>4. t[j] < t[m]
        BY <2>5, <3>3 DEF Lists
      <3>5. QED
        BY <1>3, <2>5, <3>1, <3>3, <3>4
    <2>6. QED
      BY <1>3, <2>2, <2>4, <2>5
  <1>5. \A i \in Nat \ {0} : i \in DOMAIN s \/ i \in DOMAIN t => Agree(i)
    BY <1>4
  <1>6. Len(s) = Len(t)
    <2>1. ASSUME Len(s) < Len(t) PROVE FALSE
      <3>1. Len(t) \in Nat \ {0} /\ Len(t) \in DOMAIN t /\ Len(t) \notin DOMAIN s
        BY <1>1, <2>1
      <3>2. QED
        BY <1>5, <3>1
    <2>2. ASSUME Len(t) < Len(s) PROVE FALSE
      <3>1. Len(s) \in Nat \ {0} /\ Len(s) \in DOMAIN s /\ Len(s) \notin DOMAIN t
        BY <1>1, <2>2
      <3>2. QED
        BY <1>5, <3>1
    <2>3. Len(s) \in Nat /\ Len(t) \in Nat
      BY <1>1
    <2>4. QED
      BY <2>1, <2>2, <2>3
  <1>7. \A i \in 1 .. Len(s) : s[i] = t[i]
    BY <1>1, <1>5
  <1>8. QED
    BY <1>1, <1>6, <1>7

(* It is as long as the set is large.                                      *)
LEMMA ListLength ==
  ASSUME NEW A \in SUBSET Nat, NEW s, Lists(s, A)
  PROVE  IsFiniteSet(A) /\ Cardinality(A) = Len(s)
  <1>1. s \in Seq(A) /\ Len(s) \in Nat /\ DOMAIN s = 1 .. Len(s) /\ s \in [1 .. Len(s) -> A]
        /\ \A i \in DOMAIN s : s[i] \in A
    BY ListFacts
  <1>2. \A i \in DOMAIN s : s[i] \in Nat
    BY <1>1
  <1>3. ASSUME NEW i \in DOMAIN s, NEW j \in DOMAIN s, s[i] = s[j] PROVE i = j
    <2>1. ~ (i < j) /\ ~ (j < i)
      BY <1>2, <1>3 DEF Lists
    <2>2. QED
      BY <1>1, <2>1
  <1>4. s \in Surjection(1 .. Len(s), A) /\ s \in Injection(1 .. Len(s), A)
    BY <1>1, <1>3 DEF Lists, Surjection, Injection, IsInjective
  <1>5. IsFiniteSet(1 .. Len(s)) /\ Cardinality(1 .. Len(s)) = Len(s)
    <2> DEFINE n == Len(s)
    <2>1. n \in Int /\ 1 \in Int /\ (IF 1 > n THEN 0 ELSE n - 1 + 1) = n
      BY <1>1
    <2> HIDE DEF n
    <2>2. IsFiniteSet(1 .. n) /\ Cardinality(1 .. n) = IF 1 > n THEN 0 ELSE n - 1 + 1
      BY <2>1, FS_Interval
    <2>3. QED
      BY <2>1, <2>2 DEF n
  <1>6. QED
    BY <1>4, <1>5, FS_Surjection

-----------------------------------------------------------------------------

(* e and everything inside it.                                             *)
Span(doc, e) ==
  {x \in Elements(doc) :
     x >= e /\ \A d \in Elements(doc) : e < d /\ d <= x => doc.parent[d] >= e}

(* The operators strictly inside e that are in no other one of them.       *)
Nearest(doc, e) ==
  {r \in RelOps(doc) :
     /\ r \in Span(doc, e) \ {e}
     /\ \A q \in RelOps(doc) : q \in Span(doc, e) \ {e} /\ r \in Span(doc, q) => q = r}

(* What the proofs use of a showplan.                                      *)
LEMMA TreeFacts ==
  ASSUME NEW doc, IsShowplan(doc)
  PROVE  /\ Len(doc.tag) \in Nat \ {0} /\ Elements(doc) = 1 .. Len(doc.tag)
         /\ Elements(doc) \subseteq Nat /\ RelOps(doc) \subseteq Elements(doc)
         /\ 1 \in RelOps(doc)
         /\ \A e \in Elements(doc) : doc.parent[e] \in Nat /\ doc.parent[e] < e
         /\ \A e \in Elements(doc) : e # 1 => doc.parent[e] \in Elements(doc)
         /\ \A c, d \in Elements(doc) :
              doc.parent[d] < c /\ c < d => doc.parent[d] <= doc.parent[c]
  <1>1. Len(doc.tag) \in Nat \ {0} /\ Elements(doc) = 1 .. Len(doc.tag)
    BY DEF IsShowplan, Elements
  <1>2. 1 \in RelOps(doc)
    BY <1>1 DEF IsShowplan, RelOps
  <1>3. ASSUME NEW e \in Elements(doc)
        PROVE  /\ doc.parent[e] \in Nat /\ doc.parent[e] < e
               /\ e # 1 => doc.parent[e] \in Elements(doc)
    <2>1. CASE e = 1
      BY <2>1 DEF IsShowplan
    <2>2. CASE e # 1
      <3>1. doc.parent[e] \in 1 .. e - 1
        BY <2>2 DEF IsShowplan
      <3>2. QED
        BY <1>1, <3>1
    <2>3. QED
      BY <2>1, <2>2
  <1>4. QED
    BY <1>1, <1>2, <1>3 DEF IsShowplan, RelOps

(* A span is an interval that begins with its element.                     *)
LEMMA SpanIsInterval ==
  ASSUME NEW doc, IsShowplan(doc), NEW e \in Elements(doc)
  PROVE  /\ e \in Span(doc, e) /\ Span(doc, e) \subseteq Elements(doc)
         /\ \A x \in Span(doc, e) : x >= e
         /\ \A x \in Span(doc, e), y \in Nat : e <= y /\ y <= x => y \in Span(doc, e)
  <1>1. Elements(doc) = 1 .. Len(doc.tag) /\ Len(doc.tag) \in Nat
    BY TreeFacts
  <1>2. QED
    BY <1>1 DEF Span

(* What is inside an element of a span is inside the span.                 *)
LEMMA SpansNest ==
  ASSUME NEW doc, IsShowplan(doc), NEW e \in Elements(doc), NEW q \in Span(doc, e)
  PROVE  Span(doc, q) \subseteq Span(doc, e)
  <1>1. Elements(doc) = 1 .. Len(doc.tag) /\ Len(doc.tag) \in Nat
    BY TreeFacts
  <1>2. \A d \in Elements(doc) : doc.parent[d] \in Nat
    BY TreeFacts
  <1>3. ASSUME NEW x \in Span(doc, q) PROVE x \in Span(doc, e)
    <2>1. x \in Elements(doc) /\ x >= q /\ q >= e /\ q \in Elements(doc)
      BY DEF Span
    <2>2. ASSUME NEW d \in Elements(doc), e < d, d <= x PROVE doc.parent[d] >= e
      <3>1. CASE d <= q
        BY <2>2, <3>1 DEF Span
      <3>2. CASE d > q
        <4>1. doc.parent[d] >= q
          BY <2>2, <3>2 DEF Span
        <4>2. QED
          BY <1>1, <1>2, <2>1, <4>1
      <3>3. QED
        BY <1>1, <2>1, <3>1, <3>2
    <2>3. x >= e
      BY <1>1, <2>1
    <2>4. QED
      BY <2>1, <2>2, <2>3 DEF Span
  <1>4. QED
    BY <1>3

(* What is strictly inside e is what its children span; the children's     *)
(* spans follow each other.                                                *)
LEMMA ChildSpans ==
  ASSUME NEW doc, IsShowplan(doc), NEW e \in Elements(doc)
  PROVE  /\ \A c \in Elements(doc) : doc.parent[c] = e => c \in Span(doc, e) \ {e}
         /\ \A x \in Span(doc, e) \ {e} :
              \E c \in Elements(doc) : doc.parent[c] = e /\ x \in Span(doc, c)
         /\ \A c, d \in Elements(doc) :
              doc.parent[c] = e /\ doc.parent[d] = e /\ c < d =>
                \A x \in Span(doc, c) : x < d
         /\ \A c \in Elements(doc), q \in Span(doc, e) \ {e} :
              doc.parent[c] = e /\ c \in Span(doc, q) => q = c
  <1>1. Elements(doc) = 1 .. Len(doc.tag) /\ Len(doc.tag) \in Nat
    BY TreeFacts
  <1>2. \A d \in Elements(doc) : doc.parent[d] \in Nat /\ doc.parent[d] < d
    BY TreeFacts
  <1>3. \A c, d \in Elements(doc) :
          doc.parent[d] < c /\ c < d => doc.parent[d] <= doc.parent[c]
    BY TreeFacts
  <1>4. ASSUME NEW c \in Elements(doc), doc.parent[c] = e PROVE c \in Span(doc, e) \ {e}
    <2>1. c > e
      BY <1>1, <1>2, <1>4
    <2>2. ASSUME NEW d \in Elements(doc), e < d, d <= c PROVE doc.parent[d] >= e
      <3>1. CASE d = c
        BY <1>1, <1>4, <3>1
      <3>2. CASE d # c
        <4>1. doc.parent[c] <= doc.parent[d]
          BY <1>1, <1>3, <1>4, <2>2, <3>2
        <4>2. QED
          BY <1>1, <1>2, <1>4, <4>1
      <3>3. QED
        BY <3>1, <3>2
    <2>3. QED
      BY <1>1, <2>1, <2>2 DEF Span
  <1>5. ASSUME NEW x \in Span(doc, e) \ {e}
        PROVE  \E c \in Elements(doc) : doc.parent[c] = e /\ x \in Span(doc, c)
    <2> DEFINE C == {c \in Elements(doc) : doc.parent[c] = e /\ c <= x}
    <2>1. x \in Elements(doc) /\ x > e
          /\ \A d \in Elements(doc) : e < d /\ d <= x => doc.parent[d] >= e
      BY <1>1 DEF Span
    <2>2. e + 1 \in C
      <3>1. e + 1 \in Elements(doc) /\ e + 1 <= x
        BY <1>1, <2>1
      <3>2. doc.parent[e + 1] >= e /\ doc.parent[e + 1] < e + 1 /\ doc.parent[e + 1] \in Nat
        BY <1>1, <1>2, <2>1, <3>1
      <3>3. doc.parent[e + 1] = e
        BY <1>1, <3>2
      <3>4. QED
        BY <3>1, <3>3
    <2>3. C \in SUBSET Nat /\ C # {} /\ x \in Nat /\ \A c \in C : c <= x
      BY <1>1, <2>1, <2>2
    <2>4. PICK c \in C : \A d \in C : d <= c
      <3> HIDE DEF C
      <3>1. QED
        BY <2>3, GreatestElement
    <2>5. c \in Elements(doc) /\ doc.parent[c] = e /\ c <= x /\ c > e
      BY <1>1, <1>2, <2>4
    <2>6. ASSUME NEW d \in Elements(doc), c < d, d <= x PROVE doc.parent[d] >= c
      <3>1. d \notin C
        BY <1>1, <2>4, <2>6
      <3>2. doc.parent[d] >= e /\ doc.parent[d] # e
        BY <1>1, <2>1, <2>5, <2>6, <3>1
      <3>3. ~ (doc.parent[d] < c)
        <4>1. SUFFICES ASSUME doc.parent[d] < c PROVE FALSE
          OBVIOUS
        <4>2. doc.parent[d] <= e
          BY <1>3, <2>5, <2>6, <4>1
        <4>3. QED
          BY <1>1, <1>2, <3>2, <4>2
      <3>4. QED
        BY <1>1, <1>2, <2>5, <3>3
    <2>7. x \in Span(doc, c)
      BY <1>1, <2>1, <2>5, <2>6 DEF Span
    <2>8. QED
      BY <2>5, <2>7
  <1>6. ASSUME NEW c \in Elements(doc), NEW d \in Elements(doc),
               doc.parent[c] = e, doc.parent[d] = e, c < d, NEW x \in Span(doc, c)
        PROVE  x < d
    <2>1. SUFFICES ASSUME d <= x PROVE FALSE
      BY <1>1 DEF Span
    <2>2. doc.parent[d] >= c
      BY <1>6, <2>1 DEF Span
    <2>3. c > e
      BY <1>1, <1>2, <1>6
    <2>4. QED
      BY <1>1, <1>6, <2>2, <2>3
  <1>7. ASSUME NEW c \in Elements(doc), NEW q \in Span(doc, e) \ {e},
               doc.parent[c] = e, c \in Span(doc, q)
        PROVE  q = c
    <2>1. q \in Elements(doc) /\ q > e /\ c >= q
      BY <1>1, <1>7 DEF Span
    <2>2. SUFFICES ASSUME q < c PROVE FALSE
      BY <1>1, <2>1
    <2>3. doc.parent[c] >= q
      BY <1>1, <1>7, <2>2 DEF Span
    <2>4. QED
      BY <1>1, <1>7, <2>1, <2>3
  <1>8. QED
    BY <1>4, <1>5, <1>6, <1>7

(* The nearest operators below e, child by child.                          *)
LEMMA NearestByChild ==
  ASSUME NEW doc, IsShowplan(doc), NEW e \in Elements(doc), NEW r
  PROVE  r \in Nearest(doc, e) <=>
           \E c \in Elements(doc) :
             /\ doc.parent[c] = e
             /\ r \in IF doc.tag[c] = "RelOp" THEN {c} ELSE Nearest(doc, c)
  <1>1. Elements(doc) \subseteq Nat
    BY TreeFacts
  <1>2. ASSUME r \in Nearest(doc, e)
        PROVE  \E c \in Elements(doc) :
                 /\ doc.parent[c] = e
                 /\ r \in IF doc.tag[c] = "RelOp" THEN {c} ELSE Nearest(doc, c)
    <2>1. r \in RelOps(doc) /\ r \in Span(doc, e) \ {e}
      BY <1>2 DEF Nearest
    <2>2. PICK c \in Elements(doc) : doc.parent[c] = e /\ r \in Span(doc, c)
      BY <2>1, ChildSpans
    <2>3. c \in Span(doc, e) \ {e}
      BY <2>2, ChildSpans
    <2>4. CASE doc.tag[c] = "RelOp"
      <3>1. c \in RelOps(doc)
        BY <2>4 DEF RelOps
      <3>2. c = r
        BY <1>2, <2>2, <2>3, <3>1 DEF Nearest
      <3>3. QED
        BY <2>2, <2>4, <3>2
    <2>5. CASE doc.tag[c] # "RelOp"
      <3>1. r # c
        BY <2>1, <2>5 DEF RelOps
      <3>2. \A q \in Span(doc, c) \ {c} : q \in Span(doc, e) \ {e}
        <4>1. Span(doc, c) \subseteq Span(doc, e)
          BY <2>3, SpansNest
        <4>2. \A q \in Span(doc, c) : q >= c
          BY SpanIsInterval
        <4>3. e < c
          BY <1>1, <2>2, TreeFacts
        <4>4. c \in Nat /\ e \in Nat /\ Span(doc, c) \subseteq Nat
          BY <1>1, SpanIsInterval
        <4>5. QED
          BY <4>1, <4>2, <4>3, <4>4
      <3>3. r \in Nearest(doc, c)
        BY <1>2, <2>1, <2>2, <3>1, <3>2 DEF Nearest
      <3>4. QED
        BY <2>2, <2>5, <3>3
    <2>6. QED
      BY <2>4, <2>5
  <1>3. ASSUME NEW c \in Elements(doc), doc.parent[c] = e,
               r \in IF doc.tag[c] = "RelOp" THEN {c} ELSE Nearest(doc, c)
        PROVE  r \in Nearest(doc, e)
    <2>1. c \in Span(doc, e) \ {e}
      BY <1>3, ChildSpans
    <2>2. CASE doc.tag[c] = "RelOp"
      <3>1. r = c /\ c \in RelOps(doc)
        BY <1>3, <2>2 DEF RelOps
      <3>2. \A q \in Span(doc, e) \ {e} : c \in Span(doc, q) => q = c
        BY <1>3, ChildSpans
      <3>3. QED
        BY <2>1, <3>1, <3>2 DEF Nearest
    <2>3. CASE doc.tag[c] # "RelOp"
      <3>1. r \in RelOps(doc) /\ r \in Span(doc, c) \ {c}
            /\ \A q \in RelOps(doc) :
                 q \in Span(doc, c) \ {c} /\ r \in Span(doc, q) => q = r
        BY <1>3, <2>3 DEF Nearest
      <3>2. e < c /\ c \in Nat /\ e \in Nat
        BY <1>1, <1>3, TreeFacts
      <3>3. r >= c /\ r \in Nat
        BY <1>1, <3>1, SpanIsInterval
      <3>4. r \in Span(doc, e) \ {e}
        BY <2>1, <3>1, <3>2, <3>3, SpansNest
      <3>5. ASSUME NEW q \in RelOps(doc), q \in Span(doc, e) \ {e}, r \in Span(doc, q)
            PROVE  q = r
        <4>1. q \in Elements(doc) /\ q \in Nat /\ q <= r
          BY <1>1, <3>5, SpanIsInterval
        <4>2. q # c
          BY <2>3, <3>5 DEF RelOps
        <4>3. CASE q > c
          <5>1. q \in Span(doc, c)
            BY <3>1, <3>2, <4>1, <4>3, SpanIsInterval
          <5>2. QED
            BY <3>1, <3>5, <4>2, <5>1
        <4>4. CASE q < c
          <5>1. c \in Span(doc, q)
            BY <3>2, <3>3, <3>5, <4>1, <4>4, SpanIsInterval
          <5>2. q = c
            BY <1>3, <3>5, <5>1, ChildSpans
          <5>3. QED
            BY <4>2, <5>2
        <4>5. QED
          BY <3>2, <4>1, <4>2, <4>3, <4>4
      <3>6. QED
        BY <3>1, <3>4, <3>5 DEF Nearest
    <2>4. QED
      BY <2>2, <2>3
  <1>4. QED
    BY <1>2, <1>3

(* The operators below e are those the nearest ones span, which follow     *)
(* each other.                                                             *)
LEMMA NearestSpans ==
  ASSUME NEW doc, IsShowplan(doc), NEW e \in Elements(doc)
  PROVE  /\ \A x : x \in RelOps(doc) /\ x \in Span(doc, e) \ {e} <=>
                     \E r \in Nearest(doc, e) : x \in RelOps(doc) /\ x \in Span(doc, r)
         /\ \A q, r \in Nearest(doc, e) : q < r =>
              \A x \in Span(doc, q), y \in Span(doc, r) : x < y
  <1>1. Elements(doc) \subseteq Nat /\ RelOps(doc) \subseteq Elements(doc)
    BY TreeFacts
  <1>2. ASSUME NEW x \in RelOps(doc), x \in Span(doc, e) \ {e}
        PROVE  \E r \in Nearest(doc, e) : x \in Span(doc, r)
    <2> DEFINE Q == {q \in RelOps(doc) : q \in Span(doc, e) \ {e} /\ x \in Span(doc, q)}
    <2>1. x \in Q /\ Q \in SUBSET Nat
      BY <1>1, <1>2, SpanIsInterval
    <2>2. PICK r \in Q : \A q \in Q : r <= q
      <3> HIDE DEF Q
      <3>1. QED
        BY <2>1, LeastElement
    <2>3. r \in RelOps(doc) /\ r \in Span(doc, e) \ {e} /\ x \in Span(doc, r)
      BY <2>2
    <2>4. ASSUME NEW q \in RelOps(doc), q \in Span(doc, e) \ {e}, r \in Span(doc, q)
          PROVE  q = r
      <3>1. x \in Span(doc, q)
        BY <1>1, <2>3, <2>4, SpansNest
      <3>2. r <= q
        BY <2>2, <2>4, <3>1
      <3>3. q <= r
        BY <1>1, <2>4, SpanIsInterval
      <3>4. q \in Nat /\ r \in Nat
        BY <1>1, <2>3
      <3>5. QED
        BY <3>2, <3>3, <3>4
    <2>5. r \in Nearest(doc, e)
      BY <2>3, <2>4 DEF Nearest
    <2>6. QED
      BY <2>3, <2>5
  <1>3. ASSUME NEW r \in Nearest(doc, e), NEW x \in Span(doc, r)
        PROVE  x \in Span(doc, e) \ {e}
    <2>1. r \in Span(doc, e) \ {e} /\ r \in RelOps(doc) /\ r \in Elements(doc)
      BY <1>1 DEF Nearest
    <2>2. x \in Span(doc, e)
      BY <2>1, SpansNest
    <2>3. x >= r /\ r >= e /\ x \in Nat /\ r \in Nat /\ e \in Nat /\ r # e
      BY <1>1, <2>1, SpanIsInterval
    <2>4. QED
      BY <2>2, <2>3
  <1>4. ASSUME NEW q \in Nearest(doc, e), NEW r \in Nearest(doc, e), q < r,
               NEW x \in Span(doc, q), NEW y \in Span(doc, r)
        PROVE  x < y
    <2>1. /\ q \in RelOps(doc) /\ q \in Span(doc, e) \ {e}
          /\ r \in RelOps(doc) /\ r \in Elements(doc) /\ q \in Elements(doc)
      BY <1>1 DEF Nearest
    <2>2. q \in Nat /\ r \in Nat /\ x \in Nat /\ y \in Nat /\ y >= r
      BY <1>1, <2>1, SpanIsInterval
    <2>3. r \notin Span(doc, q)
      <3>1. SUFFICES ASSUME r \in Span(doc, q) PROVE FALSE
        OBVIOUS
      <3>2. q = r
        BY <2>1, <3>1 DEF Nearest
      <3>3. QED
        BY <1>4, <2>2, <3>2
    <2>4. ~ (r <= x)
      <3>1. \A z \in Nat : q <= z /\ z <= x => z \in Span(doc, q)
        BY <2>1, SpanIsInterval
      <3>2. QED
        BY <1>4, <2>2, <2>3, <3>1
    <2>5. QED
      BY <2>2, <2>4
  <1>5. QED
    BY <1>2, <1>3, <1>4

-----------------------------------------------------------------------------

(* InOrder puts elements in document order.                                *)
LEMMA InOrderLists ==
  ASSUME NEW doc, IsShowplan(doc), NEW S \in SUBSET Elements(doc)
  PROVE  Lists(InOrder(doc, S), S)
  <1> DEFINE all == [e \in Elements(doc) |-> e]
  <1>1. Elements(doc) = 1 .. Len(doc.tag) /\ Len(doc.tag) \in Nat
    BY TreeFacts
  <1>2. all \in Seq(Nat) /\ DOMAIN all = Elements(doc)
    <2>1. all \in [1 .. Len(doc.tag) -> Nat]
      BY <1>1
    <2>2. QED
      BY <1>1, <2>1, SeqDef
  <1>3. PICK p : /\ Lists(p, S)
                 /\ Len(p) = Len(Kept(all, S))
                 /\ \A k \in DOMAIN p : Kept(all, S)[k] = all[p[k]]
    <2> HIDE DEF all
    <2>1. QED
      BY <1>2, KeptFacts
  <1>4. Kept(all, S) \in Seq(Nat)
    <2> HIDE DEF all
    <2>1. QED
      BY <1>2, KeptFacts
  <1>5. /\ p \in [1 .. Len(p) -> S] /\ DOMAIN p = 1 .. Len(p)
        /\ \A k \in 1 .. Len(p) : p[k] \in S
    BY <1>3, ListFacts
  <1>6. \A k \in 1 .. Len(p) : Kept(all, S)[k] = p[k]
    BY <1>3, <1>5
  <1>7. Kept(all, S) = p
    <2> HIDE DEF all
    <2>1. Kept(all, S) \in [1 .. Len(p) -> Nat]
      BY <1>3, <1>4
    <2>2. QED
      BY <1>5, <1>6, <2>1
  <1>8. QED
    BY <1>3, <1>7 DEF InOrder

(* What the code returns for e if g is what it returns for e's children.   *)
ChildOperators(doc, g, e) ==
  FlattenSeq([i \in DOMAIN Children(doc, e) |->
    LET c == Children(doc, e)[i]
    IN IF doc.tag[c] = "RelOp" THEN <<c>> ELSE g[c]])

(* Children are met in document order.                                     *)
LEMMA ChildrenLists ==
  ASSUME NEW doc, IsShowplan(doc), NEW e \in Elements(doc)
  PROVE  Lists(Children(doc, e), {c \in Elements(doc) : doc.parent[c] = e})
  BY InOrderLists DEF Children

(* One step of _direct_child_rel_ops: if what is found below the elements  *)
(* after e is right, so is what is found below e.                          *)
LEMMA ChildOperatorsAreNearest ==
  ASSUME NEW doc, IsShowplan(doc), NEW e \in Elements(doc), NEW g,
         \A c \in Elements(doc) : c > e => Lists(g[c], Nearest(doc, c))
  PROVE  Lists(ChildOperators(doc, g, e), Nearest(doc, e))
  <1> DEFINE kids == Children(doc, e)
             Mine == {c \in Elements(doc) : doc.parent[c] = e}
             seqs == [i \in DOMAIN kids |->
                        IF doc.tag[kids[i]] = "RelOp" THEN <<kids[i]>> ELSE g[kids[i]]]
             part == [i \in DOMAIN kids |->
                        IF doc.tag[kids[i]] = "RelOp" THEN {kids[i]} ELSE Nearest(doc, kids[i])]
  <1>1. Elements(doc) \subseteq Nat /\ \A c \in Elements(doc) : doc.parent[c] < c
    BY TreeFacts
  <1>2. Lists(kids, Mine)
    BY ChildrenLists
  <1>3. /\ Len(kids) \in Nat /\ DOMAIN kids = 1 .. Len(kids)
        /\ \A i \in DOMAIN kids : kids[i] \in Mine
    BY <1>2, ListFacts
  <1>4. /\ \A c \in Mine : \E i \in DOMAIN kids : kids[i] = c
        /\ \A i, j \in DOMAIN kids : i < j => kids[i] < kids[j]
    BY <1>2 DEF Lists
  <1> HIDE DEF kids
  <1>5. \A c \in Mine : c \in Elements(doc) /\ c \in Nat /\ doc.parent[c] = e /\ c > e
    BY <1>1
  <1>6. \A c \in Elements(doc) : Nearest(doc, c) \subseteq Nat /\ Nearest(doc, c) \subseteq Span(doc, c)
    BY <1>1 DEF Nearest, RelOps
  <1> HIDE DEF Mine
  <1>7. ASSUME NEW i \in DOMAIN kids
        PROVE  /\ Lists(seqs[i], part[i]) /\ part[i] \in SUBSET Nat
               /\ part[i] \subseteq Span(doc, kids[i])
    <2>1. kids[i] \in Nat /\ kids[i] \in Elements(doc) /\ kids[i] > e
      BY <1>3, <1>5
    <2>2. CASE doc.tag[kids[i]] = "RelOp"
      <3>1. seqs[i] = <<kids[i]>> /\ part[i] = {kids[i]}
        BY <2>2
      <3>2. Lists(<<kids[i]>>, {kids[i]})
        BY <2>1 DEF Lists
      <3>3. kids[i] \in Span(doc, kids[i])
        BY <2>1, SpanIsInterval
      <3>4. QED
        BY <2>1, <3>1, <3>2, <3>3
    <2>3. CASE doc.tag[kids[i]] # "RelOp"
      <3>1. seqs[i] = g[kids[i]] /\ part[i] = Nearest(doc, kids[i])
        BY <2>3
      <3>2. QED
        BY <1>6, <2>1, <3>1
    <2>4. QED
      BY <2>2, <2>3
  <1>8. seqs \in Seq(Seq(Nat)) /\ Len(seqs) = Len(kids)
    <2>1. ASSUME NEW i \in DOMAIN kids PROVE seqs[i] \in Seq(Nat)
      <3>1. seqs[i] \in Seq(part[i]) /\ part[i] \in SUBSET Nat
        BY <1>7 DEF Lists
      <3>2. QED
        BY <3>1
    <2>2. seqs \in [1 .. Len(kids) -> Seq(Nat)]
      BY <1>3, <2>1
    <2> HIDE DEF seqs
    <2>3. QED
      BY <1>3, <2>2, SeqDef
  <1>9. part \in [1 .. Len(seqs) -> SUBSET Nat]
    BY <1>3, <1>7, <1>8
  <1>10. ASSUME NEW i \in 1 .. Len(seqs), NEW j \in 1 .. Len(seqs), i < j,
                NEW a \in part[i], NEW b \in part[j]
         PROVE  a < b
    <2>1. i \in DOMAIN kids /\ j \in DOMAIN kids /\ kids[i] < kids[j]
      BY <1>3, <1>4, <1>8, <1>10
    <2>2. /\ kids[i] \in Elements(doc) /\ doc.parent[kids[i]] = e
          /\ kids[j] \in Elements(doc) /\ doc.parent[kids[j]] = e
      BY <1>3, <1>5, <2>1
    <2>3. a < kids[j]
      BY <1>7, <2>1, <2>2, ChildSpans
    <2>4. b >= kids[j]
      BY <1>7, <2>1, <2>2, SpanIsInterval
    <2>5. a \in Nat /\ b \in Nat /\ kids[j] \in Nat
      BY <1>1, <1>7, <2>1, <2>2
    <2>6. QED
      BY <2>3, <2>4, <2>5
  <1>11. Lists(FlattenSeq(seqs), UNION {part[i] : i \in 1 .. Len(seqs)})
    <2> HIDE DEF seqs, part
    <2>1. \A i \in 1 .. Len(seqs) : Lists(seqs[i], part[i])
      BY <1>3, <1>7, <1>8
    <2>2. QED
      BY <1>8, <1>9, <1>10, <2>1, FlattenLists
  <1>12. ASSUME NEW r
         PROVE  r \in Nearest(doc, e) <=> \E i \in DOMAIN kids : r \in part[i]
    <2> DEFINE Found(c) == r \in IF doc.tag[c] = "RelOp" THEN {c} ELSE Nearest(doc, c)
    <2>1. r \in Nearest(doc, e) <=> \E c \in Mine : Found(c)
      BY NearestByChild DEF Mine
    <2>2. \A i \in DOMAIN kids : r \in part[i] <=> Found(kids[i])
      OBVIOUS
    <2> HIDE DEF part, Found
    <2>3. QED
      BY <1>3, <1>4, <2>1, <2>2
  <1>13. UNION {part[i] : i \in 1 .. Len(seqs)} = Nearest(doc, e)
    <2> HIDE DEF part, seqs
    <2>1. QED
      BY <1>3, <1>8, <1>12
  <1>14. ChildOperators(doc, g, e) = FlattenSeq(seqs)
    BY DEF ChildOperators, kids
  <1>15. QED
    BY <1>11, <1>13, <1>14

(* _direct_child_rel_ops returns the nearest operators below an element,   *)
(* in document order.                                                      *)
LEMMA DirectChildrenAreNearest ==
  ASSUME NEW doc, IsShowplan(doc)
  PROVE  \A e \in Elements(doc) : Lists(DirectChildRelOps(doc)[e], Nearest(doc, e))
  <1> DEFINE below[e \in Elements(doc)] ==
               FlattenSeq([i \in DOMAIN Children(doc, e) |->
                 LET c == Children(doc, e)[i]
                 IN IF doc.tag[c] = "RelOp" THEN <<c>> ELSE below[c]])
  <1>1. \A e \in Elements(doc) : Nearest(doc, e) \in SUBSET Elements(doc)
    BY DEF Nearest, RelOps
  <1>2. Elements(doc) \in SUBSET Nat /\ \A e \in Elements(doc) : Nearest(doc, e) \in SUBSET Nat
    BY <1>1, TreeFacts
  <1>3. \E g : g = [e \in Elements(doc) |->
                     FlattenSeq([i \in DOMAIN Children(doc, e) |->
                       LET c == Children(doc, e)[i]
                       IN IF doc.tag[c] = "RelOp" THEN <<c>> ELSE g[c]])]
    <2> DEFINE g == [e \in Elements(doc) |-> InOrder(doc, Nearest(doc, e))]
    <2>1. ASSUME NEW e \in Elements(doc) PROVE Lists(g[e], Nearest(doc, e))
      BY <1>1, InOrderLists
    <2>2. ASSUME NEW e \in Elements(doc)
          PROVE  InOrder(doc, Nearest(doc, e)) = ChildOperators(doc, g, e)
      <3>1. Lists(InOrder(doc, Nearest(doc, e)), Nearest(doc, e))
        BY <1>1, InOrderLists
      <3> HIDE DEF g
      <3>2. Lists(ChildOperators(doc, g, e), Nearest(doc, e))
        BY <2>1, ChildOperatorsAreNearest
      <3>3. QED
        BY <1>2, <3>1, <3>2, ListsAreUnique
    <2>3. g = [e \in Elements(doc) |-> ChildOperators(doc, g, e)]
      BY <2>2, Zenon
    <2> HIDE DEF g
    <2>4. QED
      BY <2>3 DEF ChildOperators
  <1>4. below = [e \in Elements(doc) |->
                   FlattenSeq([i \in DOMAIN Children(doc, e) |->
                     LET c == Children(doc, e)[i]
                     IN IF doc.tag[c] = "RelOp" THEN <<c>> ELSE below[c]])]
    BY <1>3
  <1>5. DirectChildRelOps(doc) = below
    BY DEF DirectChildRelOps
  <1> HIDE DEF below
  <1>6. \A e \in Elements(doc) : below[e] = ChildOperators(doc, below, e)
    BY <1>4 DEF ChildOperators
  <1> DEFINE Bad == {e \in Elements(doc) : ~ Lists(below[e], Nearest(doc, e))}
  <1>7. Bad = {}
    <2> SUFFICES ASSUME Bad # {} PROVE FALSE
      OBVIOUS
    <2>1. Bad \in SUBSET Nat /\ Len(doc.tag) \in Nat /\ \A x \in Bad : x <= Len(doc.tag)
      BY TreeFacts
    <2>2. PICK e \in Bad : \A x \in Bad : x <= e
      <3> HIDE DEF Bad
      <3>1. QED
        BY <2>1, GreatestElement
    <2>3. e \in Elements(doc) /\ ~ Lists(below[e], Nearest(doc, e))
      BY <2>2
    <2>4. \A c \in Elements(doc) : c > e => Lists(below[c], Nearest(doc, c))
      BY <1>2, <2>2, <2>3
    <2>5. Lists(below[e], Nearest(doc, e))
      BY <1>6, <2>3, <2>4, ChildOperatorsAreNearest
    <2>6. QED
      BY <2>3, <2>5
  <1>8. QED
    BY <1>5, <1>7

(* What _walk yields from e if g is what it yields from e's children.      *)
WalkFrom(kids, g, e) ==
  <<e>> \o FlattenSeq([i \in DOMAIN kids[e] |-> g[kids[e][i]]])

(* e and the operators inside it.                                          *)
Under(doc, e) == {e} \cup {x \in RelOps(doc) : x \in Span(doc, e)}

(* One step of _walk: if what is yielded from the elements after e is right, *)
(* so is what is yielded from e.                                           *)
LEMMA WalkFromListsUnder ==
  ASSUME NEW doc, IsShowplan(doc), NEW e \in Elements(doc), NEW kids, NEW g,
         Lists(kids[e], Nearest(doc, e)),
         \A c \in Elements(doc) : c > e => Lists(g[c], Under(doc, c))
  PROVE  Lists(WalkFrom(kids, g, e), Under(doc, e))
  <1> DEFINE near == kids[e]
             seqs == [i \in DOMAIN near |-> g[near[i]]]
             part == [i \in DOMAIN near |-> Under(doc, near[i])]
             All == UNION {part[i] : i \in 1 .. Len(seqs)}
  <1>1. Elements(doc) \subseteq Nat /\ RelOps(doc) \subseteq Elements(doc)
    BY TreeFacts
  <1>2. /\ Len(near) \in Nat /\ DOMAIN near = 1 .. Len(near)
        /\ \A i \in DOMAIN near : near[i] \in Nearest(doc, e)
    BY ListFacts
  <1>3. /\ \A c \in Nearest(doc, e) : \E i \in DOMAIN near : near[i] = c
        /\ \A i, j \in DOMAIN near : i < j => near[i] < near[j]
    BY DEF Lists
  <1> HIDE DEF near
  <1>4. ASSUME NEW c \in Nearest(doc, e)
        PROVE  c \in RelOps(doc) /\ c \in Elements(doc) /\ c \in Nat /\ c > e
    <2>1. c \in RelOps(doc) /\ c \in Span(doc, e) /\ c # e
      BY DEF Nearest
    <2>2. c >= e /\ c \in Nat /\ e \in Nat
      BY <1>1, <2>1, SpanIsInterval
    <2>3. QED
      BY <1>1, <2>1, <2>2
  <1>5. ASSUME NEW c \in Nearest(doc, e)
        PROVE  \A x : x \in Under(doc, c) <=> x \in RelOps(doc) /\ x \in Span(doc, c)
    <2>1. c \in RelOps(doc) /\ c \in Span(doc, c)
      BY <1>4, SpanIsInterval
    <2>2. QED
      BY <2>1 DEF Under
  <1>6. \A c \in Nearest(doc, e) : Under(doc, c) \in SUBSET Nat
    BY <1>1, <1>5
  <1>7. ASSUME NEW i \in DOMAIN near
        PROVE  /\ part[i] = Under(doc, near[i]) /\ seqs[i] = g[near[i]]
               /\ Lists(seqs[i], part[i]) /\ part[i] \in SUBSET Nat
    BY <1>2, <1>4, <1>6
  <1>8. seqs \in Seq(Seq(Nat)) /\ Len(seqs) = Len(near)
    <2>1. ASSUME NEW i \in DOMAIN near PROVE seqs[i] \in Seq(Nat)
      <3>1. seqs[i] \in Seq(part[i]) /\ part[i] \in SUBSET Nat
        BY <1>7 DEF Lists
      <3>2. QED
        BY <3>1
    <2>2. seqs \in [1 .. Len(near) -> Seq(Nat)]
      BY <1>2, <2>1
    <2> HIDE DEF seqs
    <2>3. QED
      BY <1>2, <2>2, SeqDef
  <1>9. part \in [1 .. Len(seqs) -> SUBSET Nat]
    BY <1>2, <1>7, <1>8
  <1>10. ASSUME NEW i \in 1 .. Len(seqs), NEW j \in 1 .. Len(seqs), i < j,
                NEW a \in part[i], NEW b \in part[j]
         PROVE  a < b
    <2>1. i \in DOMAIN near /\ j \in DOMAIN near /\ near[i] < near[j]
      BY <1>2, <1>3, <1>8, <1>10
    <2>2. a \in Under(doc, near[i]) /\ b \in Under(doc, near[j])
      BY <1>7, <1>10, <2>1
    <2>3. a \in Span(doc, near[i]) /\ b \in Span(doc, near[j])
      BY <1>2, <1>5, <2>1, <2>2
    <2>4. QED
      BY <1>2, <2>1, <2>3, NearestSpans
  <1>11. Lists(FlattenSeq(seqs), All)
    <2> HIDE DEF seqs, part
    <2>1. \A i \in 1 .. Len(seqs) : Lists(seqs[i], part[i])
      BY <1>2, <1>7, <1>8
    <2>2. QED
      BY <1>8, <1>9, <1>10, <2>1, FlattenLists
  <1>12. ASSUME NEW x
         PROVE  x \in All <=> x \in RelOps(doc) /\ x \in Span(doc, e) \ {e}
    <2>1. x \in All <=> \E i \in DOMAIN near : x \in part[i]
      <3> HIDE DEF seqs, part
      <3>1. QED
        BY <1>2, <1>8
    <2>2. \A i \in DOMAIN near : x \in part[i] <=> x \in RelOps(doc) /\ x \in Span(doc, near[i])
      BY <1>2, <1>5, <1>7
    <2>3. x \in RelOps(doc) /\ x \in Span(doc, e) \ {e} <=>
            \E r \in Nearest(doc, e) : x \in RelOps(doc) /\ x \in Span(doc, r)
      BY NearestSpans
    <2> HIDE DEF All, part
    <2>4. QED
      BY <1>2, <1>3, <2>1, <2>2, <2>3
  <1>13. Under(doc, e) = {e} \cup All
    <2>1. e \in Span(doc, e)
      BY SpanIsInterval
    <2> HIDE DEF All
    <2>2. QED
      BY <1>12, <2>1 DEF Under
  <1>14. All \in SUBSET Nat /\ {e} \in SUBSET Nat /\ \A a \in {e}, b \in All : a < b
    <2>1. \A x \in Span(doc, e) : x >= e
      BY SpanIsInterval
    <2> HIDE DEF All
    <2>2. QED
      BY <1>1, <1>12, <2>1
  <1>15. Lists(<<e>>, {e})
    BY <1>1 DEF Lists
  <1>16. Lists(<<e>> \o FlattenSeq(seqs), {e} \cup All)
    <2> HIDE DEF All, seqs
    <2>1. QED
      BY <1>11, <1>14, <1>15, ConcatLists
  <1>17. WalkFrom(kids, g, e) = <<e>> \o FlattenSeq(seqs)
    BY DEF WalkFrom, near
  <1>18. QED
    BY <1>13, <1>16, <1>17

(* _walk yields every operator of the plan once, in document order.        *)
LEMMA WalkListsTheOperators ==
  ASSUME NEW doc, IsShowplan(doc)
  PROVE  Lists(Walk(doc), RelOps(doc))
  <1> DEFINE kids == DirectChildRelOps(doc)
             from[e \in Elements(doc)] ==
               <<e>> \o FlattenSeq([i \in DOMAIN kids[e] |-> from[kids[e][i]]])
  <1>1. \A e \in Elements(doc) : Lists(kids[e], Nearest(doc, e))
    BY DirectChildrenAreNearest
  <1> HIDE DEF kids
  <1>2. /\ Elements(doc) \in SUBSET Nat /\ RelOps(doc) \subseteq Elements(doc)
        /\ Len(doc.tag) \in Nat /\ Elements(doc) = 1 .. Len(doc.tag)
        /\ 1 \in RelOps(doc)
    BY TreeFacts
  <1>3. \A e \in Elements(doc) : Under(doc, e) \in SUBSET Elements(doc)
    BY <1>2 DEF Under
  <1>4. \E g : g = [e \in Elements(doc) |->
                     <<e>> \o FlattenSeq([i \in DOMAIN kids[e] |-> g[kids[e][i]]])]
    <2> DEFINE g == [e \in Elements(doc) |-> InOrder(doc, Under(doc, e))]
    <2>1. ASSUME NEW e \in Elements(doc) PROVE Lists(g[e], Under(doc, e))
      BY <1>3, InOrderLists
    <2>2. ASSUME NEW e \in Elements(doc)
          PROVE  InOrder(doc, Under(doc, e)) = WalkFrom(kids, g, e)
      <3>1. Lists(InOrder(doc, Under(doc, e)), Under(doc, e))
        BY <1>3, InOrderLists
      <3> HIDE DEF g
      <3>2. Lists(WalkFrom(kids, g, e), Under(doc, e))
        BY <1>1, <2>1, WalkFromListsUnder
      <3>3. Under(doc, e) \in SUBSET Nat
        BY <1>2, <1>3
      <3>4. QED
        BY <3>1, <3>2, <3>3, ListsAreUnique
    <2>3. g = [e \in Elements(doc) |-> WalkFrom(kids, g, e)]
      BY <2>2, Zenon
    <2> HIDE DEF g
    <2>4. QED
      BY <2>3 DEF WalkFrom
  <1>5. from = [e \in Elements(doc) |->
                  <<e>> \o FlattenSeq([i \in DOMAIN kids[e] |-> from[kids[e][i]]])]
    BY <1>4
  <1>6. Walk(doc) = from[1]
    BY DEF Walk, kids
  <1> HIDE DEF from
  <1>7. \A e \in Elements(doc) : from[e] = WalkFrom(kids, from, e)
    BY <1>5 DEF WalkFrom
  <1> DEFINE Bad == {e \in Elements(doc) : ~ Lists(from[e], Under(doc, e))}
  <1>8. Bad = {}
    <2> SUFFICES ASSUME Bad # {} PROVE FALSE
      OBVIOUS
    <2>1. Bad \in SUBSET Nat /\ \A x \in Bad : x <= Len(doc.tag)
      BY <1>2
    <2>2. PICK e \in Bad : \A x \in Bad : x <= e
      <3> HIDE DEF Bad
      <3>1. QED
        BY <1>2, <2>1, GreatestElement
    <2>3. e \in Elements(doc) /\ ~ Lists(from[e], Under(doc, e))
      BY <2>2
    <2>4. \A c \in Elements(doc) : c > e => Lists(from[c], Under(doc, c))
      BY <1>2, <2>2, <2>3
    <2>5. Lists(from[e], Under(doc, e))
      BY <1>1, <1>7, <2>3, <2>4, WalkFromListsUnder
    <2>6. QED
      BY <2>3, <2>5
  <1>9. Lists(from[1], Under(doc, 1))
    BY <1>2, <1>8
  <1>10. Under(doc, 1) = RelOps(doc)
    <2>1. ASSUME NEW x \in Elements(doc) PROVE x \in Span(doc, 1)
      <3>1. \A d \in Elements(doc) : 1 < d => doc.parent[d] >= 1
        <4>1. \A d \in Elements(doc) : d # 1 => doc.parent[d] \in Elements(doc)
          BY TreeFacts
        <4>2. QED
          BY <1>2, <4>1
      <3>2. QED
        BY <1>2, <3>1 DEF Span
    <2>2. QED
      BY <1>2, <2>1 DEF Under
  <1>11. QED
    BY <1>6, <1>9, <1>10

-----------------------------------------------------------------------------

Stages == {"arguments", "password", "call", "parse", "evaluate", "summarise", "report", "ended"}

(* How far the caller is, and what that says of its call.                  *)
ControlOK ==
  /\ stage \in Stages /\ ending \in Endings
  /\ (stage = "ended") <=> (ending # "none")
  /\ stage \in {"arguments", "password"} => conn = "none" /\ outcome = "none"
  /\ stage \in {"parse", "evaluate", "summarise", "report"} => outcome = "ok"
  /\ outcome = "rejected" => query # "select"

(* The plan is that of the document, from the parse on.                    *)
ParsedOK ==
  plan # None \/ stage \in {"evaluate", "summarise", "report"} =>
    document \in Documents /\ plan = ParsePlan(document)

(* Findings and summary are those of the plan, once they are there.        *)
AnalysedOK ==
  /\ Analysed => stage \in {"report", "ended"}
  /\ Analysed \/ stage = "report" => summary = Summarize(plan)
  /\ Analysed \/ stage \in {"summarise", "report"} =>
       /\ document \in Documents /\ plan = ParsePlan(document)
       /\ findings = BySeverity(Unsorted(plan))

RunInv == ControlOK /\ ParsedOK /\ AnalysedOK /\ BlameIsRight

(* Before anything was tried.                                              *)
LEMMA InitRunInv == RunInit => RunInv
  <1> SUFFICES ASSUME RunInit PROVE RunInv
    OBVIOUS
  <1>1. ControlOK
    BY DEF RunInit, Init, ControlOK, Stages, Endings
  <1>2. ParsedOK /\ AnalysedOK
    BY DEF RunInit, ParsedOK, AnalysedOK, Analysed
  <1>3. BlameIsRight
    BY DEF RunInit, Init, BlameIsRight
  <1>4. QED
    BY <1>1, <1>2, <1>3 DEF RunInv

(* The steps of the call itself.                                           *)
LEMMA CallRunInv == IInv /\ RunInv /\ Call => RunInv'
  <1> SUFFICES ASSUME IInv, RunInv, Call PROVE RunInv'
    OBVIOUS
  <1>1. stage = "call" /\ ending = "none" /\ UNCHANGED <<caller, stage, analysis, ending>>
    BY DEF Call, RunInv, ControlOK
  <1>2. outcome' = "rejected" => query' # "select"
    <2>1. query' = query
      BY DEF Call, Next, Validate, Connect, SetTimeout, Cursor, Execute, Scan, ScanFinds,
             ScanMovesOn, ScanFails, ListRows, Row, RowUntokenizable, RowsFail, RowsEnd,
             Close, inputs
    <2>2. outcome' = outcome \/ outcome' # "rejected" \/ query # "select"
      BY DEF Call, Next, Validate, Connect, SetTimeout, Cursor, Execute, Scan, ScanFinds,
             ScanMovesOn, ScanFails, ListRows, Row, RowUntokenizable, RowsFail, RowsEnd,
             Close, EndWith, Leave, Goto
    <2>3. QED
      BY <2>1, <2>2 DEF RunInv, ControlOK
  <1>3. ControlOK'
    BY <1>1, <1>2 DEF RunInv, ControlOK
  <1>4. ParsedOK' /\ AnalysedOK'
    BY <1>1 DEF RunInv, ParsedOK, AnalysedOK, Analysed, analysis
  <1>5. BlameIsRight'
    BY <1>1 DEF BlameIsRight
  <1>6. QED
    BY <1>3, <1>4, <1>5 DEF RunInv

(* A step that ends the run, or only moves on, and leaves the call alone.  *)
LEMMA StepRunInv == IInv /\ RunInv /\ [RunNext]_runVars => RunInv'
  <1> SUFFICES ASSUME IInv, RunInv, [RunNext]_runVars PROVE RunInv'
    OBVIOUS
  <1>1. CASE Call
    BY <1>1, CallRunInv
  <1> USE DEF RunInv, EndsAs, analysis, vars
  <1>2. CASE Arguments \/ Password
    <2>1. ControlOK'
      BY <1>2 DEF Arguments, Password, ControlOK, Stages, Endings
    <2>2. ParsedOK' /\ AnalysedOK'
      BY <1>2 DEF Arguments, Password, ParsedOK, AnalysedOK, Analysed
    <2>3. BlameIsRight'
      BY <1>2 DEF Arguments, Password, ControlOK, BlameIsRight
    <2>4. QED
      BY <2>1, <2>2, <2>3
  <1>3. CASE CallFails
    <2>1. FailureAs(outcome) \in Endings \ {"none"}
      BY DEF FailureAs, Endings
    <2>2. ControlOK'
      BY <1>3, <2>1 DEF CallFails, ControlOK, Stages
    <2>3. ParsedOK' /\ AnalysedOK'
      BY <1>3 DEF CallFails, ParsedOK, AnalysedOK, Analysed
    <2>4. /\ FailureAs(outcome) \in {"exit_2", "422"} => outcome = "rejected"
          /\ outcome \in {"capture_error", "no_plan"} =>
               FailureAs(outcome) \in {"exit_1", "400", "502"}
      BY DEF FailureAs
    <2>5. outcome = "rejected" => query # "select" /\ conn = "none"
      BY DEF ControlOK, IInv, PhaseOK
    <2>6. BlameIsRight'
      BY <1>3, <2>4, <2>5 DEF CallFails, BlameIsRight
    <2>7. QED
      BY <2>2, <2>3, <2>6
  <1>4. CASE CallReturns
    <2>1. ControlOK'
      BY <1>4 DEF CallReturns, ControlOK, Stages, Endings
    <2>2. ParsedOK' /\ AnalysedOK'
      BY <1>4 DEF CallReturns, ParsedOK, AnalysedOK, Analysed
    <2>3. BlameIsRight'
      BY <1>4 DEF CallReturns, ControlOK, BlameIsRight
    <2>4. QED
      BY <2>1, <2>2, <2>3
  <1>5. CASE Parse
    <2>1. ControlOK'
      BY <1>5 DEF Parse, ControlOK, Stages
    <2>2. ParsedOK'
      BY <1>5 DEF Parse, ParsedOK
    <2>3. AnalysedOK' /\ BlameIsRight'
      BY <1>5 DEF Parse, AnalysedOK, Analysed, BlameIsRight
    <2>4. QED
      BY <2>1, <2>2, <2>3
  <1>6. CASE ParseFindsNoPlan \/ ParseRaises
    <2>1. ControlOK'
      BY <1>6 DEF ParseFindsNoPlan, ParseRaises, ControlOK, Stages, Endings
    <2>2. ParsedOK' /\ AnalysedOK'
      BY <1>6 DEF ParseFindsNoPlan, ParseRaises, ParsedOK, AnalysedOK, Analysed
    <2>3. BlameIsRight'
      BY <1>6 DEF ParseFindsNoPlan, ParseRaises, ControlOK, BlameIsRight
    <2>4. QED
      BY <2>1, <2>2, <2>3
  <1>7. CASE RunRules
    <2>1. ControlOK'
      BY <1>7 DEF RunRules, ControlOK, Stages
    <2>2. ParsedOK'
      BY <1>7 DEF RunRules, ParsedOK
    <2>3. AnalysedOK'
      BY <1>7 DEF RunRules, ParsedOK, AnalysedOK, Analysed
    <2>4. BlameIsRight'
      BY <1>7 DEF RunRules, BlameIsRight
    <2>5. QED
      BY <2>1, <2>2, <2>3, <2>4
  <1>8. CASE SummarisePlan
    <2>1. ControlOK'
      BY <1>8 DEF SummarisePlan, ControlOK, Stages
    <2>2. ParsedOK' /\ AnalysedOK'
      BY <1>8 DEF SummarisePlan, ParsedOK, AnalysedOK, Analysed
    <2>3. BlameIsRight'
      BY <1>8 DEF SummarisePlan, BlameIsRight
    <2>4. QED
      BY <2>1, <2>2, <2>3
  <1>9. CASE Report
    <2>1. ControlOK'
      BY <1>9 DEF Report, ControlOK, Stages, Endings
    <2>2. ParsedOK' /\ AnalysedOK'
      BY <1>9 DEF Report, ParsedOK, AnalysedOK, Analysed
    <2>3. BlameIsRight'
      BY <1>9 DEF Report, ControlOK, BlameIsRight
    <2>4. QED
      BY <2>1, <2>2, <2>3
  <1>10. CASE UNCHANGED runVars
    BY <1>10 DEF runVars, ControlOK, ParsedOK, AnalysedOK, Analysed, BlameIsRight
  <1>11. QED
    BY <1>1, <1>2, <1>3, <1>4, <1>5, <1>6, <1>7, <1>8, <1>9, <1>10 DEF RunNext

(* Whatever its caller does with the answer, a run makes one live call:    *)
(* all that CaptureProofs shows of a call holds of the call of a run.      *)
THEOREM RunsMakeOneCall == RunSpec => Spec
  <1>1. RunInit => Init
    BY DEF RunInit
  <1>2. [RunNext]_runVars => [Next]_vars
    BY DEF RunNext, runVars, Arguments, Password, Call, CallFails, CallReturns, Parse,
           ParseFindsNoPlan, ParseRaises, RunRules, SummarisePlan, Report
  <1>3. QED
    BY <1>1, <1>2, PTL DEF RunSpec, Spec

(* The command line and the handlers may rely on LiveCall: a refused text  *)
(* sends nothing, an answered call is answered in full, and no connection  *)
(* that was handed over stays open (db/capture.py 27-76).                  *)
THEOREM RunsKeepThePromise ==
  RunSpec => /\ []NothingOpensForABadQuery /\ []HandedOverConnectionIsClosed
             /\ []PlanIsFound /\ []ListingIsComplete /\ ImplementsLiveCall
  BY RunsMakeOneCall, BadQueriesOpenNothing, ConnectionsAreClosed, PlansAreFound,
     ListingsAreComplete, CallsKeepTheirPromise, PTL

(* What a caller knows of its call, its plan and its findings.             *)
LEMMA RunInductive == RunSpec => [](IInv /\ RunInv)
  <1>1. QED
    BY InitRunInv, StepRunInv, RunsMakeOneCall, Inductive, PTL DEF RunSpec

(* Only a text that was never sent is blamed on the user, for any batch,   *)
(* any catalog and whatever the driver does.                               *)
THEOREM BlameIsFair == RunSpec => []BlameIsRight
  <1>1. RunInv => BlameIsRight
    BY DEF RunInv
  <1>2. QED
    BY <1>1, RunInductive, PTL

-----------------------------------------------------------------------------

(* The operators of a plan, and what is known of their order.              *)
LEMMA PlanOperators ==
  ASSUME NEW doc, IsShowplan(doc), NEW p, p = ParsePlan(doc)
  PROVE  /\ Walk(doc) \in Seq(RelOps(doc)) /\ RelOps(doc) \subseteq Nat
         /\ Len(Walk(doc)) = Cardinality(RelOps(doc))
         /\ p.operators = [i \in DOMAIN Walk(doc) |-> BuildOperator(doc, Walk(doc), i)]
         /\ Len(p.operators) = Len(Walk(doc)) /\ DOMAIN p.operators = DOMAIN Walk(doc)
         /\ \A i \in DOMAIN Walk(doc) : Walk(doc)[i] \in RelOps(doc)
         /\ \A i, j \in DOMAIN Walk(doc) : Walk(doc)[i] = Walk(doc)[j] => i = j
  <1>1. Lists(Walk(doc), RelOps(doc)) /\ RelOps(doc) \in SUBSET Nat
    BY WalkListsTheOperators, TreeFacts
  <1> DEFINE walk == Walk(doc)
  <1>2. p.operators = [i \in DOMAIN walk |-> BuildOperator(doc, walk, i)]
    BY DEF ParsePlan
  <1> HIDE DEF walk
  <1>3. /\ walk \in Seq(RelOps(doc)) /\ Len(walk) \in Nat /\ DOMAIN walk = 1 .. Len(walk)
        /\ \A i \in DOMAIN walk : walk[i] \in RelOps(doc) /\ walk[i] \in Nat
    BY <1>1, ListFacts DEF Lists, walk
  <1>4. Len(walk) = Cardinality(RelOps(doc))
    BY <1>1, ListLength DEF walk
  <1>5. DOMAIN p.operators = 1 .. Len(walk) /\ Len(p.operators) = Len(walk)
    BY <1>2, <1>3
  <1>6. ASSUME NEW i \in DOMAIN walk, NEW j \in DOMAIN walk, walk[i] = walk[j] PROVE i = j
    <2>1. ~ (i < j) /\ ~ (j < i)
      BY <1>1, <1>3, <1>6 DEF Lists, walk
    <2>2. QED
      BY <1>3, <2>1
  <1>7. QED
    BY <1>1, <1>2, <1>3, <1>4, <1>5, <1>6 DEF walk

(* The two tables agree on what a hash match is.                           *)
LEMMA TablesAgree ==
  ASSUME NEW physical, NEW logical, NEW lookup
  PROVE  JoinType(physical, logical)
           = Get([join_nested_loop |-> "nested_loop", join_hash |-> "hash",
                  join_merge |-> "merge"], OperatorType(physical, logical, lookup), None)
  <1> DEFINE type == OperatorType(physical, logical, lookup)
             join == JoinType(physical, logical)
  <1>1. CASE lookup /\ physical \in LookupCapablePhysicalOps
    BY <1>1 DEF OperatorType, JoinType, LookupCapablePhysicalOps, Get
  <1>2. CASE ~ (lookup /\ physical \in LookupCapablePhysicalOps) /\ physical = "Hash Match"
    BY <1>2 DEF OperatorType, JoinType, HashJoinLogicalOps, HashMatchLogicalOpMap, Get
  <1>3. CASE ~ (lookup /\ physical \in LookupCapablePhysicalOps) /\ physical # "Hash Match"
    BY <1>3 DEF OperatorType, JoinType, PhysicalOpMap, Get
  <1>4. QED
    BY <1>1, <1>2, <1>3

(* Whatever operators a plan has, what is said to join is a join operator, *)
(* and no lookup, aggregate or sort is said to join.                       *)
THEOREM OnlyJoinsJoin == RunSpec => []JoinsAreJoins
  <1>1. RunInv => JoinsAreJoins
    <2> SUFFICES ASSUME RunInv, plan # None, NEW i \in DOMAIN plan.operators
                 PROVE  plan.operators[i].join
                          = Get([join_nested_loop |-> "nested_loop", join_hash |-> "hash",
                                 join_merge |-> "merge"], plan.operators[i].type, None)
      BY DEF JoinsAreJoins
    <2>1. document \in Documents /\ plan = ParsePlan(document)
      BY DEF RunInv, ParsedOK
    <2> DEFINE walk == Walk(document)
    <2>2. i \in DOMAIN walk /\ plan.operators[i] = BuildOperator(document, walk, i)
      BY <2>1 DEF ParsePlan
    <2>3. /\ plan.operators[i].join
               = JoinType(document.attr[walk[i]].physical, document.attr[walk[i]].logical)
          /\ plan.operators[i].type
               = OperatorType(document.attr[walk[i]].physical,
                              document.attr[walk[i]].logical, IsLookup(document, walk[i]))
      BY <2>2 DEF BuildOperator
    <2>4. QED
      BY <2>3, TablesAgree
  <1>2. QED
    BY <1>1, RunInductive, PTL

(* Operators have ids of their own, given or counted.                      *)
LEMMA IdsDiffer ==
  ASSUME NEW doc, IsShowplan(doc), NEW i \in DOMAIN Walk(doc), NEW j \in DOMAIN Walk(doc),
         OperatorId(doc, Walk(doc), i) = OperatorId(doc, Walk(doc), j)
  PROVE  i = j
  <1> DEFINE walk == Walk(doc)
  <1>1. /\ walk \in Seq(RelOps(doc))
        /\ \A k \in DOMAIN walk : walk[k] \in RelOps(doc)
        /\ walk[i] = walk[j] => i = j
    BY PlanOperators
  <1>2. OperatorId(doc, walk, i) = OperatorId(doc, walk, j)
    OBVIOUS
  <1>3. i \in DOMAIN walk /\ j \in DOMAIN walk
    OBVIOUS
  <1> HIDE DEF walk
  <1>4. /\ i \in Nat /\ j \in Nat
        /\ \A k \in 1 .. i : k \in DOMAIN walk
        /\ \A k \in 1 .. j : k \in DOMAIN walk
    BY <1>1, <1>3
  <1>5. CASE \A e \in RelOps(doc) : doc.attr[e].node_id = None
    <2>1. ASSUME NEW n \in DOMAIN walk, n \in Nat, \A l \in 1 .. n : l \in DOMAIN walk
          PROVE  OperatorId(doc, walk, n) = n
      <3>1. {l \in 1 .. n : doc.attr[walk[l]].node_id = None} = 1 .. n
        BY <1>1, <1>5, <2>1
      <3>2. Cardinality(1 .. n) = n
        BY <2>1, FS_Interval
      <3>3. doc.attr[walk[n]].node_id = None
        BY <1>1, <1>5
      <3>4. QED
        BY <3>1, <3>2, <3>3 DEF OperatorId
    <2>2. OperatorId(doc, walk, i) = i
      BY <1>3, <1>4, <2>1
    <2>3. OperatorId(doc, walk, j) = j
      BY <1>3, <1>4, <2>1
    <2>4. QED
      BY <1>2, <2>2, <2>3
  <1>6. CASE \A d, e \in RelOps(doc) :
               doc.attr[d].node_id # None /\ (doc.attr[d].node_id = doc.attr[e].node_id => d = e)
    <2>1. /\ OperatorId(doc, walk, i) = doc.attr[walk[i]].node_id
          /\ OperatorId(doc, walk, j) = doc.attr[walk[j]].node_id
      BY <1>1, <1>3, <1>6 DEF OperatorId
    <2>2. QED
      BY <1>1, <1>2, <1>3, <1>6, <2>1
  <1>7. QED
    BY <1>5, <1>6 DEF IsShowplan

(* However the inputs of operators are nested, and however deep, the rules *)
(* and the summary see every operator of the plan once, in its order.      *)
THEOREM EveryOperatorSeenOnce == RunSpec => []EveryOperatorOnce
  <1>1. RunInv => EveryOperatorOnce
    <2> SUFFICES ASSUME RunInv, plan # None
                 PROVE  /\ [i \in DOMAIN plan.operators |-> plan.operators[i].element]
                             = InOrder(document, RelOps(document))
                        /\ \A i, j \in DOMAIN plan.operators :
                             plan.operators[i].id = plan.operators[j].id => i = j
      BY DEF EveryOperatorOnce
    <2>1. plan = ParsePlan(document) /\ IsShowplan(document)
      BY DocumentsAreShowplans DEF RunInv, ParsedOK
    <2> DEFINE walk == Walk(document)
    <2>2. /\ plan.operators = [i \in DOMAIN walk |-> BuildOperator(document, walk, i)]
          /\ walk \in Seq(RelOps(document))
      BY <2>1, PlanOperators
    <2>3. ASSUME NEW i \in DOMAIN walk
          PROVE  /\ plan.operators[i].element = walk[i]
                 /\ plan.operators[i].id = OperatorId(document, walk, i)
      BY <2>2 DEF BuildOperator
    <2>4. DOMAIN plan.operators = DOMAIN walk
      BY <2>2
    <2>5. [i \in DOMAIN plan.operators |-> plan.operators[i].element] = walk
      <3> HIDE DEF walk
      <3>1. walk = [i \in DOMAIN walk |-> walk[i]]
        BY <2>2
      <3>2. QED
        BY <2>3, <2>4, <3>1, Zenon
    <2>6. walk = InOrder(document, RelOps(document))
      <3>1. RelOps(document) \in SUBSET Elements(document) /\ RelOps(document) \in SUBSET Nat
        BY <2>1, TreeFacts
      <3>2. /\ Lists(walk, RelOps(document))
            /\ Lists(InOrder(document, RelOps(document)), RelOps(document))
        BY <2>1, <3>1, WalkListsTheOperators, InOrderLists
      <3> HIDE DEF walk
      <3>3. QED
        BY <3>1, <3>2, ListsAreUnique
    <2>7. QED
      BY <2>1, <2>3, <2>4, <2>5, <2>6, IdsDiffer
  <1>2. QED
    BY <1>1, RunInductive, PTL

-----------------------------------------------------------------------------

Ids(p) == {p.operators[i].id : i \in DOMAIN p.operators}

(* What the rules and the summary build on: the plan's operators with ids  *)
(* of their own, and its warnings in the operators' order.                 *)
IsPlan(p) ==
  /\ p.operators \in Seq(ToSet(p.operators)) /\ p.operators # <<>>
  /\ \A i, j \in DOMAIN p.operators : p.operators[i].id = p.operators[j].id => i = j
  /\ p.warnings \in Seq([type : WarningTypes, operator : Ids(p)])
  /\ \A k, m \in DOMAIN p.warnings, i, j \in DOMAIN p.operators :
       k < m /\ p.warnings[k].operator = p.operators[i].id
             /\ p.warnings[m].operator = p.operators[j].id => i <= j
  /\ \A i \in DOMAIN p.operators :
       p.operators[i].spill <=>
         \E k \in DOMAIN p.warnings :
           p.warnings[k].type = "tempdb_spill" /\ p.warnings[k].operator = p.operators[i].id
  /\ p.missing \in Seq(ToSet(p.missing))

(* The warnings of the i-th operator, and what the adapter makes of one.   *)
TagsAt(doc, i) == doc.attr[Walk(doc)[i]].warnings

WarningOf(doc, i, tag) ==
  [type |-> Get(WarningTagMap, tag, "other"), operator |-> OperatorId(doc, Walk(doc), i)]

(* part says from which operator each of the warnings w is.                *)
WarningsFollow(doc, w, part) ==
  /\ part \in [1 .. Len(w) -> DOMAIN Walk(doc)]
  /\ \A k \in 1 .. Len(w) :
       \E j \in DOMAIN TagsAt(doc, part[k]) :
         w[k] = WarningOf(doc, part[k], TagsAt(doc, part[k])[j])
  /\ \A k, m \in 1 .. Len(w) : k < m => part[k] <= part[m]
  /\ \A i \in DOMAIN Walk(doc) : \A j \in DOMAIN TagsAt(doc, i) :
       \E k \in 1 .. Len(w) : w[k] = WarningOf(doc, i, TagsAt(doc, i)[j])

(* Only a spill is called a spill.                                         *)
LEMMA WarningTags ==
  ASSUME NEW tag \in STRING
  PROVE  /\ Get(WarningTagMap, tag, "other") \in WarningTypes
         /\ Get(WarningTagMap, tag, "other") = "tempdb_spill" <=> tag = "SpillToTempDb"
  BY DEF Get, WarningTagMap, WarningTypes

(* The warnings of a plan are those of its operators, in their order.      *)
LEMMA WarningsOfThePlan ==
  ASSUME NEW doc, IsShowplan(doc), NEW w, w = WarningsOut(doc, Walk(doc))
  PROVE  /\ w \in Seq([type : WarningTypes,
                       operator : {OperatorId(doc, Walk(doc), i) : i \in DOMAIN Walk(doc)}])
         /\ \E part : WarningsFollow(doc, w, part)
  <1> DEFINE walk == Walk(doc)
             ids == {OperatorId(doc, walk, i) : i \in DOMAIN walk}
             T == [type : WarningTypes, operator : ids]
             seqs == [i \in DOMAIN walk |->
                        [j \in DOMAIN TagsAt(doc, i) |-> WarningOf(doc, i, TagsAt(doc, i)[j])]]
  <1>1. ASSUME NEW i \in DOMAIN walk PROVE TagsAt(doc, i) \in Seq(STRING)
    <2>1. walk[i] \in RelOps(doc)
      BY PlanOperators
    <2>2. QED
      BY <2>1 DEF TagsAt, IsShowplan, OperatorAttributes
  <1>2. w = FlattenSeq(seqs)
    BY DEF WarningsOut, WarningOf, TagsAt
  <1>3. Len(walk) \in Nat /\ DOMAIN walk = 1 .. Len(walk)
    <2>1. walk \in Seq(RelOps(doc))
      BY PlanOperators
    <2>2. QED
      BY <2>1
  <1>4. ASSUME NEW i \in DOMAIN walk, NEW tag \in STRING PROVE WarningOf(doc, i, tag) \in T
    <2>1. Get(WarningTagMap, tag, "other") \in WarningTypes
      BY <1>4, WarningTags
    <2>2. OperatorId(doc, walk, i) \in ids
      OBVIOUS
    <2> HIDE DEF ids
    <2>3. QED
      BY <2>1, <2>2 DEF WarningOf
  <1> HIDE DEF walk, T
  <1>5. ASSUME NEW i \in DOMAIN walk
        PROVE  /\ seqs[i] \in Seq(T) /\ DOMAIN seqs[i] = DOMAIN TagsAt(doc, i)
               /\ \A j \in DOMAIN TagsAt(doc, i) :
                    seqs[i][j] = WarningOf(doc, i, TagsAt(doc, i)[j])
    <2>1. seqs[i] = [j \in DOMAIN TagsAt(doc, i) |-> WarningOf(doc, i, TagsAt(doc, i)[j])]
      OBVIOUS
    <2>2. DOMAIN TagsAt(doc, i) = 1 .. Len(TagsAt(doc, i)) /\ Len(TagsAt(doc, i)) \in Nat
      BY <1>1
    <2> HIDE DEF seqs, ids
    <2>3. \A j \in DOMAIN TagsAt(doc, i) : TagsAt(doc, i)[j] \in STRING
      BY <1>1
    <2>4. \A j \in DOMAIN TagsAt(doc, i) : WarningOf(doc, i, TagsAt(doc, i)[j]) \in T
      BY <1>4, <2>3
    <2>5. QED
      BY <2>1, <2>2, <2>4
  <1>6. seqs \in Seq(Seq(T)) /\ Len(seqs) = Len(walk)
    <2>1. seqs = [i \in 1 .. Len(walk) |-> seqs[i]]
      BY <1>3
    <2> HIDE DEF seqs
    <2>2. QED
      BY <1>3, <1>5, <2>1
  <1> HIDE DEF seqs
  <1>7. w \in Seq(T) /\ \E part : Positions(part, seqs, w, Len(seqs))
    BY <1>2, <1>6, FlattenPositions
  <1>8. PICK part : Positions(part, seqs, w, Len(seqs))
    BY <1>7
  <1>9. /\ part \in [1 .. Len(w) -> DOMAIN walk]
        /\ \A k \in 1 .. Len(w) : \E j \in DOMAIN seqs[part[k]] : w[k] = seqs[part[k]][j]
        /\ \A k, m \in 1 .. Len(w) : k < m => part[k] <= part[m]
        /\ \A i \in DOMAIN walk : \A j \in DOMAIN seqs[i] :
             \E k \in 1 .. Len(w) : w[k] = seqs[i][j]
    BY <1>3, <1>6, <1>8 DEF Positions
  <1>10. ASSUME NEW k \in 1 .. Len(w)
         PROVE  \E j \in DOMAIN TagsAt(doc, part[k]) :
                  w[k] = WarningOf(doc, part[k], TagsAt(doc, part[k])[j])
    <2>1. part[k] \in DOMAIN walk
      BY <1>9
    <2>2. QED
      BY <1>5, <1>9, <2>1
  <1>11. ASSUME NEW i \in DOMAIN walk, NEW j \in DOMAIN TagsAt(doc, i)
         PROVE  \E k \in 1 .. Len(w) : w[k] = WarningOf(doc, i, TagsAt(doc, i)[j])
    <2>1. j \in DOMAIN seqs[i] /\ seqs[i][j] = WarningOf(doc, i, TagsAt(doc, i)[j])
      BY <1>5
    <2>2. QED
      BY <1>9, <2>1
  <1>12. WarningsFollow(doc, w, part)
    BY <1>9, <1>10, <1>11 DEF WarningsFollow, walk
  <1>13. QED
    BY <1>7, <1>12 DEF T, walk

(* What is told of one index.                                              *)
AdviceOf(group, index) ==
  [impact     |-> group.impact,
   equality   |-> ColumnsOf(index, "EQUALITY"),
   inequality |-> ColumnsOf(index, "INEQUALITY"),
   include    |-> ColumnsOf(index, "INCLUDE")]

Missing == [impact : {None} \cup Int, equality : Seq(STRING), inequality : Seq(STRING),
            include : Seq(STRING)]

(* An index has at most one group of columns for each usage.               *)
LEMMA ColumnsByUsage ==
  ASSUME NEW index, IsIndexAdvice(index), NEW usage
  PROVE  /\ ColumnsOf(index, usage) \in Seq(STRING)
         /\ ToSet(ColumnsOf(index, usage)) = Wanted(index, {usage})
  <1> DEFINE groups == {g \in DOMAIN index : index[g].usage = usage}
  <1>1. /\ index \in Seq(ColumnGroups)
        /\ \A g, h \in groups : g = h
        /\ \A g \in DOMAIN index : index[g].columns \in Seq(STRING) /\ g \in Nat
    <2>1. index \in Seq(ColumnGroups) /\ \A g, h \in groups : g = h
      BY DEF IsIndexAdvice
    <2>2. \A g \in DOMAIN index : index[g] \in ColumnGroups /\ g \in Nat
      BY <2>1
    <2>3. \A c \in ColumnGroups : c.columns \in Seq(STRING)
      BY DEF ColumnGroups
    <2> HIDE DEF groups
    <2>4. QED
      BY <2>1, <2>2, <2>3
  <1>2. Wanted(index, {usage}) = UNION {ToSet(index[g].columns) : g \in groups}
    BY DEF Wanted
  <1>3. ColumnsOf(index, usage) = IF groups = {} THEN <<>> ELSE index[Max(groups)].columns
    BY DEF ColumnsOf
  <1>4. CASE groups = {}
    <2>1. ColumnsOf(index, usage) = <<>> /\ Wanted(index, {usage}) = {}
      BY <1>2, <1>3, <1>4
    <2>2. <<>> \in Seq(STRING) /\ ToSet(<<>>) = {}
      BY DEF ToSet
    <2>3. \A g \in DOMAIN index : index[g].usage # usage
      BY <1>4
    <2> HIDE DEF groups
    <2>4. QED
      BY <2>1, <2>2, <2>3
  <1>5. ASSUME NEW g \in groups
        PROVE  /\ ColumnsOf(index, usage) = index[g].columns
               /\ Wanted(index, {usage}) = ToSet(index[g].columns)
    <2>1. groups = {g} /\ g \in Nat
      BY <1>1
    <2>2. Max({g}) = g
      BY <2>1 DEF Max
    <2> HIDE DEF groups
    <2>3. ColumnsOf(index, usage) = index[g].columns
      BY <1>3, <2>1, <2>2
    <2>4. UNION {ToSet(index[h].columns) : h \in {g}} = ToSet(index[g].columns)
      OBVIOUS
    <2>5. QED
      BY <1>2, <2>1, <2>3, <2>4
  <1>6. CASE groups # {}
    <2>1. PICK g \in groups : TRUE
      BY <1>6
    <2>2. /\ g \in DOMAIN index /\ index[g].columns \in Seq(STRING)
          /\ \A h \in DOMAIN index : index[h].usage = usage => h = g
      BY <1>1, <2>1
    <2> HIDE DEF groups
    <2>3. QED
      BY <1>5, <2>1, <2>2
  <1>7. QED
    BY <1>4, <1>6

(* _extract_missing_indexes tells of every index of every group.           *)
LEMMA MissingOfThePlan ==
  ASSUME NEW doc, IsShowplan(doc), NEW missing, missing = MissingIndexes(doc)
  PROVE  /\ missing \in Seq(Missing)
         /\ \A g \in DOMAIN doc.missing : \A k \in DOMAIN doc.missing[g].indexes :
              \E m \in 1 .. Len(missing) :
                missing[m] = AdviceOf(doc.missing[g], doc.missing[g].indexes[k])
  <1> DEFINE groups == doc.missing
             seqs == [g \in DOMAIN groups |->
                        [k \in DOMAIN groups[g].indexes |->
                           AdviceOf(groups[g], groups[g].indexes[k])]]
  <1>1. missing = FlattenSeq(seqs)
    BY DEF MissingIndexes, AdviceOf
  <1>2. /\ groups \in Seq([impact : {None} \cup Int, indexes : Seq(Seq(ColumnGroups))])
        /\ \A g \in DOMAIN groups :
             \A index \in ToSet(groups[g].indexes) : IsIndexAdvice(index)
    BY DEF IsShowplan
  <1> HIDE DEF groups
  <1>3. /\ Len(groups) \in Nat /\ DOMAIN groups = 1 .. Len(groups)
        /\ \A g \in DOMAIN groups :
             /\ groups[g].impact \in {None} \cup Int
             /\ groups[g].indexes \in Seq(Seq(ColumnGroups))
             /\ Len(groups[g].indexes) \in Nat
             /\ DOMAIN groups[g].indexes = 1 .. Len(groups[g].indexes)
    <2> DEFINE Group == [impact : {None} \cup Int, indexes : Seq(Seq(ColumnGroups))]
    <2>1. \A h \in Group : /\ h.impact \in {None} \cup Int
                           /\ h.indexes \in Seq(Seq(ColumnGroups))
      OBVIOUS
    <2>2. groups \in Seq(Group)
      BY <1>2
    <2> HIDE DEF Group, seqs
    <2>3. Len(groups) \in Nat /\ DOMAIN groups = 1 .. Len(groups)
          /\ \A g \in DOMAIN groups : groups[g] \in Group
      BY <2>2
    <2>4. \A x \in Seq(Seq(ColumnGroups)) : Len(x) \in Nat /\ DOMAIN x = 1 .. Len(x)
      OBVIOUS
    <2>5. QED
      BY <2>1, <2>3, <2>4
  <1>4. ASSUME NEW g \in DOMAIN groups, NEW k \in DOMAIN groups[g].indexes
        PROVE  AdviceOf(groups[g], groups[g].indexes[k]) \in Missing
    <2>1. IsIndexAdvice(groups[g].indexes[k])
      BY <1>2 DEF ToSet
    <2>2. QED
      BY <1>3, <2>1, ColumnsByUsage DEF AdviceOf, Missing
  <1>5. ASSUME NEW g \in DOMAIN groups
        PROVE  /\ seqs[g] \in Seq(Missing) /\ DOMAIN seqs[g] = DOMAIN groups[g].indexes
               /\ \A k \in DOMAIN groups[g].indexes :
                    seqs[g][k] = AdviceOf(groups[g], groups[g].indexes[k])
    <2>1. seqs[g] = [k \in DOMAIN groups[g].indexes |->
                       AdviceOf(groups[g], groups[g].indexes[k])]
      OBVIOUS
    <2> HIDE DEF seqs
    <2>2. Len(groups[g].indexes) \in Nat /\ DOMAIN groups[g].indexes = 1 .. Len(groups[g].indexes)
      BY <1>3
    <2>3. \A k \in DOMAIN groups[g].indexes :
            AdviceOf(groups[g], groups[g].indexes[k]) \in Missing
      BY <1>4
    <2>4. QED
      BY <2>1, <2>2, <2>3
  <1>6. seqs \in Seq(Seq(Missing)) /\ Len(seqs) = Len(groups)
    <2>1. seqs = [g \in 1 .. Len(groups) |-> seqs[g]]
      BY <1>3
    <2> HIDE DEF seqs
    <2>2. QED
      BY <1>3, <1>5, <2>1
  <1> HIDE DEF seqs
  <1>7. missing \in Seq(Missing) /\ \E part : Positions(part, seqs, missing, Len(seqs))
    BY <1>1, <1>6, FlattenPositions
  <1>8. \A g \in DOMAIN groups : \A k \in DOMAIN seqs[g] :
          \E m \in 1 .. Len(missing) : missing[m] = seqs[g][k]
    BY <1>3, <1>6, <1>7 DEF Positions
  <1>9. QED
    BY <1>5, <1>7, <1>8 DEF groups

(* What parse_plan_xml returns is a plan.                                  *)
LEMMA ParsedIsPlan ==
  ASSUME NEW doc, IsShowplan(doc), NEW p, p = ParsePlan(doc)
  PROVE  IsPlan(p)
  <1> DEFINE walk == Walk(doc)
             ops == p.operators
             w == p.warnings
  <1>1. /\ walk \in Seq(RelOps(doc))
        /\ ops = [i \in DOMAIN walk |-> BuildOperator(doc, walk, i)]
        /\ DOMAIN ops = DOMAIN walk /\ w = WarningsOut(doc, walk)
        /\ p.missing = MissingIndexes(doc)
    BY PlanOperators DEF ParsePlan
  <1>2. Len(walk) \in Nat /\ DOMAIN walk = 1 .. Len(walk) /\ walk # <<>>
    <2>1. 1 \in RelOps(doc)
      BY TreeFacts
    <2>2. \E i \in DOMAIN walk : walk[i] = 1
      BY <2>1, WalkListsTheOperators DEF Lists
    <2>3. QED
      BY <1>1, <2>2
  <1>3. ASSUME NEW i \in DOMAIN walk
        PROVE  /\ TagsAt(doc, i) \in Seq(STRING)
               /\ ops[i].id = OperatorId(doc, walk, i)
               /\ ops[i].spill <=> \E j \in DOMAIN TagsAt(doc, i) : TagsAt(doc, i)[j] = "SpillToTempDb"
    <2>1. /\ ops[i].id = OperatorId(doc, walk, i)
          /\ ops[i].spill = Contains(TagsAt(doc, i), "SpillToTempDb")
      BY <1>1 DEF BuildOperator, TagsAt
    <2>2. walk[i] \in RelOps(doc)
      BY PlanOperators
    <2>3. TagsAt(doc, i) \in Seq(STRING)
      BY <2>2 DEF TagsAt, IsShowplan, OperatorAttributes
    <2>4. QED
      BY <2>1, <2>3 DEF Contains
  <1>4. \A i, j \in DOMAIN walk : ops[i].id = ops[j].id => i = j
    BY <1>3, IdsDiffer
  <1>5. {OperatorId(doc, walk, i) : i \in DOMAIN walk} = Ids(p)
    BY <1>1, <1>3 DEF Ids
  <1>6. PICK part : WarningsFollow(doc, w, part)
    BY <1>1, WarningsOfThePlan
  <1>7. w \in Seq([type : WarningTypes, operator : Ids(p)])
    BY <1>1, <1>5, WarningsOfThePlan
  <1>8. DOMAIN w = 1 .. Len(w)
    BY <1>7
  <1>9. ASSUME NEW i, NEW tag
        PROVE  /\ WarningOf(doc, i, tag).type = Get(WarningTagMap, tag, "other")
               /\ WarningOf(doc, i, tag).operator = OperatorId(doc, walk, i)
    BY DEF WarningOf
  <1>10. /\ part \in [DOMAIN w -> DOMAIN walk]
         /\ \A k \in DOMAIN w :
              \E j \in DOMAIN TagsAt(doc, part[k]) :
                w[k] = WarningOf(doc, part[k], TagsAt(doc, part[k])[j])
         /\ \A k, m \in DOMAIN w : k < m => part[k] <= part[m]
         /\ \A i \in DOMAIN walk : \A j \in DOMAIN TagsAt(doc, i) :
              \E k \in DOMAIN w : w[k] = WarningOf(doc, i, TagsAt(doc, i)[j])
    BY <1>6, <1>8 DEF WarningsFollow
  <1> HIDE DEF walk, ops, w
  <1>11. ASSUME NEW k \in DOMAIN w
         PROVE  part[k] \in DOMAIN walk /\ w[k].operator = ops[part[k]].id
    BY <1>3, <1>9, <1>10
  <1>12. ASSUME NEW k \in DOMAIN w, NEW i \in DOMAIN walk, w[k].operator = ops[i].id
         PROVE  part[k] = i
    BY <1>4, <1>11, <1>12
  <1>13. ops \in Seq(ToSet(ops)) /\ ops # <<>>
    <2>1. \A i \in 1 .. Len(walk) : ops[i] \in ToSet(ops)
      BY <1>1, <1>2 DEF ToSet
    <2>2. ops = [i \in 1 .. Len(walk) |-> ops[i]]
      BY <1>1, <1>2
    <2>3. ops \in Seq(ToSet(ops))
      BY <1>2, <2>1, <2>2
    <2>4. QED
      BY <1>1, <1>2, <2>3
  <1>14. ASSUME NEW k \in DOMAIN w, NEW m \in DOMAIN w, NEW i \in DOMAIN ops, NEW j \in DOMAIN ops,
                k < m, w[k].operator = ops[i].id, w[m].operator = ops[j].id
         PROVE  i <= j
    <2>1. part[k] = i /\ part[m] = j
      BY <1>1, <1>12, <1>14
    <2>2. QED
      BY <1>10, <1>14, <2>1
  <1>15. ASSUME NEW i \in DOMAIN ops
         PROVE  ops[i].spill <=>
                  \E k \in DOMAIN w : w[k].type = "tempdb_spill" /\ w[k].operator = ops[i].id
    <2>1. ASSUME NEW j \in DOMAIN TagsAt(doc, i), TagsAt(doc, i)[j] = "SpillToTempDb"
          PROVE  \E k \in DOMAIN w : w[k].type = "tempdb_spill" /\ w[k].operator = ops[i].id
      <3>1. PICK k \in DOMAIN w : w[k] = WarningOf(doc, i, TagsAt(doc, i)[j])
        BY <1>1, <1>10
      <3>2. w[k].operator = ops[i].id
        BY <1>1, <1>3, <1>9, <3>1
      <3>3. w[k].type = Get(WarningTagMap, "SpillToTempDb", "other")
        BY <1>9, <2>1, <3>1
      <3>4. Get(WarningTagMap, "SpillToTempDb", "other") = "tempdb_spill"
        BY DEF Get, WarningTagMap
      <3>5. QED
        BY <3>2, <3>3, <3>4
    <2>2. ASSUME NEW k \in DOMAIN w, w[k].type = "tempdb_spill", w[k].operator = ops[i].id
          PROVE  \E j \in DOMAIN TagsAt(doc, i) : TagsAt(doc, i)[j] = "SpillToTempDb"
      <3>1. part[k] = i
        BY <1>1, <1>12, <2>2
      <3>2. PICK j \in DOMAIN TagsAt(doc, i) : w[k] = WarningOf(doc, i, TagsAt(doc, i)[j])
        BY <1>10, <3>1
      <3>3. TagsAt(doc, i)[j] \in STRING
        BY <1>1, <1>3
      <3>4. Get(WarningTagMap, TagsAt(doc, i)[j], "other") = "tempdb_spill"
        BY <1>9, <2>2, <3>2
      <3>5. QED
        BY <3>3, <3>4, WarningTags
    <2>3. QED
      BY <1>1, <1>3, <2>1, <2>2
  <1>16. p.missing \in Seq(ToSet(p.missing))
    <2>1. p.missing \in Seq(Missing)
      BY <1>1, MissingOfThePlan
    <2>2. DOMAIN p.missing = 1 .. Len(p.missing) /\ Len(p.missing) \in Nat
          /\ p.missing = [k \in 1 .. Len(p.missing) |-> p.missing[k]]
      BY <2>1
    <2>3. \A k \in 1 .. Len(p.missing) : p.missing[k] \in ToSet(p.missing)
      BY <2>2 DEF ToSet
    <2>4. QED
      BY <2>2, <2>3
  <1>17. QED
    <2>1. \A i, j \in DOMAIN ops : ops[i].id = ops[j].id => i = j
      BY <1>1, <1>4
    <2>2. \A k, m \in DOMAIN w, i, j \in DOMAIN ops :
            k < m /\ w[k].operator = ops[i].id /\ w[m].operator = ops[j].id => i <= j
      BY <1>14
    <2>3. QED
      BY <1>7, <1>13, <1>15, <1>16, <2>1, <2>2 DEF IsPlan, ops, w

(* Each table and each name test gives a value of its type.                *)
LEMMA OperatorTypesAreTyped ==
  ASSUME NEW physical, NEW logical, NEW lookup
  PROVE  /\ OperatorType(physical, logical, lookup) \in OperatorTypes
         /\ AccessType(physical, lookup) \in AccessTypes \cup {None}
         /\ JoinType(physical, logical) \in JoinTypes \cup {None}
  <1>1. OperatorType(physical, logical, lookup) \in OperatorTypes
    <2>1. Get(PhysicalOpMap, physical, "other") \in OperatorTypes
      BY DEF Get, PhysicalOpMap, OperatorTypes
    <2>2. Get(HashMatchLogicalOpMap, logical, "other") \in OperatorTypes
      BY DEF Get, HashMatchLogicalOpMap, OperatorTypes
    <2>3. "bookmark_lookup" \in OperatorTypes
      BY DEF OperatorTypes
    <2>4. QED
      BY <2>1, <2>2, <2>3 DEF OperatorType
  <1>2. AccessType(physical, lookup) \in AccessTypes \cup {None}
    BY DEF AccessType, AccessTypes
  <1>3. JoinType(physical, logical) \in JoinTypes \cup {None}
    BY DEF JoinType, JoinTypes
  <1>4. QED
    BY <1>1, <1>2, <1>3

(* The run keeps its types for any showplans: what the tables make of an   *)
(* operator or a warning is of the types the rules are written for, and    *)
(* the summary counts every operator of the plan.                          *)
THEOREM RunTypeCorrect == RunSpec => []RunTypeOK
  <1>1. IInv /\ RunInv => RunTypeOK
    <2> SUFFICES ASSUME IInv, RunInv PROVE RunTypeOK
      OBVIOUS
    <2>1. TypeOK
      BY DEF IInv
    <2>2. /\ stage \in Stages /\ ending \in Endings
          /\ (stage = "ended") <=> (ending # "none")
      BY DEF RunInv, ControlOK
    <2>3. ASSUME plan # None
          PROVE  /\ \A i \in DOMAIN plan.operators :
                      /\ plan.operators[i].type \in OperatorTypes
                      /\ plan.operators[i].access \in AccessTypes \cup {None}
                      /\ plan.operators[i].join \in JoinTypes \cup {None}
                 /\ \A k \in DOMAIN plan.warnings : plan.warnings[k].type \in WarningTypes
      <3>1. plan = ParsePlan(document) /\ IsShowplan(document)
        BY <2>3, DocumentsAreShowplans DEF RunInv, ParsedOK
      <3>2. /\ plan.operators =
                 [i \in DOMAIN Walk(document) |-> BuildOperator(document, Walk(document), i)]
            /\ DOMAIN plan.operators = DOMAIN Walk(document)
        BY <3>1, PlanOperators
      <3>3. ASSUME NEW i \in DOMAIN plan.operators
            PROVE  /\ plan.operators[i].type \in OperatorTypes
                   /\ plan.operators[i].access \in AccessTypes \cup {None}
                   /\ plan.operators[i].join \in JoinTypes \cup {None}
        <4>1. plan.operators[i] = BuildOperator(document, Walk(document), i)
          BY <3>2
        <4>2. QED
          BY <4>1, OperatorTypesAreTyped DEF BuildOperator
      <3>4. plan.warnings \in Seq([type : WarningTypes, operator : Ids(plan)])
        BY <3>1, ParsedIsPlan DEF IsPlan
      <3>5. \A k \in DOMAIN plan.warnings : plan.warnings[k].type \in WarningTypes
        <4> DEFINE Warning == [type : WarningTypes, operator : Ids(plan)]
        <4>1. \A x \in Warning : x.type \in WarningTypes
          OBVIOUS
        <4>2. plan.warnings \in Seq(Warning)
          BY <3>4
        <4> HIDE DEF Warning
        <4>3. QED
          BY <4>1, <4>2
      <3>6. QED
        BY <3>3, <3>5
    <2>4. ASSUME Analysed
          PROVE  /\ summary.statement.type \in StatementTypes
                 /\ summary.operator_count = Cardinality(RelOps(document))
      <3>1. /\ plan = ParsePlan(document) /\ IsShowplan(document)
            /\ summary = Summarize(plan)
        BY <2>4, DocumentsAreShowplans DEF RunInv, AnalysedOK
      <3>2. summary.operator_count = Len(plan.operators) /\ summary.statement = plan.statement
        BY <3>1 DEF Summarize
      <3>3. Len(plan.operators) = Cardinality(RelOps(document))
        BY <3>1, PlanOperators
      <3>4. plan.statement.type \in StatementTypes
        BY <3>1 DEF ParsePlan, StatementOf, StatementTypes
      <3>5. QED
        BY <3>2, <3>3, <3>4
    <2>5. QED
      BY <2>1, <2>2, <2>3, <2>4 DEF RunTypeOK, Stages
  <1>2. QED
    BY <1>1, RunInductive, PTL

-----------------------------------------------------------------------------

(* pos says which element of s is the k-th of r, which is s sorted.        *)
SortedFrom(r, s, pos) ==
  /\ Len(r) = Len(s)
  /\ pos \in [1 .. Len(s) -> 1 .. Len(s)]
  /\ \A k \in 1 .. Len(s) : r[k] = s[pos[k]]
  /\ \A i \in 1 .. Len(s) : \E k \in 1 .. Len(s) : pos[k] = i
  /\ \A k, m \in 1 .. Len(s) : k < m =>
       LET f == s[pos[k]].severity
           g == s[pos[m]].severity
       IN \/ f = "critical" /\ g # "critical"
          \/ f = "warning" /\ g = "info"
          \/ f = g /\ pos[k] < pos[m]

(* p says which elements of s are of a severity.                           *)
OnesOf(p, s, severity) ==
  /\ Lists(p, {i \in 1 .. Len(s) : s[i].severity = severity})
  /\ Len(p) = Len(OfSeverity(s, severity))
  /\ \A k \in 1 .. Len(p) : OfSeverity(s, severity)[k] = s[p[k]]

(* Those of one severity stay in their order.                              *)
LEMMA SeverityLists ==
  ASSUME NEW T, NEW s \in Seq(T), NEW severity
  PROVE  OfSeverity(s, severity) \in Seq(T) /\ \E p : OnesOf(p, s, severity)
  <1> DEFINE I == {i \in DOMAIN s : s[i].severity = severity}
  <1>1. DOMAIN s = 1 .. Len(s) /\ I \in SUBSET DOMAIN s
    OBVIOUS
  <1>2. OfSeverity(s, severity) = Kept(s, I)
    BY DEF OfSeverity
  <1>3. I = {i \in 1 .. Len(s) : s[i].severity = severity}
    BY <1>1
  <1> HIDE DEF I
  <1>4. PICK p : /\ Lists(p, I) /\ Len(p) = Len(Kept(s, I))
                 /\ \A k \in DOMAIN p : Kept(s, I)[k] = s[p[k]]
    BY <1>1, KeptFacts
  <1>5. DOMAIN p = 1 .. Len(p) /\ Kept(s, I) \in Seq(T)
    BY <1>1, <1>4, ListFacts, KeptFacts
  <1>6. OnesOf(p, s, severity)
    BY <1>2, <1>3, <1>4, <1>5 DEF OnesOf
  <1>7. QED
    BY <1>2, <1>5, <1>6

(* The sort loses nothing, puts the worst first and is stable.             *)
LEMMA SortFacts ==
  ASSUME NEW T, NEW s \in Seq(T),
         \A i \in 1 .. Len(s) : s[i].severity \in {"critical", "warning", "info"}
  PROVE  BySeverity(s) \in Seq(T) /\ \E pos : SortedFrom(BySeverity(s), s, pos)
  <1> DEFINE N == Len(s)
             I(severity) == {i \in 1 .. Len(s) : s[i].severity = severity}
             c == OfSeverity(s, "critical")
             w == OfSeverity(s, "warning")
             v == OfSeverity(s, "info")
  <1>1. BySeverity(s) = (c \o w) \o v
    BY DEF BySeverity, Severities
  <1>2. PICK p : OnesOf(p, s, "critical")
    BY SeverityLists
  <1>3. PICK q : OnesOf(q, s, "warning")
    BY SeverityLists
  <1>4. PICK r : OnesOf(r, s, "info")
    BY SeverityLists
  <1>5. N \in Nat
    OBVIOUS
  <1> DEFINE A == I("critical")
             B == I("warning")
             D == I("info")
  <1>6. /\ A \in SUBSET (1 .. N) /\ B \in SUBSET (1 .. N) /\ D \in SUBSET (1 .. N)
        /\ A \in SUBSET Nat /\ B \in SUBSET Nat /\ D \in SUBSET Nat
        /\ A \cap B = {} /\ (A \cup B) \cap D = {} /\ (A \cup B) \cup D = 1 .. N
        /\ \A i \in 1 .. N : /\ s[i].severity = "critical" <=> i \in A
                             /\ s[i].severity = "warning" <=> i \in B
                             /\ s[i].severity = "info" <=> i \in D
    BY <1>5
  <1>7. Lists(p, A) /\ Lists(q, B) /\ Lists(r, D)
    BY <1>2, <1>3, <1>4 DEF OnesOf
  <1> HIDE DEF I, A, B, D, c, w, v, N
  <1> DEFINE a == Len(p)
             b == Len(q)
             d == Len(r)
  <1>8. /\ IsFiniteSet(A) /\ Cardinality(A) = a
        /\ IsFiniteSet(B) /\ Cardinality(B) = b
        /\ IsFiniteSet(D) /\ Cardinality(D) = d
    BY <1>6, <1>7, ListLength
  <1>9. a + b + d = N
    <2>1. Cardinality(A \cup B) = a + b /\ IsFiniteSet(A \cup B)
      <3>1. Cardinality(A \cap B) = 0
        BY <1>6, FS_EmptySet
      <3>2. Cardinality(A \cup B) = Cardinality(A) + Cardinality(B) - Cardinality(A \cap B)
            /\ IsFiniteSet(A \cup B)
        BY <1>8, FS_Union
      <3>3. a \in Nat /\ b \in Nat
        BY <1>7, ListFacts
      <3>4. QED
        BY <1>8, <3>1, <3>2, <3>3
    <2>2. Cardinality((A \cup B) \cup D) = (a + b) + d
      <3>1. Cardinality((A \cup B) \cap D) = 0
        BY <1>6, FS_EmptySet
      <3>2. Cardinality((A \cup B) \cup D)
              = Cardinality(A \cup B) + Cardinality(D) - Cardinality((A \cup B) \cap D)
        BY <1>8, <2>1, FS_Union
      <3>3. a \in Nat /\ b \in Nat /\ d \in Nat
        BY <1>7, ListFacts
      <3>4. QED
        BY <1>8, <2>1, <3>1, <3>2, <3>3
    <2>3. Cardinality(1 .. N) = N
      BY <1>5, FS_Interval
    <2>4. QED
      BY <1>6, <2>2, <2>3
  <1>10. /\ a \in Nat /\ b \in Nat /\ d \in Nat
         /\ \A k \in 1 .. a : p[k] \in A
         /\ \A k \in 1 .. b : q[k] \in B
         /\ \A k \in 1 .. d : r[k] \in D
         /\ \A i \in A : \E k \in 1 .. a : p[k] = i
         /\ \A i \in B : \E k \in 1 .. b : q[k] = i
         /\ \A i \in D : \E k \in 1 .. d : r[k] = i
         /\ \A k, m \in 1 .. a : k < m => p[k] < p[m]
         /\ \A k, m \in 1 .. b : k < m => q[k] < q[m]
         /\ \A k, m \in 1 .. d : k < m => r[k] < r[m]
    <2>1. DOMAIN p = 1 .. a /\ DOMAIN q = 1 .. b /\ DOMAIN r = 1 .. d
          /\ a \in Nat /\ b \in Nat /\ d \in Nat
      BY <1>7, ListFacts
    <2>2. /\ \A k \in 1 .. a : p[k] \in A
          /\ \A k \in 1 .. b : q[k] \in B
          /\ \A k \in 1 .. d : r[k] \in D
      BY <1>7, <2>1, ListFacts
    <2>3. QED
      BY <1>7, <2>1, <2>2 DEF Lists
  <1>11. /\ c \in Seq(T) /\ w \in Seq(T) /\ v \in Seq(T)
         /\ Len(c) = a /\ Len(w) = b /\ Len(v) = d
         /\ \A k \in 1 .. a : c[k] = s[p[k]]
         /\ \A k \in 1 .. b : w[k] = s[q[k]]
         /\ \A k \in 1 .. d : v[k] = s[r[k]]
    BY <1>2, <1>3, <1>4, SeverityLists DEF OnesOf, c, w, v
  <1>12. /\ (c \o w) \o v \in Seq(T) /\ Len((c \o w) \o v) = a + b + d
         /\ \A k \in 1 .. a : ((c \o w) \o v)[k] = s[p[k]]
         /\ \A k \in 1 .. b : ((c \o w) \o v)[a + k] = s[q[k]]
         /\ \A k \in 1 .. d : ((c \o w) \o v)[a + b + k] = s[r[k]]
    <2> HIDE DEF a, b, d
    <2> DEFINE x == c \o w
    <2>1. c \in Seq(T) /\ w \in Seq(T) /\ v \in Seq(T)
      BY <1>11
    <2>2. /\ x \in Seq(T) /\ Len(x) = Len(c) + Len(w)
          /\ \A k \in 1 .. Len(c) : x[k] = c[k]
          /\ \A k \in 1 .. Len(w) : x[Len(c) + k] = w[k]
      BY <2>1, ConcatFacts
    <2> HIDE DEF x
    <2>3. /\ x \o v \in Seq(T) /\ Len(x \o v) = Len(x) + Len(v)
          /\ \A k \in 1 .. Len(x) : (x \o v)[k] = x[k]
          /\ \A k \in 1 .. Len(v) : (x \o v)[Len(x) + k] = v[k]
      <3>1. x \in Seq(T) /\ v \in Seq(T)
        BY <2>1, <2>2
      <3>2. QED
        BY <3>1, ConcatFacts
    <2>4. /\ \A k \in 1 .. a : k \in 1 .. a + b
          /\ \A k \in 1 .. b : a + k \in 1 .. a + b
      BY <1>10
    <2>5. /\ x \o v \in Seq(T) /\ Len(x) = a + b /\ Len(x \o v) = (a + b) + d
      BY <1>11, <2>2, <2>3
    <2>6. ASSUME NEW k \in 1 .. a PROVE (x \o v)[k] = s[p[k]]
      BY <1>11, <2>2, <2>3, <2>4, <2>5
    <2>7. ASSUME NEW k \in 1 .. b PROVE (x \o v)[a + k] = s[q[k]]
      <3>1. a + k \in 1 .. Len(x) /\ x[a + k] = w[k]
        BY <1>11, <2>2, <2>4, <2>5
      <3>2. QED
        BY <1>11, <2>3, <3>1
    <2>8. ASSUME NEW k \in 1 .. d PROVE (x \o v)[a + b + k] = s[r[k]]
      BY <1>11, <2>3, <2>5
    <2>9. QED
      BY <2>5, <2>6, <2>7, <2>8 DEF x
  <1> DEFINE u == (c \o w) \o v
             pos == [k \in 1 .. N |-> IF k <= a THEN p[k]
                                      ELSE IF k <= a + b THEN q[k - a] ELSE r[k - (a + b)]]
  <1> HIDE DEF u, a, b, d
  <1>13. \A k \in 1 .. N :
           \/ k \in 1 .. a /\ pos[k] = p[k] /\ p[k] \in A /\ u[k] = s[p[k]]
           \/ /\ k - a \in 1 .. b /\ pos[k] = q[k - a] /\ q[k - a] \in B /\ u[k] = s[q[k - a]]
              /\ k > a
           \/ /\ k - (a + b) \in 1 .. d /\ pos[k] = r[k - (a + b)] /\ r[k - (a + b)] \in D
              /\ u[k] = s[r[k - (a + b)]] /\ k > a + b
    <2> SUFFICES ASSUME NEW k \in 1 .. N
                 PROVE  \/ k \in 1 .. a /\ pos[k] = p[k] /\ p[k] \in A /\ u[k] = s[p[k]]
                        \/ /\ k - a \in 1 .. b /\ pos[k] = q[k - a] /\ q[k - a] \in B
                           /\ u[k] = s[q[k - a]] /\ k > a
                        \/ /\ k - (a + b) \in 1 .. d /\ pos[k] = r[k - (a + b)]
                           /\ r[k - (a + b)] \in D /\ u[k] = s[r[k - (a + b)]] /\ k > a + b
      OBVIOUS
    <2>1. CASE k <= a
      <3>1. k \in 1 .. a /\ pos[k] = p[k]
        BY <1>5, <1>10, <2>1
      <3>2. u[k] = s[p[k]] /\ p[k] \in A
        BY <1>10, <1>12, <3>1 DEF u
      <3>3. QED
        BY <3>1, <3>2
    <2>2. CASE ~ (k <= a) /\ k <= a + b
      <3>1. k - a \in 1 .. b /\ k = a + (k - a) /\ pos[k] = q[k - a] /\ k > a
        BY <1>5, <1>9, <1>10, <2>2
      <3>2. u[a + (k - a)] = s[q[k - a]] /\ q[k - a] \in B
        BY <1>10, <1>12, <3>1 DEF u
      <3>3. QED
        BY <3>1, <3>2
    <2>3. CASE ~ (k <= a) /\ ~ (k <= a + b)
      <3>1. k - (a + b) \in 1 .. d /\ k = a + b + (k - (a + b)) /\ pos[k] = r[k - (a + b)]
            /\ k > a + b
        BY <1>5, <1>9, <1>10, <2>3
      <3>2. u[a + b + (k - (a + b))] = s[r[k - (a + b)]] /\ r[k - (a + b)] \in D
        BY <1>10, <1>12, <3>1 DEF u
      <3>3. QED
        BY <3>1, <3>2
    <2>4. QED
      BY <2>1, <2>2, <2>3
  <1>14. /\ \A k \in 1 .. a : k \in 1 .. N /\ pos[k] = p[k]
         /\ \A k \in 1 .. b : a + k \in 1 .. N /\ pos[a + k] = q[k]
         /\ \A k \in 1 .. d : a + b + k \in 1 .. N /\ pos[a + b + k] = r[k]
    BY <1>5, <1>9, <1>10
  <1>15. pos = [k \in 1 .. N |-> pos[k]]
    OBVIOUS
  <1> HIDE DEF pos
  <1>16. pos \in [1 .. N -> 1 .. N] /\ \A k \in 1 .. N : u[k] = s[pos[k]]
    <2>1. \A k \in 1 .. N : pos[k] \in 1 .. N /\ u[k] = s[pos[k]]
      BY <1>6, <1>13
    <2>2. QED
      BY <1>15, <2>1
  <1>17. ASSUME NEW i \in 1 .. N PROVE \E k \in 1 .. N : pos[k] = i
    <2>1. i \in A \/ i \in B \/ i \in D
      BY <1>6
    <2>2. CASE i \in A
      BY <1>10, <1>14, <2>2
    <2>3. CASE i \in B
      BY <1>10, <1>14, <2>3
    <2>4. CASE i \in D
      <3>1. PICK k \in 1 .. d : r[k] = i
        BY <1>10, <2>4
      <3>2. a + b + k \in 1 .. N /\ pos[a + b + k] = i
        BY <1>14, <3>1
      <3>3. QED
        BY <3>2
    <2>5. QED
      BY <2>1, <2>2, <2>3, <2>4
  <1>18. ASSUME NEW k \in 1 .. N, NEW m \in 1 .. N, k < m
         PROVE  \/ pos[k] \in A /\ pos[m] \notin A
                \/ pos[k] \in B /\ pos[m] \in D
                \/ /\ pos[k] < pos[m]
                   /\ \/ pos[k] \in A /\ pos[m] \in A
                      \/ pos[k] \in B /\ pos[m] \in B
                      \/ pos[k] \in D /\ pos[m] \in D
    <2>1. CASE k \in 1 .. a /\ pos[k] = p[k] /\ p[k] \in A
      <3>1. CASE m \in 1 .. a /\ pos[m] = p[m] /\ p[m] \in A
        BY <1>10, <1>18, <2>1, <3>1
      <3>2. CASE pos[m] \in B \/ pos[m] \in D
        BY <1>6, <2>1, <3>2
      <3>3. QED
        BY <1>13, <3>1, <3>2
    <2>2. CASE k - a \in 1 .. b /\ pos[k] = q[k - a] /\ q[k - a] \in B /\ k > a
      <3>1. CASE m - a \in 1 .. b /\ pos[m] = q[m - a] /\ q[m - a] \in B
        <4>1. k - a < m - a
          BY <1>5, <1>10, <1>18
        <4>2. QED
          BY <1>10, <2>2, <3>1, <4>1
      <3>2. CASE pos[m] \in D
        BY <2>2, <3>2
      <3>3. ~ (m \in 1 .. a)
        BY <1>5, <1>10, <1>18, <2>2
      <3>4. QED
        BY <1>13, <3>1, <3>2, <3>3
    <2>3. CASE k - (a + b) \in 1 .. d /\ pos[k] = r[k - (a + b)] /\ r[k - (a + b)] \in D /\ k > a + b
      <3>1. CASE m - (a + b) \in 1 .. d /\ pos[m] = r[m - (a + b)] /\ r[m - (a + b)] \in D
        <4>1. k - (a + b) < m - (a + b)
          BY <1>5, <1>10, <1>18
        <4>2. QED
          BY <1>10, <2>3, <3>1, <4>1
      <3>2. ~ (m \in 1 .. a) /\ ~ (m - a \in 1 .. b)
        BY <1>5, <1>10, <1>18, <2>3
      <3>3. QED
        BY <1>13, <3>1, <3>2
    <2>4. QED
      BY <1>13, <2>1, <2>2, <2>3
  <1>19. SortedFrom(u, s, pos)
    <2>1. ASSUME NEW k \in 1 .. N, NEW m \in 1 .. N, k < m
          PROVE  \/ s[pos[k]].severity = "critical" /\ s[pos[m]].severity # "critical"
                 \/ s[pos[k]].severity = "warning" /\ s[pos[m]].severity = "info"
                 \/ s[pos[k]].severity = s[pos[m]].severity /\ pos[k] < pos[m]
      <3>1. pos[k] \in 1 .. N /\ pos[m] \in 1 .. N
        BY <1>16
      <3>2. QED
        BY <1>6, <1>18, <2>1, <3>1
    <2>2. Len(u) = N
      BY <1>9, <1>12 DEF u
    <2>3. QED
      BY <1>16, <1>17, <2>1, <2>2 DEF SortedFrom, N
  <1>20. QED
    BY <1>1, <1>12, <1>19 DEF u

-----------------------------------------------------------------------------

Rules ==
  {WarningRule(t) : t \in WarningTypes} \cup
  {"large_table_scan", "cardinality_skew", "non_covering_key_lookup",
   "missing_index_available", "parallelism_used"}

(* What the rules may say of plan p.                                       *)
FindingsIn(p) ==
  [rule : Rules, severity : {"critical", "warning", "info"},
   operator : Ids(p) \cup {None},
   object : {p.operators[i].object : i \in DOMAIN p.operators} \cup {None},
   suggested_fix : {MissingIndexScript(mi) : mi \in ToSet(p.missing)} \cup {None}]

(* s is what one rule finds: in the order of the operators it names.       *)
Segment(s, p, order) ==
  /\ s \in Seq(FindingsIn(p))
  /\ \A k \in 1 .. Len(s) :
       /\ RuleOrder(s[k].rule) = order
       /\ order # 5 => s[k].operator \in Ids(p)
       /\ order = 5 => s[k].operator = None
  /\ \A k, m \in 1 .. Len(s), i, j \in DOMAIN p.operators :
       k < m /\ s[k].operator = p.operators[i].id
             /\ s[m].operator = p.operators[j].id => i <= j

(* s is what the rules up to the last find, one after the other.           *)
Ordered(s, p, last) ==
  /\ s \in Seq(FindingsIn(p))
  /\ \A k \in 1 .. Len(s) :
       /\ RuleOrder(s[k].rule) \in 1 .. last
       /\ RuleOrder(s[k].rule) # 5 => s[k].operator \in Ids(p)
       /\ RuleOrder(s[k].rule) = 5 => s[k].operator = None
  /\ \A k, m \in 1 .. Len(s) : k < m =>
       /\ RuleOrder(s[k].rule) <= RuleOrder(s[m].rule)
       /\ RuleOrder(s[k].rule) = RuleOrder(s[m].rule) =>
            \A i, j \in DOMAIN p.operators :
              s[k].operator = p.operators[i].id /\ s[m].operator = p.operators[j].id => i <= j

(* The rules of the warnings are seven, and none of the others.            *)
LEMMA WarningRules ==
  /\ \A t \in WarningTypes :
       WarningRule(t) \in {"adapter_warning.implicit_conversion", "adapter_warning.tempdb_spill",
                           "adapter_warning.no_join_predicate",
                           "adapter_warning.column_with_no_stats",
                           "adapter_warning.memory_grant_excessive",
                           "adapter_warning.cardinality_skew", "adapter_warning.other"}
  /\ \A t \in WarningTypes : WarningRule(t) = WarningRule("tempdb_spill") => t = "tempdb_spill"
  BY DEF WarningTypes, WarningRule

(* The rules in the order they are applied.                                *)
LEMMA RuleOrders ==
  /\ \A t \in WarningTypes : RuleOrder(WarningRule(t)) = 1
  /\ RuleOrder("large_table_scan") = 2
  /\ RuleOrder("cardinality_skew") = 3
  /\ RuleOrder("non_covering_key_lookup") = 4
  /\ RuleOrder("missing_index_available") = 5
  /\ RuleOrder("parallelism_used") = 6
  <1> DEFINE W == {WarningRule(t) : t \in WarningTypes}
  <1>1. \A r \in {"large_table_scan", "cardinality_skew", "non_covering_key_lookup",
                  "missing_index_available", "parallelism_used"} : r \notin W
    BY WarningRules
  <1>2. \A t \in WarningTypes : WarningRule(t) \in W
    OBVIOUS
  <1>3. \A r : RuleOrder(r) = CASE r \in W -> 1
                                [] r = "large_table_scan" -> 2
                                [] r = "cardinality_skew" -> 3
                                [] r = "non_covering_key_lookup" -> 4
                                [] r = "missing_index_available" -> 5
                                [] r = "parallelism_used" -> 6
    BY DEF RuleOrder
  <1> HIDE DEF W
  <1>4. ASSUME NEW t \in WarningTypes PROVE RuleOrder(WarningRule(t)) = 1
    <2>1. WarningRule(t) \in W /\ WarningRule(t) \notin
            {"large_table_scan", "cardinality_skew", "non_covering_key_lookup",
             "missing_index_available", "parallelism_used"}
      BY <1>1, <1>2
    <2>2. QED
      BY <1>3, <2>1
  <1>5. QED
    BY <1>1, <1>3, <1>4

(* What the next rule finds comes last.                                    *)
LEMMA OneMoreRule ==
  ASSUME NEW p, NEW s, NEW t, NEW last \in Nat, Ordered(s, p, last), Segment(t, p, last + 1)
  PROVE  Ordered(s \o t, p, last + 1)
  <1> DEFINE u == s \o t
             a == Len(s)
             b == Len(t)
             R(f) == RuleOrder(f.rule)
             Near(f, g) == \A i, j \in DOMAIN p.operators :
                             f.operator = p.operators[i].id /\ g.operator = p.operators[j].id
                               => i <= j
  <1>1. s \in Seq(FindingsIn(p)) /\ t \in Seq(FindingsIn(p)) /\ a \in Nat /\ b \in Nat
    BY DEF Ordered, Segment
  <1>2. /\ u \in Seq(FindingsIn(p)) /\ Len(u) = a + b
        /\ \A k \in 1 .. a : u[k] = s[k]
        /\ \A k \in 1 .. b : u[a + k] = t[k]
        /\ \A k \in 1 .. a + b : k \in 1 .. a \/ (k - a \in 1 .. b /\ k = a + (k - a))
    BY <1>1, ConcatFacts
  <1>3. /\ \A k \in 1 .. a : R(s[k]) \in 1 .. last
        /\ \A k, m \in 1 .. a : k < m => R(s[k]) <= R(s[m])
        /\ \A k, m \in 1 .. a : k < m /\ R(s[k]) = R(s[m]) => Near(s[k], s[m])
    BY DEF Ordered
  <1>4. /\ \A k \in 1 .. b : R(t[k]) = last + 1
        /\ \A k, m \in 1 .. b : k < m => Near(t[k], t[m])
    BY DEF Segment
  <1>5. /\ \A k \in 1 .. a : /\ R(s[k]) # 5 => s[k].operator \in Ids(p)
                             /\ R(s[k]) = 5 => s[k].operator = None
        /\ \A k \in 1 .. b : /\ R(t[k]) # 5 => t[k].operator \in Ids(p)
                             /\ R(t[k]) = 5 => t[k].operator = None
    BY DEF Ordered, Segment
  <1> HIDE DEF u, a, b, R, Near
  <1>6. ASSUME NEW k \in 1 .. a + b
        PROVE  /\ R(u[k]) \in 1 .. last + 1
               /\ R(u[k]) # 5 => u[k].operator \in Ids(p)
               /\ R(u[k]) = 5 => u[k].operator = None
    <2>1. CASE k \in 1 .. a
      <3>1. u[k] = s[k] /\ R(s[k]) \in 1 .. last + 1
        BY <1>2, <1>3, <2>1
      <3>2. QED
        BY <1>5, <2>1, <3>1
    <2>2. CASE k - a \in 1 .. b /\ k = a + (k - a)
      <3>1. u[k] = t[k - a] /\ R(t[k - a]) \in 1 .. last + 1
        BY <1>2, <1>4, <2>2
      <3>2. QED
        BY <1>5, <2>2, <3>1
    <2>3. QED
      BY <1>2, <2>1, <2>2
  <1>7. ASSUME NEW k \in 1 .. a + b, NEW m \in 1 .. a + b, k < m
        PROVE  R(u[k]) <= R(u[m]) /\ (R(u[k]) = R(u[m]) => Near(u[k], u[m]))
    <2>1. CASE m \in 1 .. a
      <3>1. k \in 1 .. a
        BY <1>1, <1>7, <2>1
      <3>2. u[k] = s[k] /\ u[m] = s[m]
        BY <1>2, <2>1, <3>1
      <3>3. QED
        BY <1>3, <1>7, <2>1, <3>1, <3>2
    <2>2. CASE k \in 1 .. a /\ m - a \in 1 .. b /\ m = a + (m - a)
      <3>1. u[k] = s[k] /\ u[m] = t[m - a]
        BY <1>2, <2>2
      <3>2. R(u[k]) \in 1 .. last /\ R(u[m]) = last + 1
        BY <1>3, <1>4, <2>2, <3>1
      <3>3. QED
        BY <3>2
    <2>3. CASE k - a \in 1 .. b /\ k = a + (k - a) /\ m - a \in 1 .. b /\ m = a + (m - a)
      <3>1. u[k] = t[k - a] /\ u[m] = t[m - a] /\ k - a < m - a
        BY <1>1, <1>2, <1>7, <2>3
      <3>2. R(u[k]) = last + 1 /\ R(u[m]) = last + 1 /\ Near(u[k], u[m])
        BY <1>4, <2>3, <3>1
      <3>3. QED
        BY <3>2
    <2>4. QED
      BY <1>2, <2>1, <2>2, <2>3
  <1>8. Ordered(u, p, last + 1)
    BY <1>2, <1>6, <1>7 DEF Ordered, R, Near
  <1>9. QED
    BY <1>8 DEF u

(* The warnings come in the order of their operators.                      *)
LEMMA PromotedSegment ==
  ASSUME NEW p, IsPlan(p)
  PROVE  Segment(PromoteAdapterWarnings(p), p, 1)
  <1> DEFINE w == p.warnings
             s == PromoteAdapterWarnings(p)
             Warning == [type : WarningTypes, operator : Ids(p)]
  <1>1. /\ w \in Seq(Warning)
        /\ \A k, m \in DOMAIN w, i, j \in DOMAIN p.operators :
             k < m /\ w[k].operator = p.operators[i].id /\ w[m].operator = p.operators[j].id
               => i <= j
    BY DEF IsPlan
  <1>2. \A x \in Warning : x.type \in WarningTypes /\ x.operator \in Ids(p)
    OBVIOUS
  <1> HIDE DEF Warning
  <1>3. /\ Len(w) \in Nat /\ DOMAIN w = 1 .. Len(w)
        /\ \A k \in 1 .. Len(w) : w[k].type \in WarningTypes /\ w[k].operator \in Ids(p)
    BY <1>1, <1>2
  <1>4. s = [k \in DOMAIN w |-> Finding(WarningRule(w[k].type), PromotedSeverity(w[k].type),
                                        w[k].operator, None, None)]
    BY DEF PromoteAdapterWarnings
  <1> HIDE DEF w, s
  <1>5. ASSUME NEW k \in 1 .. Len(w)
        PROVE  /\ s[k] \in FindingsIn(p)
               /\ s[k].rule = WarningRule(w[k].type) /\ s[k].operator = w[k].operator
    <2>1. s[k] = Finding(WarningRule(w[k].type), PromotedSeverity(w[k].type),
                         w[k].operator, None, None)
      BY <1>3, <1>4
    <2>2. PromotedSeverity(w[k].type) \in {"critical", "warning", "info"}
      BY DEF PromotedSeverity
    <2>3. WarningRule(w[k].type) \in Rules
      BY <1>3 DEF Rules
    <2>4. QED
      BY <1>3, <2>1, <2>2, <2>3 DEF Finding, FindingsIn
  <1>6. s \in Seq(FindingsIn(p)) /\ Len(s) = Len(w)
    BY <1>3, <1>4, <1>5
  <1>7. \A k \in 1 .. Len(s) : RuleOrder(s[k].rule) = 1 /\ s[k].operator \in Ids(p)
    BY <1>3, <1>5, <1>6, RuleOrders
  <1>8. \A k, m \in 1 .. Len(s), i, j \in DOMAIN p.operators :
          k < m /\ s[k].operator = p.operators[i].id /\ s[m].operator = p.operators[j].id
            => i <= j
    BY <1>1, <1>3, <1>5, <1>6
  <1>9. QED
    BY <1>6, <1>7, <1>8 DEF Segment, s

(* s has one finding, of one rule, for each of the operators kept.         *)
OnePerOperator(s, kept, p, order) ==
  /\ s = [k \in DOMAIN kept |-> s[k]]
  /\ \A k \in DOMAIN kept :
       /\ s[k].operator = kept[k].id
       /\ RuleOrder(s[k].rule) = order
       /\ (/\ kept[k].id \in Ids(p)
           /\ kept[k].object \in {p.operators[i].object : i \in DOMAIN p.operators})
             => s[k] \in FindingsIn(p)

(* A rule that goes through the operators and says one thing of some.      *)
LEMMA OperatorSegment ==
  ASSUME NEW p, IsPlan(p), NEW I \in SUBSET DOMAIN p.operators, NEW order \in Nat, order # 5,
         NEW s, OnePerOperator(s, Kept(p.operators, I), p, order)
  PROVE  Segment(s, p, order)
  <1> DEFINE kept == Kept(p.operators, I)
             ops == p.operators
  <1>0. /\ s = [k \in DOMAIN kept |-> s[k]]
        /\ \A k \in DOMAIN kept :
             /\ s[k].operator = kept[k].id
             /\ RuleOrder(s[k].rule) = order
             /\ (/\ kept[k].id \in Ids(p)
                 /\ kept[k].object \in {p.operators[i].object : i \in DOMAIN p.operators})
                   => s[k] \in FindingsIn(p)
    BY DEF OnePerOperator
  <1>1. /\ ops \in Seq(ToSet(ops))
        /\ \A i, j \in DOMAIN ops : ops[i].id = ops[j].id => i = j
    BY DEF IsPlan
  <1>2. PICK q : /\ Lists(q, I) /\ Len(q) = Len(kept)
                 /\ \A k \in DOMAIN q : kept[k] = ops[q[k]]
    BY <1>1, KeptFacts
  <1>3. kept \in Seq(ToSet(ops))
    BY <1>1, KeptFacts
  <1>4. /\ Len(kept) \in Nat /\ DOMAIN kept = 1 .. Len(kept) /\ DOMAIN q = 1 .. Len(kept)
        /\ \A k \in 1 .. Len(kept) : q[k] \in DOMAIN ops
    BY <1>2, <1>3, ListFacts
  <1> HIDE DEF kept
  <1>5. \A k \in 1 .. Len(kept) :
          /\ kept[k].id = ops[q[k]].id /\ kept[k].id \in Ids(p)
          /\ kept[k].object \in {ops[i].object : i \in DOMAIN ops}
    BY <1>2, <1>4 DEF Ids
  <1>6. ASSUME NEW k \in 1 .. Len(kept)
        PROVE  /\ s[k] \in FindingsIn(p) /\ RuleOrder(s[k].rule) = order
               /\ s[k].operator = ops[q[k]].id /\ s[k].operator \in Ids(p)
    BY <1>0, <1>4, <1>5
  <1>7. s \in Seq(FindingsIn(p)) /\ Len(s) = Len(kept)
    BY <1>0, <1>4, <1>6
  <1>8. ASSUME NEW k \in 1 .. Len(s), NEW m \in 1 .. Len(s),
               NEW i \in DOMAIN ops, NEW j \in DOMAIN ops,
               k < m, s[k].operator = ops[i].id, s[m].operator = ops[j].id
        PROVE  i <= j
    <2>1. q[k] = i /\ q[m] = j
      BY <1>1, <1>4, <1>6, <1>7, <1>8
    <2>2. q[k] < q[m]
      BY <1>2, <1>4, <1>7, <1>8 DEF Lists
    <2>3. i \in Nat /\ j \in Nat
      BY <1>1
    <2>4. QED
      BY <2>1, <2>2, <2>3
  <1>9. QED
    BY <1>6, <1>7, <1>8 DEF Segment

(* The scans that read many rows, in the order of their operators.         *)
LEMMA LargeScanSegment ==
  ASSUME NEW p, IsPlan(p)
  PROVE  Segment(CheckLargeScans(p), p, 2)
  <1> DEFINE I == {i \in DOMAIN p.operators : IsLargeScan(p.operators[i])}
             kept == Kept(p.operators, I)
             s == CheckLargeScans(p)
  <1>1. s = [k \in DOMAIN kept |->
               Finding("large_table_scan",
                       IF RowsRead(kept[k]) >= LargeScanCriticalRows THEN "critical" ELSE "warning",
                       kept[k].id, kept[k].object, None)]
    BY DEF CheckLargeScans
  <1> HIDE DEF kept, s
  <1>2. OnePerOperator(s, kept, p, 2)
    <2>1. \A k \in DOMAIN kept :
            /\ s[k].operator = kept[k].id
            /\ RuleOrder(s[k].rule) = 2
            /\ (/\ kept[k].id \in Ids(p)
                /\ kept[k].object \in {p.operators[i].object : i \in DOMAIN p.operators})
                  => s[k] \in FindingsIn(p)
      BY <1>1, RuleOrders DEF Finding, FindingsIn, Rules
    <2>2. s = [k \in DOMAIN kept |-> s[k]]
      BY <1>1
    <2>3. QED
      BY <2>1, <2>2 DEF OnePerOperator
  <1>3. I \in SUBSET DOMAIN p.operators
    OBVIOUS
  <1> HIDE DEF I
  <1>4. Segment(s, p, 2)
    BY <1>2, <1>3, OperatorSegment DEF kept
  <1>5. QED
    BY <1>4 DEF s

(* The operators whose estimate was far off, in their order.               *)
LEMMA SkewSegment ==
  ASSUME NEW p, IsPlan(p)
  PROVE  Segment(CheckCardinalitySkew(p), p, 3)
  <1> DEFINE I == {i \in DOMAIN p.operators : Skewed(p.operators[i])}
             kept == Kept(p.operators, I)
             s == CheckCardinalitySkew(p)
  <1>1. s = [k \in DOMAIN kept |->
               Finding("cardinality_skew", "warning", kept[k].id, None, None)]
    BY DEF CheckCardinalitySkew
  <1> HIDE DEF kept, s
  <1>2. OnePerOperator(s, kept, p, 3)
    <2>1. \A k \in DOMAIN kept :
            /\ s[k].operator = kept[k].id
            /\ RuleOrder(s[k].rule) = 3
            /\ (/\ kept[k].id \in Ids(p)
                /\ kept[k].object \in {p.operators[i].object : i \in DOMAIN p.operators})
                  => s[k] \in FindingsIn(p)
      BY <1>1, RuleOrders DEF Finding, FindingsIn, Rules
    <2>2. s = [k \in DOMAIN kept |-> s[k]]
      BY <1>1
    <2>3. QED
      BY <2>1, <2>2 DEF OnePerOperator
  <1>3. I \in SUBSET DOMAIN p.operators
    OBVIOUS
  <1> HIDE DEF I
  <1>4. Segment(s, p, 3)
    BY <1>2, <1>3, OperatorSegment DEF kept
  <1>5. QED
    BY <1>4 DEF s

(* The bookmark lookups, in their order.                                   *)
LEMMA LookupSegment ==
  ASSUME NEW p, IsPlan(p)
  PROVE  Segment(CheckBookmarkLookups(p), p, 4)
  <1> DEFINE I == {i \in DOMAIN p.operators : p.operators[i].type = "bookmark_lookup"}
             kept == Kept(p.operators, I)
             s == CheckBookmarkLookups(p)
  <1>1. s = [k \in DOMAIN kept |->
               Finding("non_covering_key_lookup", "warning", kept[k].id, kept[k].object, None)]
    BY DEF CheckBookmarkLookups
  <1> HIDE DEF kept, s
  <1>2. OnePerOperator(s, kept, p, 4)
    <2>1. \A k \in DOMAIN kept :
            /\ s[k].operator = kept[k].id
            /\ RuleOrder(s[k].rule) = 4
            /\ (/\ kept[k].id \in Ids(p)
                /\ kept[k].object \in {p.operators[i].object : i \in DOMAIN p.operators})
                  => s[k] \in FindingsIn(p)
      BY <1>1, RuleOrders DEF Finding, FindingsIn, Rules
    <2>2. s = [k \in DOMAIN kept |-> s[k]]
      BY <1>1
    <2>3. QED
      BY <2>1, <2>2 DEF OnePerOperator
  <1>3. I \in SUBSET DOMAIN p.operators
    OBVIOUS
  <1> HIDE DEF I
  <1>4. Segment(s, p, 4)
    BY <1>2, <1>3, OperatorSegment DEF kept
  <1>5. QED
    BY <1>4 DEF s

(* What the engine asks for is of no operator.                             *)
LEMMA MissingSegment ==
  ASSUME NEW p, IsPlan(p)
  PROVE  Segment(CheckMissingIndexes(p), p, 5)
  <1> DEFINE w == p.missing
             s == CheckMissingIndexes(p)
  <1>1. w \in Seq(ToSet(w))
    BY DEF IsPlan
  <1>2. Len(w) \in Nat /\ DOMAIN w = 1 .. Len(w)
    BY <1>1
  <1>3. s = [k \in DOMAIN w |->
               Finding("missing_index_available", ImpactSeverity(w[k].impact), None, None,
                       MissingIndexScript(w[k]))]
    BY DEF CheckMissingIndexes
  <1>4. \A k \in 1 .. Len(w) :
          MissingIndexScript(w[k]) \in {MissingIndexScript(mi) : mi \in ToSet(p.missing)}
    BY <1>2 DEF ToSet
  <1> HIDE DEF w, s
  <1>5. ASSUME NEW k \in 1 .. Len(w)
        PROVE  /\ s[k] \in FindingsIn(p) /\ RuleOrder(s[k].rule) = 5 /\ s[k].operator = None
    <2>1. s[k] = Finding("missing_index_available", ImpactSeverity(w[k].impact), None, None,
                         MissingIndexScript(w[k]))
      BY <1>2, <1>3
    <2>2. ImpactSeverity(w[k].impact) \in {"critical", "warning", "info"}
      BY DEF ImpactSeverity
    <2>3. "missing_index_available" \in Rules
      BY DEF Rules
    <2>4. QED
      BY <1>4, <2>1, <2>2, <2>3, RuleOrders DEF Finding, FindingsIn
  <1>6. s \in Seq(FindingsIn(p)) /\ Len(s) = Len(w)
    BY <1>2, <1>3, <1>5
  <1>7. QED
    <2>1. \A k \in 1 .. Len(s) : RuleOrder(s[k].rule) = 5 /\ s[k].operator = None
      BY <1>5, <1>6
    <2>2. \A i, j \in DOMAIN p.operators :
            p.operators[i].id = p.operators[j].id => i = j /\ i \in Nat
      BY DEF IsPlan
    <2>3. \A k, m \in 1 .. Len(s), i, j \in DOMAIN p.operators :
            k < m /\ s[k].operator = p.operators[i].id
                  /\ s[m].operator = p.operators[j].id => i <= j
      BY <2>1, <2>2
    <2>4. QED
      BY <1>6, <2>1, <2>3 DEF Segment, s

(* The root operator's word on the whole plan.                             *)
LEMMA ParallelSegment ==
  ASSUME NEW p, IsPlan(p)
  PROVE  Segment(CheckParallelism(p), p, 6)
  <1> DEFINE f == Finding("parallelism_used", "info", p.operators[1].id, None, None)
  <1>1. f \in FindingsIn(p) /\ f.operator \in Ids(p) /\ RuleOrder(f.rule) = 6
    <2>1. 1 \in DOMAIN p.operators
      BY DEF IsPlan
    <2>2. p.operators[1].id \in Ids(p)
      BY <2>1 DEF Ids
    <2>3. QED
      BY <2>2, RuleOrders DEF Finding, FindingsIn, Rules
  <1>2. CheckParallelism(p) = <<>> \/ CheckParallelism(p) = <<f>>
    BY DEF CheckParallelism
  <1> HIDE DEF f
  <1>3. Segment(<<>>, p, 6)
    BY DEF Segment
  <1>4. Segment(<<f>>, p, 6)
    <2> DEFINE s == <<f>>
    <2>1. s \in Seq(FindingsIn(p)) /\ Len(s) = 1 /\ s[1] = f
      BY <1>1
    <2> HIDE DEF s
    <2>2. Segment(s, p, 6)
      BY <1>1, <2>1 DEF Segment
    <2>3. QED
      BY <2>2 DEF s
  <1>5. QED
    BY <1>2, <1>3, <1>4

(* Before they are sorted, findings come rule by rule, and in each rule in *)
(* the plan's order.                                                       *)
LEMMA UnsortedIsOrdered ==
  ASSUME NEW p, IsPlan(p)
  PROVE  /\ Ordered(Unsorted(p), p, 6)
         /\ ToSet(Unsorted(p)) =
              (((((ToSet(PromoteAdapterWarnings(p)) \cup ToSet(CheckLargeScans(p)))
                   \cup ToSet(CheckCardinalitySkew(p))) \cup ToSet(CheckBookmarkLookups(p)))
                 \cup ToSet(CheckMissingIndexes(p))) \cup ToSet(CheckParallelism(p)))
  <1> DEFINE a == PromoteAdapterWarnings(p)
             b == CheckLargeScans(p)
             c == CheckCardinalitySkew(p)
             d == CheckBookmarkLookups(p)
             e == CheckMissingIndexes(p)
             f == CheckParallelism(p)
             T == FindingsIn(p)
  <1>1. /\ Segment(a, p, 1) /\ Segment(b, p, 1 + 1) /\ Segment(c, p, 2 + 1)
        /\ Segment(d, p, 3 + 1) /\ Segment(e, p, 4 + 1) /\ Segment(f, p, 5 + 1)
    BY PromotedSegment, LargeScanSegment, SkewSegment, LookupSegment, MissingSegment,
       ParallelSegment
  <1>2. Unsorted(p) = ((((a \o b) \o c) \o d) \o e) \o f
    BY DEF Unsorted
  <1> HIDE DEF a, b, c, d, e, f, T
  <1>3. /\ a \in Seq(T) /\ b \in Seq(T) /\ c \in Seq(T) /\ d \in Seq(T) /\ e \in Seq(T)
        /\ f \in Seq(T)
    BY <1>1 DEF Segment, T
  <1>4. Ordered(a, p, 1)
    BY <1>1 DEF Segment, Ordered
  <1>5. Ordered(a \o b, p, 2)
    BY <1>1, <1>4, OneMoreRule
  <1>6. Ordered((a \o b) \o c, p, 3)
    BY <1>1, <1>5, OneMoreRule
  <1>7. Ordered(((a \o b) \o c) \o d, p, 4)
    BY <1>1, <1>6, OneMoreRule
  <1>8. Ordered((((a \o b) \o c) \o d) \o e, p, 5)
    BY <1>1, <1>7, OneMoreRule
  <1>9. Ordered(((((a \o b) \o c) \o d) \o e) \o f, p, 6)
    BY <1>1, <1>8, OneMoreRule
  <1>10. a \o b \in Seq(T) /\ ToSet(a \o b) = ToSet(a) \cup ToSet(b)
    BY <1>3, ConcatFacts
  <1> DEFINE ab == a \o b
             abc == ab \o c
             abcd == abc \o d
             abcde == abcd \o e
  <1>11. ab \in Seq(T)
    BY <1>10
  <1> HIDE DEF ab
  <1>12. abc \in Seq(T) /\ ToSet(abc) = ToSet(ab) \cup ToSet(c)
    BY <1>3, <1>11, ConcatFacts
  <1> HIDE DEF abc
  <1>13. abcd \in Seq(T) /\ ToSet(abcd) = ToSet(abc) \cup ToSet(d)
    BY <1>3, <1>12, ConcatFacts
  <1> HIDE DEF abcd
  <1>14. abcde \in Seq(T) /\ ToSet(abcde) = ToSet(abcd) \cup ToSet(e)
    BY <1>3, <1>13, ConcatFacts
  <1> HIDE DEF abcde
  <1>15. ToSet(abcde \o f) = ToSet(abcde) \cup ToSet(f)
    BY <1>3, <1>14, ConcatFacts
  <1>16. ToSet(abcde \o f) =
           (((((ToSet(a) \cup ToSet(b)) \cup ToSet(c)) \cup ToSet(d)) \cup ToSet(e))
              \cup ToSet(f))
    BY <1>10, <1>12, <1>13, <1>14, <1>15 DEF ab
  <1>17. Unsorted(p) = abcde \o f
    BY <1>2 DEF abcde, abcd, abc, ab
  <1>18. Ordered(Unsorted(p), p, 6)
    BY <1>2, <1>9
  <1>19. QED
    BY <1>16, <1>17, <1>18 DEF a, b, c, d, e, f

(* What evaluate returns of a plan.                                        *)
LEMMA Evaluated ==
  ASSUME NEW p, IsPlan(p)
  PROVE  /\ Unsorted(p) \in Seq(FindingsIn(p)) /\ BySeverity(Unsorted(p)) \in Seq(FindingsIn(p))
         /\ \E pos : SortedFrom(BySeverity(Unsorted(p)), Unsorted(p), pos)
         /\ ToSet(BySeverity(Unsorted(p))) = ToSet(Unsorted(p))
  <1> DEFINE s == Unsorted(p)
             r == BySeverity(Unsorted(p))
             T == FindingsIn(p)
  <1>1. s \in Seq(T)
    BY UnsortedIsOrdered DEF Ordered
  <1>2. \A f \in T : f.severity \in {"critical", "warning", "info"}
    BY DEF FindingsIn
  <1> HIDE DEF s, T
  <1>3. \A i \in 1 .. Len(s) : s[i].severity \in {"critical", "warning", "info"}
    BY <1>1, <1>2
  <1>4. BySeverity(s) \in Seq(T) /\ \E pos : SortedFrom(BySeverity(s), s, pos)
    BY <1>1, <1>3, SortFacts
  <1>5. r = BySeverity(s)
    BY DEF s
  <1> HIDE DEF r
  <1>6. PICK pos : SortedFrom(r, s, pos)
    BY <1>4, <1>5
  <1>7. /\ DOMAIN r = 1 .. Len(r) /\ DOMAIN s = 1 .. Len(s) /\ Len(r) = Len(s)
        /\ \A k \in 1 .. Len(s) : pos[k] \in 1 .. Len(s) /\ r[k] = s[pos[k]]
        /\ \A i \in 1 .. Len(s) : \E k \in 1 .. Len(s) : pos[k] = i
    <2>1. r \in Seq(T)
      BY <1>4, <1>5
    <2>2. DOMAIN r = 1 .. Len(r) /\ DOMAIN s = 1 .. Len(s)
      BY <1>1, <2>1
    <2>3. QED
      BY <1>6, <2>2 DEF SortedFrom
  <1>8. ToSet(r) = ToSet(s)
    <2>1. ASSUME NEW k \in 1 .. Len(s) PROVE r[k] \in ToSet(s)
      BY <1>7 DEF ToSet
    <2>2. ASSUME NEW i \in 1 .. Len(s) PROVE s[i] \in ToSet(r)
      <3>1. PICK k \in 1 .. Len(s) : pos[k] = i
        BY <1>7
      <3>2. r[k] = s[i] /\ k \in DOMAIN r
        BY <1>7, <3>1
      <3>3. QED
        BY <3>2 DEF ToSet
    <2>3. QED
      BY <1>7, <2>1, <2>2 DEF ToSet
  <1>9. QED
    BY <1>1, <1>4, <1>5, <1>8 DEF s, r, T

-----------------------------------------------------------------------------

(* The numbers WorstFirst gives a severity and an operator.                *)
Rank(severity) == CHOOSE s \in DOMAIN Severities : Severities[s] = severity

Place(p, id) == First({i \in DOMAIN p.operators : p.operators[i].id = id})

(* The worst has the least rank.                                           *)
LEMMA Ranks == Rank("critical") = 1 /\ Rank("warning") = 2 /\ Rank("info") = 3
  <1>1. /\ DOMAIN Severities = 1 .. 3
        /\ Severities[1] = "critical" /\ Severities[2] = "warning" /\ Severities[3] = "info"
    BY DEF Severities
  <1> HIDE DEF Severities
  <1>2. \A s \in 1 .. 3 : s = 1 \/ s = 2 \/ s = 3
    OBVIOUS
  <1>3. ASSUME NEW s \in 1 .. 3 PROVE Rank(Severities[s]) = s
    <2>1. s \in DOMAIN Severities /\ Severities[s] = Severities[s]
      BY <1>1
    <2>2. Rank(Severities[s]) \in 1 .. 3 /\ Severities[Rank(Severities[s])] = Severities[s]
      BY <1>1, <2>1 DEF Rank
    <2>3. QED
      BY <1>1, <1>2, <2>2
  <1>4. QED
    BY <1>1, <1>3

(* An operator is placed by its id.                                        *)
LEMMA PlaceIs ==
  ASSUME NEW p, IsPlan(p), NEW i \in DOMAIN p.operators
  PROVE  Place(p, p.operators[i].id) = i
  <1> DEFINE S == {j \in DOMAIN p.operators : p.operators[j].id = p.operators[i].id}
  <1>1. S = {i} /\ i \in Nat
    BY DEF IsPlan
  <1>2. Min({i}) = i
    BY <1>1 DEF Min
  <1>3. QED
    BY <1>1, <1>2 DEF Place, First

(* In a sorted list the finding before another is worse, or of an earlier  *)
(* rule, or of the same one and an earlier operator.                       *)
LEMMA SortedWorstFirst ==
  ASSUME NEW p, IsPlan(p), NEW r, r = BySeverity(Unsorted(p)),
         NEW k \in DOMAIN r, NEW m \in DOMAIN r, k < m
  PROVE  /\ Rank(r[k].severity) <= Rank(r[m].severity)
         /\ Rank(r[k].severity) = Rank(r[m].severity)
              => RuleOrder(r[k].rule) <= RuleOrder(r[m].rule)
         /\ (/\ Rank(r[k].severity) = Rank(r[m].severity)
             /\ r[k].rule = r[m].rule /\ r[k].operator # None)
              => Place(p, r[k].operator) <= Place(p, r[m].operator)
  <1> DEFINE s == Unsorted(p)
             T == FindingsIn(p)
  <1>1. s \in Seq(T) /\ r \in Seq(T) /\ \E pos : SortedFrom(r, s, pos)
    BY Evaluated
  <1>2. PICK pos : SortedFrom(r, s, pos)
    BY <1>1
  <1>3. Ordered(s, p, 6)
    BY UnsortedIsOrdered
  <1>4. \A f \in T : f.severity \in {"critical", "warning", "info"}
    BY DEF FindingsIn
  <1> HIDE DEF s, T
  <1> DEFINE i == pos[k]
             j == pos[m]
  <1>5. /\ k \in 1 .. Len(s) /\ m \in 1 .. Len(s)
        /\ i \in 1 .. Len(s) /\ j \in 1 .. Len(s) /\ r[k] = s[i] /\ r[m] = s[j]
        /\ \/ s[i].severity = "critical" /\ s[j].severity # "critical"
           \/ s[i].severity = "warning" /\ s[j].severity = "info"
           \/ s[i].severity = s[j].severity /\ i < j
    <2>1. k \in 1 .. Len(s) /\ m \in 1 .. Len(s)
      <3>1. Len(r) = Len(s)
        BY <1>2 DEF SortedFrom
      <3>2. DOMAIN r = 1 .. Len(r)
        BY <1>1
      <3>3. QED
        BY <3>1, <3>2
    <2>2. QED
      BY <1>2, <2>1 DEF SortedFrom
  <1> HIDE DEF i, j
  <1>6. s[i].severity \in {"critical", "warning", "info"}
        /\ s[j].severity \in {"critical", "warning", "info"}
    BY <1>1, <1>4, <1>5
  <1>7. CASE s[i].severity = "critical" /\ s[j].severity # "critical"
    BY <1>5, <1>6, <1>7, Ranks
  <1>8. CASE s[i].severity = "warning" /\ s[j].severity = "info"
    BY <1>5, <1>8, Ranks
  <1>9. CASE s[i].severity = s[j].severity /\ i < j
    <2>1. Rank(s[i].severity) \in Nat /\ Rank(s[j].severity) = Rank(s[i].severity)
      BY <1>6, <1>9, Ranks
    <2>2. /\ RuleOrder(s[i].rule) <= RuleOrder(s[j].rule)
          /\ RuleOrder(s[i].rule) = RuleOrder(s[j].rule) =>
               \A a, b \in DOMAIN p.operators :
                 s[i].operator = p.operators[a].id /\ s[j].operator = p.operators[b].id => a <= b
      BY <1>3, <1>5, <1>9 DEF Ordered
    <2>3. ASSUME s[i].rule = s[j].rule, s[i].operator # None
          PROVE  Place(p, s[i].operator) <= Place(p, s[j].operator)
      <3>1. s[i].operator \in Ids(p) /\ s[j].operator \in Ids(p)
        BY <1>3, <1>5, <2>3 DEF Ordered
      <3>2. PICK a \in DOMAIN p.operators, b \in DOMAIN p.operators :
              s[i].operator = p.operators[a].id /\ s[j].operator = p.operators[b].id
        BY <3>1 DEF Ids
      <3>3. a <= b
        BY <2>2, <2>3, <3>2
      <3>4. Place(p, s[i].operator) = a /\ Place(p, s[j].operator) = b
        BY <3>2, PlaceIs
      <3>5. QED
        BY <3>3, <3>4
    <2>4. QED
      BY <1>5, <2>1, <2>2, <2>3
  <1>10. QED
    BY <1>5, <1>7, <1>8, <1>9

(* Behind a critical finding there are only critical ones before it.       *)
LEMMA CriticalComesFirst ==
  ASSUME NEW p, IsPlan(p), NEW r, r = BySeverity(Unsorted(p)),
         NEW k \in DOMAIN r, r[k].severity = "critical", NEW m \in 1 .. k
  PROVE  r[m].severity = "critical"
  <1>1. r \in Seq(FindingsIn(p)) /\ \A f \in FindingsIn(p) :
                                      f.severity \in {"critical", "warning", "info"}
    BY Evaluated DEF FindingsIn
  <1>2. DOMAIN r = 1 .. Len(r) /\ Len(r) \in Nat
    BY <1>1
  <1>3. m \in DOMAIN r /\ k \in Nat /\ m \in Nat
    BY <1>2
  <1>4. CASE m = k
    BY <1>4
  <1>5. CASE m < k
    <2>1. Rank(r[m].severity) <= 1
      BY <1>3, <1>5, SortedWorstFirst, Ranks
    <2>2. r[m].severity \in {"critical", "warning", "info"}
      BY <1>1, <1>3
    <2>3. QED
      BY <2>1, <2>2, Ranks
  <1>6. QED
    BY <1>3, <1>4, <1>5

(* Findings and plan of an analysis, once it is through.                   *)
LEMMA AnalysedFacts ==
  ASSUME RunInv, Analysed
  PROVE  /\ IsShowplan(document) /\ plan = ParsePlan(document) /\ IsPlan(plan)
         /\ findings = BySeverity(Unsorted(plan))
  <1>1. /\ document \in Documents /\ plan = ParsePlan(document)
        /\ findings = BySeverity(Unsorted(plan))
    BY DEF RunInv, AnalysedOK
  <1>2. QED
    BY <1>1, DocumentsAreShowplans, ParsedIsPlan

(* cli.py 90: whatever the plan, the findings come worst first, by rule    *)
(* and in the plan's order, and none is lost by the sort.                  *)
THEOREM FindingsAreSorted == RunSpec => []WorstFirst
  <1>1. RunInv => WorstFirst
    <2> SUFFICES ASSUME RunInv, Analysed
                 PROVE  /\ Len(findings) = Len(Unsorted(plan))
                        /\ \A k, m \in DOMAIN findings : k < m =>
                             /\ Rank(findings[k].severity) <= Rank(findings[m].severity)
                             /\ Rank(findings[k].severity) = Rank(findings[m].severity)
                                  => RuleOrder(findings[k].rule) <= RuleOrder(findings[m].rule)
                             /\ (/\ Rank(findings[k].severity) = Rank(findings[m].severity)
                                 /\ findings[k].rule = findings[m].rule
                                 /\ findings[k].operator # None)
                                  => Place(plan, findings[k].operator)
                                       <= Place(plan, findings[m].operator)
      BY DEF WorstFirst, Rank, Place
    <2>1. IsPlan(plan) /\ findings = BySeverity(Unsorted(plan))
      BY AnalysedFacts
    <2>2. Len(findings) = Len(Unsorted(plan))
      <3>1. PICK pos : SortedFrom(BySeverity(Unsorted(plan)), Unsorted(plan), pos)
        BY <2>1, Evaluated
      <3>2. QED
        BY <2>1, <3>1 DEF SortedFrom
    <2>3. QED
      BY <2>1, <2>2, SortedWorstFirst
  <1>2. QED
    BY <1>1, RunInductive, PTL

-----------------------------------------------------------------------------

(* What is promoted is one finding for each warning.                       *)
LEMMA Promoted ==
  ASSUME NEW p, NEW f
  PROVE  f \in ToSet(PromoteAdapterWarnings(p)) <=>
           \E k \in DOMAIN p.warnings :
             f = Finding(WarningRule(p.warnings[k].type), PromotedSeverity(p.warnings[k].type),
                         p.warnings[k].operator, None, None)
  BY DEF PromoteAdapterWarnings, ToSet

(* Only promoted warnings have a warning's rule.                           *)
LEMMA OnlyWarningsArePromoted ==
  ASSUME NEW p, IsPlan(p), NEW f \in ToSet(Unsorted(p)), RuleOrder(f.rule) = 1
  PROVE  f \in ToSet(PromoteAdapterWarnings(p))
  <1>1. ASSUME NEW s, NEW order, order # 1, Segment(s, p, order) PROVE f \notin ToSet(s)
    <2>1. \A k \in 1 .. Len(s) : RuleOrder(s[k].rule) = order
      BY <1>1 DEF Segment
    <2>2. DOMAIN s = 1 .. Len(s)
      BY <1>1 DEF Segment
    <2>3. QED
      BY <1>1, <2>1, <2>2 DEF ToSet
  <1>2. /\ f \notin ToSet(CheckLargeScans(p)) /\ f \notin ToSet(CheckCardinalitySkew(p))
        /\ f \notin ToSet(CheckBookmarkLookups(p)) /\ f \notin ToSet(CheckMissingIndexes(p))
        /\ f \notin ToSet(CheckParallelism(p))
    BY <1>1, LargeScanSegment, SkewSegment, LookupSegment, MissingSegment, ParallelSegment
  <1>3. QED
    BY <1>2, UnsortedIsOrdered

(* An operator spills if and only if a critical finding says so, with      *)
(* only critical ones before it.                                           *)
LEMMA SpillsAreFound ==
  ASSUME NEW p, IsPlan(p), NEW r, r = BySeverity(Unsorted(p)), NEW i \in DOMAIN p.operators
  PROVE  p.operators[i].spill <=>
           \E k \in {h \in DOMAIN r : r[h].rule = WarningRule("tempdb_spill")} :
             /\ r[k].operator = p.operators[i].id
             /\ \A m \in 1 .. k : r[m].severity = "critical"
  <1> DEFINE w == p.warnings
             id == p.operators[i].id
             spill == WarningRule("tempdb_spill")
  <1>1. /\ p.operators[i].spill <=>
             \E k \in DOMAIN w : w[k].type = "tempdb_spill" /\ w[k].operator = id
        /\ \A k \in DOMAIN w : w[k].type \in WarningTypes
    <2> DEFINE Warning == [type : WarningTypes, operator : Ids(p)]
    <2>1. w \in Seq(Warning) /\ \A x \in Warning : x.type \in WarningTypes
      BY DEF IsPlan
    <2> HIDE DEF Warning
    <2>2. \A k \in DOMAIN w : w[k].type \in WarningTypes
      BY <2>1
    <2>3. QED
      BY <2>2 DEF IsPlan
  <1>2. ToSet(r) = ToSet(Unsorted(p)) /\ ToSet(PromoteAdapterWarnings(p)) \subseteq ToSet(r)
    BY Evaluated, UnsortedIsOrdered
  <1> HIDE DEF w, id
  <1>3. ASSUME NEW k \in DOMAIN w, w[k].type = "tempdb_spill", w[k].operator = id
        PROVE  \E h \in DOMAIN r : /\ r[h].rule = spill /\ r[h].operator = id
                                   /\ \A m \in 1 .. h : r[m].severity = "critical"
    <2> DEFINE f == Finding(spill, "critical", id, None, None)
    <2>1. PromotedSeverity("tempdb_spill") = "critical"
      BY DEF PromotedSeverity
    <2>2. f \in ToSet(r)
      BY <1>2, <1>3, <2>1, Promoted DEF w
    <2>3. f.rule = spill /\ f.severity = "critical" /\ f.operator = id
      BY DEF Finding
    <2> HIDE DEF f
    <2>4. PICK h \in DOMAIN r : r[h] = f
      BY <2>2 DEF ToSet
    <2>5. \A m \in 1 .. h : r[m].severity = "critical"
      BY <2>3, <2>4, CriticalComesFirst
    <2>6. QED
      BY <2>3, <2>4, <2>5
  <1>4. ASSUME NEW h \in DOMAIN r, r[h].rule = spill, r[h].operator = id
        PROVE  \E k \in DOMAIN w : w[k].type = "tempdb_spill" /\ w[k].operator = id
    <2>1. RuleOrder(spill) = 1
      BY RuleOrders DEF WarningTypes
    <2>2. r[h] \in ToSet(Unsorted(p))
      BY <1>2 DEF ToSet
    <2>3. r[h] \in ToSet(PromoteAdapterWarnings(p))
      BY <1>4, <2>1, <2>2, OnlyWarningsArePromoted
    <2>4. PICK k \in DOMAIN w :
            r[h] = Finding(WarningRule(w[k].type), PromotedSeverity(w[k].type),
                           w[k].operator, None, None)
      BY <2>3, Promoted DEF w
    <2>5. WarningRule(w[k].type) = spill /\ w[k].operator = id
      BY <1>4, <2>4 DEF Finding
    <2>6. w[k].type = "tempdb_spill"
      BY <1>1, <2>5, WarningRules
    <2>7. QED
      BY <2>5, <2>6
  <1>5. QED
    BY <1>1, <1>3, <1>4 DEF id

(* rules/engine.py 83-98: a spill anywhere in a plan is a critical finding *)
(* on its operator, and nothing that matters less is read before it.       *)
THEOREM SpillsAreReported == RunSpec => []SpillsComeFirst
  <1>1. RunInv => SpillsComeFirst
    <2> SUFFICES ASSUME RunInv, Analysed, NEW i \in DOMAIN plan.operators
                 PROVE  plan.operators[i].spill <=>
                          \E k \in FindingsOf(WarningRule("tempdb_spill")) :
                            /\ findings[k].operator = plan.operators[i].id
                            /\ \A m \in 1 .. k : findings[m].severity = "critical"
      BY DEF SpillsComeFirst
    <2>1. IsPlan(plan) /\ findings = BySeverity(Unsorted(plan))
      BY AnalysedFacts
    <2>2. QED
      BY <2>1, SpillsAreFound DEF FindingsOf
  <1>2. QED
    BY <1>1, RunInductive, PTL

-----------------------------------------------------------------------------

(* The key has the columns of both usages.                                 *)
LEMMA ScriptsCover ==
  ASSUME NEW index, IsIndexAdvice(index), NEW group
  PROVE  LET script == MissingIndexScript(AdviceOf(group, index))
         IN /\ ToSet(script.key) = Wanted(index, {"EQUALITY", "INEQUALITY"})
            /\ ToSet(script.include) = Wanted(index, {"INCLUDE"})
  <1> DEFINE a == ColumnsOf(index, "EQUALITY")
             b == ColumnsOf(index, "INEQUALITY")
             c == ColumnsOf(index, "INCLUDE")
             script == MissingIndexScript(AdviceOf(group, index))
  <1>1. script.key = a \o b /\ script.include = c
    BY DEF MissingIndexScript, AdviceOf
  <1>2. /\ a \in Seq(STRING) /\ ToSet(a) = Wanted(index, {"EQUALITY"})
        /\ b \in Seq(STRING) /\ ToSet(b) = Wanted(index, {"INEQUALITY"})
        /\ ToSet(c) = Wanted(index, {"INCLUDE"})
    BY ColumnsByUsage
  <1> HIDE DEF a, b, c, script
  <1>3. ToSet(a \o b) = ToSet(a) \cup ToSet(b)
    <2>1. a \in Seq(STRING) /\ b \in Seq(STRING)
      BY <1>2
    <2>2. QED
      BY <2>1, ConcatFacts
  <1>4. Wanted(index, {"EQUALITY", "INEQUALITY"})
          = Wanted(index, {"EQUALITY"}) \cup Wanted(index, {"INEQUALITY"})
    BY DEF Wanted
  <1>5. QED
    BY <1>1, <1>2, <1>3, <1>4 DEF script

(* rules/engine.py: however many indexes a plan asks for, each has a       *)
(* finding whose script has its columns and no others.                     *)
THEOREM EveryIndexHasItsScript == RunSpec => []IndexScriptsCoverThePlan
  <1>1. RunInv => IndexScriptsCoverThePlan
    <2> SUFFICES ASSUME RunInv, Analysed, NEW g \in DOMAIN document.missing,
                        NEW index \in ToSet(document.missing[g].indexes)
                 PROVE  \E k \in FindingsOf("missing_index_available") :
                          LET script == findings[k].suggested_fix
                          IN /\ findings[k].severity = ImpactSeverity(document.missing[g].impact)
                             /\ ToSet(script.key) = Wanted(index, {"EQUALITY", "INEQUALITY"})
                             /\ ToSet(script.include) = Wanted(index, {"INCLUDE"})
      BY DEF IndexScriptsCoverThePlan
    <2>1. /\ IsShowplan(document) /\ plan = ParsePlan(document) /\ IsPlan(plan)
          /\ findings = BySeverity(Unsorted(plan))
      BY AnalysedFacts
    <2>2. IsIndexAdvice(index)
      BY <2>1 DEF IsShowplan
    <2> DEFINE group == document.missing[g]
               advice == AdviceOf(group, index)
               f == Finding("missing_index_available", ImpactSeverity(group.impact), None, None,
                            MissingIndexScript(advice))
    <2>3. PICK m \in 1 .. Len(plan.missing) : plan.missing[m] = advice
      <3>1. PICK n \in DOMAIN group.indexes : index = group.indexes[n]
        BY DEF ToSet
      <3>2. plan.missing = MissingIndexes(document)
        BY <2>1 DEF ParsePlan
      <3>3. QED
        BY <2>1, <3>1, <3>2, MissingOfThePlan
    <2>4. m \in DOMAIN plan.missing
      BY <2>1 DEF IsPlan
    <2>5. advice.impact = group.impact
      BY DEF AdviceOf
    <2>6. f \in ToSet(CheckMissingIndexes(plan))
      BY <2>3, <2>4, <2>5 DEF CheckMissingIndexes, ToSet
    <2>7. f \in ToSet(findings)
      BY <2>1, <2>6, Evaluated, UnsortedIsOrdered
    <2>8. /\ f.rule = "missing_index_available" /\ f.severity = ImpactSeverity(group.impact)
          /\ f.suggested_fix = MissingIndexScript(advice)
      BY DEF Finding
    <2>9. PICK k \in DOMAIN findings : findings[k] = f
      BY <2>7 DEF ToSet
    <2>10. k \in FindingsOf("missing_index_available")
      BY <2>8, <2>9 DEF FindingsOf
    <2>11. /\ ToSet(MissingIndexScript(advice).key) = Wanted(index, {"EQUALITY", "INEQUALITY"})
           /\ ToSet(MissingIndexScript(advice).include) = Wanted(index, {"INCLUDE"})
      BY <2>2, ScriptsCover
    <2> HIDE DEF f, advice
    <2>12. QED
      BY <2>8, <2>9, <2>10, <2>11
  <1>2. QED
    BY <1>1, RunInductive, PTL

-----------------------------------------------------------------------------

(* Fractions that are compared by multiplying crosswise: from one to the   *)
(* next to the third.                                                      *)
LEMMA CrossMultiplied ==
  ASSUME NEW a \in Nat, NEW b \in Nat, NEW c \in Nat,
         NEW A \in Nat \ {0}, NEW B \in Nat \ {0}, NEW C \in Nat \ {0},
         a * B <= b * A, b * C <= c * B
  PROVE  /\ a * C <= c * A
         /\ a * C = c * A => a * B = b * A /\ b * C = c * B
  <1>1. (a * B) * C <= (b * A) * C
    BY SMT
  <1>2. (b * C) * A <= (c * B) * A
    BY SMT
  <1>3. (a * B) * C = B * (a * C) /\ (c * B) * A = B * (c * A) /\ (b * A) * C = (b * C) * A
    BY SMT
  <1>4. B * (a * C) <= B * (c * A)
    BY <1>1, <1>2, <1>3
  <1>5. a * C \in Nat /\ c * A \in Nat /\ b * A \in Nat /\ a * B \in Nat /\ b * C \in Nat /\ c * B \in Nat
    OBVIOUS
  <1>6. ASSUME NEW x \in Nat, NEW y \in Nat, NEW z \in Nat \ {0}, z * x <= z * y PROVE x <= y
    BY <1>6
  <1>7. a * C <= c * A
    BY <1>4, <1>5, <1>6
  <1>8. ASSUME NEW x \in Nat, NEW y \in Nat, NEW z \in Nat \ {0}, x * z = y * z PROVE x = y
    BY <1>8
  <1>9. ASSUME a * C = c * A PROVE a * B = b * A /\ b * C = c * B
    <2>1. B * (a * C) = B * (c * A)
      BY <1>9
    <2>2. (a * B) * C = (b * A) * C /\ (b * C) * A = (c * B) * A
      BY <1>1, <1>2, <1>3, <2>1
    <2>3. QED
      BY <1>5, <1>8, <2>2
  <1>10. QED
    BY <1>7, <1>9

(* Scale is the recursive function it is meant to be, and never zero.      *)
LEMMA ScaleDef ==
  ASSUME NEW n \in Nat
  PROVE  Scale(n) \in Nat \ {0}
  <1> DEFINE upTo[m \in 0 .. n] == IF m < 10 THEN 10 ELSE 10 * upTo[m \div 10]
             Is(f, k) == /\ f \in [0 .. k -> Nat \ {0}]
                         /\ \A m \in 0 .. k : f[m] = IF m < 10 THEN 10 ELSE 10 * f[m \div 10]
             S == {k \in Nat : \E f : Is(f, k)}
  <1>1. \A m \in Nat : m >= 10 => m \div 10 \in 0 .. m - 1
    BY SMT
  <1>2. 0 \in S
    <2>1. Is([m \in 0 .. 0 |-> 10], 0)
      BY SMT
    <2>2. QED
      BY <2>1
  <1>3. ASSUME NEW k \in Nat, k \in S PROVE k + 1 \in S
    <2>1. PICK f : Is(f, k)
      BY <1>3
    <2> DEFINE v == IF k + 1 < 10 THEN 10 ELSE 10 * f[(k + 1) \div 10]
               g == [m \in 0 .. k + 1 |-> IF m = k + 1 THEN v ELSE f[m]]
    <2>2. v \in Nat \ {0}
      <3>1. CASE k + 1 < 10
        BY <3>1
      <3>2. CASE k + 1 >= 10
        <4>1. (k + 1) \div 10 \in 0 .. k
          BY <1>1, <3>2
        <4>2. f[(k + 1) \div 10] \in Nat \ {0}
          BY <2>1, <4>1
        <4>3. QED
          BY <3>2, <4>2
      <3>3. QED
        BY <3>1, <3>2
    <2>3. g \in [0 .. k + 1 -> Nat \ {0}]
      BY <2>1, <2>2
    <2>4. ASSUME NEW m \in 0 .. k + 1
          PROVE  g[m] = IF m < 10 THEN 10 ELSE 10 * g[m \div 10]
      <3>1. m >= 10 => m \div 10 \in 0 .. k /\ m \div 10 # k + 1
        BY <1>1
      <3>2. m >= 10 => g[m \div 10] = f[m \div 10]
        BY <3>1
      <3>3. CASE m = k + 1
        BY <3>2, <3>3
      <3>4. CASE m # k + 1
        BY <2>1, <3>2, <3>4
      <3>5. QED
        BY <3>3, <3>4
    <2>5. Is(g, k + 1)
      BY <2>3, <2>4
    <2> HIDE DEF g, Is
    <2>6. QED
      BY <2>5
  <1>4. \A k \in Nat : k \in S
    <2>1. \A k \in Nat : k \in S => k + 1 \in S
      BY <1>3
    <2> HIDE DEF S
    <2>2. QED
      BY <1>2, <2>1, InductiveSet
  <1>5. PICK f : Is(f, n)
    BY <1>4
  <1>6. \E f0 : f0 = [m \in 0 .. n |-> IF m < 10 THEN 10 ELSE 10 * f0[m \div 10]]
    <2>1. f = [m \in 0 .. n |-> f[m]]
      BY <1>5
    <2>2. f = [m \in 0 .. n |-> IF m < 10 THEN 10 ELSE 10 * f[m \div 10]]
      BY <1>5, <2>1, Zenon
    <2>3. QED
      BY <2>2
  <1>7. upTo = [m \in 0 .. n |-> IF m < 10 THEN 10 ELSE 10 * upTo[m \div 10]]
    BY <1>6
  <1> HIDE DEF upTo, S, Is
  <1> DEFINE R == {k \in Nat : \A m \in 0 .. k : m <= n => upTo[m] \in Nat \ {0}}
  <1>8. 0 \in R
    BY <1>7
  <1>9. ASSUME NEW k \in Nat, k \in R PROVE k + 1 \in R
    <2>1. ASSUME k + 1 <= n PROVE upTo[k + 1] \in Nat \ {0}
      <3>1. upTo[k + 1] = IF k + 1 < 10 THEN 10 ELSE 10 * upTo[(k + 1) \div 10]
        BY <1>7, <2>1
      <3>2. CASE k + 1 >= 10
        <4>1. (k + 1) \div 10 \in 0 .. k
          BY <1>1, <3>2
        <4>2. upTo[(k + 1) \div 10] \in Nat \ {0}
          BY <1>9, <2>1, <4>1
        <4>3. QED
          BY <3>1, <3>2, <4>2
      <3>3. QED
        BY <3>1, <3>2
    <2>2. QED
      BY <1>9, <2>1
  <1>10. n \in R
    <2>1. \A k \in Nat : k \in R => k + 1 \in R
      BY <1>9
    <2> HIDE DEF R
    <2>2. QED
      BY <1>8, <2>1, InductiveSet
  <1>11. QED
    BY <1>10 DEF Scale, upTo

(* Ids that are compared as strings are in a total order.                  *)
LEMMA IdOrder ==
  /\ \A a, b \in Nat : a = b \/ IdBefore(a, b) \/ IdBefore(b, a)
  /\ \A a, b \in Nat : ~ (IdBefore(a, b) /\ IdBefore(b, a))
  /\ \A a, b, c \in Nat : IdBefore(a, b) /\ IdBefore(b, c) => IdBefore(a, c)
  <1> DEFINE x(a, b) == a * Scale(b)
  <1>1. \A a, b \in Nat : x(a, b) \in Nat
    BY ScaleDef
  <1>2. \A a, b \in Nat : IdBefore(a, b) <=> x(a, b) < x(b, a) \/ (x(a, b) = x(b, a) /\ a < b)
    BY Zenon DEF IdBefore
  <1>3. ASSUME NEW a \in Nat, NEW b \in Nat, NEW c \in Nat,
               x(a, b) <= x(b, a), x(b, c) <= x(c, b)
        PROVE  /\ x(a, c) <= x(c, a)
               /\ x(a, c) = x(c, a) => x(a, b) = x(b, a) /\ x(b, c) = x(c, b)
    BY <1>3, CrossMultiplied, ScaleDef
  <1> HIDE DEF x
  <1>4. ASSUME NEW a \in Nat, NEW b \in Nat
        PROVE  /\ a = b \/ IdBefore(a, b) \/ IdBefore(b, a)
               /\ ~ (IdBefore(a, b) /\ IdBefore(b, a))
    <2> DEFINE p == x(a, b)
               q == x(b, a)
    <2>1. p \in Nat /\ q \in Nat
      BY <1>1
    <2>2. /\ IdBefore(a, b) <=> p < q \/ (p = q /\ a < b)
          /\ IdBefore(b, a) <=> q < p \/ (q = p /\ b < a)
      BY <1>2, Zenon
    <2> HIDE DEF p, q
    <2>3. QED
      BY <2>1, <2>2
  <1>5. ASSUME NEW a \in Nat, NEW b \in Nat
        PROVE  IdBefore(a, b) <=> x(a, b) <= x(b, a) /\ (x(a, b) = x(b, a) => a < b)
    <2> DEFINE p == x(a, b)
               q == x(b, a)
    <2>1. p \in Nat /\ q \in Nat
      BY <1>1
    <2>2. IdBefore(a, b) <=> p < q \/ (p = q /\ a < b)
      BY <1>2, Zenon
    <2> HIDE DEF p, q
    <2>3. IdBefore(a, b) <=> p <= q /\ (p = q => a < b)
      BY <2>1, <2>2
    <2> USE DEF p, q
    <2>4. QED
      BY <2>3, Zenon
  <1>6. ASSUME NEW a \in Nat, NEW b \in Nat, NEW c \in Nat, IdBefore(a, b), IdBefore(b, c)
        PROVE  IdBefore(a, c)
    <2>1. /\ x(a, b) <= x(b, a) /\ (x(a, b) = x(b, a) => a < b)
          /\ x(b, c) <= x(c, b) /\ (x(b, c) = x(c, b) => b < c)
      BY <1>5, <1>6, Zenon
    <2>2. /\ x(a, c) <= x(c, a)
          /\ x(a, c) = x(c, a) => x(a, b) = x(b, a) /\ x(b, c) = x(c, b)
      <3>1. x(a, b) <= x(b, a) /\ x(b, c) <= x(c, b)
        BY <2>1
      <3>2. QED
        BY ONLY <1>3, <3>1
    <2>3. a < b /\ b < c => a < c
      OBVIOUS
    <2>4. QED
      BY <1>5, <2>1, <2>2, <2>3, Zenon
  <1>7. QED
    BY <1>4, <1>6

(* What the ranking compares of an operator.                               *)
IsRankable(o) ==
  o.id \in Nat /\ o.cost \in Counts /\ o.duration \in Counts

(* The ranking has no ties.                                                *)
LEMMA BeforeOrder ==
  ASSUME NEW T, \A p \in T : IsRankable(p), \A p, q \in T : p.id = q.id => p = q
  PROVE  /\ \A p, q \in T : p = q \/ Before(p, q) \/ Before(q, p)
         /\ \A p, q \in T : ~ (Before(p, q) /\ Before(q, p))
         /\ \A p, q, r \in T : Before(p, q) /\ Before(q, r) => Before(p, r)
  <1>0. \A p \in T : /\ p.id \in Nat
                     /\ OrMinusOne(p.cost) \in Int /\ OrMinusOne(p.duration) \in Int
    BY DEF IsRankable, OrMinusOne, Counts
  <1>1. ASSUME NEW p \in T, NEW q \in T
        PROVE  (p = q \/ Before(p, q) \/ Before(q, p)) /\ ~ (Before(p, q) /\ Before(q, p))
    BY <1>0, <1>1, IdOrder DEF Before
  <1>2. ASSUME NEW p \in T, NEW q \in T, NEW r \in T, Before(p, q), Before(q, r)
        PROVE  Before(p, r)
    <2>1. IdBefore(p.id, q.id) /\ IdBefore(q.id, r.id) => IdBefore(p.id, r.id)
      BY <1>0, IdOrder
    <2>2. QED
      BY <1>0, <1>2, <2>1 DEF Before
  <1>3. QED
    BY <1>1, <1>2

(* The operators that come before the i-th.                                *)
Ahead(ops, i) == {j \in DOMAIN ops : Before(ops[j], ops[i])}

(* No two operators have as many before them, so every place is taken.     *)
LEMMA RankedFacts ==
  ASSUME NEW ops, NEW N \in Nat, DOMAIN ops = 1 .. N,
         \A i \in 1 .. N : IsRankable(ops[i]),
         \A i, j \in 1 .. N : ops[i].id = ops[j].id => i = j
  PROVE  /\ Ranked(ops) \in Bijection(1 .. N, 1 .. N)
         /\ \A k, m \in 1 .. N : k < m <=> Before(ops[Ranked(ops)[k]], ops[Ranked(ops)[m]])
  <1> DEFINE rank == [i \in 1 .. N |-> Cardinality(Ahead(ops, i))]
             R == Ranked(ops)
  <1>1. /\ \A i, j \in 1 .. N : i = j \/ Before(ops[i], ops[j]) \/ Before(ops[j], ops[i])
        /\ \A i, j \in 1 .. N : ~ (Before(ops[i], ops[j]) /\ Before(ops[j], ops[i]))
        /\ \A i, j, l \in 1 .. N :
             Before(ops[i], ops[j]) /\ Before(ops[j], ops[l]) => Before(ops[i], ops[l])
    <2> DEFINE T == {ops[i] : i \in 1 .. N}
    <2>1. (\A p \in T : IsRankable(p)) /\ (\A p, q \in T : p.id = q.id => p = q)
      OBVIOUS
    <2>2. \A i \in 1 .. N : ops[i] \in T
      OBVIOUS
    <2>3. \A i, j \in 1 .. N : ops[i] = ops[j] => i = j
      OBVIOUS
    <2> HIDE DEF T
    <2>4. /\ \A p, q \in T : p = q \/ Before(p, q) \/ Before(q, p)
          /\ \A p, q \in T : ~ (Before(p, q) /\ Before(q, p))
          /\ \A p, q, r \in T : Before(p, q) /\ Before(q, r) => Before(p, r)
      BY <2>1, BeforeOrder
    <2>5. QED
      BY <2>2, <2>3, <2>4
  <1>2. IsFiniteSet(1 .. N) /\ Cardinality(1 .. N) = N
    BY FS_Interval
  <1>3. ASSUME NEW i \in 1 .. N
        PROVE  /\ IsFiniteSet(Ahead(ops, i)) /\ rank[i] = Cardinality(Ahead(ops, i))
               /\ rank[i] \in 0 .. N - 1 /\ rank[i] + 1 \in 1 .. N
    <2>1. Ahead(ops, i) \in SUBSET (1 .. N) /\ i \notin Ahead(ops, i)
      BY <1>1 DEF Ahead
    <2>2. /\ IsFiniteSet(Ahead(ops, i)) /\ Cardinality(Ahead(ops, i)) <= N
          /\ Cardinality(Ahead(ops, i)) # N
      BY <1>2, <2>1, FS_Subset
    <2>3. QED
      BY <2>2, FS_CardinalityType
  <1>4. ASSUME NEW i \in 1 .. N, NEW j \in 1 .. N, Before(ops[i], ops[j])
        PROVE  rank[i] < rank[j]
    <2>1. Ahead(ops, i) \subseteq Ahead(ops, j) /\ i \in Ahead(ops, j) /\ i \notin Ahead(ops, i)
      BY <1>1, <1>4 DEF Ahead
    <2>2. /\ Cardinality(Ahead(ops, i)) <= Cardinality(Ahead(ops, j))
          /\ Cardinality(Ahead(ops, i)) # Cardinality(Ahead(ops, j))
      BY <1>3, <2>1, FS_Subset
    <2>3. QED
      BY <1>3, <2>2
  <1>5. \A i, j \in 1 .. N : rank[i] = rank[j] => i = j
    <2>1. \A i, j \in 1 .. N : ~ (rank[i] < rank[j] /\ rank[i] = rank[j])
      BY <1>3
    <2> HIDE DEF rank
    <2>2. QED
      BY <1>1, <1>4, <2>1
  <1>6. \A k \in 1 .. N : \E i \in 1 .. N : rank[i] = k - 1
    <2> DEFINE f == [i \in 1 .. N |-> rank[i] + 1]
    <2> HIDE DEF rank
    <2>1. f \in [1 .. N -> 1 .. N]
      BY <1>3
    <2>2. \A i, j \in 1 .. N : f[i] = f[j] => i = j
      BY <1>3, <1>5
    <2>3. f \in Injection(1 .. N, 1 .. N)
      BY <2>1, <2>2 DEF Injection, IsInjective
    <2>4. f \in Surjection(1 .. N, 1 .. N)
      BY <1>2, <2>3, FS_Injection
    <2>5. \A k \in 1 .. N : \E i \in 1 .. N : f[i] = k
      <3> HIDE DEF f
      <3>1. QED
        BY <2>4 DEF Surjection
    <2>6. ASSUME NEW k \in 1 .. N PROVE \E i \in 1 .. N : rank[i] = k - 1
      <3>1. PICK i \in 1 .. N : f[i] = k
        BY <2>5
      <3>2. rank[i] + 1 = k /\ rank[i] \in Nat
        BY <1>3, <3>1
      <3>3. QED
        BY <3>2
    <2>7. QED
      BY <2>6
  <1>7. ASSUME NEW k \in 1 .. N PROVE R[k] \in 1 .. N /\ rank[R[k]] = k - 1
    <2>1. R[k] = CHOOSE i \in 1 .. N : Cardinality(Ahead(ops, i)) = k - 1
      BY <1>7 DEF Ranked, Ahead
    <2>2. \E i \in 1 .. N : Cardinality(Ahead(ops, i)) = k - 1
      BY <1>3, <1>6
    <2>3. R[k] \in 1 .. N /\ Cardinality(Ahead(ops, R[k])) = k - 1
      BY <2>1, <2>2
    <2>4. QED
      BY <1>3, <2>3
  <1>8. R \in [1 .. N -> 1 .. N]
    <2> DEFINE c(k) == CHOOSE i \in 1 .. N : Cardinality(Ahead(ops, i)) = k - 1
    <2>1. R = [k \in 1 .. N |-> c(k)]
      BY DEF Ranked, Ahead
    <2> HIDE DEF R, c
    <2>2. QED
      BY <1>7, <2>1
  <1> HIDE DEF R, rank
  <1>9. R \in Injection(1 .. N, 1 .. N)
    <2>1. \A k, m \in 1 .. N : R[k] = R[m] => k = m
      BY <1>7
    <2>2. QED
      BY <1>8, <2>1 DEF Injection, IsInjective
  <1>10. R \in Surjection(1 .. N, 1 .. N)
    BY <1>2, <1>9, FS_Injection
  <1>11. ASSUME NEW k \in 1 .. N, NEW m \in 1 .. N PROVE k < m <=> Before(ops[R[k]], ops[R[m]])
    <2>1. R[m] \in 1 .. N /\ R[k] \in 1 .. N /\ rank[R[m]] = m - 1 /\ rank[R[k]] = k - 1
      BY <1>7
    <2>2. /\ Before(ops[R[k]], ops[R[m]]) => rank[R[k]] < rank[R[m]]
          /\ Before(ops[R[m]], ops[R[k]]) => rank[R[m]] < rank[R[k]]
      BY <1>4, <2>1
    <2>3. R[k] = R[m] \/ Before(ops[R[k]], ops[R[m]]) \/ Before(ops[R[m]], ops[R[k]])
      BY <1>1, <2>1
    <2>4. QED
      BY <2>1, <2>2, <2>3
  <1>12. QED
    BY <1>9, <1>10, <1>11 DEF Bijection, R

-----------------------------------------------------------------------------

(* A list of numbers has a largest.                                        *)
LEMMA LargestOfList ==
  ASSUME NEW s \in Seq(Nat), s # <<>>
  PROVE  Max(ToSet(s)) \in Nat
  <1> DEFINE N == Len(s)
             S == {n \in Nat : n <= N => \E b \in Nat : \A k \in 1 .. n : s[k] <= b}
  <1>1. N \in Nat /\ N # 0 /\ DOMAIN s = 1 .. N /\ \A k \in 1 .. N : s[k] \in Nat
    OBVIOUS
  <1> HIDE DEF N
  <1>2. 0 \in S
    <2>1. \A k \in 1 .. 0 : s[k] <= 0
      OBVIOUS
    <2>2. QED
      BY <2>1
  <1>3. ASSUME NEW n \in Nat, n \in S PROVE n + 1 \in S
    <2> SUFFICES ASSUME n + 1 <= N PROVE \E b \in Nat : \A k \in 1 .. n + 1 : s[k] <= b
      OBVIOUS
    <2>1. PICK b \in Nat : \A k \in 1 .. n : s[k] <= b
      BY <1>1, <1>3
    <2>2. s[n + 1] \in Nat
      BY <1>1
    <2>3. \A k \in 1 .. n + 1 : k \in 1 .. n \/ k = n + 1
      OBVIOUS
    <2> DEFINE top == IF b <= s[n + 1] THEN s[n + 1] ELSE b
    <2>4. top \in Nat /\ b <= top /\ s[n + 1] <= top
      BY <2>2
    <2>5. \A k \in 1 .. n : s[k] \in Nat
      BY <1>1
    <2> HIDE DEF top
    <2>6. \A k \in 1 .. n : s[k] <= top
      BY <2>1, <2>4, <2>5
    <2>7. \A k \in 1 .. n + 1 : s[k] <= top
      BY <2>3, <2>4, <2>6
    <2>8. QED
      BY <2>4, <2>7
  <1>4. \A n \in Nat : n \in S
    <2>1. \A n \in Nat : n \in S => n + 1 \in S
      BY <1>3
    <2> HIDE DEF S
    <2>2. QED
      BY <1>2, <2>1, InductiveSet
  <1>5. PICK b \in Nat : \A k \in 1 .. N : s[k] <= b
    <2>1. N \in S
      BY <1>1, <1>4, Zenon
    <2>2. N <= N
      BY <1>1
    <2>3. QED
      BY <2>1, <2>2
  <1>6. ToSet(s) \in SUBSET Nat /\ ToSet(s) # {} /\ \A x \in ToSet(s) : x <= b
    BY <1>1, <1>5 DEF ToSet
  <1>7. PICK x \in ToSet(s) : \A y \in ToSet(s) : y <= x
    BY <1>6, GreatestElement
  <1>8. \A y \in ToSet(s) : x >= y
    BY <1>6, <1>7
  <1>9. Max(ToSet(s)) \in ToSet(s)
    BY <1>8 DEF Max
  <1>10. QED
    BY <1>6, <1>9

(* The threads that report, report numbers.                                *)
LEMMA ReportedNumbers ==
  ASSUME NEW perThread \in Seq(Counts)
  PROVE  Reported(perThread) \in Seq(Nat)
  <1> DEFINE I == {t \in DOMAIN perThread : perThread[t] # None}
  <1>1. I \in SUBSET DOMAIN perThread /\ Reported(perThread) = Kept(perThread, I)
    BY DEF Reported
  <1>2. \A t \in I : perThread[t] \in Nat
    BY DEF Counts
  <1> HIDE DEF I
  <1>3. PICK p : /\ Lists(p, I) /\ Len(p) = Len(Kept(perThread, I))
                 /\ \A k \in DOMAIN p : Kept(perThread, I)[k] = perThread[p[k]]
    BY <1>1, KeptFacts
  <1>4. /\ Kept(perThread, I) \in Seq(Counts) /\ DOMAIN p = 1 .. Len(p)
        /\ \A k \in DOMAIN p : p[k] \in I
    BY <1>1, <1>3, KeptFacts, ListFacts
  <1>5. \A k \in 1 .. Len(Kept(perThread, I)) : Kept(perThread, I)[k] \in Nat
    BY <1>2, <1>3, <1>4
  <1>6. QED
    BY <1>1, <1>4, <1>5

(* Every operator of a plan can be ranked.                                 *)
LEMMA PlanIsRankable ==
  ASSUME NEW doc, IsShowplan(doc), NEW i \in DOMAIN Walk(doc)
  PROVE  IsRankable(BuildOperator(doc, Walk(doc), i))
  <1> DEFINE walk == Walk(doc)
             e == walk[i]
             a == doc.attr[e]
             o == BuildOperator(doc, walk, i)
  <1>1. walk \in Seq(RelOps(doc)) /\ e \in RelOps(doc)
    BY PlanOperators
  <1>2. a \in OperatorAttributes
    BY <1>1 DEF IsShowplan
  <1>3. a.node_id \in Counts /\ a.cost \in Counts /\ a.elapsed \in Seq(Counts)
    BY <1>2 DEF OperatorAttributes
  <1>4. /\ o.id = OperatorId(doc, walk, i) /\ o.cost = CostShare(doc, e)
        /\ o.duration = MaxDuration(a.elapsed)
    BY DEF BuildOperator
  <1>5. i \in Nat
    BY <1>1
  <1>6. OperatorId(doc, walk, i) \in Nat
    <2> DEFINE counted == {j \in 1 .. i : doc.attr[walk[j]].node_id = None}
    <2>1. IsFiniteSet(1 .. i)
      BY <1>5, FS_Interval
    <2>2. counted \in SUBSET (1 .. i)
      OBVIOUS
    <2> HIDE DEF counted
    <2>3. Cardinality(counted) \in Nat
      BY <2>1, <2>2, FS_Subset, FS_CardinalityType
    <2>4. QED
      BY <1>3, <2>3 DEF OperatorId, Counts, counted
  <1>7. MaxDuration(a.elapsed) \in Counts
    BY <1>3, ReportedNumbers, LargestOfList DEF MaxDuration, Counts
  <1>8. CostShare(doc, e) \in Counts
    BY <1>3 DEF CostShare, Counts
  <1> HIDE DEF o, e, a, walk
  <1>9. IsRankable(o)
    BY <1>4, <1>6, <1>7, <1>8 DEF IsRankable
  <1>10. QED
    BY <1>9 DEF o, walk

(* As many operators as there is room for are told, and the first of them. *)
LEMMA NotableFacts ==
  ASSUME NEW T, NEW ops \in Seq(T), Ranked(ops) \in [1 .. Len(ops) -> 1 .. Len(ops)]
  PROVE  /\ Min({MaxNotable, Len(ops)}) \in 0 .. Len(ops)
         /\ DOMAIN NotableOperators(ops) = 1 .. Min({MaxNotable, Len(ops)})
         /\ \A k \in 1 .. Min({MaxNotable, Len(ops)}) :
              NotableOperators(ops)[k] = ops[Ranked(ops)[k]]
  <1> DEFINE N == Len(ops)
             R == Ranked(ops)
             M == Min({MaxNotable, N})
             all == [k \in 1 .. N |-> ops[R[k]]]
             t == NotableOperators(ops)
  <1>1. /\ N \in Nat /\ DOMAIN ops = 1 .. N /\ \A i \in 1 .. N : ops[i] \in T
        /\ R \in [1 .. N -> 1 .. N]
    OBVIOUS
  <1>2. t = SubSeq([k \in DOMAIN ops |-> ops[R[k]]], 1, M)
    BY DEF NotableOperators
  <1> HIDE DEF N, R, t
  <1>3. M \in 0 .. N
    <2>1. \E x \in {MaxNotable, N} : \A y \in {MaxNotable, N} : x <= y
      BY <1>1, NotableIsNat
    <2>2. M \in {MaxNotable, N} /\ \A y \in {MaxNotable, N} : M <= y
      BY <2>1 DEF Min
    <2>3. QED
      BY <1>1, <2>2, NotableIsNat
  <1> HIDE DEF M
  <1>4. all \in Seq(T) /\ Len(all) = N /\ \A k \in 1 .. N : all[k] = ops[R[k]]
    BY <1>1
  <1>5. t = SubSeq(all, 1, M)
    BY <1>1, <1>2
  <1> HIDE DEF all
  <1>6. M \in Int /\ M <= N /\ M >= 0
    BY <1>1, <1>3
  <1>7. t = [i \in 1 .. M |-> all[i]]
    BY <1>1, <1>4, <1>5, <1>6
  <1>8. \A k \in 1 .. M : k \in 1 .. N
    BY <1>1, <1>6
  <1>9. DOMAIN t = 1 .. M /\ \A k \in 1 .. M : t[k] = ops[R[k]]
    BY <1>4, <1>7, <1>8
  <1>10. QED
    BY <1>3, <1>9 DEF M, N, t, R

(* What the property says of two operators, sort_key says of them.         *)
Above(v, w) == v # None /\ (w = None \/ v > w)

Precedes(p, q) ==
  \/ Above(p.cost, q.cost)
  \/ p.cost = q.cost /\ Above(p.duration, q.duration)
  \/ p.cost = q.cost /\ p.duration = q.duration /\ IdBefore(p.id, q.id)

LEMMA AboveIsGreater ==
  ASSUME NEW v \in Counts, NEW w \in Counts
  PROVE  /\ Above(v, w) <=> OrMinusOne(v) > OrMinusOne(w)
         /\ v = w <=> OrMinusOne(v) = OrMinusOne(w)
  BY NoneIsNoValue DEF OrMinusOne, Counts, Above

LEMMA PrecedesIsBefore ==
  ASSUME NEW p, NEW q, IsRankable(p), IsRankable(q)
  PROVE  Precedes(p, q) <=> Before(p, q)
  <1>1. /\ p.cost \in Counts /\ p.duration \in Counts
        /\ q.cost \in Counts /\ q.duration \in Counts
    BY DEF IsRankable
  <1>2. /\ Above(p.cost, q.cost) <=> OrMinusOne(p.cost) > OrMinusOne(q.cost)
        /\ p.cost = q.cost <=> OrMinusOne(p.cost) = OrMinusOne(q.cost)
    BY <1>1, AboveIsGreater
  <1>3. /\ Above(p.duration, q.duration) <=> OrMinusOne(p.duration) > OrMinusOne(q.duration)
        /\ p.duration = q.duration <=> OrMinusOne(p.duration) = OrMinusOne(q.duration)
    BY <1>1, AboveIsGreater
  <1>4. QED
    BY <1>2, <1>3, Zenon DEF Before, Precedes

(* plan_summary.py 63-75: whatever the plan and however much room there    *)
(* is, the model is told of the operators that cost most, in that order,   *)
(* and ties are broken by duration and then by id.                         *)
THEOREM NotableAreRanked == RunSpec => []NotableAreTheCostliest
  <1>1. RunInv => NotableAreTheCostliest
    <2> SUFFICES ASSUME RunInv, Analysed PROVE NotableAreTheCostliest
      BY DEF NotableAreTheCostliest
    <2> DEFINE ops == plan.operators
               N == Len(ops)
               R == Ranked(ops)
               M == Min({MaxNotable, Len(ops)})
               told == [k \in DOMAIN summary.notable |-> summary.notable[k].id]
    <2>1. /\ IsShowplan(document) /\ plan = ParsePlan(document)
          /\ summary = Summarize(plan)
      BY AnalysedFacts DEF RunInv, AnalysedOK
    <2>2. /\ ops = [i \in DOMAIN Walk(document) |-> BuildOperator(document, Walk(document), i)]
          /\ N = Len(Walk(document)) /\ DOMAIN ops = DOMAIN Walk(document)
          /\ Walk(document) \in Seq(RelOps(document))
      BY <2>1, PlanOperators
    <2>3. /\ N \in Nat /\ DOMAIN ops = 1 .. N
          /\ \A i \in 1 .. N : /\ i \in DOMAIN Walk(document)
                               /\ ops[i] = BuildOperator(document, Walk(document), i)
      BY <2>2
    <2>4. \A i \in 1 .. N : IsRankable(ops[i]) /\ ops[i].id = OperatorId(document, Walk(document), i)
      <3>1. \A i \in 1 .. N : IsRankable(ops[i])
        BY <2>1, <2>3, PlanIsRankable
      <3>2. ASSUME NEW i \in 1 .. N PROVE ops[i].id = OperatorId(document, Walk(document), i)
        <4>1. ops[i] = BuildOperator(document, Walk(document), i)
          BY <2>3
        <4>2. QED
          BY <4>1 DEF BuildOperator
      <3>3. QED
        BY <3>1, <3>2
    <2>5. \A i, j \in 1 .. N : ops[i].id = ops[j].id => i = j
      BY <2>1, <2>3, <2>4, IdsDiffer
    <2> HIDE DEF ops, N, R, M
    <2>6. /\ R \in Bijection(1 .. N, 1 .. N)
          /\ \A k, m \in 1 .. N : k < m <=> Before(ops[R[k]], ops[R[m]])
      BY <2>3, <2>4, <2>5, RankedFacts DEF R
    <2>7. /\ R \in [1 .. N -> 1 .. N] /\ (\A k, m \in 1 .. N : R[k] = R[m] => k = m)
          /\ \A i \in 1 .. N : \E k \in 1 .. N : R[k] = i
      BY <2>6 DEF Bijection, Injection, Surjection, IsInjective
    <2>8. /\ M \in 0 .. N /\ DOMAIN NotableOperators(ops) = 1 .. M
          /\ \A k \in 1 .. M : NotableOperators(ops)[k] = ops[R[k]]
      <3>1. ops \in Seq(ToSet(ops))
        BY AnalysedFacts DEF IsPlan, ops
      <3>2. Ranked(ops) \in [1 .. Len(ops) -> 1 .. Len(ops)]
        BY <2>7 DEF N, R
      <3>3. QED
        BY <3>1, <3>2, NotableFacts DEF N, R, M
    <2>9. /\ DOMAIN summary.notable = 1 .. M
          /\ \A k \in 1 .. M : summary.notable[k].id = ops[R[k]].id
      <3>1. summary.notable = [k \in DOMAIN NotableOperators(ops) |-> ToHighlight(NotableOperators(ops)[k])]
        BY <2>1 DEF Summarize, ops
      <3>2. \A op1 : ToHighlight(op1).id = op1.id
        BY DEF ToHighlight, HighlightFields
      <3>3. QED
        BY <2>8, <3>1, <3>2
    <2>10. DOMAIN told = 1 .. M /\ Len(told) = M /\ \A k \in 1 .. M : told[k] = ops[R[k]].id
      <3>1. told = [k \in 1 .. M |-> ops[R[k]].id]
        BY <2>9
      <3> HIDE DEF told
      <3>2. QED
        BY <2>3, <2>8, <3>1
    <2> HIDE DEF told
    <2>11. ASSUME NEW k \in 1 .. M, NEW j \in 1 .. N
           PROVE  (\E m \in 1 .. k - 1 : told[m] = ops[j].id) <=> Precedes(ops[j], ops[R[k]])
      <3>1. PICK m \in 1 .. N : R[m] = j
        BY <2>7
      <3>2. k \in 1 .. N /\ R[k] \in 1 .. N
        BY <2>3, <2>7, <2>8
      <3>3. Precedes(ops[j], ops[R[k]]) <=> m < k
        BY <2>4, <2>6, <3>1, <3>2, PrecedesIsBefore
      <3>4. ASSUME m < k PROVE m \in 1 .. k - 1 /\ told[m] = ops[j].id
        <4>1. m \in 1 .. k - 1 /\ m \in 1 .. M
          BY <2>3, <2>8, <3>4
        <4>2. QED
          BY <2>10, <3>1, <4>1
      <3>5. ASSUME NEW l \in 1 .. k - 1, told[l] = ops[j].id PROVE m < k
        <4>1. l \in 1 .. M /\ l \in 1 .. N /\ l < k
          BY <2>3, <2>8
        <4>2. R[l] \in 1 .. N /\ told[l] = ops[R[l]].id
          BY <2>7, <2>10, <4>1
        <4>3. R[l] = j
          BY <2>5, <3>5, <4>2
        <4>4. l = m
          BY <2>7, <3>1, <4>1, <4>3
        <4>5. QED
          BY <4>1, <4>4
      <3>6. QED
        BY <3>3, <3>4, <3>5
    <2>12. ASSUME NEW k \in 1 .. M
           PROVE  /\ R[k] \in 1 .. N /\ ops[R[k]].id = told[k]
                  /\ \A j \in 1 .. N :
                       (\E m \in 1 .. k - 1 : told[m] = ops[j].id) <=> Precedes(ops[j], ops[R[k]])
      <3>1. k \in 1 .. N
        BY <2>3, <2>8
      <3>2. QED
        BY <2>7, <2>10, <2>11, <3>1
    <2>13. QED
      <3>1. /\ Len(told) = M
            /\ \A k \in DOMAIN told : \E i \in DOMAIN ops :
                 /\ ops[i].id = told[k]
                 /\ \A j \in DOMAIN ops :
                      (\E m \in 1 .. k - 1 : told[m] = ops[j].id) <=> Precedes(ops[j], ops[i])
        BY <2>3, <2>10, <2>12
      <3>2. QED
        BY <3>1 DEF NotableAreTheCostliest, Precedes, Above, told, ops, M
  <1>2. QED
    BY <1>1, RunInductive, PTL

-----------------------------------------------------------------------------

(* The sum of f over S, as the folds of sequences and sets compute it.     *)
SumOver(g, f, S) ==
  g = [s \in SUBSET S |-> IF s = {} THEN 0
                          ELSE LET x == CHOOSE x \in s : TRUE IN f[x] + g[s \ {x}]]

SumOf(f, S) == LET g == CHOOSE g : SumOver(g, f, S) IN g[S]

(* g adds up f, whichever number is taken first.                           *)
Adds(g, f, S) ==
  /\ g \in [SUBSET S -> Nat]
  /\ g[{}] = 0
  /\ \A s \in SUBSET S : \A x \in s : g[s] = f[x] + g[s \ {x}]

(* Such a g exists: one that goes through the numbers in their order.      *)
LEMMA AddingUp ==
  ASSUME NEW N \in Nat, NEW f \in [1 .. N -> Nat]
  PROVE  \E g : Adds(g, f, 1 .. N)
  <1> DEFINE S == 1 .. N
             X == [SUBSET S -> Nat]
             first == [s \in SUBSET S |-> 0]
             step == [i \in Nat |-> [a \in X |-> [s \in SUBSET S |-> a[s] + IF i \in s THEN f[i] ELSE 0]]]
  <1>1. first \in X
    OBVIOUS
  <1>2. step \in [Nat -> [X -> X]]
    <2>1. ASSUME NEW i \in Nat, NEW a \in X
          PROVE  [s \in SUBSET S |-> a[s] + IF i \in s THEN f[i] ELSE 0] \in X
      <3>1. ASSUME NEW s \in SUBSET S PROVE a[s] + (IF i \in s THEN f[i] ELSE 0) \in Nat
        <4>1. a[s] \in Nat /\ (i \in s => f[i] \in Nat)
          OBVIOUS
        <4>2. QED
          BY <4>1
      <3>2. QED
        BY <3>1
    <2> HIDE DEF X
    <2>2. QED
      BY <2>1
  <1>3. \A i \in 1 .. N, a \in X, s \in SUBSET S :
          step[i][a][s] = a[s] + IF i \in s THEN f[i] ELSE 0
    OBVIOUS
  <1> HIDE DEF step, first, X
  <1>4. PICK F : Iterates(F, step, first, X, N)
    BY <1>1, <1>2, Iteration
  <1>5. /\ \A i \in 0 .. N : F[i] \in [SUBSET S -> Nat]
        /\ \A i \in 0 .. N, s \in SUBSET S : F[i][s] \in Nat
        /\ \A s \in SUBSET S : F[0][s] = 0
        /\ \A i \in 1 .. N, s \in SUBSET S : F[i][s] = F[i - 1][s] + IF i \in s THEN f[i] ELSE 0
    <2>1. \A i \in 0 .. N : F[i] \in X
      BY <1>4 DEF Iterates
    <2>2. \A i \in 1 .. N : F[i] = step[i][F[i - 1]] /\ i - 1 \in 0 .. N
      BY <1>4 DEF Iterates
    <2>3. ASSUME NEW i \in 1 .. N, NEW s \in SUBSET S
          PROVE  F[i][s] = F[i - 1][s] + IF i \in s THEN f[i] ELSE 0
      <3> DEFINE before == F[i - 1]
      <3>1. F[i] = step[i][before] /\ before \in X
        BY <2>1, <2>2
      <3> HIDE DEF before, S
      <3>2. step[i][before][s] = before[s] + IF i \in s THEN f[i] ELSE 0
        BY <1>3, <3>1
      <3>3. QED
        BY <3>1, <3>2 DEF before
    <2>4. \A s \in SUBSET S : F[0][s] = 0
      BY <1>4 DEF Iterates, first
    <2>5. \A i \in 0 .. N : F[i] \in [SUBSET S -> Nat]
      BY <2>1 DEF X
    <2>6. \A i \in 0 .. N, s \in SUBSET S : F[i][s] \in Nat
      <3> HIDE DEF S
      <3>1. QED
        BY <2>5
    <2>7. QED
      BY <2>3, <2>4, <2>5, <2>6
  <1> DEFINE P(i) == \A s \in SUBSET S : \A x \in s :
                       F[i][s] = F[i][s \ {x}] + IF x <= i THEN f[x] ELSE 0
             I == {i \in Nat : i <= N => P(i)}
  <1>6. 0 \in I
    <2>1. ASSUME NEW s \in SUBSET S, NEW x \in s
          PROVE  F[0][s] = F[0][s \ {x}] + IF x <= 0 THEN f[x] ELSE 0
      <3> DEFINE r == s \ {x}
      <3>1. ~ (x <= 0) /\ r \in SUBSET S
        OBVIOUS
      <3>2. F[0][s] = 0 /\ F[0][r] = 0
        BY <1>5, <3>1
      <3> HIDE DEF r
      <3>3. F[0][s] = F[0][r] + IF x <= 0 THEN f[x] ELSE 0
        BY <3>1, <3>2
      <3>4. QED
        BY <3>3 DEF r
    <2>2. QED
      BY <2>1
  <1>7. ASSUME NEW i \in Nat, i \in I PROVE i + 1 \in I
    <2> SUFFICES ASSUME i + 1 <= N, NEW s \in SUBSET S, NEW x \in s
                 PROVE  F[i + 1][s] = F[i + 1][s \ {x}] + IF x <= i + 1 THEN f[x] ELSE 0
      OBVIOUS
    <2> DEFINE r == s \ {x}
    <2>1. i + 1 \in 1 .. N /\ (i + 1) - 1 = i /\ i \in 0 .. N /\ i <= N /\ r \in SUBSET S
          /\ x \in 1 .. N
      OBVIOUS
    <2>2. F[i][s] = F[i][r] + IF x <= i THEN f[x] ELSE 0
      BY <1>7, <2>1
    <2>3. /\ F[i + 1][s] = F[i][s] + IF i + 1 \in s THEN f[i + 1] ELSE 0
          /\ F[i + 1][r] = F[i][r] + IF i + 1 \in r THEN f[i + 1] ELSE 0
      <3> HIDE DEF r, S
      <3>1. /\ F[i + 1][s] = F[(i + 1) - 1][s] + IF i + 1 \in s THEN f[i + 1] ELSE 0
            /\ F[i + 1][r] = F[(i + 1) - 1][r] + IF i + 1 \in r THEN f[i + 1] ELSE 0
        BY <1>5, <2>1, Zenon
      <3>2. QED
        BY <2>1, <3>1
    <2>4. F[i][s] \in Nat /\ F[i][r] \in Nat /\ f[x] \in Nat /\ f[i + 1] \in Nat
      <3>1. f[x] \in Nat /\ f[i + 1] \in Nat
        BY <2>1
      <3> HIDE DEF r, S
      <3>2. QED
        BY <1>5, <2>1, <3>1
    <2>5. CASE x = i + 1
      <3>1. i + 1 \in s /\ i + 1 \notin r /\ ~ (x <= i) /\ x <= i + 1
        BY <2>5
      <3>2. QED
        BY <2>2, <2>3, <2>4, <2>5, <3>1
    <2>6. CASE x # i + 1
      <3>1. (i + 1 \in s <=> i + 1 \in r) /\ (x <= i <=> x <= i + 1)
        BY <2>1, <2>6
      <3> HIDE DEF r
      <3>2. QED
        BY <2>2, <2>3, <2>4, <3>1 DEF r
    <2>7. QED
      BY <2>5, <2>6
  <1>8. P(N)
    <2>1. \A i \in Nat : i \in I => i + 1 \in I
      BY <1>7
    <2>2. \A i \in Nat : i \in I
      <3> HIDE DEF I
      <3>1. QED
        BY <1>6, <2>1, InductiveSet
    <2>3. N \in I
      BY <2>2, Zenon
    <2>4. N <= N
      OBVIOUS
    <2> HIDE DEF P
    <2>5. QED
      BY <2>3, <2>4
  <1> DEFINE Z == {i \in Nat : i <= N => F[i][{}] = 0}
  <1>9. F[N][{}] = 0
    <2>1. 0 \in Z
      BY <1>5
    <2>2. ASSUME NEW i \in Nat, i \in Z PROVE i + 1 \in Z
      <3>1. i + 1 <= N => i + 1 \in 1 .. N /\ (i + 1) - 1 = i /\ F[i][{}] = 0
        BY <2>2
      <3>2. {} \in SUBSET S /\ i + 1 \notin {}
        OBVIOUS
      <3>3. ASSUME i + 1 <= N PROVE F[i + 1][{}] = 0
        <4>1. F[i + 1][{}] = F[(i + 1) - 1][{}] + IF i + 1 \in {} THEN f[i + 1] ELSE 0
          BY <1>5, <3>1, <3>2, <3>3, Zenon
        <4>2. QED
          BY <3>1, <3>2, <3>3, <4>1
      <3>4. QED
        BY <2>2, <3>3
    <2>3. \A i \in Nat : i \in Z
      <3>1. \A i \in Nat : i \in Z => i + 1 \in Z
        BY <2>2
      <3> HIDE DEF Z
      <3>2. QED
        BY <2>1, <3>1, InductiveSet
    <2>4. N \in Z
      BY <2>3
    <2>5. QED
      BY <2>4
  <1>10. ASSUME NEW s \in SUBSET S, NEW x \in s PROVE F[N][s] = f[x] + F[N][s \ {x}]
    <2>1. x <= N /\ f[x] \in Nat /\ s \ {x} \in SUBSET S /\ N \in 0 .. N
      OBVIOUS
    <2>2. F[N][s \ {x}] \in Nat
      <3> DEFINE r == s \ {x}
      <3> HIDE DEF r, S
      <3>1. r \in SUBSET S
        BY <2>1 DEF r
      <3>2. F[N][r] \in Nat
        BY <1>5, <2>1, <3>1, Zenon
      <3>3. QED
        BY <3>2 DEF r
    <2>3. F[N][s] = F[N][s \ {x}] + f[x]
      BY <1>8, <2>1
    <2>4. QED
      BY <2>1, <2>2, <2>3
  <1>11. F[N] \in [SUBSET S -> Nat]
    <2>1. N \in 0 .. N
      OBVIOUS
    <2>2. QED
      BY <1>5, <2>1, Zenon
  <1>12. Adds(F[N], f, 1 .. N)
    BY <1>9, <1>10, <1>11 DEF Adds
  <1>13. QED
    BY <1>12

(* What the recursion computes is that sum.                                *)
LEMMA SumIsUnique ==
  ASSUME NEW S, IsFiniteSet(S), NEW f, NEW g, NEW h, Adds(g, f, S), SumOver(h, f, S)
  PROVE  h[S] = g[S]
  <1> DEFINE I == {n \in Nat : \A s \in SUBSET S : Cardinality(s) = n => h[s] = g[s]}
  <1>1. \A s \in SUBSET S : IsFiniteSet(s) /\ Cardinality(s) \in Nat
    BY FS_Subset, FS_CardinalityType
  <1>2. \A s \in SUBSET S : h[s] = IF s = {} THEN 0
                                   ELSE LET x == CHOOSE x \in s : TRUE IN f[x] + h[s \ {x}]
    BY DEF SumOver
  <1>3. 0 \in I
    <2>1. \A s \in SUBSET S : Cardinality(s) = 0 => s = {}
      BY <1>1, FS_EmptySet
    <2>2. h[{}] = 0 /\ g[{}] = 0
      BY <1>2 DEF Adds
    <2>3. QED
      BY <2>1, <2>2
  <1>4. ASSUME NEW n \in Nat, n \in I PROVE n + 1 \in I
    <2> SUFFICES ASSUME NEW s \in SUBSET S, Cardinality(s) = n + 1 PROVE h[s] = g[s]
      OBVIOUS
    <2> DEFINE x == CHOOSE x \in s : TRUE
    <2>1. s # {}
      BY FS_EmptySet
    <2>2. x \in s /\ s \ {x} \in SUBSET S
      BY <2>1
    <2>3. h[s] = f[x] + h[s \ {x}]
      BY <1>2, <2>1
    <2> HIDE DEF x
    <2>4. Cardinality(s \ {x}) = n
      BY <1>1, <2>2, FS_RemoveElement
    <2>5. h[s \ {x}] = g[s \ {x}]
      BY <1>4, <2>2, <2>4
    <2>6. g[s] = f[x] + g[s \ {x}]
      BY <2>2 DEF Adds
    <2>7. QED
      BY <2>3, <2>5, <2>6
  <1>5. \A n \in Nat : n \in I
    <2>1. \A n \in Nat : n \in I => n + 1 \in I
      BY <1>4
    <2> HIDE DEF I
    <2>2. QED
      BY <1>3, <2>1, InductiveSet
  <1>6. Cardinality(S) \in I
    BY <1>1, <1>5
  <1>7. QED
    BY <1>6

(* A g that adds up is what the recursion computes.                        *)
LEMMA SumOfIs ==
  ASSUME NEW S, IsFiniteSet(S), NEW f, NEW g, Adds(g, f, S)
  PROVE  SumOf(f, S) = g[S]
  <1>1. SumOver(g, f, S)
    <2>1. ASSUME NEW s \in SUBSET S
          PROVE  g[s] = IF s = {} THEN 0 ELSE LET x == CHOOSE x \in s : TRUE IN f[x] + g[s \ {x}]
      <3> DEFINE x == CHOOSE x \in s : TRUE
      <3>1. s # {} => x \in s
        OBVIOUS
      <3>2. s # {} => g[s] = f[x] + g[s \ {x}]
        BY <3>1 DEF Adds
      <3>3. QED
        BY <3>2 DEF Adds
    <2>2. g = [s \in SUBSET S |-> g[s]]
      BY DEF Adds
    <2>3. QED
      BY <2>1, <2>2 DEF SumOver
  <1> DEFINE h == CHOOSE h : SumOver(h, f, S)
  <1>2. SumOver(h, f, S)
    BY <1>1
  <1>3. SumOf(f, S) = h[S]
    BY DEF SumOf
  <1> HIDE DEF h
  <1>4. QED
    BY <1>2, <1>3, SumIsUnique

(* The rows the threads report add up to the rows of all threads.          *)
LEMMA SumsAgree ==
  ASSUME NEW rows \in Seq(Counts)
  PROVE  /\ FoldSeq(+, 0, Reported(rows)) \in Nat
         /\ FoldSeq(+, 0, Reported(rows))
              = MapThenSumSet(LAMBDA t : IF rows[t] = None THEN 0 ELSE rows[t], DOMAIN rows)
         /\ Reported(rows) = <<>> <=> \A t \in DOMAIN rows : rows[t] = None
  <1> DEFINE N == Len(rows)
             I == {t \in DOMAIN rows : rows[t] # None}
             s == Reported(rows)
             L == Len(s)
             f == [t \in DOMAIN rows |-> IF rows[t] = None THEN 0 ELSE rows[t]]
  <1>1. /\ N \in Nat /\ DOMAIN rows = 1 .. N /\ I \in SUBSET DOMAIN rows /\ s = Kept(rows, I)
        /\ \A t \in 1 .. N : rows[t] # None => rows[t] \in Nat
    BY DEF Reported, Counts
  <1>2. s \in Seq(Nat)
    BY ReportedNumbers
  <1>3. L \in Nat /\ DOMAIN s = 1 .. L /\ s \in [1 .. L -> Nat]
    BY <1>2
  <1>4. f \in [1 .. N -> Nat]
    BY <1>1
  <1>5. /\ FoldSeq(+, 0, s) = SumOf(s, DOMAIN s)
        /\ MapThenSumSet(LAMBDA t : IF rows[t] = None THEN 0 ELSE rows[t], DOMAIN rows)
             = SumOf(f, DOMAIN rows)
    BY DEF FoldSeq, FoldFunction, FoldFunctionOnSet, MapThenFoldSet, MapThenSumSet, SumOf, SumOver
  <1>6. \A t \in 1 .. N : f[t] = IF t \in I THEN rows[t] ELSE 0
    BY <1>1
  <1>7. I \in SUBSET (1 .. N) /\ \A t \in 1 .. N : t \in I <=> rows[t] # None
    BY <1>1
  <1> HIDE DEF N, s, L, f, I
  <1>8. PICK p : /\ Lists(p, I) /\ Len(p) = Len(Kept(rows, I))
                 /\ \A k \in DOMAIN p : Kept(rows, I)[k] = rows[p[k]]
    BY <1>1, KeptFacts
  <1>9. /\ DOMAIN p = 1 .. L
        /\ \A k \in 1 .. L : p[k] \in I /\ p[k] \in 1 .. N /\ s[k] = rows[p[k]]
        /\ \A t \in I : \E k \in 1 .. L : p[k] = t
        /\ \A j, k \in 1 .. L : j < k => p[j] < p[k]
    <2>1. Len(p) = L /\ DOMAIN p = 1 .. Len(p) /\ \A k \in DOMAIN p : p[k] \in I
      BY <1>1, <1>8, ListFacts DEF L
    <2>2. QED
      BY <1>1, <1>7, <1>8, <2>1 DEF Lists
  <1>10. \A j, k \in 1 .. L : p[j] = p[k] => j = k
    <2>1. ASSUME NEW j \in 1 .. L, NEW k \in 1 .. L, p[j] = p[k] PROVE j = k
      <3>1. p[j] \in Int /\ p[k] \in Int
        BY <1>9
      <3>2. ~ (p[j] < p[k]) /\ ~ (p[k] < p[j])
        BY <2>1, <3>1
      <3>3. QED
        BY <1>3, <1>9, <3>2
    <2>2. QED
      BY <2>1
  <1>11. PICK g : Adds(g, f, 1 .. N)
    BY <1>1, <1>4, AddingUp
  <1>12. PICK h : Adds(h, s, 1 .. L)
    BY <1>3, AddingUp
  <1> DEFINE K(n) == {k \in 1 .. L : p[k] <= n}
             S == {n \in Nat : n <= N => g[1 .. n] = h[K(n)]}
  <1>13. 0 \in S
    <2>1. 1 .. 0 = {}
      OBVIOUS
    <2>2. K(0) = {}
      BY <1>9
    <2> HIDE DEF K
    <2>3. QED
      BY <1>11, <1>12, <2>1, <2>2 DEF Adds
  <1>14. ASSUME NEW n \in Nat, n \in S PROVE n + 1 \in S
    <2> SUFFICES ASSUME n + 1 <= N PROVE g[1 .. n + 1] = h[K(n + 1)]
      <3> HIDE DEF K
      <3>1. QED
        OBVIOUS
    <2>1. /\ n <= N /\ n + 1 \in 1 .. N /\ n + 1 \in 1 .. n + 1 /\ (1 .. n + 1) \ {n + 1} = 1 .. n
          /\ 1 .. n + 1 \in SUBSET (1 .. N)
      BY <1>1
    <2>2. g[1 .. n] = h[K(n)]
      BY <1>14, <2>1
    <2>3. g[1 .. n + 1] = f[n + 1] + g[(1 .. n + 1) \ {n + 1}]
      BY <1>11, <2>1, Zenon DEF Adds
    <2>4. g[1 .. n] \in Nat
      <3>1. 1 .. n \in SUBSET (1 .. N)
        BY <1>1, <2>1
      <3>2. QED
        BY <1>11, <3>1 DEF Adds
    <2>5. CASE n + 1 \in I
      <3>1. PICK k \in 1 .. L : p[k] = n + 1
        BY <1>9, <2>5
      <3>2. f[n + 1] = s[k]
        BY <1>6, <1>9, <2>1, <2>5, <3>1
      <3>3. K(n + 1) \in SUBSET (1 .. L) /\ k \in K(n + 1)
        BY <3>1
      <3>4. K(n + 1) \ {k} = K(n)
        <4>1. \A j \in 1 .. L : p[j] \in Int /\ (p[j] = n + 1 <=> j = k)
          BY <1>9, <1>10, <3>1
        <4>2. \A j \in 1 .. L : (p[j] <= n + 1 /\ j # k) <=> p[j] <= n
          BY <4>1
        <4>3. QED
          BY <4>2
      <3> HIDE DEF K
      <3>5. h[K(n + 1)] = s[k] + h[K(n + 1) \ {k}]
        BY <1>12, <3>3, Zenon DEF Adds
      <3>6. QED
        BY <2>1, <2>2, <2>3, <3>2, <3>4, <3>5
    <2>6. CASE n + 1 \notin I
      <3>1. f[n + 1] = 0
        BY <1>6, <2>1, <2>6
      <3>2. \A j \in 1 .. L : p[j] \in Int /\ p[j] # n + 1
        BY <1>9, <2>6
      <3>3. \A j \in 1 .. L : p[j] <= n + 1 <=> p[j] <= n
        BY <3>2
      <3>4. K(n + 1) = K(n)
        BY <3>3
      <3> HIDE DEF K
      <3>5. QED
        <4>1. g[1 .. n + 1] = 0 + g[1 .. n]
          BY <2>1, <2>3, <3>1
        <4>2. g[1 .. n + 1] = g[1 .. n]
          BY <2>4, <4>1
        <4>3. QED
          BY <2>2, <3>4, <4>2
    <2>7. QED
      BY <2>5, <2>6
  <1>15. g[1 .. N] = h[K(N)]
    <2>1. \A n \in Nat : n \in S => n + 1 \in S
      BY <1>14
    <2>2. \A n \in Nat : n \in S
      <3> HIDE DEF S
      <3>1. QED
        BY <1>13, <2>1, InductiveSet
    <2>3. N \in S
      BY <1>1, <2>2, Zenon
    <2>4. N <= N
      BY <1>1
    <2> HIDE DEF K
    <2>5. QED
      BY <2>3, <2>4
  <1>16. K(N) = 1 .. L
    BY <1>1, <1>9
  <1>17. SumOf(s, 1 .. L) = h[1 .. L] /\ SumOf(f, 1 .. N) = g[1 .. N]
    BY <1>1, <1>3, <1>11, <1>12, FS_Interval, SumOfIs
  <1>18. h[1 .. L] \in Nat
    BY <1>12 DEF Adds
  <1>19. s = <<>> <=> \A t \in DOMAIN rows : rows[t] = None
    <2>1. s = <<>> <=> L = 0
      BY <1>2 DEF L
    <2>2. L = 0 <=> I = {}
      BY <1>3, <1>9
    <2>3. QED
      BY <1>1, <1>7, <2>1, <2>2
  <1> HIDE DEF K, S
  <1>20. /\ FoldSeq(+, 0, s) = h[1 .. L]
         /\ MapThenSumSet(LAMBDA t : IF rows[t] = None THEN 0 ELSE rows[t], DOMAIN rows) = h[1 .. L]
    BY <1>1, <1>3, <1>5, <1>15, <1>16, <1>17
  <1>21. QED
    BY <1>18, <1>19, <1>20 DEF s

-----------------------------------------------------------------------------

(* What is inside an element is its children and what is inside them.      *)
LEMMA InsideFacts ==
  ASSUME NEW doc, IsShowplan(doc)
  PROVE  /\ \A e : Inside(doc, e) \subseteq Elements(doc)
         /\ \A e \in Elements(doc), c \in Elements(doc) :
              c \in Inside(doc, e) <=> doc.parent[c] = e \/ doc.parent[c] \in Inside(doc, e)
  <1> DEFINE E == Elements(doc)
             Rec(f) == f = [c \in E |-> IF doc.parent[c] = 0 THEN {}
                                        ELSE {doc.parent[c]} \cup f[doc.parent[c]]]
             g == [c \in E |-> {e \in E : c \in Span(doc, e) \ {e}}]
             f == CHOOSE f : Rec(f)
  <1>1. /\ E \subseteq Nat /\ 0 \notin E /\ 1 \in E
        /\ \A c \in E : doc.parent[c] \in Nat /\ doc.parent[c] < c /\ (c # 1 => doc.parent[c] \in E)
        /\ \A c, d \in E : doc.parent[d] < c /\ c < d => doc.parent[d] <= doc.parent[c]
        /\ doc.parent[1] = 0 /\ \A e \in E : e >= 1
    <2>1. E = 1 .. Len(doc.tag) /\ Len(doc.tag) \in Nat
      BY TreeFacts
    <2>2. QED
      BY <2>1, TreeFacts DEF IsShowplan
  <1>2. \A e \in E, x \in E : x \in Span(doc, e) <=>
          x >= e /\ \A d \in E : e < d /\ d <= x => doc.parent[d] >= e
    BY DEF Span
  <1> HIDE DEF E
  <1>3. ASSUME NEW c \in E, c # 1, NEW e \in E
        PROVE  c \in Span(doc, e) \ {e} <=> doc.parent[c] \in Span(doc, e)
    <2> DEFINE q == doc.parent[c]
    <2>1. q \in E /\ q < c /\ q \in Nat /\ c \in Nat /\ e \in Nat
      BY <1>1, <1>3
    <2>2. ASSUME c \in Span(doc, e), c # e PROVE q \in Span(doc, e)
      <3>1. c > e /\ q >= e
        <4>1. c >= e /\ \A d \in E : e < d /\ d <= c => doc.parent[d] >= e
          BY <1>2, <2>2
        <4>2. c > e /\ c <= c
          BY <2>1, <2>2, <4>1
        <4>3. QED
          BY <4>1, <4>2
      <3>2. \A d \in E : d \in Nat /\ (d <= q => d <= c)
        <4> HIDE DEF q
        <4>1. QED
          BY <1>1, <2>1
      <3>3. QED
        BY <1>2, <2>1, <2>2, <3>1, <3>2
    <2>3. ASSUME q \in Span(doc, e) PROVE c \in Span(doc, e) /\ c # e
      <3>1. q >= e /\ \A d \in E : e < d /\ d <= q => doc.parent[d] >= e
        BY <1>2, <2>1, <2>3
      <3>2. ASSUME NEW d \in E, e < d, d <= c PROVE doc.parent[d] >= e
        <4>1. d \in Nat /\ doc.parent[d] \in Nat
          BY <1>1
        <4>2. CASE d <= q
          BY <3>1, <3>2, <4>2
        <4>3. CASE d = c
          BY <3>1, <4>3
        <4>4. CASE q < d /\ d < c
          <5>1. q <= doc.parent[d]
            BY <1>1, <4>4
          <5>2. QED
            BY <2>1, <3>1, <4>1, <5>1
        <4>5. QED
          BY <2>1, <3>2, <4>1, <4>2, <4>3, <4>4
      <3>3. c >= e /\ c # e
        BY <2>1, <3>1
      <3>4. QED
        BY <1>2, <3>2, <3>3
    <2>4. QED
      BY <2>2, <2>3
  <1>4. ASSUME NEW c \in E
        PROVE  g[c] = IF doc.parent[c] = 0 THEN {} ELSE {doc.parent[c]} \cup g[doc.parent[c]]
    <2>1. CASE c = 1
      <3>1. \A e \in E : ~ (c \in Span(doc, e) \ {e})
        <4>1. \A e \in E : e \in Nat /\ e >= 1
          BY <1>1
        <4>2. QED
          BY <1>2, <2>1, <4>1
      <3>2. g[c] = {}
        BY <3>1
      <3>3. QED
        BY <1>1, <2>1, <3>2
    <2>2. CASE c # 1
      <3> DEFINE q == doc.parent[c]
      <3>1. q \in E /\ q # 0
        BY <1>1, <2>2
      <3>2. q \in Span(doc, q)
        BY <3>1, SpanIsInterval DEF E
      <3>3. \A e \in E : c \in Span(doc, e) \ {e} <=> q \in Span(doc, e)
        BY <1>3, <2>2
      <3> HIDE DEF q
      <3>4. g[c] = {q} \cup g[q]
        BY <3>1, <3>2, <3>3
      <3>5. QED
        BY <3>1, <3>4 DEF q
    <2>3. QED
      BY <2>1, <2>2
  <1>5. Rec(g)
    <2>1. g = [c \in E |-> g[c]]
      OBVIOUS
    <2> HIDE DEF g
    <2>2. QED
      BY <1>4, <2>1, Zenon
  <1>6. Rec(f)
    <2> HIDE DEF Rec
    <2>1. QED
      BY <1>5
  <1>7. \A e : Inside(doc, e) = {c \in E : e \in f[c]}
    BY DEF Inside, E
  <1>8. \A c \in E : f[c] = IF doc.parent[c] = 0 THEN {} ELSE {doc.parent[c]} \cup f[doc.parent[c]]
    <2> HIDE DEF f
    <2>1. QED
      BY <1>6
  <1> HIDE DEF f, Rec, g
  <1>9. ASSUME NEW e \in E, NEW c \in E
        PROVE  c \in Inside(doc, e) <=> doc.parent[c] = e \/ doc.parent[c] \in Inside(doc, e)
    <2>1. CASE c = 1
      <3>1. f[c] = {} /\ doc.parent[c] = 0
        BY <1>1, <1>8, <2>1
      <3>2. QED
        BY <1>1, <1>7, <3>1
    <2>2. CASE c # 1
      <3>1. doc.parent[c] \in E /\ doc.parent[c] # 0
        BY <1>1, <2>2
      <3>2. e \in f[c] <=> e = doc.parent[c] \/ e \in f[doc.parent[c]]
        BY <1>8, <3>1
      <3>3. QED
        BY <1>7, <3>1, <3>2
    <2>3. QED
      BY <2>1, <2>2
  <1>10. QED
    BY <1>7, <1>9 DEF E

(* Elements are reached from their parents.                                *)
LEMMA FromParents ==
  ASSUME NEW doc, IsShowplan(doc), NEW A,
         \A c \in Elements(doc) : doc.parent[c] \notin Elements(doc) \/ doc.parent[c] \in A => c \in A
  PROVE  Elements(doc) \subseteq A
  <1> DEFINE B == Elements(doc) \ A
  <1>1. B \in SUBSET Nat
    BY TreeFacts
  <1>2. ASSUME B # {} PROVE FALSE
    <2>1. PICK c \in B : \A y \in B : c <= y
      <3> HIDE DEF B
      <3>1. QED
        BY <1>1, <1>2, LeastElement
    <2>2. doc.parent[c] \in Nat /\ doc.parent[c] < c /\ c \in Nat
      BY TreeFacts
    <2>3. doc.parent[c] \notin B
      BY <2>1, <2>2
    <2>4. QED
      BY <2>3
  <1>3. QED
    BY <1>2

(* Two elements that hold the same one are one inside the other.           *)
LEMMA OneInsideTheOther ==
  ASSUME NEW doc, IsShowplan(doc), NEW d \in Elements(doc), NEW e \in Elements(doc),
         NEW c \in Inside(doc, d) \cap Inside(doc, e)
  PROVE  d = e \/ d \in Inside(doc, e) \/ e \in Inside(doc, d)
  <1> DEFINE A == {x \in Elements(doc) : x \in Inside(doc, d) /\ x \in Inside(doc, e) =>
                                          d = e \/ d \in Inside(doc, e) \/ e \in Inside(doc, d)}
  <1>1. ASSUME NEW x \in Elements(doc), doc.parent[x] \notin Elements(doc) \/ doc.parent[x] \in A
        PROVE  x \in A
    BY <1>1, InsideFacts
  <1>2. Elements(doc) \subseteq A
    <2> HIDE DEF A
    <2>1. QED
      BY <1>1, FromParents
  <1>3. c \in Elements(doc)
    BY InsideFacts
  <1>4. QED
    BY <1>2, <1>3

(* An only child holds all that its parent holds.                          *)
LEMMA OnlyChild ==
  ASSUME NEW doc, IsShowplan(doc), NEW e \in Elements(doc)
  PROVE  /\ (\A c \in Elements(doc) : doc.parent[c] # e) => Inside(doc, e) = {}
         /\ \A w \in Elements(doc) :
              (\A c \in Elements(doc) : doc.parent[c] = e <=> c = w) =>
                Inside(doc, e) = {w} \cup Inside(doc, w)
  <1>1. ASSUME \A c \in Elements(doc) : doc.parent[c] # e PROVE Inside(doc, e) = {}
    <2> DEFINE A == Elements(doc) \ Inside(doc, e)
    <2>1. ASSUME NEW x \in Elements(doc), doc.parent[x] \notin Elements(doc) \/ doc.parent[x] \in A
          PROVE  x \in A
      BY <1>1, <2>1, InsideFacts
    <2>2. Elements(doc) \subseteq A
      <3> HIDE DEF A
      <3>1. QED
        BY <2>1, FromParents
    <2>3. QED
      BY <2>2, InsideFacts
  <1>2. ASSUME NEW w \in Elements(doc), \A c \in Elements(doc) : doc.parent[c] = e <=> c = w
        PROVE  Inside(doc, e) = {w} \cup Inside(doc, w)
    <2> DEFINE A == {x \in Elements(doc) : x \in Inside(doc, e) <=> x = w \/ x \in Inside(doc, w)}
    <2>1. ASSUME NEW x \in Elements(doc), doc.parent[x] \notin Elements(doc) \/ doc.parent[x] \in A
          PROVE  x \in A
      <3>1. /\ x \in Inside(doc, e) <=> doc.parent[x] = e \/ doc.parent[x] \in Inside(doc, e)
            /\ x \in Inside(doc, w) <=> doc.parent[x] = w \/ doc.parent[x] \in Inside(doc, w)
            /\ doc.parent[x] = e <=> x = w
            /\ Inside(doc, e) \subseteq Elements(doc) /\ Inside(doc, w) \subseteq Elements(doc)
        BY <1>2, InsideFacts
      <3>2. QED
        BY <2>1, <3>1
    <2>2. Elements(doc) \subseteq A
      <3> HIDE DEF A
      <3>1. QED
        BY <2>1, FromParents
    <2>3. QED
      BY <2>2, InsideFacts
  <1>3. QED
    BY <1>1, <1>2

(* The wrapper of e is one of its children.                                *)
LEMMA WrapperIsInside ==
  ASSUME NEW doc, IsShowplan(doc), NEW e \in Elements(doc)
  PROVE  InsideWrapper(doc, e) \subseteq Inside(doc, e)
  <1> DEFINE candidates == {c \in Elements(doc) : doc.parent[c] = e /\ doc.tag[c] # "RelOp"}
  <1>1. CASE candidates = {}
    <2>1. DetailWrapper(doc, e) = None
      BY <1>1 DEF DetailWrapper, First
    <2>2. QED
      BY <2>1 DEF InsideWrapper
  <1>2. ASSUME candidates # {} PROVE InsideWrapper(doc, e) \subseteq Inside(doc, e)
    <2>1. candidates \in SUBSET Nat
      BY TreeFacts
    <2>2. Min(candidates) \in candidates
      <3> HIDE DEF candidates
      <3>1. \E x \in candidates : \A y \in candidates : x <= y
        BY <1>2, <2>1, LeastElement
      <3>2. QED
        BY <3>1 DEF Min
    <2>3. DetailWrapper(doc, e) = Min(candidates)
      BY <1>2 DEF DetailWrapper, First
    <2>4. PICK w \in Elements(doc) : DetailWrapper(doc, e) = w /\ doc.parent[w] = e
      BY <2>2, <2>3
    <2>5. w # None
      BY TreeFacts, NoneIsNoValue
    <2>6. InsideWrapper(doc, e) = Inside(doc, w)
      BY <2>4, <2>5 DEF InsideWrapper
    <2>7. w \in Inside(doc, e)
      BY <2>4, InsideFacts
    <2> DEFINE A == {x \in Elements(doc) : x \in Inside(doc, w) => x \in Inside(doc, e)}
    <2>8. ASSUME NEW x \in Elements(doc), doc.parent[x] \notin Elements(doc) \/ doc.parent[x] \in A
          PROVE  x \in A
      <3>1. /\ x \in Inside(doc, e) <=> doc.parent[x] = e \/ doc.parent[x] \in Inside(doc, e)
            /\ x \in Inside(doc, w) <=> doc.parent[x] = w \/ doc.parent[x] \in Inside(doc, w)
            /\ Inside(doc, w) \subseteq Elements(doc)
        BY InsideFacts
      <3>2. QED
        BY <2>7, <2>8, <3>1
    <2>9. Elements(doc) \subseteq A
      <3> HIDE DEF A
      <3>1. QED
        BY <2>8, FromParents
    <2>10. QED
      BY <2>6, <2>9, InsideFacts
  <1>3. QED
    BY <1>1, <1>2

(* What is found for an operator without inputs is an object of its own;   *)
(* and where the detail stands alone, one is found if there is any.        *)
LEMMA ScanObject ==
  ASSUME NEW doc, IsShowplan(doc), NEW e \in RelOps(doc),
         Inside(doc, e) \cap RelOps(doc) = {}
  PROVE  /\ ObjectOf(doc, e) \in OwnObjects(doc, e) \cup {None}
         /\ HoldsItsDetailOnly(doc, e) /\ OwnObjects(doc, e) # {} => ObjectOf(doc, e) # None
  <1>1. e \in Elements(doc)
    BY TreeFacts
  <1> DEFINE objects == {c \in Inside(doc, e) : doc.tag[c] = "Object"}
             found == {c \in InsideWrapper(doc, e) : doc.tag[c] = "Object"}
  <1>2. OwnObjects(doc, e) = objects
    <2>1. ASSUME NEW c \in Inside(doc, e), NEW r \in RelOps(doc), c \in Inside(doc, r)
          PROVE  e \in Inside(doc, r) \cup {r}
      <3>1. r \in Elements(doc) /\ r \notin Inside(doc, e)
        BY <1>1, TreeFacts
      <3>2. QED
        BY <1>1, <2>1, <3>1, OneInsideTheOther
    <2>2. QED
      BY <2>1 DEF OwnObjects
  <1>3. ObjectOf(doc, e) = First(found)
    BY DEF ObjectOf
  <1>4. found \subseteq objects /\ objects \in SUBSET Nat
    BY <1>1, WrapperIsInside, InsideFacts, TreeFacts
  <1>5. ASSUME HoldsItsDetailOnly(doc, e), NEW c \in objects PROVE c \in found
    <2>1. PICK w \in Elements(doc) : doc.parent[w] = e
      <3>1. Inside(doc, e) # {}
        BY <1>5
      <3>2. QED
        BY <1>1, <3>1, OnlyChild
    <2>2. doc.tag[w] = "Detail" /\ \A d \in Elements(doc) : doc.parent[d] = e <=> d = w
      BY <1>5, <2>1 DEF HoldsItsDetailOnly
    <2>3. {d \in Elements(doc) : doc.parent[d] = e /\ doc.tag[d] # "RelOp"} = {w}
      BY <2>2
    <2>4. w \in Nat /\ w # None
      BY TreeFacts, NoneIsNoValue
    <2>5. Min({w}) = w
      <3>1. w \in {w} /\ \A y \in {w} : w <= y
        BY <2>4
      <3>2. QED
        BY <3>1 DEF Min
    <2>6. DetailWrapper(doc, e) = w
      BY <2>3, <2>5 DEF DetailWrapper, First
    <2>7. InsideWrapper(doc, e) = Inside(doc, w)
      BY <2>4, <2>6 DEF InsideWrapper
    <2>8. Inside(doc, e) = {w} \cup Inside(doc, w)
      BY <1>1, <2>2, OnlyChild
    <2>9. QED
      BY <1>5, <2>2, <2>7, <2>8
  <1> HIDE DEF objects, found
  <1>6. ASSUME found # {} PROVE Min(found) \in found /\ Min(found) # None
    <2>1. found \in SUBSET Nat
      BY <1>4
    <2>2. \E x \in found : \A y \in found : x <= y
      BY <1>6, <2>1, LeastElement
    <2>3. Min(found) \in found
      BY <2>2 DEF Min
    <2>4. \A x \in found : x # None
      BY <2>1, NoneIsNoValue
    <2>5. QED
      BY <2>3, <2>4, Zenon
  <1>7. QED
    BY <1>2, <1>3, <1>4, <1>5, <1>6 DEF First

-----------------------------------------------------------------------------

(* An operator is reported as a large scan if and only if it is one.       *)
LEMMA LargeScanIs ==
  ASSUME NEW doc, IsShowplan(doc), NEW i \in DOMAIN Walk(doc)
  PROVE  IsLargeScan(BuildOperator(doc, Walk(doc), i)) <=> Walk(doc)[i] \in LargeScans(doc)
  <1> DEFINE e == Walk(doc)[i]
             a == doc.attr[e]
             o == BuildOperator(doc, Walk(doc), i)
             rows == IF \E t \in DOMAIN a.rows : a.rows[t] # None
                     THEN MapThenSumSet(LAMBDA t : IF a.rows[t] = None THEN 0 ELSE a.rows[t],
                                        DOMAIN a.rows)
                     ELSE a.estimated
  <1>1. e \in RelOps(doc)
    BY PlanOperators
  <1>2. a.rows \in Seq(Counts)
    <2>1. a \in OperatorAttributes
      BY <1>1 DEF IsShowplan
    <2>2. QED
      BY <2>1 DEF OperatorAttributes
  <1>3. /\ o.access = AccessType(a.physical, IsLookup(doc, e))
        /\ o.actual = SumActualRows(a.rows) /\ o.estimated = a.estimated
    BY DEF BuildOperator
  <1>4. e \in LargeScans(doc) <=>
          a.physical \in ScanNames \ SeekNames /\ rows # None /\ rows >= LargeScanWarningRows
    BY <1>1 DEF LargeScans, Scans
  <1>5. a.physical \in ScanNames \ SeekNames <=> o.access \in {"scan", "full_scan"}
    <2>1. a.physical \in ScanNames => ~IsLookup(doc, e)
      BY <1>1 DEF IsShowplan, IsLookup
    <2>2. None \notin {"scan", "full_scan"}
      BY NoneIsNoValue DEF AccessTypes
    <2> HIDE DEF a, o, e
    <2>3. QED
      BY <1>3, <2>1, <2>2, NamesSayWhatTheyDo DEF AccessType
  <1>6. RowsRead(o) = rows
    <2> DEFINE r == a.rows
               all == MapThenSumSet(LAMBDA t : IF r[t] = None THEN 0 ELSE r[t], DOMAIN r)
               sum == FoldSeq(+, 0, Reported(r))
    <2>1. /\ sum \in Nat /\ sum = all
          /\ Reported(r) = <<>> <=> \A t \in DOMAIN r : r[t] = None
      BY <1>2, SumsAgree
    <2>2. all # None
      <3> HIDE DEF all, sum
      <3>1. all \in Int
        BY <2>1
      <3>2. None \notin Int
        BY NoneIsNoValue
      <3>3. QED
        BY <3>1, <3>2, Zenon
    <2>3. SumActualRows(r) = IF \E t \in DOMAIN r : r[t] # None THEN all ELSE None
      BY <2>1 DEF SumActualRows
    <2> HIDE DEF all, o
    <2>4. RowsRead(o) = IF \E t \in DOMAIN r : r[t] # None THEN all ELSE a.estimated
      BY <1>3, <2>2, <2>3 DEF RowsRead
    <2>5. QED
      BY <2>4 DEF all
  <1> HIDE DEF rows, o, a, e
  <1>7. IsLargeScan(o) <=> e \in LargeScans(doc)
    BY <1>4, <1>5, <1>6 DEF IsLargeScan
  <1>8. QED
    BY <1>7 DEF o, e

(* The findings of a rule, when another rule's are added.                  *)
LEMMA OtherRule ==
  ASSUME NEW T, NEW s \in Seq(T), NEW t \in Seq(T), NEW rule, NEW A,
         {k \in 1 .. Len(s) : s[k].rule = rule} = A,
         \A k \in 1 .. Len(t) : t[k].rule # rule
  PROVE  /\ {k \in 1 .. Len(s \o t) : (s \o t)[k].rule = rule} = A
         /\ \A k \in A : (s \o t)[k] = s[k]
  <1> DEFINE u == s \o t
  <1>1. /\ Len(u) = Len(s) + Len(t) /\ Len(s) \in Nat /\ Len(t) \in Nat
        /\ \A k \in 1 .. Len(s) : u[k] = s[k]
        /\ \A k \in 1 .. Len(t) : u[Len(s) + k] = t[k]
        /\ \A k \in 1 .. Len(s) + Len(t) :
             k \in 1 .. Len(s) \/ (k - Len(s) \in 1 .. Len(t) /\ k = Len(s) + (k - Len(s)))
    BY ConcatFacts
  <1> HIDE DEF u
  <1>2. ASSUME NEW k \in 1 .. Len(u), u[k].rule = rule PROVE k \in A
    <2>1. CASE k \in 1 .. Len(s)
      BY <1>1, <1>2, <2>1
    <2>2. CASE k - Len(s) \in 1 .. Len(t) /\ k = Len(s) + (k - Len(s))
      <3>1. u[k] = t[k - Len(s)]
        BY <1>1, <2>2
      <3>2. QED
        BY <1>2, <2>2, <3>1
    <2>3. QED
      BY <1>1, <2>1, <2>2
  <1>3. ASSUME NEW k \in A PROVE k \in 1 .. Len(u) /\ u[k] = s[k] /\ u[k].rule = rule
    <2>1. k \in 1 .. Len(s) /\ s[k].rule = rule
      BY <1>3
    <2>2. k \in 1 .. Len(u)
      BY <1>1, <2>1
    <2>3. QED
      BY <1>1, <2>1, <2>2
  <1>4. QED
    BY <1>2, <1>3 DEF u

(* c stands in s as it is, and what else s has is of other rules.          *)
IsTheBlock(s, c) ==
  \E a \in Nat : /\ {k \in 1 .. Len(s) : s[k].rule = "large_table_scan"} = a + 1 .. a + Len(c)
                /\ \A k \in 1 .. Len(c) : s[a + k] = c[k]

(* The findings of large scans come in one block.                          *)
LEMMA PlaceOfLargeScans ==
  ASSUME NEW p, IsPlan(p)
  PROVE  IsTheBlock(Unsorted(p), CheckLargeScans(p))
  <1> SUFFICES ASSUME NEW s, s = Unsorted(p), NEW c, c = CheckLargeScans(p)
               PROVE  IsTheBlock(s, c)
    OBVIOUS
  <1> DEFINE a == Len(PromoteAdapterWarnings(p))
             b == Len(CheckLargeScans(p))
             x1 == PromoteAdapterWarnings(p)
             x2 == CheckLargeScans(p)
             x3 == CheckCardinalitySkew(p)
             x4 == CheckBookmarkLookups(p)
             x5 == CheckMissingIndexes(p)
             x6 == CheckParallelism(p)
             T == FindingsIn(p)
             large == "large_table_scan"
  <1>1. /\ Segment(x1, p, 1) /\ Segment(x2, p, 2) /\ Segment(x3, p, 3)
        /\ Segment(x4, p, 4) /\ Segment(x5, p, 5) /\ Segment(x6, p, 6)
    BY PromotedSegment, LargeScanSegment, SkewSegment, LookupSegment, MissingSegment,
       ParallelSegment
  <1>2. \A k \in 1 .. Len(x2) : x2[k].rule = large
    <2> DEFINE ops == p.operators
               kept == Kept(ops, {i \in DOMAIN ops : IsLargeScan(ops[i])})
    <2>1. x2 = [k \in DOMAIN kept |->
                  Finding(large, IF RowsRead(kept[k]) >= LargeScanCriticalRows
                                 THEN "critical" ELSE "warning",
                          kept[k].id, kept[k].object, None)]
      BY DEF CheckLargeScans
    <2>2. DOMAIN x2 = 1 .. Len(x2)
      BY <1>1 DEF Segment
    <2> HIDE DEF kept, x2
    <2>3. QED
      BY <2>1, <2>2 DEF Finding
  <1>3. s = ((((x1 \o x2) \o x3) \o x4) \o x5) \o x6
    BY DEF Unsorted
  <1>4. ASSUME NEW x, NEW order \in Nat, order # 2, Segment(x, p, order)
        PROVE  x \in Seq(T) /\ \A k \in 1 .. Len(x) : x[k].rule # large
    <2>1. x \in Seq(T) /\ \A k \in 1 .. Len(x) : RuleOrder(x[k].rule) = order
      BY <1>4 DEF Segment
    <2>2. RuleOrder(large) = 2
      BY RuleOrders
    <2> HIDE DEF large, T
    <2>3. QED
      BY <1>4, <2>1, <2>2
  <1> HIDE DEF x1, x2, x3, x4, x5, x6, T, large
  <1>5. /\ x1 \in Seq(T) /\ x3 \in Seq(T) /\ x4 \in Seq(T) /\ x5 \in Seq(T) /\ x6 \in Seq(T)
        /\ \A k \in 1 .. Len(x1) : x1[k].rule # large
        /\ \A k \in 1 .. Len(x3) : x3[k].rule # large
        /\ \A k \in 1 .. Len(x4) : x4[k].rule # large
        /\ \A k \in 1 .. Len(x5) : x5[k].rule # large
        /\ \A k \in 1 .. Len(x6) : x6[k].rule # large
    BY <1>1, <1>4
  <1>6. x2 \in Seq(T)
    BY <1>1 DEF Segment, T
  <1>7. a = Len(x1) /\ b = Len(x2) /\ a \in Nat /\ b \in Nat
    BY <1>5, <1>6 DEF x1, x2
  <1> HIDE DEF a, b
  <1> DEFINE A == a + 1 .. a + b
             y2 == x1 \o x2
             y3 == y2 \o x3
             y4 == y3 \o x4
             y5 == y4 \o x5
             Holds(y) == /\ y \in Seq(T) /\ {k \in 1 .. Len(y) : y[k].rule = large} = A
                         /\ \A k \in 1 .. b : y[a + k] = x2[k]
  <1>8. Holds(y2)
    <2>1. /\ y2 \in Seq(T) /\ Len(y2) = a + b
          /\ \A k \in 1 .. a : y2[k] = x1[k]
          /\ \A k \in 1 .. b : y2[a + k] = x2[k]
          /\ \A k \in 1 .. a + b : k \in 1 .. a \/ (k - a \in 1 .. b /\ k = a + (k - a))
      BY <1>5, <1>6, <1>7, ConcatFacts
    <2> HIDE DEF y2
    <2>2. ASSUME NEW k \in 1 .. Len(y2) PROVE y2[k].rule = large <=> k \in A
      <3>1. CASE k \in 1 .. a
        <4>1. k \notin A
          BY <1>7, <3>1
        <4>2. QED
          BY <1>5, <1>7, <2>1, <3>1, <4>1
      <3>2. CASE k - a \in 1 .. b /\ k = a + (k - a)
        <4>1. k \in A
          BY <1>7, <3>2
        <4>2. y2[k] = x2[k - a]
          BY <2>1, <3>2
        <4>3. QED
          BY <1>2, <1>7, <3>2, <4>1, <4>2
      <3>3. QED
        BY <2>1, <3>1, <3>2
    <2>3. \A k \in A : k \in 1 .. Len(y2)
      BY <1>7, <2>1
    <2> HIDE DEF A
    <2>4. QED
      BY <2>1, <2>2, <2>3
  <1>9. ASSUME NEW y, Holds(y), NEW x \in Seq(T), \A k \in 1 .. Len(x) : x[k].rule # large
        PROVE  Holds(y \o x)
    <2>1. /\ {k \in 1 .. Len(y \o x) : (y \o x)[k].rule = large} = A
          /\ \A k \in A : (y \o x)[k] = y[k]
      BY <1>9, OtherRule
    <2>2. \A k \in 1 .. b : a + k \in A
      BY <1>7
    <2> HIDE DEF A
    <2>3. QED
      BY <1>9, <2>1, <2>2, ConcatFacts
  <1> HIDE DEF y2, Holds
  <1>10. Holds(y3)
    BY <1>5, <1>8, <1>9
  <1> HIDE DEF y3
  <1>11. Holds(y4)
    BY <1>5, <1>9, <1>10
  <1> HIDE DEF y4
  <1>12. Holds(y5)
    BY <1>5, <1>9, <1>11
  <1> HIDE DEF y5
  <1>13. Holds(y5 \o x6)
    BY <1>5, <1>9, <1>12
  <1>14. s = y5 \o x6
    BY <1>3 DEF y5, y4, y3, y2
  <1>15. c = x2 /\ b = Len(c)
    BY DEF x2, b
  <1>16. QED
    BY <1>7, <1>13, <1>14, <1>15 DEF IsTheBlock, Holds, large

(* Sets that a bijection pairs are as large as each other.                 *)
LEMMA SameSize ==
  ASSUME NEW A, NEW B, IsFiniteSet(A), NEW f \in [A -> B],
         \A x, y \in A : f[x] = f[y] => x = y, \A z \in B : \E x \in A : f[x] = z
  PROVE  Cardinality(B) = Cardinality(A)
  <1>1. f \in Bijection(A, B)
    BY DEF Bijection, Injection, Surjection, IsInjective
  <1>2. QED
    BY <1>1, FS_Bijection DEF ExistsBijection

(* found are the findings that tell of the large scans in r.               *)
TellOf(found, r, doc, p) ==
  /\ Cardinality(found) = Cardinality(LargeScans(doc))
  /\ \A e \in LargeScans(doc) : \E k \in found, i \in DOMAIN p.operators :
       /\ p.operators[i].element = e
       /\ r[k].operator = p.operators[i].id
       /\ r[k].object = p.operators[i].object

(* Each large scan is one finding, and the finding knows its object.       *)
LEMMA LargeScansAreFound ==
  ASSUME NEW doc, IsShowplan(doc), NEW p, p = ParsePlan(doc), IsPlan(p),
         NEW r, r = BySeverity(Unsorted(p)),
         NEW found, found = {k \in DOMAIN r : r[k].rule = "large_table_scan"}
  PROVE  TellOf(found, r, doc, p)
  <1> DEFINE walk == Walk(doc)
             ops == p.operators
             I == {i \in DOMAIN ops : IsLargeScan(ops[i])}
             kept == Kept(ops, I)
             c == CheckLargeScans(p)
             s == Unsorted(p)
             b == Len(c)
             n == Len(s)
  <1>1. /\ DOMAIN ops = DOMAIN walk /\ walk \in Seq(RelOps(doc)) /\ RelOps(doc) \subseteq Nat
        /\ \A i \in DOMAIN ops : /\ ops[i] = BuildOperator(doc, walk, i)
                                 /\ walk[i] \in RelOps(doc)
        /\ \A i, j \in DOMAIN ops : walk[i] = walk[j] => i = j
    <2>1. /\ walk \in Seq(RelOps(doc)) /\ RelOps(doc) \subseteq Nat
          /\ ops = [i \in DOMAIN walk |-> BuildOperator(doc, walk, i)]
          /\ \A i \in DOMAIN walk : walk[i] \in RelOps(doc)
          /\ \A i, j \in DOMAIN walk : walk[i] = walk[j] => i = j
      BY PlanOperators
    <2> HIDE DEF ops, walk
    <2>2. QED
      BY <2>1
  <1>2. \A i \in DOMAIN ops : i \in I <=> walk[i] \in LargeScans(doc)
    BY <1>1, LargeScanIs
  <1>3. \A e \in LargeScans(doc) : \E i \in DOMAIN ops : walk[i] = e
    <2>1. LargeScans(doc) \subseteq RelOps(doc)
      BY DEF LargeScans, Scans
    <2>2. QED
      BY <1>1, <2>1, WalkListsTheOperators DEF Lists
  <1>4. \A i \in DOMAIN ops : ops[i].element = walk[i]
    <2>1. \A i : BuildOperator(doc, walk, i).element = walk[i]
      BY DEF BuildOperator
    <2> HIDE DEF ops, walk
    <2>2. QED
      BY <1>1, <2>1
  <1>5. ops \in Seq(ToSet(ops))
    BY DEF IsPlan
  <1>6. I \in SUBSET DOMAIN ops /\ \A i \in I : i \in DOMAIN ops
    OBVIOUS
  <1> HIDE DEF I, walk
  <1>7. PICK q : /\ Lists(q, I) /\ Len(q) = Len(kept)
                 /\ \A k \in DOMAIN q : kept[k] = ops[q[k]]
    BY <1>5, <1>6, KeptFacts
  <1>8. c = [k \in DOMAIN kept |->
               Finding("large_table_scan",
                       IF RowsRead(kept[k]) >= LargeScanCriticalRows THEN "critical" ELSE "warning",
                       kept[k].id, kept[k].object, None)]
    BY DEF CheckLargeScans, I
  <1>9. /\ DOMAIN kept = 1 .. Len(kept) /\ Len(kept) \in Nat
        /\ DOMAIN q = 1 .. Len(kept) /\ \A k \in DOMAIN q : q[k] \in I
    <2>1. kept \in Seq(ToSet(ops))
      BY <1>5, <1>6, KeptFacts
    <2> HIDE DEF kept
    <2>2. QED
      BY <1>7, <2>1, ListFacts
  <1>10. I \in SUBSET Nat
    BY <1>1, <1>6
  <1> HIDE DEF kept, ops, c
  <1>11. /\ b = Len(kept) /\ b \in Nat
         /\ \A k \in 1 .. b : c[k].operator = ops[q[k]].id /\ c[k].object = ops[q[k]].object
    <2>1. /\ DOMAIN c = 1 .. Len(kept)
          /\ \A k \in 1 .. Len(kept) : c[k].operator = kept[k].id /\ c[k].object = kept[k].object
      BY <1>8, <1>9 DEF Finding
    <2>2. Len(c) = Len(kept)
      BY <1>8, <1>9
    <2>3. QED
      BY <1>7, <1>9, <2>1, <2>2
  <1>12. IsFiniteSet(I) /\ Cardinality(I) = b
    BY <1>7, <1>10, <1>11, ListLength
  <1>13. Cardinality(LargeScans(doc)) = b
    <2> DEFINE f == [i \in I |-> walk[i]]
    <2>1. f \in [I -> LargeScans(doc)]
      BY <1>2, <1>6
    <2>2. \A x, y \in I : f[x] = f[y] => x = y
      BY <1>1, <1>6
    <2>3. \A z \in LargeScans(doc) : \E x \in I : f[x] = z
      BY <1>2, <1>3
    <2> HIDE DEF f
    <2>4. Cardinality(LargeScans(doc)) = Cardinality(I)
      BY <1>12, <2>1, <2>2, <2>3, SameSize
    <2>5. QED
      BY <1>12, <2>4
  <1>14. PICK a \in Nat : /\ {k \in 1 .. n : s[k].rule = "large_table_scan"} = a + 1 .. a + b
                          /\ \A k \in 1 .. b : s[a + k] = c[k]
    <2>1. IsTheBlock(s, c)
      BY PlaceOfLargeScans DEF c
    <2> HIDE DEF s
    <2>2. QED
      BY <2>1 DEF IsTheBlock
  <1> DEFINE A == a + 1 .. a + b
  <1>15. PICK pos : SortedFrom(r, s, pos)
    BY Evaluated
  <1>16. r \in Seq(FindingsIn(p)) /\ s \in Seq(FindingsIn(p))
    BY Evaluated
  <1> HIDE DEF s, b
  <1>17. /\ n \in Nat /\ DOMAIN r = 1 .. n
         /\ \A k \in 1 .. n : pos[k] \in 1 .. n /\ r[k] = s[pos[k]]
         /\ \A i \in 1 .. n : \E k \in 1 .. n : pos[k] = i
         /\ \A k, m \in 1 .. n : k < m => pos[k] # pos[m]
    <2>1. n \in Nat /\ DOMAIN r = 1 .. Len(r) /\ Len(r) = n
      BY <1>15, <1>16 DEF SortedFrom
    <2> HIDE DEF n
    <2>2. pos \in [1 .. n -> 1 .. n] /\ \A k \in 1 .. n : r[k] = s[pos[k]]
      BY <1>15 DEF SortedFrom, n
    <2>3. \A i \in 1 .. n : \E k \in 1 .. n : pos[k] = i
      BY <1>15 DEF SortedFrom, n
    <2>4. ASSUME NEW k \in 1 .. n, NEW m \in 1 .. n, k < m PROVE pos[k] # pos[m]
      <3>1. LET f == s[pos[k]].severity
                g == s[pos[m]].severity
            IN \/ f = "critical" /\ g # "critical"
               \/ f = "warning" /\ g = "info"
               \/ f = g /\ pos[k] < pos[m]
        BY <1>15, <2>4 DEF SortedFrom, n
      <3>2. pos[k] \in Nat /\ pos[m] \in Nat
        BY <2>1, <2>2
      <3>3. QED
        BY <3>1, <3>2
    <2>5. QED
      BY <2>1, <2>2, <2>3, <2>4
  <1> HIDE DEF n
  <1>18. \A k, m \in 1 .. n : pos[k] = pos[m] => k = m
    <2>1. \A k, m \in 1 .. n : k = m \/ k < m \/ m < k
      BY <1>17
    <2>2. QED
      BY <1>17, <2>1
  <1>19. /\ \A k \in found : k \in 1 .. n /\ pos[k] \in A
         /\ \A i \in A : i \in 1 .. n /\ \E k \in found : pos[k] = i
    <2>1. \A k \in 1 .. n : k \in found <=> pos[k] \in A
      BY <1>14, <1>17
    <2>2. found \subseteq 1 .. n /\ A \subseteq 1 .. n
      BY <1>14, <1>17
    <2> HIDE DEF A
    <2>3. QED
      BY <1>17, <2>1, <2>2
  <1>20. Cardinality(found) = b
    <2> DEFINE f == [k \in found |-> pos[k]]
    <2>1. IsFiniteSet(found)
      <3>1. found \in SUBSET (1 .. n) /\ IsFiniteSet(1 .. n)
        BY <1>17, FS_Interval
      <3>2. QED
        BY <3>1, FS_Subset
    <2>2. Cardinality(A) = b
      <3>1. a + 1 \in Int /\ a + b \in Int /\ (IF a + 1 > a + b THEN 0 ELSE (a + b) - (a + 1) + 1) = b
        BY <1>11, <1>14
      <3>2. Cardinality(A) = IF a + 1 > a + b THEN 0 ELSE (a + b) - (a + 1) + 1
        BY <3>1, FS_Interval
      <3>3. QED
        BY <3>1, <3>2
    <2> HIDE DEF A
    <2>3. f \in [found -> A] /\ (\A x, y \in found : f[x] = f[y] => x = y)
          /\ \A z \in A : \E x \in found : f[x] = z
      BY <1>18, <1>19
    <2> HIDE DEF f
    <2>4. Cardinality(A) = Cardinality(found)
      BY <2>1, <2>3, SameSize
    <2>5. QED
      BY <2>2, <2>4
  <1>21. ASSUME NEW e \in LargeScans(doc)
         PROVE  \E k \in found, i \in DOMAIN ops :
                  /\ ops[i].element = e
                  /\ r[k].operator = ops[i].id
                  /\ r[k].object = ops[i].object
    <2>1. PICK i \in DOMAIN ops : walk[i] = e
      BY <1>3
    <2>2. i \in I
      BY <1>2, <2>1
    <2>3. PICK m \in 1 .. b : q[m] = i
      BY <1>7, <1>9, <1>11, <2>2 DEF Lists
    <2>4. a + m \in A /\ s[a + m] = c[m]
      BY <1>11, <1>14, <2>3
    <2> HIDE DEF A
    <2>5. PICK k \in found : pos[k] = a + m
      BY <1>19, <2>4
    <2>6. r[k] = c[m]
      <3>1. k \in 1 .. n
        BY <1>19
      <3>2. r[k] = s[pos[k]]
        BY <1>17, <3>1
      <3>3. QED
        BY <2>4, <2>5, <3>2, Zenon
    <2>7. QED
      BY <1>4, <1>11, <2>1, <2>3, <2>6
  <1>22. QED
    BY <1>13, <1>20, <1>21 DEF TellOf, ops

(* rules/engine.py 97-121: whatever the plan, every large scan is reported *)
(* once, and under no table but its own.                                   *)
THEOREM LargeScansAreReported == RunSpec => []LargeScansNameTheirTable
  <1>1. RunInv => LargeScansNameTheirTable
    <2> SUFFICES ASSUME RunInv, Analysed PROVE LargeScansNameTheirTable
      BY DEF LargeScansNameTheirTable
    <2> DEFINE found == FindingsOf("large_table_scan")
    <2>1. /\ IsShowplan(document) /\ plan = ParsePlan(document) /\ IsPlan(plan)
          /\ findings = BySeverity(Unsorted(plan))
      BY AnalysedFacts
    <2>2. found = {k \in DOMAIN findings : findings[k].rule = "large_table_scan"}
      BY DEF FindingsOf
    <2>3. TellOf(found, findings, document, plan)
      BY <2>1, <2>2, LargeScansAreFound
    <2> HIDE DEF found
    <2>4. ASSUME NEW e \in LargeScans(document), NEW i \in DOMAIN plan.operators,
                 plan.operators[i].element = e, Inside(document, e) \cap RelOps(document) = {}
          PROVE  /\ plan.operators[i].object \in OwnObjects(document, e) \cup {None}
                 /\ HoldsItsDetailOnly(document, e) /\ OwnObjects(document, e) # {}
                      => plan.operators[i].object # None
      <3>1. plan.operators[i] = BuildOperator(document, Walk(document), i)
        <4>1. /\ plan.operators = [j \in DOMAIN Walk(document) |->
                                     BuildOperator(document, Walk(document), j)]
              /\ DOMAIN plan.operators = DOMAIN Walk(document)
          BY <2>1, PlanOperators
        <4>2. QED
          BY <4>1, Zenon
      <3>2. plan.operators[i].element = Walk(document)[i]
            /\ plan.operators[i].object = ObjectOf(document, Walk(document)[i])
        BY <3>1 DEF BuildOperator
      <3>3. e \in RelOps(document)
        BY DEF LargeScans, Scans
      <3>4. QED
        BY <2>1, <2>4, <3>2, <3>3, ScanObject
    <2>5. QED
      BY <2>3, <2>4 DEF LargeScansNameTheirTable, TellOf, found
  <1>2. QED
    BY <1>1, RunInductive, PTL

=============================================================================
