----------------------------- MODULE NamesProofs -----------------------------
(***************************************************************************)
(* Theorems about Names, for every alphabet and every list of names that   *)
(* there are numbers for.                                                  *)
(***************************************************************************)
EXTENDS Names, SequenceTheorems, FiniteSetTheorems, TLAPS

-----------------------------------------------------------------------------
(* Induction over the places of a list, by counting: a set that has 0 and  *)
(* with each number the next one, but not m, could be mapped one to one    *)
(* into a smaller set.                                                     *)

LEMMA Induction ==
  ASSUME NEW n \in Nat, NEW T, 0 \in T, \A k \in 0..(n - 1) : k \in T => k + 1 \in T
  PROVE  0..n \subseteq T
<1> SUFFICES ASSUME NEW m \in 0..n, m \notin T PROVE FALSE
  OBVIOUS
<1> DEFINE Below == T \cap 0..m
           next == [k \in Below |-> k + 1]
<1>1. IsFiniteSet(0..m) /\ m \in Nat
  BY FS_Interval
<1>2. IsFiniteSet(Below) /\ 0 \in Below
  BY <1>1, FS_Subset
<1>3. IsFiniteSet(Below \ {0}) /\ Cardinality(Below \ {0}) = Cardinality(Below) - 1
  BY <1>2, FS_RemoveElement
<1>4. Cardinality(Below) \in Nat
  BY <1>2, FS_CardinalityType
<1>5. next \in [Below -> Below \ {0}]
  <2>1. \A k \in Below : k + 1 \in Below \ {0}
    BY <1>1
  <2>. QED
    BY <2>1
<1>6. \A j, k \in Below : j # k => next[j] # next[k]
  BY <1>1
<1> HIDE DEF Below, next
<1>7. Cardinality(Below \ {0}) < Cardinality(Below)
  BY <1>3, <1>4
<1>. QED
  BY <1>2, <1>3, <1>5, <1>6, <1>7, FS_PigeonHole

-----------------------------------------------------------------------------
(* Sequences *)

LEMMA ConcatParts ==
  ASSUME NEW S, NEW s \in Seq(S), NEW t \in Seq(S)
  PROVE  /\ s \o t \in Seq(S) /\ Len(s \o t) = Len(s) + Len(t)
         /\ \A k \in 1..Len(s) : (s \o t)[k] = s[k]
         /\ \A k \in 1..Len(t) : (s \o t)[Len(s) + k] = t[k]
OBVIOUS

(* The elements of a sequence. *)
LEMMA ElementsOf ==
  ASSUME NEW S, NEW s \in Seq(S)
  PROVE  /\ \A k \in 1..Len(s) : s[k] \in ToSet(s)
         /\ \A e \in ToSet(s) : \E k \in 1..Len(s) : s[k] = e
         /\ ToSet(s) \subseteq S
<1>1. DOMAIN s = 1..Len(s) /\ \A k \in 1..Len(s) : s[k] \in S
  BY LenProperties
<1>. QED
  BY <1>1 DEF ToSet

(* A place in a list of m + n is in its first m or its last n places. *)
LEMMA SplitPlace ==
  \A m, n \in Nat : \A k \in 1..(m + n) : k \in 1..m \/ \E l \in 1..n : k = m + l
<1> TAKE m, n \in Nat
<1> TAKE k \in 1..(m + n)
<1>1. CASE k \notin 1..m
  <2>1. k - m \in 1..n /\ k = m + (k - m)
    BY <1>1
  <2>. QED
    BY <2>1
<1>. QED
  BY <1>1

(* What is in a concatenation is in one of its parts. *)
LEMMA ConcatRange ==
  ASSUME NEW S, NEW s \in Seq(S), NEW t \in Seq(S)
  PROVE  ToSet(s \o t) = ToSet(s) \cup ToSet(t)
<1>1. /\ s \o t \in Seq(S) /\ Len(s \o t) = Len(s) + Len(t)
      /\ Len(s) \in Nat /\ Len(t) \in Nat
  BY ConcatParts, LenProperties
<1>2. ASSUME NEW e \in ToSet(s \o t) PROVE e \in ToSet(s) \cup ToSet(t)
  <2>1. PICK k \in 1..Len(s \o t) : (s \o t)[k] = e
    BY <1>1, ElementsOf
  <2>2. k \in 1..Len(s) \/ \E l \in 1..Len(t) : k = Len(s) + l
    <3> DEFINE m == Len(s)
               n == Len(t)
    <3>1. m \in Nat /\ n \in Nat /\ k \in 1..(m + n)
      BY <1>1
    <3> HIDE DEF m, n
    <3>2. k \in 1..m \/ \E l \in 1..n : k = m + l
      BY <3>1, SplitPlace
    <3>. QED
      BY <3>2 DEF m, n
  <2>3. CASE k \in 1..Len(s)
    BY <2>1, <2>3, ConcatParts, ElementsOf
  <2>4. ASSUME NEW l \in 1..Len(t), k = Len(s) + l PROVE e \in ToSet(t)
    BY <2>1, <2>4, ConcatParts, ElementsOf
  <2>. QED
    BY <2>2, <2>3, <2>4
<1>3. ASSUME NEW e \in ToSet(s) PROVE e \in ToSet(s \o t)
  <2>1. PICK k \in 1..Len(s) : s[k] = e
    BY ElementsOf
  <2>2. k \in 1..Len(s \o t) /\ (s \o t)[k] = e
    BY <1>1, <2>1, ConcatParts
  <2>. QED
    BY <1>1, <2>2, ElementsOf
<1>4. ASSUME NEW e \in ToSet(t) PROVE e \in ToSet(s \o t)
  <2>1. PICK k \in 1..Len(t) : t[k] = e
    BY ElementsOf
  <2>2. Len(s) + k \in 1..Len(s \o t) /\ (s \o t)[Len(s) + k] = e
    BY <1>1, <2>1, ConcatParts
  <2>. QED
    BY <1>1, <2>2, ElementsOf
<1>. QED
  BY <1>2, <1>3, <1>4
(* A prefix has the first elements. *)
LEMMA PrefixElements ==
  ASSUME NEW S, NEW s \in Seq(S), NEW t \in Seq(S), Len(s) <= Len(t)
  PROVE  IsPrefix(s, t) <=> \A k \in 1..Len(s) : s[k] = t[k]
<1> DEFINE m == Len(s)
           p == SubSeq(s, 1, m)
           q == SubSeq(t, 1, m)
<1>1. m \in Nat /\ 1 \in Int /\ m \in Int /\ m - 1 + 1 = m /\ m <= Len(t) /\ Len(t) \in Nat
  BY LenProperties
<1>2. (\A k \in 1..m : s[k] \in S) /\ (\A k \in 1..Len(t) : t[k] \in S)
  BY LenProperties
<1> HIDE DEF m
<1>3. \A k \in 1..m : k \in 1..Len(t) /\ 1 + k - 1 = k
  BY <1>1
<1>4. /\ p \in Seq(S) /\ Len(p) = IF 1 <= m THEN m - 1 + 1 ELSE 0
      /\ \A k \in 1..(m - 1 + 1) : p[k] = s[1 + k - 1]
  BY <1>1, <1>2, SubSeqProperties
<1>5. /\ q \in Seq(S) /\ Len(q) = IF 1 <= m THEN m - 1 + 1 ELSE 0
      /\ \A k \in 1..(m - 1 + 1) : q[k] = t[1 + k - 1]
  BY <1>1, <1>2, <1>3, SubSeqProperties
<1> HIDE DEF p, q
<1>6. Len(p) = m /\ Len(q) = m
  BY <1>1, <1>4, <1>5
<1>7. \A k \in 1..m : p[k] = s[k] /\ q[k] = t[k]
  BY <1>1, <1>3, <1>4, <1>5
<1>8. p = q <=> \A k \in 1..m : s[k] = t[k]
  <2>1. ASSUME \A k \in 1..m : s[k] = t[k] PROVE p = q
    <3>1. \A k \in 1..Len(p) : p[k] = q[k]
      BY <1>6, <1>7, <2>1
    <3>. QED
      BY <1>4, <1>5, <1>6, <3>1, SeqEqual
  <2>. QED
    BY <1>7, <2>1
<1>. QED
  BY <1>8 DEF IsPrefix, p, q, m

LEMMA AppendToOne ==
  ASSUME NEW a, NEW b
  PROVE  Append(<<a>>, b) = <<a, b>>
<1> DEFINE S == {a, b}
           s == <<a>>
           t == <<a, b>>
<1>1. s \in Seq(S) /\ b \in S /\ Len(s) = 1 /\ s[1] = a
  OBVIOUS
<1>2. t \in Seq(S) /\ Len(t) = 2 /\ t[1] = a /\ t[2] = b
  OBVIOUS
<1> HIDE DEF S, s, t
<1> DEFINE u == Append(s, b)
<1>3. /\ u \in Seq(S) /\ Len(u) = Len(s) + 1 /\ u[Len(s) + 1] = b
      /\ \A k \in 1..Len(s) : u[k] = s[k]
  <2>1. s \in Seq(S) /\ b \in S
    BY <1>1
  <2>. QED
    BY <2>1, AppendProperties
<1> HIDE DEF u
<1>5. Len(u) = 2 /\ u[1] = a /\ u[2] = b
  BY <1>1, <1>3
<1>4. u = t
  BY <1>2, <1>3, <1>5, SeqEqual
<1>. QED
  BY <1>4 DEF u, t, s

LEMMA AppendToTwo ==
  ASSUME NEW a, NEW b, NEW c
  PROVE  Append(<<a, b>>, c) = <<a, b, c>>
<1> DEFINE S == {a, b, c}
           s == <<a, b>>
           t == <<a, b, c>>
<1>1. s \in Seq(S) /\ c \in S /\ Len(s) = 2 /\ s[1] = a /\ s[2] = b
  OBVIOUS
<1>2. t \in Seq(S) /\ Len(t) = 3 /\ t[1] = a /\ t[2] = b /\ t[3] = c
  OBVIOUS
<1> HIDE DEF S, s, t
<1> DEFINE u == Append(s, c)
<1>3. /\ u \in Seq(S) /\ Len(u) = Len(s) + 1 /\ u[Len(s) + 1] = c
      /\ \A k \in 1..Len(s) : u[k] = s[k]
  <2>1. s \in Seq(S) /\ c \in S
    BY <1>1
  <2>. QED
    BY <2>1, AppendProperties
<1> HIDE DEF u
<1>5. Len(u) = 3 /\ u[1] = a /\ u[2] = b /\ u[3] = c
  BY <1>1, <1>3
<1>4. u = t
  BY <1>2, <1>3, <1>5, SeqEqual
<1>. QED
  BY <1>4 DEF u, t, s

-----------------------------------------------------------------------------
(* The alphabet *)

(* Numbers, words and the underscore are different tokens. *)
LEMMA AlphabetProperties ==
  /\ Alphabet \in Seq(ToSet(Alphabet))
  /\ ToSet(Alphabet) = ToSet(Digits) \cup {Underscore} \cup ToSet(Words)
  /\ Underscore \notin ToSet(Digits) /\ Underscore \notin ToSet(Words)
  /\ ToSet(Digits) \cap ToSet(Words) = {}
  /\ \A j, k \in 1..Len(Digits) : Digits[j] = Digits[k] => j = k
<1> DEFINE tokens == ToSet(Digits) \cup {Underscore} \cup ToSet(Words)
           front == Digits \o <<Underscore>>
<1>1. Digits \in Seq(tokens) /\ Words \in Seq(tokens)
  BY AlphabetAssumption, SeqMonotonic
<1>2. Underscore \in tokens
  OBVIOUS
<1> HIDE DEF tokens
<1>3. front = Append(Digits, Underscore)
  BY <1>1, <1>2, AppendIsConcat
<1>4. Alphabet = front \o Words
  BY DEF Alphabet
<1> HIDE DEF front
<1>5. /\ front \in Seq(tokens) /\ Len(front) = Len(Digits) + 1
      /\ \A k \in 1..Len(Digits) : front[k] = Digits[k]
      /\ front[Len(Digits) + 1] = Underscore
  BY <1>1, <1>2, <1>3, AppendProperties
<1>6. /\ Alphabet \in Seq(tokens) /\ Len(Alphabet) = Len(front) + Len(Words)
      /\ \A k \in 1..Len(front) : Alphabet[k] = front[k]
      /\ \A k \in 1..Len(Words) : Alphabet[Len(front) + k] = Words[k]
  <2>1. /\ front \o Words \in Seq(tokens) /\ Len(front \o Words) = Len(front) + Len(Words)
        /\ \A k \in 1..Len(front) : (front \o Words)[k] = front[k]
        /\ \A k \in 1..Len(Words) : (front \o Words)[Len(front) + k] = Words[k]
    <3>1. front \in Seq(tokens) /\ Words \in Seq(tokens)
      BY <1>1, <1>5
    <3>. QED
      BY <3>1, ConcatParts
  <2>. QED
    BY <1>4, <2>1
<1>7. ToSet(Alphabet) = ToSet(front) \cup ToSet(Words)
  BY <1>1, <1>4, <1>5, ConcatRange
<1> DEFINE d == Len(Digits)
           f == Len(front)
           w == Len(Words)
           l == Len(Alphabet)
<1>8. d \in Nat /\ f = d + 1 /\ w \in Nat /\ l = f + w /\ DOMAIN Alphabet = 1..l
  BY <1>1, <1>5, <1>6, LenProperties
<1>9. \A j, k \in 1..l : Alphabet[j] = Alphabet[k] => j = k
  BY <1>8, AlphabetAssumption
<1>10. /\ \A k \in 1..d : front[k] = Digits[k]
       /\ front[d + 1] = Underscore
       /\ \A k \in 1..f : Alphabet[k] = front[k]
       /\ \A k \in 1..w : Alphabet[f + k] = Words[k]
  BY <1>5, <1>6
<1>11. /\ \A e \in ToSet(Digits) : \E k \in 1..d : Digits[k] = e
       /\ \A e \in ToSet(front) : \E k \in 1..f : front[k] = e
       /\ \A e \in ToSet(Words) : \E k \in 1..w : Words[k] = e
       /\ \A k \in 1..d : Digits[k] \in ToSet(Digits)
       /\ \A k \in 1..f : front[k] \in ToSet(front)
  BY <1>1, <1>5, ElementsOf
<1>20. Alphabet \in Seq(ToSet(Alphabet))
  <2>1. \A k \in 1..Len(Alphabet) : Alphabet[k] \in ToSet(Alphabet)
    BY <1>6, ElementsOf
  <2>. QED
    BY <1>6, <2>1, LenProperties
<1> HIDE DEF d, f, w, l
<1>12. /\ \A k \in 1..d : k \in 1..f /\ k # f
       /\ f \in 1..f
       /\ \A k \in 1..f : k \in 1..l
       /\ \A k \in 1..w : f + k \in 1..l
       /\ \A j \in 1..f, k \in 1..w : j # f + k
  BY <1>8
<1>13. \A j \in 1..f, k \in 1..w : front[j] # Words[k]
  BY <1>9, <1>10, <1>12
<1>14. ToSet(front) \cap ToSet(Words) = {}
  BY <1>11, <1>13
<1>15. \A j, k \in 1..f : front[j] = front[k] => j = k
  BY <1>9, <1>10, <1>12
<1>16. \A k \in 1..d : Digits[k] # Underscore
  BY <1>8, <1>10, <1>12, <1>15
<1>17. \A j, k \in 1..d : Digits[j] = Digits[k] => j = k
  BY <1>10, <1>12, <1>15
<1>18. Underscore \in ToSet(front) /\ ToSet(Digits) \subseteq ToSet(front)
  <2>1. Underscore \in ToSet(front)
    BY <1>8, <1>10, <1>11, <1>12
  <2>2. ASSUME NEW e \in ToSet(Digits) PROVE e \in ToSet(front)
    <3>1. PICK k \in 1..d : Digits[k] = e
      BY <1>11
    <3>2. front[k] = e /\ k \in 1..f
      BY <1>10, <1>12, <3>1
    <3>. QED
      BY <1>11, <3>2
  <2>. QED
    BY <2>1, <2>2
<1>19. ToSet(front) \subseteq ToSet(Digits) \cup {Underscore}
  <2>1. \A k \in 1..f : k \in 1..d \/ k = d + 1
    BY <1>8
  <2>. QED
    <3> SUFFICES ASSUME NEW e \in ToSet(front), e # Underscore PROVE e \in ToSet(Digits)
      OBVIOUS
    <3>1. PICK k \in 1..f : front[k] = e
      BY <1>11
    <3>2. k \in 1..d
      BY <1>10, <2>1, <3>1
    <3>3. Digits[k] = e
      BY <1>10, <3>1, <3>2
    <3>. QED
      BY <1>11, <3>2, <3>3
<1>. QED
  BY <1>7, <1>11, <1>14, <1>16, <1>17, <1>18, <1>19, <1>20 DEF d

(* Ranks tell the tokens of DuckDB names apart. *)
LEMMA RankProperties ==
  \A a, b \in ToSet(Alphabet) : Rank(a) \in Nat /\ (Rank(a) = Rank(b) => a = b)
<1>1. \A a \in ToSet(Alphabet) : Rank(a) \in DOMAIN Alphabet /\ Alphabet[Rank(a)] = a
  BY DEF ToSet, Rank
<1>2. \A k \in DOMAIN Alphabet : k \in Nat
  <2>1. DOMAIN Alphabet = 1..Len(Alphabet)
    BY AlphabetProperties, LenProperties
  <2>. QED
    BY <2>1
<1>. QED
  BY <1>1, <1>2
-----------------------------------------------------------------------------
(* DuckDB names *)

(* No two underscores stand together. *)
Clean ==
  {s \in Seq(ToSet(Alphabet)) : \A k \in 1..(Len(s) - 1) : s[k] # Underscore \/ s[k + 1] # Underscore}

DuckNames == {s \in Clean : s # <<>> /\ s[1] \notin ToSet(Digits)}

LEMMA CleanElements ==
  ASSUME NEW s \in Clean
  PROVE  /\ s \in Seq(ToSet(Alphabet)) /\ Len(s) \in Nat /\ (s # <<>> <=> Len(s) >= 1)
         /\ \A k \in 1..Len(s) : s[k] \in ToSet(Alphabet)
         /\ \A k \in 1..(Len(s) - 1) : s[k] # Underscore \/ s[k + 1] # Underscore
<1>1. s \in Seq(ToSet(Alphabet)) /\ \A k \in 1..(Len(s) - 1) : s[k] # Underscore \/ s[k + 1] # Underscore
  BY DEF Clean
<1> DEFINE A == ToSet(Alphabet)
<1> HIDE DEF A
<1>2. s \in Seq(A)
  BY <1>1 DEF A
<1>3. Len(s) \in Nat /\ (s # <<>> <=> Len(s) >= 1) /\ \A k \in 1..Len(s) : s[k] \in A
  BY <1>2, EmptySeq, LenProperties
<1>. QED
  BY <1>1, <1>3 DEF A

LEMMA EmptyClean == <<>> \in Clean
<1> DEFINE A == ToSet(Alphabet)
<1> HIDE DEF A
<1>1. <<>> \in Seq(A) /\ Len(<<>>) = 0
  BY EmptySeq
<1>2. \A k \in 1..(0 - 1) : FALSE
  OBVIOUS
<1>. QED
  BY <1>1, <1>2 DEF Clean, A

(* A token may follow a name unless both are underscores. *)
LEMMA AppendClean ==
  ASSUME NEW s \in Clean, NEW token \in ToSet(Alphabet),
         s = <<>> \/ s[Len(s)] # Underscore \/ token # Underscore
  PROVE  /\ Append(s, token) \in Clean /\ Len(Append(s, token)) = Len(s) + 1
         /\ \A k \in 1..Len(s) : Append(s, token)[k] = s[k]
         /\ Append(s, token)[Len(s) + 1] = token
<1> DEFINE A == ToSet(Alphabet)
           t == Append(s, token)
<1>1. s \in Seq(A) /\ Len(s) \in Nat /\ (s # <<>> <=> Len(s) >= 1)
      /\ \A k \in 1..(Len(s) - 1) : s[k] # Underscore \/ s[k + 1] # Underscore
  BY CleanElements
<1> HIDE DEF A
<1>2. token \in A
  BY DEF A
<1>3. /\ t \in Seq(A) /\ Len(t) = Len(s) + 1
      /\ \A k \in 1..Len(s) : t[k] = s[k]
      /\ t[Len(s) + 1] = token
  BY <1>1, <1>2, AppendProperties
<1> HIDE DEF t
<1>4. ASSUME NEW k \in 1..Len(s) PROVE t[k] # Underscore \/ t[k + 1] # Underscore
  <2>1. t[k] = s[k]
    BY <1>3
  <2>2. CASE k = Len(s)
    <3>1. s # <<>> /\ t[k] = s[Len(s)] /\ t[k + 1] = token
      BY <1>1, <1>3, <2>1, <2>2
    <3>. QED
      BY <3>1
  <2>3. CASE k # Len(s)
    <3>1. k \in 1..(Len(s) - 1) /\ k + 1 \in 1..Len(s)
      BY <1>1, <2>3
    <3>2. t[k + 1] = s[k + 1]
      BY <1>3, <3>1
    <3>. QED
      BY <1>1, <2>1, <3>1, <3>2
  <2>. QED
    BY <2>2, <2>3
<1>6. Len(t) - 1 = Len(s)
  BY <1>1, <1>3
<1>5. t \in Clean
  BY <1>3, <1>4, <1>6 DEF Clean, A
<1>. QED
  BY <1>3, <1>5 DEF t

(* What is written token by token stays clean. *)
LEMMA WriteTokenClean ==
  ASSUME NEW s \in Clean, NEW token \in ToSet(Alphabet) \cup Dropped
  PROVE  WriteToken(s, token) \in Clean
<1>1. CASE token \in ToSet(Digits) \cup ToSet(Words)
  <2>1. WriteToken(s, token) = Append(s, token)
    BY <1>1 DEF WriteToken
  <2>2. token \in ToSet(Alphabet) /\ token # Underscore
    BY <1>1, AlphabetProperties
  <2>. QED
    BY <2>1, <2>2, AppendClean
<1>2. CASE token \notin ToSet(Digits) \cup ToSet(Words)
  <2>1. CASE token = "non-ascii" \/ EndsInUnderscore(s)
    BY <1>2, <2>1 DEF WriteToken
  <2>2. CASE ~(token = "non-ascii" \/ EndsInUnderscore(s))
    <3>1. WriteToken(s, token) = Append(s, Underscore)
      BY <1>2, <2>2 DEF WriteToken
    <3>2. s = <<>> \/ s[Len(s)] # Underscore
      BY <2>2 DEF EndsInUnderscore, Last
    <3>3. Underscore \in ToSet(Alphabet)
      BY AlphabetProperties
    <3>. QED
      BY <3>1, <3>2, <3>3, AppendClean
  <2>. QED
    BY <2>1, <2>2
<1>. QED
  BY <1>1, <1>2

(* Squeeze writes one token after the other. *)
LEMMA SqueezeRuns ==
  ASSUME NEW name, Len(name) \in Nat
  PROVE  \E s : /\ Squeeze(name) = s[Len(name)] /\ s[0] = <<>>
                /\ \A n \in 1..Len(name) : s[n] = WriteToken(s[n - 1], name[n])
<1> DEFINE Run(s, m) ==
      s = [n \in 0..m |-> IF n = 0 THEN <<>> ELSE WriteToken(s[n - 1], name[n])]
           l == Len(name)
           T == {m \in 0..l : \E s : Run(s, m)}
<1>1. Squeeze(name) = (CHOOSE s : Run(s, l))[l]
  BY DEF Squeeze
<1> HIDE DEF l
<1>2. l \in Nat
  BY DEF l
<1>3. 0 \in T
  <2> DEFINE s == [n \in 0..0 |-> <<>>]
  <2>1. Run(s, 0)
    OBVIOUS
  <2>2. \E r : Run(r, 0)
    BY <2>1
  <2> HIDE DEF Run
  <2>. QED
    BY <1>2, <2>2
<1>4. ASSUME NEW m \in 0..(l - 1), m \in T PROVE m + 1 \in T
  <2>1. PICK p : Run(p, m)
    BY <1>4
  <2> DEFINE s == [n \in 0..(m + 1) |->
                     IF n = m + 1 THEN WriteToken(p[m], name[m + 1]) ELSE p[n]]
  <2>2. Run(s, m + 1)
    <3>1. \A n \in 0..(m + 1) : s[n] = IF n = 0 THEN <<>> ELSE WriteToken(s[n - 1], name[n])
      BY <2>1
    <3>. QED
      BY <3>1
  <2>3. m + 1 \in 0..l
    BY <1>2
  <2>. QED
    BY <2>2, <2>3
<1>5. l \in T
  <2> HIDE DEF T
  <2>1. 0..l \subseteq T
    BY <1>2, <1>3, <1>4, Induction
  <2>. QED
    BY <1>2, <2>1
<1>6. PICK s : s = (CHOOSE r : Run(r, l)) /\ Run(s, l)
  BY <1>5
<1>7. \A n \in 0..l : s[n] = IF n = 0 THEN <<>> ELSE WriteToken(s[n - 1], name[n])
  <2>1. s = [n \in 0..l |-> IF n = 0 THEN <<>> ELSE WriteToken(s[n - 1], name[n])]
    BY <1>6
  <2>. QED
    BY <2>1
<1>8. 0 \in 0..l /\ \A n \in 1..l : n \in 0..l /\ n # 0
  BY <1>2
<1>9. s[0] = <<>> /\ \A n \in 1..l : s[n] = WriteToken(s[n - 1], name[n])
  BY <1>7, <1>8
<1>. QED
  BY <1>1, <1>6, <1>9 DEF l

LEMMA SqueezeClean ==
  ASSUME NEW name \in Seq(ToSet(Alphabet) \cup Dropped)
  PROVE  Squeeze(name) \in Clean
<1> DEFINE B == ToSet(Alphabet) \cup Dropped
<1>0. name \in Seq(B)
  OBVIOUS
<1> HIDE DEF B
<1>1. Len(name) \in Nat /\ \A n \in 1..Len(name) : name[n] \in B
  BY <1>0, LenProperties
<1>2. PICK s : /\ Squeeze(name) = s[Len(name)] /\ s[0] = <<>>
               /\ \A n \in 1..Len(name) : s[n] = WriteToken(s[n - 1], name[n])
  BY <1>1, SqueezeRuns
<1> DEFINE T == {n \in 0..Len(name) : s[n] \in Clean}
<1>3. 0 \in T
  BY <1>1, <1>2, EmptyClean
<1>4. ASSUME NEW n \in 0..(Len(name) - 1), n \in T PROVE n + 1 \in T
  <2>1. n + 1 \in 1..Len(name) /\ n + 1 \in 0..Len(name) /\ n + 1 - 1 = n
    BY <1>1
  <2>2. s[n + 1] = WriteToken(s[n], name[n + 1])
    BY <1>2, <2>1
  <2>3. s[n + 1] \in Clean
    BY <1>1, <1>4, <2>1, <2>2, WriteTokenClean DEF B
  <2>. QED
    BY <2>1, <2>3
<1> HIDE DEF T
<1>5. Len(name) \in T
  <2>1. 0..Len(name) \subseteq T
    BY <1>1, <1>3, <1>4, Induction
  <2>. QED
    BY <1>1, <2>1
<1>. QED
  BY <1>2, <1>5 DEF T
(* How one token is written. *)
LEMMA WriteTokenAppends ==
  ASSUME NEW s \in Clean
  PROVE  /\ \A token \in ToSet(Alphabet) :
               s = <<>> \/ s[Len(s)] # Underscore \/ token # Underscore
                 => WriteToken(s, token) = Append(s, token)
         /\ s # <<>> /\ s[Len(s)] = Underscore => WriteToken(s, Space) = s
         /\ s = <<>> \/ s[Len(s)] # Underscore => WriteToken(s, Space) = Append(s, Underscore)
<1>1. ASSUME NEW token \in ToSet(Alphabet),
             s = <<>> \/ s[Len(s)] # Underscore \/ token # Underscore
      PROVE  WriteToken(s, token) = Append(s, token)
  <2>1. CASE token \in ToSet(Digits) \cup ToSet(Words)
    BY <2>1 DEF WriteToken
  <2>2. CASE token \notin ToSet(Digits) \cup ToSet(Words)
    <3>1. token = Underscore
      BY <2>2, AlphabetProperties
    <3>2. token # "non-ascii"
      BY AlphabetAssumption DEF Dropped
    <3>3. ~EndsInUnderscore(s)
      BY <1>1, <3>1 DEF EndsInUnderscore, Last
    <3>. QED
      BY <2>2, <3>1, <3>2, <3>3 DEF WriteToken
  <2>. QED
    BY <2>1, <2>2
<1>2. Space \notin ToSet(Digits) \cup ToSet(Words) /\ Space # "non-ascii"
  <2>1. Space \notin ToSet(Alphabet)
    BY AlphabetAssumption DEF Dropped
  <2>. QED
    BY <2>1, AlphabetProperties DEF Space
<1>3. WriteToken(s, Space) = IF EndsInUnderscore(s) THEN s ELSE Append(s, Underscore)
  BY <1>2 DEF WriteToken
<1>4. EndsInUnderscore(s) <=> s # <<>> /\ s[Len(s)] = Underscore
  BY DEF EndsInUnderscore, Last
<1>. QED
  BY <1>1, <1>3, <1>4

(* What is left of a clean name without its ends is clean. *)
LEMMA PartClean ==
  ASSUME NEW s \in Clean, NEW m \in 1..2, NEW n \in Nat, n <= Len(s), m <= n + 1
  PROVE  /\ SubSeq(s, m, n) \in Clean /\ Len(SubSeq(s, m, n)) = n - m + 1
         /\ \A k \in 1..(n - m + 1) : SubSeq(s, m, n)[k] = s[m + k - 1]
<1> DEFINE A == ToSet(Alphabet)
           t == SubSeq(s, m, n)
           l == n - m + 1
<1>1. /\ s \in Seq(A) /\ Len(s) \in Nat
      /\ \A k \in 1..Len(s) : s[k] \in A
      /\ \A k \in 1..(Len(s) - 1) : s[k] # Underscore \/ s[k + 1] # Underscore
  BY CleanElements
<1>2. m \in Int /\ n \in Int /\ l \in Nat /\ \A k \in m..n : k \in 1..Len(s)
  BY <1>1
<1> HIDE DEF A
<1>3. \A k \in m..n : s[k] \in A
  BY <1>1, <1>2
<1>4. /\ t \in Seq(A) /\ Len(t) = IF m <= n THEN n - m + 1 ELSE 0
      /\ \A k \in 1..(n - m + 1) : t[k] = s[m + k - 1]
  BY <1>2, <1>3, SubSeqProperties
<1> HIDE DEF t
<1>5. Len(t) = l
  BY <1>2, <1>4
<1>6. ASSUME NEW k \in 1..(l - 1) PROVE t[k] # Underscore \/ t[k + 1] # Underscore
  <2>1. /\ k \in 1..l /\ k + 1 \in 1..l
        /\ m + k - 1 \in 1..(Len(s) - 1) /\ m + (k + 1) - 1 = m + k - 1 + 1
    BY <1>1, <1>2
  <2>2. t[k] = s[m + k - 1] /\ t[k + 1] = s[m + k - 1 + 1]
    <3>1. t[k + 1] = s[m + (k + 1) - 1]
      BY <1>4, <2>1
    <3>. QED
      BY <1>4, <2>1, <3>1
  <2>. QED
    BY <1>1, <2>1, <2>2
<1>7. t \in Clean
  BY <1>4, <1>5, <1>6 DEF Clean, A
<1>. QED
  BY <1>4, <1>5, <1>7 DEF t

LEMMA TrimRightClean ==
  ASSUME NEW s \in Clean
  PROVE  /\ TrimRight(s) \in Clean /\ ~EndsInUnderscore(TrimRight(s))
         /\ Len(TrimRight(s)) \in Nat /\ Len(s) <= Len(TrimRight(s)) + 1
         /\ Len(TrimRight(s)) <= Len(s)
         /\ \A k \in 1..Len(TrimRight(s)) : TrimRight(s)[k] = s[k]
<1>1. Len(s) \in Nat /\ (s # <<>> <=> Len(s) >= 1)
  BY CleanElements
<1>2. CASE ~EndsInUnderscore(s)
  <2>1. TrimRight(s) = s
    BY <1>2 DEF TrimRight
  <2>. QED
    BY <1>1, <1>2, <2>1
<1>3. CASE EndsInUnderscore(s)
  <2> DEFINE t == SubSeq(s, 1, Len(s) - 1)
             n == Len(s) - 1
  <2>1. TrimRight(s) = t
    BY <1>3 DEF TrimRight, Front
  <2>2. Len(s) >= 1 /\ s[Len(s)] = Underscore
    BY <1>1, <1>3 DEF EndsInUnderscore, Last
  <2>3. n \in Nat /\ n <= Len(s) /\ 1 <= n + 1 /\ n - 1 + 1 = n /\ Len(s) = n + 1
    BY <1>1, <2>2
  <2> HIDE DEF n
  <2>4. SubSeq(s, 1, n) \in Clean /\ Len(SubSeq(s, 1, n)) = n - 1 + 1
        /\ \A k \in 1..(n - 1 + 1) : SubSeq(s, 1, n)[k] = s[1 + k - 1]
    BY <2>3, PartClean
  <2>5. \A k \in 1..n : 1 + k - 1 = k
    BY <2>3
  <2>6. t \in Clean /\ Len(t) = n /\ \A k \in 1..n : t[k] = s[k]
    BY <2>3, <2>4, <2>5 DEF n
  <2> HIDE DEF t
  <2>7. ~EndsInUnderscore(t)
    <3> SUFFICES ASSUME t # <<>>, t[Len(t)] = Underscore PROVE FALSE
      BY DEF EndsInUnderscore, Last
    <3>1. n >= 1
      BY <2>6, CleanElements
    <3>2. n \in 1..n /\ n \in 1..(Len(s) - 1)
      BY <2>3, <3>1
    <3>3. s[n] = Underscore /\ s[n + 1] = Underscore
      BY <2>2, <2>3, <2>6, <3>2
    <3>. QED
      BY <3>2, <3>3, CleanElements
  <2>. QED
    BY <2>1, <2>3, <2>6, <2>7
<1>. QED
  BY <1>2, <1>3

LEMMA TrimLeftClean ==
  ASSUME NEW s \in Clean
  PROVE  TrimLeft(s) \in Clean
<1>1. CASE s # <<>> /\ Head(s) = Underscore
  <2>1. Len(s) \in Nat /\ Len(s) >= 1 /\ s \in Seq(ToSet(Alphabet))
    BY <1>1, CleanElements
  <2>2. SubSeq(s, 2, Len(s)) \in Clean
    BY <2>1, PartClean
  <2>3. Tail(s) = SubSeq(s, 2, Len(s))
    BY <1>1, <2>1, TailIsSubSeq
  <2>. QED
    BY <1>1, <2>2, <2>3 DEF TrimLeft
<1>2. CASE ~(s # <<>> /\ Head(s) = Underscore)
  BY <1>2 DEF TrimLeft
<1>. QED
  BY <1>1, <1>2
LEMMA ConcatClean ==
  ASSUME NEW s \in Clean, NEW t \in Clean,
         s = <<>> \/ t = <<>> \/ s[Len(s)] # Underscore \/ t[1] # Underscore
  PROVE  s \o t \in Clean
<1> DEFINE A == ToSet(Alphabet)
           m == Len(s)
           n == Len(t)
           both == s \o t
<1>1. /\ s \in Seq(A) /\ m \in Nat /\ (s # <<>> <=> m >= 1)
      /\ \A k \in 1..(m - 1) : s[k] # Underscore \/ s[k + 1] # Underscore
  BY CleanElements
<1>2. /\ t \in Seq(A) /\ n \in Nat /\ (t # <<>> <=> n >= 1)
      /\ \A k \in 1..(n - 1) : t[k] # Underscore \/ t[k + 1] # Underscore
  BY CleanElements
<1>3. s[m] # Underscore \/ t[1] # Underscore \/ m = 0 \/ n = 0
  BY <1>1, <1>2
<1> HIDE DEF A
<1>4. /\ both \in Seq(A) /\ Len(both) = m + n
      /\ \A k \in 1..m : both[k] = s[k]
      /\ \A k \in 1..n : both[m + k] = t[k]
  BY <1>1, <1>2, ConcatParts
<1> HIDE DEF m, n, both
<1>7. \A k \in 1..n : both[m + k] = t[k]
  BY <1>4
<1>8. both \in Seq(A) /\ Len(both) - 1 = m + n - 1
  BY <1>1, <1>2, <1>4
<1>5. ASSUME NEW k \in 1..(m + n - 1) PROVE both[k] # Underscore \/ both[k + 1] # Underscore
  <2>1. CASE k \in 1..(m - 1)
    <3>1. k \in 1..m /\ k + 1 \in 1..m
      BY <1>1, <2>1
    <3>. QED
      BY <1>1, <1>4, <2>1, <3>1
  <2>2. CASE k = m
    <3>1. m \in 1..m /\ 1 \in 1..n
      BY <1>1, <1>2, <2>2
    <3>2. both[k] = s[m] /\ both[k + 1] = t[1]
      BY <1>4, <2>2, <3>1
    <3>. QED
      BY <1>1, <1>2, <1>3, <2>2, <3>1, <3>2
  <2>3. CASE k > m
    <3> DEFINE l == k - m
    <3>1. l \in 1..(n - 1) /\ l \in 1..n /\ l + 1 \in 1..n /\ k = m + l /\ k + 1 = m + (l + 1)
      BY <1>1, <1>2, <2>3
    <3> HIDE DEF l
    <3>2. both[m + l] = t[l] /\ both[m + (l + 1)] = t[l + 1]
      BY <1>7, <3>1
    <3>3. both[k] = both[m + l] /\ both[k + 1] = both[m + (l + 1)]
      BY <3>1
    <3>4. both[k] = t[l] /\ both[k + 1] = t[l + 1]
      BY <3>2, <3>3
    <3>. QED
      BY <1>2, <3>1, <3>4
  <2>. QED
    BY <1>1, <1>2, <2>1, <2>2, <2>3
<1>6. both \in Clean
  <2>1. both \in Seq(A) /\ \A k \in 1..(Len(both) - 1) : both[k] # Underscore \/ both[k + 1] # Underscore
    BY <1>5, <1>8
  <2>. QED
    BY <2>1 DEF Clean, A
<1>. QED
  BY <1>6 DEF both

LEMMA SingleClean ==
  ASSUME NEW token \in ToSet(Alphabet)
  PROVE  /\ <<token>> \in Clean /\ Len(<<token>>) = 1 /\ <<token>>[1] = token
<1>1. Append(<<>>, token) \in Clean
  BY EmptyClean, AppendClean
<1>2. Append(<<>>, token) = <<token>>
  OBVIOUS
<1>. QED
  BY <1>1, <1>2

(* A name of two tokens of which at most one is an underscore. *)
LEMMA PairClean ==
  ASSUME NEW a \in ToSet(Alphabet), NEW b \in ToSet(Alphabet), a # Underscore \/ b # Underscore
  PROVE  <<a, b>> \in Clean /\ Len(<<a, b>>) = 2 /\ <<a, b>>[1] = a /\ <<a, b>>[2] = b
<1>1. <<a>> \o <<b>> \in Clean
  <2>1. <<a>> \in Clean /\ <<b>> \in Clean
    BY SingleClean
  <2>2. <<a>>[Len(<<a>>)] = a /\ <<b>>[1] = b
    BY SingleClean
  <2>. QED
    BY <2>1, <2>2, ConcatClean
<1>2. <<a>> \o <<b>> = <<a, b>>
  <2> DEFINE S == {a, b}
             s == <<a>>
  <2>1. s \in Seq(S) /\ b \in S
    OBVIOUS
  <2> HIDE DEF S, s
  <2>2. Append(s, b) = s \o <<b>>
    BY <2>1, AppendIsConcat
  <2>. QED
    BY <2>2, AppendToOne DEF s
<1>3. Len(<<a, b>>) = 2 /\ <<a, b>>[1] = a /\ <<a, b>>[2] = b
  OBVIOUS
<1>. QED
  BY <1>1, <1>2, <1>3

LEMMA WordsInAlphabet ==
  /\ "t" \in ToSet(Alphabet) \ (ToSet(Digits) \cup {Underscore})
  /\ "id" \in ToSet(Alphabet) \ (ToSet(Digits) \cup {Underscore})
  /\ "airtable" \in ToSet(Alphabet) \ (ToSet(Digits) \cup {Underscore})
  /\ Underscore \in ToSet(Alphabet) \ ToSet(Digits)
BY AlphabetAssumption, AlphabetProperties

(* What SanitizeIdentifier makes of any name is a DuckDB name. *)
LEMMA SanitizeIdentifierDuck ==
  ASSUME NEW name \in Seq(ToSet(Alphabet) \cup Dropped)
  PROVE  SanitizeIdentifier(name) \in DuckNames
<1> DEFINE s == TrimLeft(TrimRight(Squeeze(name)))
           prefix == <<"t", Underscore>>
<1>1. s \in Clean
  BY SqueezeClean, TrimRightClean, TrimLeftClean
<1>2. SanitizeIdentifier(name) =
        IF s = <<>> \/ Head(s) \in ToSet(Digits) THEN prefix \o s ELSE s
  BY DEF SanitizeIdentifier
<1>3. prefix \in Clean /\ Len(prefix) = 2 /\ prefix[1] = "t"
  BY WordsInAlphabet, PairClean
<1> HIDE DEF s, prefix
<1>4. Head(s) = s[1]
  OBVIOUS
<1>5. CASE s = <<>> \/ Head(s) \in ToSet(Digits)
  <2>1. s = <<>> \/ s[1] # Underscore
    BY <1>4, <1>5, WordsInAlphabet
  <2>2. prefix \o s \in Clean
    BY <1>1, <1>3, <2>1, ConcatClean
  <2>3. prefix \in Seq(ToSet(Alphabet)) /\ s \in Seq(ToSet(Alphabet)) /\ Len(s) \in Nat
    BY <1>1, <1>3, CleanElements
  <2>4. Len(prefix \o s) = 2 + Len(s) /\ (prefix \o s)[1] = "t"
    <3>1. /\ Len(prefix \o s) = Len(prefix) + Len(s)
          /\ \A k \in 1..Len(prefix) : (prefix \o s)[k] = prefix[k]
      BY <2>3, ConcatParts
    <3>. QED
      BY <1>3, <3>1
  <2>5. prefix \o s # <<>>
    BY <2>2, <2>3, <2>4, CleanElements
  <2>. QED
    BY <1>2, <1>5, <2>2, <2>4, <2>5, WordsInAlphabet DEF DuckNames
<1>6. CASE ~(s = <<>> \/ Head(s) \in ToSet(Digits))
  BY <1>1, <1>2, <1>4, <1>6 DEF DuckNames
<1>. QED
  BY <1>5, <1>6

-----------------------------------------------------------------------------
(* Aliases *)

LEMMA LeastAndGreatest ==
  ASSUME NEW l \in Nat, NEW S \in SUBSET (1..l), S # {}
  PROVE  Min(S) \in S /\ Max(S) \in S /\ \A k \in S : Min(S) <= k /\ k <= Max(S)
<1>1. \E x \in S : \A y \in S : x <= y
  <2> SUFFICES ASSUME \A x \in S : \E y \in S : ~(x <= y) PROVE FALSE
    OBVIOUS
  <2> DEFINE T == {n \in 0..l : \A k \in S : n < k}
  <2>1. 0 \in T
    OBVIOUS
  <2>2. ASSUME NEW n \in 0..(l - 1), n \in T PROVE n + 1 \in T
    <3>1. n + 1 \in 0..l /\ \A k \in S : k \in 1..l /\ n + 1 <= k
      BY <2>2
    <3>2. n + 1 \notin S
      BY <3>1
    <3>3. \A k \in S : n + 1 < k
      BY <3>1, <3>2
    <3>. QED
      BY <3>1, <3>3
  <2>3. l \in T
    <3> HIDE DEF T
    <3>1. 0..l \subseteq T
      BY <2>1, <2>2, Induction
    <3>. QED
      BY <3>1
  <2>4. PICK k \in S : k \in 1..l
    OBVIOUS
  <2>5. l < k
    BY <2>3
  <2>. QED
    BY <2>4, <2>5
<1>2. \E x \in S : \A y \in S : x >= y
  <2> SUFFICES ASSUME \A x \in S : \E y \in S : ~(x >= y) PROVE FALSE
    OBVIOUS
  <2> DEFINE T == {n \in 0..l : \A k \in S : k <= l - n}
  <2>1. 0 \in T
    OBVIOUS
  <2>2. ASSUME NEW n \in 0..(l - 1), n \in T PROVE n + 1 \in T
    <3>1. n + 1 \in 0..l /\ \A k \in S : k \in 1..l /\ k <= l - n
      BY <2>2
    <3>2. l - n \notin S
      <4> SUFFICES ASSUME l - n \in S PROVE FALSE
        OBVIOUS
      <4>1. \A y \in S : l - n >= y
        BY <3>1
      <4>. QED
        BY <4>1
    <3>3. \A k \in S : k <= l - (n + 1)
      BY <3>1, <3>2
    <3>. QED
      BY <3>1, <3>3
  <2>3. l \in T
    <3> HIDE DEF T
    <3>1. 0..l \subseteq T
      BY <2>1, <2>2, Induction
    <3>. QED
      BY <3>1
  <2>4. PICK k \in S : k \in 1..l
    OBVIOUS
  <2>5. k <= l - l
    BY <2>3
  <2>. QED
    BY <2>4, <2>5
<1>3. Min(S) \in S /\ \A y \in S : Min(S) <= y
  BY <1>1 DEF Min
<1>4. Max(S) \in S /\ \A y \in S : Max(S) >= y
  BY <1>2 DEF Max
<1>. QED
  BY <1>3, <1>4

(* An alias is a name from its first to its last token that is not white   *)
(* space.                                                                  *)
LEMMA AliasEnds ==
  ASSUME NEW name, Len(name) \in Nat, DOMAIN name = 1..Len(name), Alias(name) # <<>>
  PROVE  \E f, g \in 1..Len(name) :
           /\ f <= g /\ Alias(name) = SubSeq(name, f, g)
           /\ name[f] # Space /\ name[g] # Space
           /\ \A k \in 1..Len(name) : name[k] # Space => f <= k /\ k <= g
<1> DEFINE S == Solid(name)
           l == Len(name)
<1>1. S \in SUBSET (1..l) /\ \A k \in 1..l : k \in S <=> name[k] # Space
  BY DEF Solid
<1>2. S # {} /\ Alias(name) = SubSeq(name, Min(S), Max(S))
  BY DEF Alias
<1> HIDE DEF S, l
<1>3. Min(S) \in S /\ Max(S) \in S /\ \A k \in S : Min(S) <= k /\ k <= Max(S)
  BY <1>1, <1>2, LeastAndGreatest DEF l
<1> DEFINE f == Min(S)
           g == Max(S)
<1>4. f \in 1..l /\ g \in 1..l /\ f <= g
  BY <1>1, <1>3
<1>5. name[f] # Space /\ name[g] # Space /\ \A k \in 1..l : name[k] # Space => f <= k /\ k <= g
  BY <1>1, <1>3, <1>4
<1> HIDE DEF f, g
<1>6. Alias(name) = SubSeq(name, f, g)
  BY <1>2 DEF f, g
<1>. QED
  BY <1>4, <1>5, <1>6 DEF l

(* A DuckDB name is its own alias. *)
LEMMA DuckAlias ==
  ASSUME NEW name \in DuckNames
  PROVE  Alias(name) = name /\ Alias(name) # <<>>
<1> DEFINE A == ToSet(Alphabet)
           l == Len(name)
           S == Solid(name)
<1>1. /\ name \in Seq(A) /\ l \in Nat /\ l >= 1 /\ DOMAIN name = 1..l
      /\ \A k \in 1..l : name[k] \in A
  BY CleanElements, LenProperties DEF DuckNames
<1>2. Space \notin A
  BY AlphabetAssumption DEF Dropped
<1>3. S = 1..l
  BY <1>1, <1>2 DEF Solid
<1>4. 1 \in S /\ l \in S /\ S # {}
  BY <1>1, <1>3
<1> HIDE DEF A, l, S
<1>5. Min(S) \in S /\ Max(S) \in S /\ \A k \in S : Min(S) <= k /\ k <= Max(S)
  BY <1>1, <1>3, <1>4, LeastAndGreatest
<1>6. Min(S) = 1 /\ Max(S) = l
  BY <1>1, <1>3, <1>4, <1>5
<1>7. Alias(name) = SubSeq(name, 1, l)
  BY <1>4, <1>6 DEF Alias, S
<1> DEFINE t == SubSeq(name, 1, l)
<1>8. /\ t \in Seq(A) /\ Len(t) = IF 1 <= l THEN l - 1 + 1 ELSE 0
      /\ \A k \in 1..(l - 1 + 1) : t[k] = name[1 + k - 1]
  BY <1>1, SubSeqProperties DEF l
<1> HIDE DEF t
<1>9. Len(t) = l /\ \A k \in 1..l : t[k] = name[k]
  BY <1>1, <1>8
<1>10. t = name
  BY <1>1, <1>8, <1>9, SeqEqual DEF l
<1>11. name # <<>>
  BY <1>1, EmptySeq DEF l
<1>. QED
  BY <1>7, <1>10, <1>11 DEF t

(* What is written of a name, token by token: perhaps one underscore for   *)
(* the white space before it, its alias, one for the white space after it. *)
LEMMA SqueezeInside ==
  ASSUME NEW name \in Seq(ToSet(Alphabet) \cup Dropped),
         NEW f \in 1..Len(name), NEW g \in 1..Len(name), f <= g,
         \A k \in f..g : name[k] \in ToSet(Alphabet),
         \A k \in f..(g - 1) : name[k] # Underscore \/ name[k + 1] # Underscore,
         name[f] # Underscore, name[g] # Underscore,
         \A k \in 1..Len(name) : name[k] # Space => f <= k /\ k <= g
  PROVE  LET s == Squeeze(name)
             o == IF f = 1 THEN 0 ELSE 1
             m == g - f + 1
         IN  /\ s \in Clean /\ Len(s) = IF g = Len(name) THEN o + m ELSE o + m + 1
             /\ \A k \in 1..o : s[k] = Underscore
             /\ \A k \in 1..m : s[o + k] = name[f + k - 1]
             /\ g # Len(name) => s[o + m + 1] = Underscore
<1> DEFINE A == ToSet(Alphabet)
           o == IF f = 1 THEN 0 ELSE 1
           m == g - f + 1
           l == Len(name)
           Written(n) == IF n < f THEN IF n = 0 THEN 0 ELSE 1
                         ELSE IF n <= g THEN o + n - f + 1 ELSE o + m + 1
           Token(k) == IF k <= o \/ k > o + m THEN Underscore ELSE name[k - o + f - 1]
<1>1. l \in Nat /\ f \in 1..l /\ g \in 1..l /\ o \in 0..1 /\ m \in Nat /\ m >= 1
  BY LenProperties
<1>2. PICK s : /\ Squeeze(name) = s[l] /\ s[0] = <<>>
               /\ \A n \in 1..l : s[n] = WriteToken(s[n - 1], name[n])
  BY <1>1, SqueezeRuns
<1> DEFINE Kept(n) == /\ s[n] \in Clean /\ Len(s[n]) = Written(n)
                      /\ \A k \in 1..Written(n) : s[n][k] = Token(k)
           T == {n \in 0..l : Kept(n)}
<1>3. 0 \in T
  <2>1. s[0] \in Clean /\ Len(s[0]) = 0 /\ Written(0) = 0
    BY <1>1, <1>2, EmptyClean
  <2>2. Kept(0)
    BY <2>1
  <2> HIDE DEF Kept
  <2>. QED
    BY <1>1, <2>2
<1>4. ASSUME NEW n \in 0..(l - 1), n \in T PROVE n + 1 \in T
  <2> DEFINE p == s[n]
             q == s[n + 1]
             w == Written(n)
  <2>1. n \in Nat /\ n + 1 \in 1..l /\ n + 1 \in 0..l /\ n + 1 - 1 = n
    BY <1>1
  <2>2. q = WriteToken(p, name[n + 1])
    BY <1>2, <2>1
  <2>3. p \in Clean /\ Len(p) = w /\ \A k \in 1..w : p[k] = Token(k)
    BY <1>4
  <2>4. w \in Nat
    BY <1>1, <2>1
  <2>5. p = <<>> <=> w = 0
    BY <2>3, <2>4, CleanElements
  <2>6. ASSUME NEW token \in A, q = Append(p, token),
               p = <<>> \/ p[Len(p)] # Underscore \/ token # Underscore,
               Written(n + 1) = w + 1, token = Token(w + 1)
        PROVE  Kept(n + 1)
    <3>1. /\ Append(p, token) \in Clean /\ Len(Append(p, token)) = Len(p) + 1
          /\ \A k \in 1..Len(p) : Append(p, token)[k] = p[k]
          /\ Append(p, token)[Len(p) + 1] = token
      BY <2>3, <2>6, AppendClean
    <3> HIDE DEF p, q, w, Token, Written
    <3>2. q \in Clean /\ Len(q) = w + 1 /\ q[w + 1] = token /\ \A k \in 1..w : q[k] = p[k]
      BY <2>3, <2>6, <3>1
    <3>3. \A k \in 1..(w + 1) : k \in 1..w \/ k = w + 1
      BY <2>4
    <3>4. \A k \in 1..(w + 1) : q[k] = Token(k)
      BY <2>3, <2>6, <3>2, <3>3
    <3>. QED
      BY <2>6, <3>2, <3>4 DEF q
  <2>7. CASE n + 1 < f
    <3>1. name[n + 1] = Space /\ o = 1
      BY <1>1, <2>1, <2>7
    <3>2. CASE n = 0
      <4>1. p = <<>> /\ w = 0 /\ Written(n + 1) = 1
        BY <1>1, <2>5, <2>7, <3>2
      <4>2. q = Append(p, Underscore)
        BY <2>2, <2>3, <3>1, <4>1, WriteTokenAppends
      <4>3. Token(1) = Underscore
        BY <3>1
      <4>4. Underscore \in A
        BY AlphabetProperties
      <4> HIDE DEF p, q, w, Token, Written, Kept
      <4>. QED
        BY <2>6, <4>1, <4>2, <4>3, <4>4
    <3>3. CASE n # 0
      <4>1. w = 1 /\ Written(n + 1) = 1 /\ Token(1) = Underscore
        BY <1>1, <2>1, <2>7, <3>1, <3>3
      <4>2. p # <<>> /\ p[Len(p)] = Underscore
        BY <2>3, <2>5, <4>1
      <4>3. q = p
        BY <2>2, <2>3, <3>1, <4>2, WriteTokenAppends
      <4>. QED
        BY <2>3, <4>1, <4>3
    <3>. QED
      BY <3>2, <3>3
  <2>8. CASE f <= n + 1 /\ n + 1 <= g
    <3>1. w = o + n - f + 1 /\ Written(n + 1) = w + 1
      BY <1>1, <2>1, <2>8
    <3>2. Token(w + 1) = name[n + 1] /\ name[n + 1] \in A
      <4>1. ~(w + 1 <= o) /\ ~(w + 1 > o + m) /\ w + 1 - o + f - 1 = n + 1
        BY <1>1, <2>1, <2>8, <3>1
      <4>2. n + 1 \in f..g
        BY <1>1, <2>8
      <4>. QED
        BY <4>1, <4>2
    <3>3. p = <<>> \/ p[Len(p)] # Underscore \/ name[n + 1] # Underscore
      <4>1. CASE n + 1 = f
        BY <4>1
      <4>2. CASE n + 1 # f
        <5>1. n \in f..(g - 1) /\ w >= 1 /\ w \in 1..w
          BY <1>1, <2>1, <2>8, <3>1, <4>2
        <5>2. ~(w <= o) /\ ~(w > o + m) /\ w - o + f - 1 = n
          BY <1>1, <2>1, <2>8, <3>1, <5>1
        <5>3. p[Len(p)] = name[n]
          BY <2>3, <5>1, <5>2
        <5>. QED
          BY <5>1, <5>3
      <4>. QED
        BY <4>1, <4>2
    <3>4. q = Append(p, name[n + 1])
      BY <2>2, <2>3, <3>2, <3>3, WriteTokenAppends
    <3> HIDE DEF p, q, w, Token, Written, Kept
    <3>. QED
      BY <2>6, <3>1, <3>2, <3>3, <3>4
  <2>9. CASE n + 1 > g
    <3>1. name[n + 1] = Space /\ Written(n + 1) = o + m + 1
      BY <1>1, <2>1, <2>9
    <3>2. CASE n = g
      <4>1. w = o + m /\ w >= 1 /\ w \in 1..w
        BY <1>1, <3>2
      <4>2. ~(w <= o) /\ ~(w > o + m) /\ w - o + f - 1 = g
        BY <1>1, <4>1
      <4>3. p[Len(p)] = name[g]
        BY <2>3, <4>1, <4>2
      <4>4. q = Append(p, Underscore)
        BY <2>2, <2>3, <3>1, <4>3, WriteTokenAppends
      <4>5. Token(w + 1) = Underscore
        BY <4>1
      <4>6. Underscore \in A
        BY AlphabetProperties
      <4> HIDE DEF p, q, w, Token, Written, Kept
      <4>. QED
        BY <2>6, <3>1, <4>1, <4>3, <4>4, <4>5, <4>6
    <3>3. CASE n # g
      <4>1. w = o + m + 1 /\ w \in 1..w /\ w > o + m
        BY <1>1, <2>1, <2>9, <3>3
      <4>2. p # <<>> /\ p[Len(p)] = Underscore
        BY <2>3, <2>4, <2>5, <4>1
      <4>3. q = p
        BY <2>2, <2>3, <3>1, <4>2, WriteTokenAppends
      <4>. QED
        BY <2>3, <3>1, <4>1, <4>3
    <3>. QED
      BY <3>2, <3>3
  <2>10. Kept(n + 1)
    BY <1>1, <2>1, <2>7, <2>8, <2>9
  <2> HIDE DEF Kept
  <2>. QED
    BY <2>1, <2>10
<1> HIDE DEF T
<1>5. l \in T
  <2>1. 0..l \subseteq T
    BY <1>1, <1>3, <1>4, Induction
  <2>. QED
    BY <1>1, <2>1
<1>6. /\ s[l] \in Clean /\ Len(s[l]) = Written(l)
      /\ \A k \in 1..Written(l) : s[l][k] = Token(k)
  BY <1>5 DEF T
<1>7. Written(l) = IF g = l THEN o + m ELSE o + m + 1
  BY <1>1
<1>8. \A k \in 1..o : k \in 1..Written(l) /\ Token(k) = Underscore
  BY <1>1, <1>7
<1>9. \A k \in 1..m : o + k \in 1..Written(l) /\ Token(o + k) = name[f + k - 1]
  <2> TAKE k \in 1..m
  <2>1. o + k \in 1..Written(l) /\ ~(o + k <= o) /\ ~(o + k > o + m) /\ o + k - o + f - 1 = f + k - 1
    BY <1>1, <1>7
  <2>. QED
    BY <2>1
<1>10. g # l => o + m + 1 \in 1..Written(l) /\ Token(o + m + 1) = Underscore
  BY <1>1, <1>7
<1> HIDE DEF Token, Written
<1>11. /\ \A k \in 1..o : s[l][k] = Underscore
       /\ \A k \in 1..m : s[l][o + k] = name[f + k - 1]
       /\ g # l => s[l][o + m + 1] = Underscore
  BY <1>6, <1>8, <1>9, <1>10
<1>. QED
  BY <1>2, <1>6, <1>7, <1>11

(* A DuckDB name that keeps its ends stays what it is, whatever white      *)
(* space it is given.                                                      *)
LEMMA SanitizeIdentifierKeeps ==
  ASSUME NEW name \in Seq(ToSet(Alphabet) \cup Dropped), Plain(name), Alias(name) \in DuckNames
  PROVE  SanitizeIdentifier(name) = Alias(name)
<1> DEFINE A == ToSet(Alphabet)
           l == Len(name)
           t == Alias(name)
<1>1. l \in Nat /\ DOMAIN name = 1..l
  BY LenProperties
<1>2. t \in Clean /\ t # <<>> /\ t[1] \notin ToSet(Digits) /\ Head(t) = t[1]
  BY DEF DuckNames
<1>3. t[1] # Underscore /\ t[Len(t)] # Underscore
  BY <1>2 DEF Plain, Last
<1>4. PICK f, g \in 1..l :
        /\ f <= g /\ t = SubSeq(name, f, g)
        /\ \A k \in 1..l : name[k] # Space => f <= k /\ k <= g
  BY <1>1, <1>2, AliasEnds
<1> DEFINE m == g - f + 1
           o == IF f = 1 THEN 0 ELSE 1
           s == Squeeze(name)
           u == TrimRight(s)
           v == TrimLeft(u)
<1>5. m \in Nat /\ m >= 1 /\ o \in 0..1
  BY <1>1, <1>4
<1>6. Len(t) = m /\ \A k \in 1..m : t[k] = name[f + k - 1]
  <2> DEFINE B == ToSet(Alphabet) \cup Dropped
  <2>1. \A k \in 1..l : name[k] \in B
    BY LenProperties
  <2> HIDE DEF B
  <2>2. \A k \in f..g : name[k] \in B
    BY <1>1, <2>1
  <2>3. /\ Len(SubSeq(name, f, g)) = IF f <= g THEN g - f + 1 ELSE 0
        /\ \A k \in 1..(g - f + 1) : SubSeq(name, f, g)[k] = name[f + k - 1]
    BY <1>1, <2>2, SubSeqProperties
  <2>. QED
    BY <1>4, <2>3
<1>7. /\ t \in Seq(A) /\ \A k \in 1..m : t[k] \in A
      /\ \A k \in 1..(m - 1) : t[k] # Underscore \/ t[k + 1] # Underscore
  BY <1>2, <1>6, CleanElements
<1> HIDE DEF A, t, s, u, v
<1>8. \A k \in f..g : k - f + 1 \in 1..m /\ name[k] = t[k - f + 1]
  <2> TAKE k \in f..g
  <2>1. k - f + 1 \in 1..m /\ f + (k - f + 1) - 1 = k
    BY <1>1
  <2>. QED
    BY <1>6, <2>1
<1>9. \A k \in f..g : name[k] \in ToSet(Alphabet)
  BY <1>7, <1>8 DEF A
<1>10. \A k \in f..(g - 1) : name[k] # Underscore \/ name[k + 1] # Underscore
  <2> TAKE k \in f..(g - 1)
  <2>1. k \in f..g /\ k + 1 \in f..g /\ k - f + 1 \in 1..(m - 1) /\ k + 1 - f + 1 = k - f + 1 + 1
    BY <1>1
  <2>2. name[k] = t[k - f + 1] /\ name[k + 1] = t[k - f + 1 + 1]
    BY <1>8, <2>1
  <2>. QED
    BY <1>7, <2>1, <2>2
<1>11. name[f] # Underscore /\ name[g] # Underscore
  <2>1. f \in f..g /\ g \in f..g /\ f - f + 1 = 1
    BY <1>1, <1>4
  <2>2. name[f] = t[1] /\ name[g] = t[m]
    BY <1>8, <2>1
  <2>. QED
    BY <1>3, <1>6, <2>2
<1>12. /\ s \in Clean /\ Len(s) = IF g = l THEN o + m ELSE o + m + 1
       /\ \A k \in 1..o : s[k] = Underscore
       /\ \A k \in 1..m : s[o + k] = t[k]
       /\ g # l => s[o + m + 1] = Underscore
  <2>1. /\ s \in Clean /\ Len(s) = IF g = l THEN o + m ELSE o + m + 1
        /\ \A k \in 1..o : s[k] = Underscore
        /\ \A k \in 1..m : s[o + k] = name[f + k - 1]
        /\ g # l => s[o + m + 1] = Underscore
    BY <1>4, <1>9, <1>10, <1>11, SqueezeInside DEF s
  <2>. QED
    BY <1>6, <2>1
<1>13. /\ u \in Clean /\ Len(u) = o + m
       /\ \A k \in 1..(o + m) : u[k] = s[k]
  <2>1. /\ u \in Clean /\ ~EndsInUnderscore(u)
        /\ Len(u) \in Nat /\ Len(s) <= Len(u) + 1 /\ Len(u) <= Len(s)
        /\ \A k \in 1..Len(u) : u[k] = s[k]
    BY <1>12, TrimRightClean DEF u
  <2>2. CASE g = l
    <3>1. s[Len(s)] # Underscore
      <4>1. m \in 1..m /\ s[o + m] = t[m]
        BY <1>5, <1>12
      <4>. QED
        BY <1>3, <1>6, <1>12, <2>2, <4>1
    <3>2. u = s
      BY <3>1 DEF u, TrimRight, EndsInUnderscore, Last
    <3>. QED
      BY <1>12, <2>2, <3>2
  <2>3. CASE g # l
    <3>1. Len(s) = o + m + 1 /\ s[o + m + 1] = Underscore /\ Len(u) \in {o + m, o + m + 1}
      <4>1. Len(s) = o + m + 1 /\ s[o + m + 1] = Underscore
        BY <1>12, <2>3
      <4> HIDE DEF o, m
      <4>2. Len(u) = o + m \/ Len(u) = o + m + 1
        BY <1>5, <2>1, <4>1
      <4>. QED
        BY <4>1, <4>2
    <3>2. Len(u) # o + m + 1
      <4> SUFFICES ASSUME Len(u) = o + m + 1 PROVE FALSE
        OBVIOUS
      <4>1. Len(u) \in 1..Len(u)
        BY <1>5
      <4>2. u[Len(u)] = Underscore /\ u # <<>>
        BY <2>1, <3>1, <4>1, CleanElements
      <4>. QED
        BY <2>1, <4>2 DEF EndsInUnderscore, Last
    <3>. QED
      BY <2>1, <3>1, <3>2
  <2>. QED
    BY <2>2, <2>3
<1>14. v = t
  <2>1. u \in Seq(A) /\ Len(u) >= 1 /\ u # <<>> /\ Head(u) = u[1]
    BY <1>5, <1>13, CleanElements DEF A
  <2>2. \A k \in 1..m : o + k \in 1..(o + m) /\ u[o + k] = t[k]
    BY <1>5, <1>12, <1>13
  <2>3. CASE f = 1
    <3>1. Len(u) = m /\ \A k \in 1..m : u[k] = t[k]
      BY <1>5, <1>13, <2>2, <2>3
    <3>2. u = t
      BY <1>6, <1>7, <2>1, <3>1, SeqEqual
    <3>3. Head(u) # Underscore
      BY <1>3, <2>1, <3>2
    <3>. QED
      BY <3>2, <3>3 DEF v, TrimLeft
  <2>4. CASE f # 1
    <3>1. o = 1 /\ Len(u) = m + 1
      BY <1>5, <1>13, <2>4
    <3>2. Head(u) = Underscore
      <4>1. 1 \in 1..o /\ 1 \in 1..(o + m)
        BY <1>5, <3>1
      <4>. QED
        BY <1>12, <1>13, <2>1, <4>1
    <3> DEFINE x == SubSeq(u, 2, Len(u))
    <3>3. v = x
      BY <2>1, <3>2, TailIsSubSeq DEF v, TrimLeft
    <3>4. /\ x \in Clean /\ Len(x) = Len(u) - 2 + 1
          /\ \A k \in 1..(Len(u) - 2 + 1) : x[k] = u[2 + k - 1]
      <4>1. 2 \in 1..2 /\ Len(u) \in Nat /\ Len(u) <= Len(u) /\ 2 <= Len(u) + 1
        BY <1>5, <3>1
      <4>. QED
        BY <1>13, <4>1, PartClean
    <3> HIDE DEF x
    <3>5. Len(x) = m /\ \A k \in 1..m : x[k] = u[1 + k]
      <4>1. Len(u) - 2 + 1 = m /\ \A k \in 1..m : 2 + k - 1 = 1 + k
        BY <1>5, <3>1
      <4>. QED
        BY <3>4, <4>1
    <3>6. \A k \in 1..m : x[k] = t[k]
      BY <2>2, <3>1, <3>5
    <3>7. x \in Seq(A)
      BY <3>4, CleanElements DEF A
    <3>. QED
      BY <1>6, <1>7, <3>3, <3>5, <3>6, <3>7, SeqEqual
  <2>. QED
    BY <2>3, <2>4
<1>15. SanitizeIdentifier(name) = IF v = <<>> \/ Head(v) \in ToSet(Digits) THEN <<"t", Underscore>> \o v ELSE v
  BY DEF SanitizeIdentifier, v, u, s
<1>16. t # <<>> /\ Head(t) \notin ToSet(Digits)
  BY <1>2 DEF t
<1>. QED
  BY <1>14, <1>15, <1>16 DEF t

-----------------------------------------------------------------------------
(* sanitizeIdentifiers *)

LEMMA BaseNameDuck ==
  ASSUME NEW name \in Seq(ToSet(Alphabet) \cup Dropped),
         NEW reserved \in {NoneReserved, ReservedFields}
  PROVE  BaseName(name, reserved) \in DuckNames \ DOMAIN reserved
<1> DEFINE base == SanitizeIdentifier(name)
           line == <<Underscore, "airtable">>
           renamed == <<Underscore, "airtable", Underscore>>
           full == renamed \o <<"id">>
<1>1. base \in DuckNames
  BY SanitizeIdentifierDuck
<1>2. BaseName(name, reserved) = IF base \in DOMAIN reserved THEN reserved[base] ELSE base
  BY DEF BaseName
<1>3. CASE base \notin DOMAIN reserved
  BY <1>1, <1>2, <1>3
<1>4. CASE base \in DOMAIN reserved
  <2>1. reserved = ReservedFields
    BY <1>4 DEF NoneReserved
  <2>2. base = <<"id">> /\ DOMAIN reserved = {<<"id">>}
    BY <1>4, <2>1 DEF ReservedFields
  <2>3. BaseName(name, reserved) = full
    BY <1>2, <1>4, <2>1, <2>2 DEF ReservedFields
  <2>4. line \in Clean /\ Len(line) = 2 /\ line[1] = Underscore /\ line[2] = "airtable"
    BY WordsInAlphabet, PairClean
  <2>5. /\ Append(line, Underscore) \in Clean /\ Len(Append(line, Underscore)) = 3
        /\ Append(line, Underscore)[1] = Underscore
    <3>1. 1 \in 1..Len(line) /\ line[Len(line)] # Underscore
      BY <2>4, WordsInAlphabet
    <3>2. Underscore \in ToSet(Alphabet)
      BY WordsInAlphabet
    <3>3. line \in Clean
      BY <2>4
    <3> HIDE DEF line
    <3>4. /\ Append(line, Underscore) \in Clean
          /\ Len(Append(line, Underscore)) = Len(line) + 1
          /\ \A k \in 1..Len(line) : Append(line, Underscore)[k] = line[k]
      BY <3>1, <3>2, <3>3, AppendClean
    <3>. QED
      BY <2>4, <3>1, <3>4
  <2>6. Append(line, Underscore) = renamed
    BY AppendToTwo
  <2>7. renamed \in Clean /\ Len(renamed) = 3 /\ renamed[1] = Underscore
    BY <2>5, <2>6
  <2>8. <<"id">> \in Clean /\ Len(<<"id">>) = 1 /\ <<"id">>[1] # Underscore
    BY WordsInAlphabet, SingleClean
  <2> DEFINE id == <<"id">>
  <2>9. full = renamed \o id
    OBVIOUS
  <2> HIDE DEF renamed, id, full
  <2>10. full \in Clean
    BY <2>7, <2>8, <2>9, ConcatClean DEF id
  <2>11. Len(full) = 4 /\ full[1] = Underscore
    <3>2. renamed \in Seq(ToSet(Alphabet)) /\ id \in Seq(ToSet(Alphabet))
      BY <2>7, <2>8, CleanElements DEF id
    <3>3. /\ Len(full) = Len(renamed) + Len(id)
          /\ \A k \in 1..Len(renamed) : full[k] = renamed[k]
      BY <2>9, <3>2, ConcatParts
    <3>. QED
      BY <2>7, <2>8, <3>3 DEF id
  <2>12. full # <<>> /\ full # id
    BY <2>8, <2>10, <2>11, CleanElements DEF id
  <2>. QED
    BY <2>2, <2>3, <2>10, <2>11, <2>12, WordsInAlphabet DEF DuckNames, id
<1>. QED
  BY <1>3, <1>4
(* A suffixed name is a DuckDB name, longer than the name and of its own.  *)
LEMMA SuffixedProperties ==
  ASSUME NEW base \in DuckNames, NEW i \in 2..(Len(Digits) + 1)
  PROVE  /\ Suffixed(base, i) \in DuckNames
         /\ Len(TrimRight(base)) \in Nat
         /\ Len(Suffixed(base, i)) = Len(TrimRight(base)) + 2
         /\ Len(Suffixed(base, i)) > Len(base)
         /\ Len(Suffixed(base, i)) >= 2
         /\ Suffixed(base, i)[Len(TrimRight(base)) + 2] = Digits[i - 1]
         /\ \A k \in 1..Len(TrimRight(base)) : Suffixed(base, i)[k] = TrimRight(base)[k]
<1> DEFINE t == TrimRight(base)
           m == Len(t)
           pair == <<Underscore, Digits[i - 1]>>
           both == t \o pair
<1>1. base \in Clean /\ base # <<>> /\ base[1] \notin ToSet(Digits) /\ Len(base) \in Nat /\ Len(base) >= 1
  BY CleanElements DEF DuckNames
<1>2. /\ t \in Clean /\ ~EndsInUnderscore(t) /\ m \in Nat /\ Len(base) <= m + 1
      /\ \A k \in 1..m : t[k] = base[k]
  BY <1>1, TrimRightClean
<1>3. Digits[i - 1] \in ToSet(Digits)
  <2>1. Digits \in Seq(ToSet(Digits))
    BY AlphabetAssumption
  <2>2. Len(Digits) \in Nat
    BY <2>1, LenProperties
  <2>3. i - 1 \in 1..Len(Digits)
    BY <2>2
  <2>. QED
    BY <2>1, <2>3, ElementsOf
<1>4. Digits[i - 1] \in ToSet(Alphabet) /\ Digits[i - 1] # Underscore
  BY <1>3, AlphabetProperties
<1>5. pair \in Clean /\ Len(pair) = 2 /\ pair[1] = Underscore /\ pair[2] = Digits[i - 1]
  BY <1>4, WordsInAlphabet, PairClean
<1>6. Suffixed(base, i) = both
  BY DEF Suffixed
<1> HIDE DEF t, pair, both
<1>7. t = <<>> \/ t[Len(t)] # Underscore
  BY <1>2 DEF EndsInUnderscore, Last
<1>8. both \in Clean
  BY <1>2, <1>5, <1>7, ConcatClean DEF both
<1>9. t \in Seq(ToSet(Alphabet)) /\ pair \in Seq(ToSet(Alphabet))
  BY <1>2, <1>5, CleanElements
<1>10. /\ Len(both) = Len(t) + Len(pair)
       /\ \A k \in 1..Len(t) : both[k] = t[k]
       /\ \A k \in 1..Len(pair) : both[Len(t) + k] = pair[k]
  BY <1>9, ConcatParts DEF both
<1>11. Len(both) = m + 2 /\ both[m + 1] = Underscore /\ both[m + 2] = Digits[i - 1]
  BY <1>5, <1>10
<1>12. both[1] \notin ToSet(Digits)
  <2>1. CASE m = 0
    BY <1>11, <2>1, WordsInAlphabet
  <2>2. CASE m # 0
    <3>1. 1 \in 1..m
      BY <1>2, <2>2
    <3>2. both[1] = base[1]
      BY <1>2, <1>10, <3>1
    <3>. QED
      BY <1>1, <3>2
  <2>. QED
    BY <2>1, <2>2
<1>13. Len(both) >= 2 /\ Len(both) > Len(base)
  BY <1>1, <1>2, <1>11
<1>14. both # <<>>
  BY <1>8, <1>13, CleanElements
<1>15. both \in DuckNames
  BY <1>8, <1>12, <1>14 DEF DuckNames
<1>. QED
  BY <1>2, <1>6, <1>10, <1>11, <1>13, <1>15 DEF t

LEMMA SuffixedApart ==
  ASSUME NEW base \in DuckNames, NEW i \in 2..(Len(Digits) + 1), NEW j \in 2..(Len(Digits) + 1),
         Suffixed(base, i) = Suffixed(base, j)
  PROVE  i = j
<1>1. Digits[i - 1] = Digits[j - 1]
  <2> DEFINE last == Len(TrimRight(base)) + 2
  <2>1. Suffixed(base, i)[last] = Digits[i - 1]
    BY SuffixedProperties
  <2>2. Suffixed(base, j)[last] = Digits[j - 1]
    BY SuffixedProperties
  <2>. QED
    BY <2>1, <2>2
<1>2. Len(Digits) \in Nat
  BY AlphabetAssumption, LenProperties
<1>3. i - 1 \in 1..Len(Digits) /\ j - 1 \in 1..Len(Digits)
  BY <1>2
<1>4. i - 1 = j - 1
  BY <1>1, <1>3, AlphabetProperties
<1>. QED
  BY <1>2, <1>4

(* More names than there are places cannot all have been emitted. *)
LEMMA SomeSuffixFree ==
  ASSUME NEW done \in Seq(DuckNames), Len(done) <= Len(Digits),
         NEW base \in DuckNames, base \in ToSet(done)
  PROVE  \E i \in 2..(Len(done) + 1) : Suffixed(base, i) \notin ToSet(done)
<1> DEFINE l == Len(done)
           Name(i) == IF i = 1 THEN base ELSE Suffixed(base, i)
           place == [i \in 1..(l + 1) |-> CHOOSE k \in 1..l : done[k] = Name(i)]
<1>1. l \in Nat /\ Len(Digits) \in Nat /\ l <= Len(Digits)
  BY AlphabetAssumption, LenProperties
<1>2. SUFFICES ASSUME \A i \in 2..(l + 1) : Suffixed(base, i) \in ToSet(done) PROVE FALSE
  OBVIOUS
<1>3. ASSUME NEW i \in 1..(l + 1) PROVE \E k \in 1..l : done[k] = Name(i)
  <2>1. Name(i) \in ToSet(done)
    <3>1. CASE i = 1
      BY <3>1
    <3>2. CASE i # 1
      <4>1. i \in 2..(l + 1)
        BY <1>1, <3>2
      <4>. QED
        BY <1>2, <3>2, <4>1
    <3>. QED
      BY <3>1, <3>2
  <2> HIDE DEF Name
  <2>. QED
    BY <2>1, ElementsOf
<1>4. ASSUME NEW i \in 1..(l + 1), NEW j \in 1..(l + 1), Name(i) = Name(j) PROVE i = j
  <2>1. \A k \in 1..(l + 1) : k # 1 => k \in 2..(Len(Digits) + 1)
    BY <1>1
  <2>2. \A k \in 1..(l + 1) : k # 1 => Len(Suffixed(base, k)) > Len(base)
    BY <2>1, SuffixedProperties
  <2>3. Len(base) \in Nat
    BY CleanElements DEF DuckNames
  <2>4. \A k \in 1..(l + 1) : k # 1 => Suffixed(base, k) # base
    BY <2>2, <2>3
  <2>5. CASE i = 1 \/ j = 1
    BY <1>4, <2>4, <2>5
  <2>6. CASE i # 1 /\ j # 1
    BY <1>4, <2>1, <2>6, SuffixedApart
  <2>. QED
    BY <2>5, <2>6
<1> HIDE DEF l, Name
<1>5. place \in [1..(l + 1) -> 1..l] /\ \A i \in 1..(l + 1) : done[place[i]] = Name(i)
  BY <1>3
<1> HIDE DEF place
<1>6. \A i, j \in 1..(l + 1) : i # j => place[i] # place[j]
  BY <1>4, <1>5
<1>7. /\ IsFiniteSet(1..(l + 1)) /\ Cardinality(1..(l + 1)) = l + 1
      /\ IsFiniteSet(1..l) /\ Cardinality(1..l) = l
  <2>1. \A a, b \in Int : IsFiniteSet(a..b) /\ Cardinality(a..b) = IF a > b THEN 0 ELSE b - a + 1
    BY FS_Interval
  <2>2. 1 \in Int /\ l \in Int /\ l + 1 \in Int
    BY <1>1
  <2>3. /\ Cardinality(1..(l + 1)) = IF 1 > l + 1 THEN 0 ELSE l + 1 - 1 + 1
        /\ Cardinality(1..l) = IF 1 > l THEN 0 ELSE l - 1 + 1
    BY <2>1, <2>2
  <2>4. Cardinality(1..(l + 1)) = l + 1 /\ Cardinality(1..l) = l
    BY <1>1, <2>3
  <2>. QED
    BY <2>1, <2>2, <2>4
<1>8. Cardinality(1..l) < Cardinality(1..(l + 1))
  BY <1>1, <1>7
<1> DEFINE X == 1..(l + 1)
           Y == 1..l
<1>9. /\ IsFiniteSet(X) /\ IsFiniteSet(Y) /\ Cardinality(Y) < Cardinality(X)
      /\ place \in [X -> Y] /\ \A i, j \in X : i # j => place[i] # place[j]
  BY <1>5, <1>6, <1>7, <1>8
<1> HIDE DEF X, Y
<1>. QED
  BY <1>9, FS_PigeonHole

(* There is a first one of the free suffixes. *)
LEMMA FirstSuffixFree ==
  ASSUME NEW done \in Seq(DuckNames), Len(done) <= Len(Digits),
         NEW base \in DuckNames, base \in ToSet(done)
  PROVE  \E i \in 2..(Len(done) + 1) :
           /\ Suffixed(base, i) \notin ToSet(done)
           /\ \A j \in 2..(i - 1) : ~(Suffixed(base, j) \notin ToSet(done))
<1> DEFINE l == Len(done)
           Taken(i) == Suffixed(base, i) \in ToSet(done)
           T == {n \in 0..(l + 1) : \A j \in 2..n : Taken(j)}
<1>1. l \in Nat
  BY LenProperties
<1>2. PICK i \in 2..(l + 1) : ~Taken(i)
  BY SomeSuffixFree
<1>3. SUFFICES ASSUME \A k \in 2..(l + 1) : Taken(k) \/ \E j \in 2..(k - 1) : ~Taken(j) PROVE FALSE
  OBVIOUS
<1> HIDE DEF Taken, l
<1>4. 0 \in T
  BY <1>1
<1>5. ASSUME NEW n \in 0..l, n \in T PROVE n + 1 \in T
  <2>1. \A j \in 2..n : Taken(j)
    BY <1>5
  <2>2. n \in Nat /\ n + 1 \in 0..(l + 1) /\ n + 1 - 1 = n
    BY <1>1
  <2>3. ASSUME NEW j \in 2..(n + 1) PROVE Taken(j)
    <3>1. CASE j \in 2..n
      BY <2>1, <3>1
    <3>2. CASE j \notin 2..n
      <4>1. j = n + 1 /\ j \in 2..(l + 1)
        BY <1>1, <2>2, <3>2
      <4>2. \A k \in 2..(j - 1) : Taken(k)
        BY <2>1, <2>2, <4>1
      <4>. QED
        BY <1>3, <4>1, <4>2
    <3>. QED
      BY <3>1, <3>2
  <2>. QED
    BY <2>2, <2>3
<1> HIDE DEF T
<1>6. l + 1 \in Nat
  BY <1>1
<1>7. 0..(l + 1) \subseteq T
  <2> DEFINE n == l + 1
  <2>1. n \in Nat /\ n - 1 = l
    BY <1>1
  <2> HIDE DEF n
  <2>2. 0..n \subseteq T
    BY <1>4, <1>5, <2>1, Induction
  <2>. QED
    BY <2>2 DEF n
<1>8. l + 1 \in T
  BY <1>1, <1>7
<1>. QED
  BY <1>2, <1>8 DEF T

(* Emit gives a name that nobody has, and the base if nobody has that one. *)
LEMMA EmitProperties ==
  ASSUME NEW done \in Seq(DuckNames), Len(done) <= Len(Digits), NEW base \in DuckNames
  PROVE  /\ Emit(done, base) \in DuckNames \ ToSet(done)
         /\ \/ Emit(done, base) = base
            \/ /\ base \in ToSet(done)
               /\ \E i \in 2..(Len(Digits) + 1) : Emit(done, base) = Suffixed(base, i)
<1>1. CASE base \notin ToSet(done)
  BY <1>1 DEF Emit
<1>2. CASE base \in ToSet(done)
  <2> DEFINE First(i) == /\ Suffixed(base, i) \notin ToSet(done)
                         /\ \A j \in 2..(i - 1) : ~(Suffixed(base, j) \notin ToSet(done))
             i == CHOOSE i \in 2..(Len(done) + 1) : First(i)
  <2>1. Emit(done, base) = Suffixed(base, i)
    BY <1>2 DEF Emit
  <2>2. \E k \in 2..(Len(done) + 1) : First(k)
    BY <1>2, FirstSuffixFree
  <2> HIDE DEF First
  <2>3. i \in 2..(Len(done) + 1) /\ First(i)
    BY <2>2
  <2> HIDE DEF i
  <2>4. Len(done) \in Nat /\ Len(Digits) \in Nat
    BY AlphabetAssumption, LenProperties
  <2>5. i \in 2..(Len(Digits) + 1)
    BY <2>3, <2>4
  <2>6. Suffixed(base, i) \in DuckNames
    BY <2>5, SuffixedProperties
  <2>. QED
    BY <1>2, <2>1, <2>3, <2>5, <2>6 DEF First
<1>. QED
  BY <1>1, <1>2
(* SanitizeAll emits one name after the other. *)
LEMMA SanitizeAllRuns ==
  ASSUME NEW names, NEW reserved, Len(names) \in Nat
  PROVE  \E s : /\ SanitizeAll(names, reserved) = s[Len(names)] /\ s[0] = <<>>
                /\ \A n \in 1..Len(names) :
                     s[n] = Append(s[n - 1], Emit(s[n - 1], BaseName(names[n], reserved)))
<1> DEFINE Next(e, n) == Append(e, Emit(e, BaseName(names[n], reserved)))
           Run(s, m) == s = [n \in 0..m |-> IF n = 0 THEN <<>> ELSE Next(s[n - 1], n)]
           l == Len(names)
           T == {m \in 0..l : \E s : Run(s, m)}
<1>1. SanitizeAll(names, reserved) = (CHOOSE s : Run(s, l))[l]
  BY DEF SanitizeAll
<1> HIDE DEF l, Next
<1>2. l \in Nat
  BY DEF l
<1>3. 0 \in T
  <2> DEFINE s == [n \in 0..0 |-> <<>>]
  <2>1. Run(s, 0)
    OBVIOUS
  <2>2. \E r : Run(r, 0)
    BY <2>1
  <2> HIDE DEF Run
  <2>. QED
    BY <1>2, <2>2
<1>4. ASSUME NEW m \in 0..(l - 1), m \in T PROVE m + 1 \in T
  <2>1. PICK p : Run(p, m)
    BY <1>4
  <2> DEFINE s == [n \in 0..(m + 1) |-> IF n = m + 1 THEN Next(p[m], m + 1) ELSE p[n]]
  <2>2. Run(s, m + 1)
    <3>1. \A n \in 0..(m + 1) : s[n] = IF n = 0 THEN <<>> ELSE Next(s[n - 1], n)
      BY <2>1
    <3>. QED
      BY <3>1
  <2>3. m + 1 \in 0..l
    BY <1>2
  <2>. QED
    BY <2>2, <2>3
<1>5. l \in T
  <2> HIDE DEF T
  <2>1. 0..l \subseteq T
    BY <1>2, <1>3, <1>4, Induction
  <2>. QED
    BY <1>2, <2>1
<1>6. PICK s : s = (CHOOSE r : Run(r, l)) /\ Run(s, l)
  BY <1>5
<1>7. \A n \in 0..l : s[n] = IF n = 0 THEN <<>> ELSE Next(s[n - 1], n)
  <2>1. s = [n \in 0..l |-> IF n = 0 THEN <<>> ELSE Next(s[n - 1], n)]
    BY <1>6
  <2>. QED
    BY <2>1
<1>8. 0 \in 0..l /\ \A n \in 1..l : n \in 0..l /\ n # 0
  BY <1>2
<1>9. s[0] = <<>> /\ \A n \in 1..l : s[n] = Next(s[n - 1], n)
  BY <1>7, <1>8
<1>. QED
  BY <1>1, <1>6, <1>9 DEF l, Next

(* What is known of the names emitted for the first names of a list. *)
Emitted(duck, n, names, reserved) ==
  /\ duck \in Seq(DuckNames) /\ Len(duck) = n
  /\ \A j, k \in 1..n : duck[j] = duck[k] => j = k
  /\ \A k \in 1..n : duck[k] \notin DOMAIN reserved
  /\ \A k \in 1..n :
       \/ duck[k] = BaseName(names[k], reserved)
       \/ \E j \in 1..(k - 1), i \in 2..(Len(Digits) + 1) :
            duck[j] = BaseName(names[k], reserved) /\ duck[k] = Suffixed(duck[j], i)

LEMMA EmitKeeps ==
  ASSUME NEW names, NEW reserved \in {NoneReserved, ReservedFields},
         NEW n \in Nat, n <= Len(Digits), NEW duck, Emitted(duck, n, names, reserved),
         names[n + 1] \in Seq(ToSet(Alphabet) \cup Dropped)
  PROVE  Emitted(Append(duck, Emit(duck, BaseName(names[n + 1], reserved))), n + 1, names, reserved)
<1> DEFINE base == BaseName(names[n + 1], reserved)
           new == Emit(duck, base)
           all == Append(duck, new)
<1>1. base \in DuckNames /\ base \notin DOMAIN reserved
  BY BaseNameDuck
<1>2. duck \in Seq(DuckNames) /\ Len(duck) = n
  BY DEF Emitted
<1> HIDE DEF base
<1>3. new \in DuckNames \ ToSet(duck)
  BY <1>1, <1>2, EmitProperties
<1>4. \/ new = base
      \/ base \in ToSet(duck) /\ \E i \in 2..(Len(Digits) + 1) : new = Suffixed(base, i)
  BY <1>1, <1>2, EmitProperties
<1> HIDE DEF new
<1>5. /\ all \in Seq(DuckNames) /\ Len(all) = Len(duck) + 1 /\ all[Len(duck) + 1] = new
      /\ \A k \in 1..Len(duck) : all[k] = duck[k]
  <2>1. duck \in Seq(DuckNames) /\ new \in DuckNames
    BY <1>2, <1>3
  <2>. QED
    BY <2>1, AppendProperties
<1> HIDE DEF all
<1>6. /\ Len(all) = n + 1 /\ all[n + 1] = new
      /\ \A k \in 1..n : all[k] = duck[k]
  BY <1>2, <1>5
<1>7. \A k \in 1..(n + 1) : k \in 1..n \/ k = n + 1
  OBVIOUS
<1>8. \A k \in 1..n : duck[k] # new
  <2>1. \A k \in 1..n : duck[k] \in ToSet(duck)
    BY <1>2, ElementsOf
  <2>. QED
    BY <1>3, <2>1
<1>9. \A j, k \in 1..(n + 1) : all[j] = all[k] => j = k
  <2>1. \A j, k \in 1..n : duck[j] = duck[k] => j = k
    BY DEF Emitted
  <2>. QED
    BY <1>6, <1>7, <1>8, <2>1
<1>10. new \notin DOMAIN reserved
  <2>1. CASE new = base
    BY <1>1, <2>1
  <2>2. ASSUME NEW i \in 2..(Len(Digits) + 1), new = Suffixed(base, i) PROVE new \notin DOMAIN reserved
    <3>1. Len(new) >= 2 /\ Len(new) = Len(TrimRight(base)) + 2 /\ Len(TrimRight(base)) \in Nat
      BY <1>1, <2>2, SuffixedProperties
    <3>2. \A name \in DOMAIN reserved : Len(name) = 1
      BY DEF NoneReserved, ReservedFields
    <3>3. Len(new) # 1
      BY <3>1
    <3>. QED
      BY <3>2, <3>3
  <2>. QED
    BY <1>4, <2>1, <2>2
<1>11. \A k \in 1..(n + 1) : all[k] \notin DOMAIN reserved
  <2>1. \A k \in 1..n : duck[k] \notin DOMAIN reserved
    BY DEF Emitted
  <2>. QED
    BY <1>6, <1>7, <1>10, <2>1
<1>12. ASSUME NEW k \in 1..(n + 1)
       PROVE  \/ all[k] = BaseName(names[k], reserved)
              \/ \E j \in 1..(k - 1), i \in 2..(Len(Digits) + 1) :
                   all[j] = BaseName(names[k], reserved) /\ all[k] = Suffixed(all[j], i)
  <2>1. CASE k = n + 1
    <3>1. BaseName(names[k], reserved) = base /\ all[k] = new
      BY <1>6, <2>1 DEF base
    <3>2. CASE new = base
      BY <3>1, <3>2
    <3>3. CASE base \in ToSet(duck) /\ \E i \in 2..(Len(Digits) + 1) : new = Suffixed(base, i)
      <4>1. PICK j \in 1..n : duck[j] = base
        BY <1>2, <3>3, ElementsOf
      <4>2. j \in 1..(k - 1) /\ all[j] = base
        BY <1>6, <2>1, <4>1
      <4>. QED
        BY <3>1, <3>3, <4>2
    <3>. QED
      BY <1>4, <3>2, <3>3
  <2>2. CASE k \in 1..n
    <3>1. \/ duck[k] = BaseName(names[k], reserved)
          \/ \E j \in 1..(k - 1), i \in 2..(Len(Digits) + 1) :
               duck[j] = BaseName(names[k], reserved) /\ duck[k] = Suffixed(duck[j], i)
      BY <2>2 DEF Emitted
    <3>2. all[k] = duck[k] /\ \A j \in 1..(k - 1) : all[j] = duck[j]
      BY <1>6, <2>2
    <3>. QED
      BY <3>1, <3>2
  <2>. QED
    BY <1>7, <2>1, <2>2
<1>. QED
  BY <1>5, <1>6, <1>9, <1>11, <1>12 DEF Emitted, all, new, base

LEMMA ListedNames ==
  ASSUME NEW names, Listed(names)
  PROVE  /\ Len(names) \in Nat /\ DOMAIN names = 1..Len(names) /\ Len(names) <= Len(Digits) + 1
         /\ \A k \in 1..Len(names) : names[k] \in Seq(ToSet(Alphabet) \cup Dropped) \ {<<>>}
<1>1. names \in Seq(AirtableNames)
  BY DEF Listed
<1> DEFINE S == AirtableNames
<1> HIDE DEF S
<1>2. names \in Seq(S)
  BY <1>1 DEF S
<1>3. Len(names) \in Nat /\ DOMAIN names = 1..Len(names) /\ \A k \in 1..Len(names) : names[k] \in S
  BY <1>2, LenProperties
<1>. QED
  BY <1>3 DEF Listed, S, AirtableNames

(* Every name of a list gets a name of its own. *)
LEMMA SanitizeAllEmitted ==
  ASSUME NEW names, Listed(names), NEW reserved \in {NoneReserved, ReservedFields}
  PROVE  Emitted(SanitizeAll(names, reserved), Len(names), names, reserved)
<1> DEFINE l == Len(names)
<1>1. /\ l \in Nat /\ l <= Len(Digits) + 1 /\ Len(Digits) \in Nat
      /\ \A k \in 1..l : names[k] \in Seq(ToSet(Alphabet) \cup Dropped)
  <2>1. Len(Digits) \in Nat
    BY AlphabetAssumption, LenProperties
  <2>. QED
    BY <2>1, ListedNames
<1>2. PICK s : /\ SanitizeAll(names, reserved) = s[Len(names)] /\ s[0] = <<>>
               /\ \A n \in 1..Len(names) :
                    s[n] = Append(s[n - 1], Emit(s[n - 1], BaseName(names[n], reserved)))
  BY <1>1, SanitizeAllRuns
<1> DEFINE T == {n \in 0..l : Emitted(s[n], n, names, reserved)}
<1> HIDE DEF l
<1>3. 0 \in T
  <2>1. s[0] \in Seq(DuckNames) /\ Len(s[0]) = 0
    BY <1>2, EmptySeq
  <2>2. \A k \in 1..0 : FALSE
    OBVIOUS
  <2>3. Emitted(s[0], 0, names, reserved)
    BY <2>1, <2>2 DEF Emitted
  <2>. QED
    BY <1>1, <2>3
<1>4. ASSUME NEW n \in 0..(l - 1), n \in T PROVE n + 1 \in T
  <2>1. n \in Nat /\ n + 1 \in 1..l /\ n + 1 \in 0..l /\ n + 1 - 1 = n /\ n <= Len(Digits)
    BY <1>1
  <2>2. s[n + 1] = Append(s[n], Emit(s[n], BaseName(names[n + 1], reserved)))
    BY <1>2, <2>1 DEF l
  <2>3. Emitted(s[n + 1], n + 1, names, reserved)
    BY <1>1, <1>4, <2>1, <2>2, EmitKeeps
  <2>. QED
    BY <2>1, <2>3
<1> HIDE DEF T
<1>5. l \in T
  <2>1. 0..l \subseteq T
    BY <1>1, <1>3, <1>4, Induction
  <2>. QED
    BY <1>1, <2>1
<1>. QED
  BY <1>2, <1>5 DEF T, l
(* What a list of DuckDB names is to its reader. *)
THEOREM NamesApart ==
  ASSUME NEW names, Listed(names), NEW reserved \in {NoneReserved, ReservedFields}
  PROVE  LET duck == SanitizeAll(names, reserved) IN
         /\ duck \in Seq(DuckNames) /\ Len(duck) = Len(names)
         /\ \A k \in 1..Len(names) : duck[k] \in DuckNames
         /\ \A j, k \in 1..Len(names) : duck[j] = duck[k] => j = k
<1> DEFINE duck == SanitizeAll(names, reserved)
<1>1. Emitted(duck, Len(names), names, reserved)
  BY SanitizeAllEmitted
<1> HIDE DEF duck
<1>2. duck \in Seq(DuckNames) /\ Len(duck) = Len(names)
  BY <1>1 DEF Emitted
<1>3. \A k \in 1..Len(names) : duck[k] \in DuckNames
  BY <1>2, LenProperties
<1>. QED
  BY <1>1, <1>2, <1>3 DEF Emitted, duck

(* Who is called in Airtable what another one is called in DuckDB comes    *)
(* after that one, and so does its own DuckDB name.                        *)
LEMMA OwnerFirst ==
  ASSUME NEW names, Listed(names), NEW reserved \in {NoneReserved, ReservedFields},
         NEW i \in 1..Len(names), NEW j \in 1..Len(names), i # j,
         Plain(names[j]), Alias(names[j]) = SanitizeAll(names, reserved)[i]
  PROVE  /\ i < j
         /\ IsStrictPrefix(SanitizeAll(names, reserved)[i], SanitizeAll(names, reserved)[j])
<1> DEFINE duck == SanitizeAll(names, reserved)
<1>1. Emitted(duck, Len(names), names, reserved)
  BY SanitizeAllEmitted
<1>2. Alias(names[j]) = duck[i] /\ duck[i] \in DuckNames /\ duck[j] \in DuckNames
  BY NamesApart
<1> HIDE DEF duck
<1>3. SanitizeIdentifier(names[j]) = duck[i]
  <2>1. names[j] \in Seq(ToSet(Alphabet) \cup Dropped)
    BY ListedNames
  <2>. QED
    BY <1>2, <2>1, SanitizeIdentifierKeeps
<1>4. BaseName(names[j], reserved) = duck[i]
  <2>1. duck[i] \notin DOMAIN reserved
    BY <1>1 DEF Emitted
  <2>. QED
    BY <1>2, <1>3, <2>1 DEF BaseName
<1>5. \A k \in 1..Len(names) : duck[k] = duck[i] => k = i
  BY <1>1 DEF Emitted
<1>6. PICK k \in 1..(j - 1), n \in 2..(Len(Digits) + 1) :
        duck[k] = BaseName(names[j], reserved) /\ duck[j] = Suffixed(duck[k], n)
  <2>1. \/ duck[j] = BaseName(names[j], reserved)
        \/ \E k \in 1..(j - 1), n \in 2..(Len(Digits) + 1) :
             duck[k] = BaseName(names[j], reserved) /\ duck[j] = Suffixed(duck[k], n)
    BY <1>1 DEF Emitted
  <2>2. duck[j] # duck[i]
    BY <1>5
  <2>. QED
    BY <1>4, <2>1, <2>2
<1>7. Len(names) \in Nat
  BY ListedNames
<1>8. k \in 1..Len(names)
  BY <1>7
<1>9. k = i
  BY <1>4, <1>5, <1>6, <1>8
<1>10. i < j
  BY <1>7, <1>9
<1> DEFINE x == duck[i]
           y == duck[j]
<1>11. x \in DuckNames /\ y = Suffixed(x, n) /\ Last(x) # Underscore
  <2>1. x # <<>>
    BY <1>2 DEF DuckNames
  <2>. QED
    BY <1>2, <1>6, <1>9, <2>1 DEF Plain
<1> HIDE DEF x, y
<1>12. TrimRight(x) = x
  BY <1>11 DEF TrimRight, EndsInUnderscore
<1>13. /\ Len(x) \in Nat /\ Len(y) = Len(x) + 2
       /\ \A l \in 1..Len(x) : y[l] = x[l]
  <2>1. /\ Len(TrimRight(x)) \in Nat
        /\ Len(Suffixed(x, n)) = Len(TrimRight(x)) + 2
        /\ \A l \in 1..Len(TrimRight(x)) : Suffixed(x, n)[l] = TrimRight(x)[l]
    BY <1>11, SuffixedProperties
  <2>. QED
    BY <1>11, <1>12, <2>1
<1>14. IsStrictPrefix(x, y)
  <2>1. x \in Seq(ToSet(Alphabet)) /\ y \in Seq(ToSet(Alphabet))
    BY <1>2, <1>11, CleanElements DEF DuckNames, y
  <2>2. Len(x) <= Len(y) /\ x # y
    BY <1>13
  <2>. QED
    BY <1>13, <2>1, <2>2, PrefixElements DEF IsStrictPrefix
<1>. QED
  BY <1>10, <1>14 DEF x, y, duck
-----------------------------------------------------------------------------
(* The order of the tables *)

LEMMA DuckElements ==
  ASSUME NEW a \in DuckNames
  PROVE  /\ a \in Seq(ToSet(Alphabet)) /\ Len(a) \in Nat /\ DOMAIN a = 1..Len(a)
         /\ \A k \in 1..Len(a) : a[k] \in ToSet(Alphabet)
<1>1. a \in Seq(ToSet(Alphabet))
  BY DEF DuckNames, Clean
<1>. QED
  BY <1>1, LenProperties

LEMMA StrictPrefixElements ==
  ASSUME NEW a \in DuckNames, NEW b \in DuckNames, IsStrictPrefix(a, b)
  PROVE  Len(a) < Len(b) /\ \A k \in 1..Len(a) : a[k] = b[k]
<1>1. Len(a) <= Len(b) /\ a # b /\ IsPrefix(a, b)
  BY DEF IsStrictPrefix, IsPrefix
<1>2. \A k \in 1..Len(a) : a[k] = b[k]
  BY <1>1, DuckElements, PrefixElements
<1>3. Len(a) # Len(b)
  BY <1>1, <1>2, DuckElements, SeqEqual
<1>. QED
  BY <1>1, <1>2, <1>3, DuckElements

(* A name comes before the longer ones that begin with it, never after.    *)
LEMMA BeforeLonger ==
  ASSUME NEW a \in DuckNames, NEW b \in DuckNames, a = b \/ IsStrictPrefix(a, b)
  PROVE  ~Before(b, a) /\ (a # b => Before(a, b))
<1>1. /\ Len(a) \in Nat /\ Len(b) \in Nat /\ DOMAIN a = 1..Len(a)
      /\ \A k \in 1..Len(a) : a[k] \in ToSet(Alphabet)
  BY DuckElements
<1>2. \A k \in 1..Len(a) : a[k] = b[k]
  BY StrictPrefixElements
<1>3. ~IsStrictPrefix(b, a)
  <2>1. CASE a = b
    BY <2>1 DEF IsStrictPrefix
  <2>2. CASE IsStrictPrefix(a, b)
    <3>1. Len(a) < Len(b)
      BY <2>2, StrictPrefixElements
    <3>2. ~(Len(b) <= Len(a))
      BY <1>1, <3>1
    <3>. QED
      BY <3>2 DEF IsStrictPrefix, IsPrefix
  <2>. QED
    BY <2>1, <2>2
<1>4. ASSUME NEW k \in DOMAIN b \cap DOMAIN a PROVE ~(Rank(b[k]) < Rank(a[k]))
  <2>1. k \in 1..Len(a) /\ a[k] = b[k] /\ a[k] \in ToSet(Alphabet)
    BY <1>1, <1>2
  <2>2. Rank(a[k]) \in Nat /\ Rank(b[k]) = Rank(a[k])
    BY <2>1, RankProperties
  <2>. QED
    BY <2>2
<1>. QED
  BY <1>3, <1>4 DEF Before

LEMMA Shorter ==
  \A m, n \in Nat : \E l \in Nat :
    /\ (l = m \/ l = n) /\ l <= m /\ l <= n
    /\ \A k \in 1..l : k \in 1..m /\ k \in 1..n
<1> TAKE m, n \in Nat
<1>1. CASE m <= n
  BY <1>1
<1>2. CASE n <= m
  BY <1>2
<1>. QED
  BY <1>1, <1>2

(* Of two different names one comes before the other. *)
LEMMA BeforeTotal ==
  ASSUME NEW a \in DuckNames, NEW b \in DuckNames, a # b
  PROVE  Before(a, b) \/ Before(b, a)
<1>1. /\ a \in Seq(ToSet(Alphabet)) /\ Len(a) \in Nat /\ DOMAIN a = 1..Len(a)
      /\ \A k \in 1..Len(a) : a[k] \in ToSet(Alphabet)
  BY DuckElements
<1>2. /\ b \in Seq(ToSet(Alphabet)) /\ Len(b) \in Nat /\ DOMAIN b = 1..Len(b)
      /\ \A k \in 1..Len(b) : b[k] \in ToSet(Alphabet)
  BY DuckElements
<1> SUFFICES ASSUME ~Before(a, b), ~Before(b, a) PROVE FALSE
  OBVIOUS
<1>3. Len(a) \in Nat /\ Len(b) \in Nat
  BY <1>1, <1>2
<1>10. PICK l \in Nat : /\ (l = Len(a) \/ l = Len(b)) /\ l <= Len(a) /\ l <= Len(b)
                       /\ \A k \in 1..l : k \in 1..Len(a) /\ k \in 1..Len(b)
  BY <1>3, Shorter
<1>11. \A k \in 1..l : k \in 1..Len(a) /\ k \in 1..Len(b)
  BY <1>10
<1> DEFINE T == {n \in 0..l : \A k \in 1..n : a[k] = b[k]}
<1>4. 0 \in T
  OBVIOUS
<1>5. ASSUME NEW n \in 0..(l - 1), n \in T PROVE n + 1 \in T
  <2>1. n \in Nat /\ n + 1 \in 1..l /\ n + 1 \in 0..l /\ n + 1 - 1 = n
    OBVIOUS
  <2>2. \A k \in 1..n : a[k] = b[k] /\ b[k] = a[k]
    BY <1>5
  <2>3. /\ n + 1 \in DOMAIN a \cap DOMAIN b /\ n + 1 \in DOMAIN b \cap DOMAIN a
        /\ a[n + 1] \in ToSet(Alphabet) /\ b[n + 1] \in ToSet(Alphabet)
    BY <1>1, <1>2, <1>11, <2>1
  <2>4. ~(Rank(a[n + 1]) < Rank(b[n + 1])) /\ ~(Rank(b[n + 1]) < Rank(a[n + 1]))
    <3> DEFINE k == n + 1
    <3>1. \A j \in 1..(k - 1) : a[j] = b[j] /\ b[j] = a[j]
      BY <2>1, <2>2
    <3>2. k \in DOMAIN a \cap DOMAIN b /\ k \in DOMAIN b \cap DOMAIN a
      BY <2>3
    <3> HIDE DEF k
    <3>3. ~(Rank(a[k]) < Rank(b[k])) /\ ~(Rank(b[k]) < Rank(a[k]))
      BY <3>1, <3>2 DEF Before
    <3>. QED
      BY <3>3 DEF k
  <2>5. a[n + 1] = b[n + 1]
    <3>1. Rank(a[n + 1]) \in Nat /\ Rank(b[n + 1]) \in Nat
      BY <2>3, RankProperties
    <3>2. Rank(a[n + 1]) = Rank(b[n + 1])
      BY <2>4, <3>1
    <3>. QED
      BY <2>3, <3>2, RankProperties
  <2>6. \A k \in 1..(n + 1) : k \in 1..n \/ k = n + 1
    BY <2>1
  <2>7. \A k \in 1..(n + 1) : a[k] = b[k]
    BY <2>2, <2>5, <2>6
  <2>. QED
    BY <2>1, <2>7
<1> HIDE DEF T
<1>6. l \in T
  <2>1. 0..l \subseteq T
    BY <1>4, <1>5, Induction
  <2>. QED
    BY <2>1
<1>7. \A k \in 1..l : a[k] = b[k] /\ b[k] = a[k]
  BY <1>6 DEF T
<1>8. CASE l = Len(a)
  <2>1. IsPrefix(a, b)
    BY <1>1, <1>2, <1>7, <1>8, <1>10, PrefixElements
  <2>. QED
    BY <2>1 DEF Before, IsStrictPrefix
<1>9. CASE l = Len(b)
  <2>1. IsPrefix(b, a)
    BY <1>1, <1>2, <1>7, <1>9, <1>10, PrefixElements
  <2>. QED
    BY <2>1 DEF Before, IsStrictPrefix
<1>. QED
  BY <1>8, <1>9, <1>10

-----------------------------------------------------------------------------
(* Finding what a call means *)

(* Every table and every field is found under its own DuckDB name, whatever *)
(* plain names a list has.                                                  *)
THEOREM PlainNamesResolve ==
  ASSUME NEW names, Listed(names), \A k \in 1..Len(names) : Plain(names[k])
  PROVE  OwnNames(TableItems(names)) /\ OwnNames(FieldItems(names))
<1> DEFINE l == Len(names)
           tables == SanitizeAll(names, NoneReserved)
           fields == SanitizeAll(names, ReservedFields)
<1>1. l \in Nat /\ DOMAIN names = 1..l
  BY ListedNames
<1>2. /\ \A k \in 1..l : tables[k] \in DuckNames
      /\ \A j, k \in 1..l : tables[j] = tables[k] => j = k
  BY NamesApart
<1>3. /\ \A k \in 1..l : fields[k] \in DuckNames
      /\ \A j, k \in 1..l : fields[j] = fields[k] => j = k
  BY NamesApart
<1>4. \A i, j \in 1..l : i # j /\ Alias(names[j]) = tables[i] => IsStrictPrefix(tables[i], tables[j])
  BY OwnerFirst
<1>5. \A i, j \in 1..l : i # j /\ Alias(names[j]) = fields[i] => i < j
  BY OwnerFirst
<1>6. /\ DOMAIN TableItems(names) = 1..l
      /\ \A i \in 1..l : /\ TableItems(names)[i].duck = tables[i]
                         /\ TableItems(names)[i].original = names[i]
                         /\ TableItems(names)[i].earlier = {j \in 1..l : Before(tables[j], tables[i])}
  BY <1>1 DEF TableItems
<1>7. /\ DOMAIN FieldItems(names) = 1..l
      /\ \A i \in 1..l : /\ FieldItems(names)[i].duck = fields[i]
                         /\ FieldItems(names)[i].original = names[i]
                         /\ FieldItems(names)[i].earlier = 1..(i - 1)
  BY <1>1 DEF FieldItems
<1> HIDE DEF l, tables, fields
<1>8. ASSUME NEW i \in 1..l PROVE Resolve(TableItems(names), TableItems(names)[i].duck) = {i}
  <2> DEFINE named == {k \in 1..l : tables[i] \in {tables[k], Alias(names[k])}}
  <2>1. Resolve(TableItems(names), TableItems(names)[i].duck)
          = {k \in named : {j \in 1..l : Before(tables[j], tables[k])} \cap named = {}}
    <3>1. Alias(tables[i]) = tables[i] /\ Alias(tables[i]) # <<>>
      BY <1>2, DuckAlias
    <3>. QED
      BY <1>6, <3>1 DEF Resolve
  <2>2. \A k \in named : k = i \/ IsStrictPrefix(tables[i], tables[k])
    BY <1>2, <1>4
  <2>3. \A k \in named : ~Before(tables[k], tables[i]) /\ (k # i => Before(tables[i], tables[k]))
    BY <1>2, <2>2, BeforeLonger
  <2>4. i \in named
    OBVIOUS
  <2> HIDE DEF named
  <2>. QED
    BY <2>1, <2>3, <2>4
<1>9. ASSUME NEW i \in 1..l PROVE Resolve(FieldItems(names), FieldItems(names)[i].duck) = {i}
  <2> DEFINE named == {k \in 1..l : fields[i] \in {fields[k], Alias(names[k])}}
  <2>1. Resolve(FieldItems(names), FieldItems(names)[i].duck)
          = {k \in named : (1..(k - 1)) \cap named = {}}
    <3>1. Alias(fields[i]) = fields[i] /\ Alias(fields[i]) # <<>>
      BY <1>3, DuckAlias
    <3>. QED
      BY <1>7, <3>1 DEF Resolve
  <2>2. \A k \in named : k = i \/ i < k
    BY <1>3, <1>5
  <2>3. i \in named /\ \A k \in named : k \in 1..l
    OBVIOUS
  <2> HIDE DEF named
  <2>4. (1..(i - 1)) \cap named = {}
    BY <1>1, <2>2, <2>3
  <2>5. \A k \in named : k # i => i \in 1..(k - 1)
    BY <1>1, <2>2, <2>3
  <2>. QED
    BY <2>1, <2>3, <2>4, <2>5
<1>. QED
  BY <1>6, <1>7, <1>8, <1>9 DEF OwnNames
(* A requested name means at most one table, and at most one field. *)
THEOREM MeansAtMostOne ==
  ASSUME NEW names, Listed(names), NEW requested
  PROVE  /\ \A s, t \in Resolve(TableItems(names), requested) : s = t
         /\ \A s, t \in Resolve(FieldItems(names), requested) : s = t
         /\ Resolve(TableItems(names), requested) \subseteq DOMAIN names
         /\ Resolve(FieldItems(names), requested) \subseteq DOMAIN names
<1> DEFINE l == Len(names)
           tables == SanitizeAll(names, NoneReserved)
<1>1. l \in Nat /\ DOMAIN names = 1..l
  BY ListedNames
<1>2. /\ \A k \in 1..l : tables[k] \in DuckNames
      /\ \A j, k \in 1..l : tables[j] = tables[k] => j = k
  BY NamesApart
<1>3. /\ DOMAIN TableItems(names) = 1..l
      /\ \A i \in 1..l : TableItems(names)[i].earlier = {j \in 1..l : Before(tables[j], tables[i])}
  BY <1>1 DEF TableItems
<1>4. /\ DOMAIN FieldItems(names) = 1..l
      /\ \A i \in 1..l : FieldItems(names)[i].earlier = 1..(i - 1)
  BY <1>1 DEF FieldItems
<1> HIDE DEF l, tables
<1>5. ASSUME NEW s \in Resolve(TableItems(names), requested),
             NEW t \in Resolve(TableItems(names), requested)
      PROVE  s = t
  <2>1. s \in 1..l /\ t \in 1..l
    BY <1>3 DEF Resolve
  <2>2. ~Before(tables[s], tables[t]) /\ ~Before(tables[t], tables[s])
    BY <1>3, <2>1 DEF Resolve
  <2>3. tables[s] = tables[t]
    BY <1>2, <2>1, <2>2, BeforeTotal
  <2>. QED
    BY <1>2, <2>1, <2>3
<1>6. ASSUME NEW s \in Resolve(FieldItems(names), requested),
             NEW t \in Resolve(FieldItems(names), requested)
      PROVE  s = t
  <2>1. s \in 1..l /\ t \in 1..l
    BY <1>4 DEF Resolve
  <2>2. s \notin 1..(t - 1) /\ t \notin 1..(s - 1)
    BY <1>4, <2>1 DEF Resolve
  <2>. QED
    BY <1>1, <2>1, <2>2
<1>7. /\ Resolve(TableItems(names), requested) \subseteq 1..l
      /\ Resolve(FieldItems(names), requested) \subseteq 1..l
  BY <1>3, <1>4 DEF Resolve
<1>. QED
  BY <1>1, <1>5, <1>6, <1>7

(* The same of every list of three of the names looked at. *)
LEMMA OwnNamesOfAnyHolds == OwnNamesOfAny
<1> SUFFICES ASSUME NEW a \in SomeNames, NEW b \in SomeNames, NEW c \in SomeNames,
                    Plain(a), Plain(b), Plain(c)
             PROVE  OwnNames(TableItems(<<a, b, c>>)) /\ OwnNames(FieldItems(<<a, b, c>>))
  BY DEF OwnNamesOfAny
<1> DEFINE names == <<a, b, c>>
           S == AirtableNames
<1>1. a \in S /\ b \in S /\ c \in S
  BY NamesAssumption
<1> HIDE DEF S
<1>2. names \in Seq(S) /\ Len(names) = 3 /\ names[1] = a /\ names[2] = b /\ names[3] = c
  BY <1>1
<1> HIDE DEF names
<1>3. Len(names) <= Len(Digits) + 1
  <2>1. Len(Digits) \in Nat
    BY AlphabetAssumption, LenProperties
  <2>. QED
    BY <1>2, <2>1, NamesAssumption
<1>4. Listed(names)
  BY <1>2, <1>3 DEF Listed, S
<1>5. \A k \in 1..Len(names) : Plain(names[k])
  <2>1. \A k \in 1..3 : k = 1 \/ k = 2 \/ k = 3
    OBVIOUS
  <2>. QED
    BY <1>2, <2>1
<1>. QED
  BY <1>4, <1>5, PlainNamesResolve DEF names
=============================================================================
