------------------------- MODULE ModelAnswers_proofs -------------------------
(***************************************************************************)
(* What the rules of CvData, QuestionSet and ScoringEvaluation make of a   *)
(* model's answer, for any answer of the right shape.                      *)
(*                                                                         *)
(* The rules of CvData are folds.  A fold is a run through the numbers     *)
(* from 1 to n (NulFold, CleanListFold, CollectFold), and what it returns  *)
(* is shown by induction over that run.  The sets Kept, KeptExperience,    *)
(* KeptEducation and KeptData say what may come out of a normalization;    *)
(* of what they have, a second one loses nothing (KeptSurvives).           *)
(***************************************************************************)
EXTENDS QuestionSet, ScoringEvaluation, SequenceTheorems, FiniteSetTheorems, TLAPS

(***************************************************************************)
(* Numbers, and folds over the numbers from 1 to n.  Induction is over sets, *)
(* the least number of which nothing holds being the counterexample.       *)
(***************************************************************************)
(* A set of numbers has a least one. *)
LEMMA LeastNumber ==
  ASSUME NEW T, T \subseteq Nat, T # {}
  PROVE  \E n \in T : \A m \in T : n <= m
<1> DEFINE R == {p \in Nat \X Nat : p[1] < p[2]}
<1>1. IsWellFoundedOn(R, Nat)
    BY NatLessThanWellFounded DEF OpToRel
<1>2. PICK n \in T : \A m \in T : <<m, n>> \notin R
    <2> HIDE DEF R
    <2> QED
        BY <1>1, WFMin
<1>3. ASSUME NEW m \in T, ~ n <= m PROVE FALSE
    <2>1. m \in Nat /\ n \in Nat /\ m < n
        BY <1>3
    <2>2. <<m, n>> \in R
        BY <2>1
    <2> QED
        BY <1>2, <2>2
<1> QED
    BY <1>3

(* A set of numbers that is bounded has a greatest one. *)
LEMMA GreatestNumber ==
  ASSUME NEW T, T # {}, NEW top \in Nat, T \subseteq 0 .. top
  PROVE  \E n \in T : \A m \in T : n >= m
<1> DEFINE U == {d \in 0 .. top : top - d \in T}
<1>1. PICK x \in T : TRUE
    OBVIOUS
<1>2. top - x \in U
    <2>1. x \in 0 .. top /\ top - x \in 0 .. top /\ top - (top - x) = x
        OBVIOUS
    <2> QED
        BY <1>1, <2>1
<1>3. PICK d \in U : \A e \in U : d <= e
    <2>1. U \subseteq Nat
        OBVIOUS
    <2> HIDE DEF U
    <2> QED
        BY <1>2, <2>1, LeastNumber
<1>4. ASSUME NEW m \in T PROVE top - d >= m
    <2>1. m \in 0 .. top /\ top - m \in 0 .. top /\ top - (top - m) = m
        OBVIOUS
    <2>2. d <= top - m
        BY <1>3, <2>1
    <2> QED
        BY <2>1, <2>2
<1> QED
    BY <1>3, <1>4

(* ... and so Min and Max are what they are named for. *)
LEMMA MinMax ==
  ASSUME NEW T, T # {}, NEW top \in Nat, T \subseteq 0 .. top
  PROVE  /\ Min(T) \in T /\ \A m \in T : Min(T) <= m
         /\ Max(T) \in T /\ \A m \in T : m <= Max(T)
<1>1. \E n \in T : \A m \in T : n <= m
    <2>1. T \subseteq Nat
        OBVIOUS
    <2> QED
        BY <2>1, LeastNumber
<1>2. \E n \in T : \A m \in T : n >= m
    BY GreatestNumber
<1>3. Max(T) \in T /\ \A m \in T : Max(T) >= m
    BY <1>2 DEF Max
<1> QED
    BY <1>1, <1>3 DEF Min

(* What holds of 0, and of each number when of the one before it, holds of *)
(* all up to n.                                                            *)
LEMMA UpTo ==
  ASSUME NEW n \in Nat, NEW T, 0 \in T, \A i \in 1 .. n : i - 1 \in T => i \in T
  PROVE  0 .. n \subseteq T
<1> DEFINE U == {i \in 0 .. n : i \notin T}
<1> SUFFICES ASSUME U # {} PROVE FALSE
    OBVIOUS
<1>1. U \subseteq Nat
    OBVIOUS
<1>2. PICK m \in U : \A k \in U : m <= k
    <2> HIDE DEF U
    <2> QED
        BY <1>1, LeastNumber
<1>3. m \in 1 .. n /\ m - 1 \in 0 .. n
    OBVIOUS
<1>4. m - 1 \in T
    BY <1>1, <1>2, <1>3
<1> QED
    BY <1>2, <1>3, <1>4

(* The greatest number of 1 .. n is n. *)
LEMMA MaxOfPrefix ==
  ASSUME NEW n \in Nat \ {0}, NEW S, S \subseteq 1 .. n, n \in S
  PROVE  Max(S) = n
<1>1. S \subseteq 0 .. n /\ S # {} /\ n \in Nat
    OBVIOUS
<1>2. Max(S) \in S /\ n <= Max(S)
    BY <1>1, MinMax
<1>3. Max(S) \in 1 .. n
    BY <1>2
<1> HIDE DEF Max
<1> QED
    BY <1>2, <1>3

(* The functions that the recursion of a fold over n items defines. *)
Solutions(A, base, step, n) ==
    {g \in [SUBSET (1 .. n) -> A] :
        \A S \in SUBSET (1 .. n) :
            g[S] = IF S = {} THEN base ELSE step[<<g[S \ {Max(S)}], Max(S)>>]}

(* One that serves for all items but the last extends to one for all. *)
LEMMA SolutionExtends ==
  ASSUME NEW A, NEW base \in A, NEW m \in Nat \ {0}, NEW n \in Nat, m <= n,
         NEW step \in [A \X (1 .. n) -> A], Solutions(A, base, step, m - 1) # {}
  PROVE  Solutions(A, base, step, m) # {}
<1>1. PICK g \in [SUBSET (1 .. (m - 1)) -> A] :
        \A S \in SUBSET (1 .. (m - 1)) :
            g[S] = IF S = {} THEN base ELSE step[<<g[S \ {Max(S)}], Max(S)>>]
    BY DEF Solutions
<1> DEFINE h == [S \in SUBSET (1 .. m) |->
                    IF m \in S THEN step[<<g[S \ {m}], m>>] ELSE g[S]]
<1>2. ASSUME NEW S \in SUBSET (1 .. m), m \in S
      PROVE  /\ S \ {m} \in SUBSET (1 .. (m - 1))
             /\ S # {} /\ Max(S) = m
             /\ S \ {m} \in SUBSET (1 .. m) /\ m \notin S \ {m}
    <2>1. S \ {m} \subseteq 1 .. (m - 1)
        OBVIOUS
    <2>2. Max(S) = m
        BY <1>2, MaxOfPrefix
    <2> QED
        BY <1>2, <2>1, <2>2
<1>3. ASSUME NEW S \in SUBSET (1 .. m), m \notin S
      PROVE  /\ S \in SUBSET (1 .. (m - 1))
             /\ S # {} => Max(S) \in S
             /\ S \ {Max(S)} \in SUBSET (1 .. m) /\ m \notin S \ {Max(S)}
    <2>1. S \subseteq 1 .. (m - 1)
        BY <1>3
    <2>2. S \subseteq 0 .. m /\ m \in Nat
        OBVIOUS
    <2>3. S # {} => Max(S) \in S
        BY <2>2, MinMax
    <2> QED
        BY <1>3, <2>1, <2>3
<1>4. m \in 1 .. n
    OBVIOUS
<1>5. ASSUME NEW S \in SUBSET (1 .. m)
      PROVE  /\ h[S] \in A
             /\ h[S] = IF S = {} THEN base ELSE step[<<h[S \ {Max(S)}], Max(S)>>]
    <2>1. CASE m \in S
        <3>1. /\ S \ {m} \in SUBSET (1 .. (m - 1)) /\ S # {} /\ Max(S) = m
              /\ S \ {m} \in SUBSET (1 .. m) /\ m \notin S \ {m}
            BY <1>2, <2>1
        <3>2. h[S \ {m}] = g[S \ {m}] /\ h[S] = step[<<g[S \ {m}], m>>]
            BY <2>1, <3>1
        <3>3. g[S \ {m}] \in A
            BY <3>1
        <3> HIDE DEF h
        <3>4. step[<<g[S \ {m}], m>>] \in A
            BY <1>4, <3>3
        <3> QED
            BY <3>1, <3>2, <3>4
    <2>2. CASE m \notin S
        <3>1. /\ S \in SUBSET (1 .. (m - 1))
              /\ S \ {Max(S)} \in SUBSET (1 .. m) /\ m \notin S \ {Max(S)}
            BY <1>3, <2>2
        <3>2. h[S] = g[S] /\ h[S \ {Max(S)}] = g[S \ {Max(S)}]
            BY <2>2, <3>1
        <3> HIDE DEF h
        <3> QED
            BY <1>1, <3>1, <3>2
    <2> QED
        BY <2>1, <2>2
<1>6. h \in [SUBSET (1 .. m) -> A]
    BY <1>5
<1> HIDE DEF h
<1>7. h \in Solutions(A, base, step, m)
    BY <1>5, <1>6 DEF Solutions
<1> QED
    BY <1>7

(* The recursion that a fold is defined by has a solution. *)
LEMMA FoldExists ==
  ASSUME NEW n \in Nat, NEW A, NEW base \in A, NEW step \in [A \X (1 .. n) -> A]
  PROVE  Solutions(A, base, step, n) # {}
<1> DEFINE T == {m \in 0 .. n : Solutions(A, base, step, m) # {}}
<1>1. 0 \in T
    <2> DEFINE g == [S \in SUBSET (1 .. 0) |-> base]
    <2>1. 1 .. 0 = {} /\ 0 \in 0 .. n
        OBVIOUS
    <2>2. g \in [SUBSET (1 .. 0) -> A]
        OBVIOUS
    <2>3. \A S \in SUBSET (1 .. 0) : S = {} /\ g[S] = base
        BY <2>1
    <2> HIDE DEF g
    <2>4. g \in Solutions(A, base, step, 0)
        BY <2>2, <2>3 DEF Solutions
    <2> QED
        BY <2>1, <2>4
<1>2. ASSUME NEW m \in 1 .. n, m - 1 \in T PROVE m \in T
    <2>1. m \in Nat \ {0} /\ m <= n /\ m \in 0 .. n
        OBVIOUS
    <2>2. Solutions(A, base, step, m - 1) # {}
        BY <1>2
    <2>3. Solutions(A, base, step, m) # {}
        BY <2>1, <2>2, SolutionExtends
    <2> QED
        BY <2>1, <2>3
<1>3. n \in T
    <2> HIDE DEF T
    <2>1. 0 .. n \subseteq T
        BY <1>1, <1>2, UpTo
    <2>2. n \in 0 .. n
        OBVIOUS
    <2> QED
        BY <2>1, <2>2
<1> QED
    BY <1>3

(* ... which runs through the numbers from 1 to n. *)
LEMMA FoldRuns ==
  ASSUME NEW n \in Nat, NEW i \in 1 .. n
  PROVE  /\ 1 .. i \in SUBSET (1 .. n) /\ 1 .. i # {}
         /\ Max(1 .. i) = i /\ (1 .. i) \ {i} = 1 .. (i - 1)
<1>1. i \in Nat \ {0} /\ 1 .. i \subseteq 1 .. i /\ i \in 1 .. i
    OBVIOUS
<1>2. Max(1 .. i) = i
    BY <1>1, MaxOfPrefix
<1>3. /\ 1 .. i \in SUBSET (1 .. n) /\ 1 .. i # {}
      /\ (1 .. i) \ {i} = 1 .. (i - 1)
    OBVIOUS
<1> QED
    BY <1>2, <1>3

-----------------------------------------------------------------------------
(***************************************************************************)
(* Texts.                                                                  *)
(***************************************************************************)
(* The ink of a text is on its places. *)
LEMMA InkedDomain ==
  ASSUME NEW s \in Seq(Characters)
  PROVE  Len(s) \in Nat /\ DOMAIN s = 1 .. Len(s) /\ Inked(s) \subseteq 1 .. Len(s)
<1>1. Len(s) \in Nat /\ DOMAIN s = 1 .. Len(s)
    OBVIOUS
<1> QED
    BY <1>1 DEF Inked

(* What trimming leaves begins and ends with ink, or is nothing. *)
LEMMA TrimFacts ==
  ASSUME NEW s \in Seq(Characters)
  PROVE  /\ Trim(s) \in Seq(Characters)
         /\ Len(Trim(s)) <= Len(s)
         /\ Trim(s) # <<>> => 1 \in Inked(Trim(s)) /\ Len(Trim(s)) \in Inked(Trim(s))
         /\ Trim(s) = <<>> => Inked(s) = {}
         /\ \A i \in DOMAIN Trim(s) : \E j \in DOMAIN s : Trim(s)[i] = s[j]
<1>1. CASE Inked(s) = {}
    <2>1. Trim(s) = <<>>
        BY <1>1 DEF Trim
    <2> QED
        BY <1>1, <2>1
<1>2. CASE Inked(s) # {}
    <2> DEFINE a == Min(Inked(s))
               b == Max(Inked(s))
               t == SubSeq(s, a, b)
    <2>1. Inked(s) \subseteq 1 .. Len(s) /\ Len(s) \in Nat /\ Inked(s) \subseteq 0 .. Len(s)
        BY InkedDomain
    <2>2. a \in Inked(s) /\ b \in Inked(s) /\ a <= b
        BY <1>2, <2>1, MinMax
    <2> HIDE DEF a, b
    <2>3. /\ t \in Seq(Characters)
          /\ Len(t) = b - a + 1
          /\ \A i \in 1 .. Len(t) : t[i] = s[a + i - 1]
        BY <2>1, <2>2
    <2>4. Trim(s) = t
        BY <1>2 DEF Trim, a, b
    <2> HIDE DEF t
    <2>5. 1 \in DOMAIN t /\ Len(t) \in DOMAIN t /\ t[1] = s[a] /\ t[Len(t)] = s[b]
        BY <2>1, <2>2, <2>3
    <2>6. 1 \in Inked(t) /\ Len(t) \in Inked(t)
        BY <2>2, <2>5 DEF Inked
    <2>7. Len(t) <= Len(s) /\ t # <<>>
        BY <2>1, <2>2, <2>3
    <2>8. \A i \in DOMAIN t : a + i - 1 \in DOMAIN s /\ t[i] = s[a + i - 1]
        BY <2>1, <2>2, <2>3
    <2> QED
        BY <2>3, <2>4, <2>6, <2>7, <2>8
<1> QED
    BY <1>1, <1>2

(* A text that begins and ends with ink is trimmed. *)
LEMMA TrimmedStays ==
  ASSUME NEW s \in Seq(Characters),
         s # <<>> => 1 \in Inked(s) /\ Len(s) \in Inked(s)
  PROVE  Trim(s) = s
<1>1. CASE s = <<>>
    BY <1>1 DEF Trim, Inked
<1>2. CASE s # <<>>
    <2>1. Inked(s) \subseteq 1 .. Len(s) /\ Len(s) \in Nat /\ Inked(s) \subseteq 0 .. Len(s)
        BY InkedDomain
    <2>2. Min(Inked(s)) \in Inked(s) /\ Min(Inked(s)) <= 1
        BY <1>2, <2>1, MinMax
    <2>3. Max(Inked(s)) \in Inked(s) /\ Len(s) <= Max(Inked(s))
        BY <1>2, <2>1, MinMax
    <2>4. Min(Inked(s)) = 1 /\ Max(Inked(s)) = Len(s)
        BY <2>1, <2>2, <2>3
    <2>5. SubSeq(s, 1, Len(s)) = s
        OBVIOUS
    <2> QED
        BY <2>1, <2>4, <2>5 DEF Trim
<1> QED
    BY <1>1, <1>2

(* Trimming again changes nothing. *)
LEMMA TrimTwice ==
  ASSUME NEW s \in Seq(Characters)
  PROVE  Trim(Trim(s)) = Trim(s)
BY TrimFacts, TrimmedStays

(* One round of each fold of CvData: of WithoutNul, Collect and CleanList. *)
Written(text, c) == IF c = "NUL" THEN text ELSE Append(text, c)

Pushed(items, entry) ==
    IF entry = None \/ Len(items) = ListCount THEN items ELSE Append(items, entry)

Added(list, item) ==
    LET text == CleanText(item, SkillLength)
    IN  IF \/ text = None
           \/ Len(list) = ListCount
           \/ \E i \in DOMAIN list : Lower(list[i]) = Lower(text)
        THEN list ELSE Append(list, text)

(* Taking out the NULs is a run through the characters. *)
LEMMA NulFold ==
  ASSUME NEW s \in Seq(Characters)
  PROVE  \E r \in [0 .. Len(s) -> Seq(Characters)] :
            /\ r[0] = <<>>
            /\ \A i \in 1 .. Len(s) :
                 r[i] = Written(r[i - 1], s[i])
            /\ WithoutNul(s) = r[Len(s)]
<1> DEFINE A == Seq(Characters)
           n == Len(s)
           step == [p \in A \X (1 .. n) |->
                      Written(p[1], s[p[2]])]
           Rec(f) == [S \in SUBSET (1 .. n) |->
                        IF S = {} THEN <<>>
                        ELSE LET x == Max(S)
                             IN  Written(f[S \ {x}], s[x])]
<1>1. n \in Nat /\ DOMAIN s = 1 .. n /\ \A i \in 1 .. n : s[i] \in Characters
    OBVIOUS
<1>2. \A k \in A, i \in 1 .. n : Written(k, s[i]) \in A
    BY <1>1 DEF Written
<1>3. PICK g : g = CHOOSE f : f = Rec(f)
    OBVIOUS
<1>4. WithoutNul(s) = g[1 .. n]
    BY <1>1, <1>3 DEF Written, WithoutNul, FoldLeft, MapThenFoldSet
<1>5. \E f : f = Rec(f)
    <2>1. <<>> \in A /\ step \in [A \X (1 .. n) -> A]
        BY <1>2
    <2> HIDE DEF A, n, step
    <2>2. PICK f \in Solutions(A, <<>>, step, n) : TRUE
        BY <1>1, <2>1, FoldExists
    <2>3. f \in [SUBSET (1 .. n) -> A]
        BY <2>2 DEF Solutions
    <2>4. ASSUME NEW S \in SUBSET (1 .. n)
          PROVE  f[S] = Rec(f)[S]
        <3>1. CASE S = {}
            BY <2>2, <3>1 DEF Solutions
        <3>2. CASE S # {}
            <4>1. Max(S) \in 1 .. n /\ S \ {Max(S)} \in SUBSET (1 .. n)
                <5>1. S \subseteq 0 .. n
                    BY <1>1
                <5> QED
                    BY <1>1, <3>2, <5>1, MinMax
            <4>2. f[S] = step[<<f[S \ {Max(S)}], Max(S)>>]
                BY <2>2, <3>2 DEF Solutions
            <4>3. f[S \ {Max(S)}] \in A
                BY <2>3, <4>1
            <4> HIDE DEF Max
            <4> QED
                BY <3>2, <4>1, <4>2, <4>3 DEF step
        <3> QED
            BY <3>1, <3>2
    <2>5. f = Rec(f)
        BY <2>3, <2>4
    <2> QED
        BY <2>5
<1>6. g = Rec(g)
    BY <1>3, <1>5
<1>7. g[1 .. 0] = <<>>
    BY <1>6
<1>8. ASSUME NEW i \in 1 .. n
      PROVE  g[1 .. i] = Written(g[1 .. (i - 1)], s[i])
    <2> HIDE DEF n
    <2>1. /\ 1 .. i \in SUBSET (1 .. n) /\ 1 .. i # {}
          /\ Max(1 .. i) = i /\ (1 .. i) \ {i} = 1 .. (i - 1)
        BY <1>1, FoldRuns
    <2> QED
        BY <1>6, <2>1
<1> DEFINE r == [i \in 0 .. n |-> g[1 .. i]]
           T == {i \in 0 .. n : g[1 .. i] \in A}
<1>9. 0 .. n \subseteq T
    <2>1. 0 \in T
        <3>1. 0 \in 0 .. n /\ <<>> \in A
            BY <1>1
        <3> QED
            BY <1>7, <3>1
    <2>2. ASSUME NEW i \in 1 .. n, i - 1 \in T PROVE i \in T
        <3>1. i \in 0 .. n /\ g[1 .. (i - 1)] \in A
            BY <1>1, <2>2
        <3>2. g[1 .. i] \in A
            BY <1>2, <1>8, <3>1
        <3> QED
            BY <3>1, <3>2
    <2> HIDE DEF T
    <2> QED
        BY <1>1, <2>1, <2>2, UpTo
<1>10. r \in [0 .. n -> A] /\ r[0] = <<>> /\ WithoutNul(s) = r[n]
    BY <1>1, <1>4, <1>7, <1>9
<1>11. ASSUME NEW i \in 1 .. n
       PROVE  r[i] = Written(r[i - 1], s[i])
    <2>1. i \in 0 .. n /\ i - 1 \in 0 .. n
        BY <1>1
    <2> QED
        BY <1>8, <2>1
<1> HIDE DEF r
<1> QED
    BY <1>10, <1>11

(* A text as it is kept: without NUL, neither empty nor longer than its    *)
(* field, and it begins with ink; cutting it may have left blanks behind.  *)
Kept(length) ==
    {t \in Seq(Characters \ {"NUL"}) : Len(t) \in 1 .. length /\ 1 \in Inked(t)}

(* No NUL is left, and nothing else is taken. *)
LEMMA NulFacts ==
  ASSUME NEW s \in Seq(Characters)
  PROVE  /\ WithoutNul(s) \in Seq(Characters \ {"NUL"})
         /\ s \in Seq(Characters \ {"NUL"}) => WithoutNul(s) = s
<1> DEFINE n == Len(s)
<1>1. n \in Nat /\ 0 \in 0 .. n /\ n \in 0 .. n /\ \A i \in 1 .. n : s[i] \in Characters
    OBVIOUS
<1>2. PICK r \in [0 .. n -> Seq(Characters)] :
            /\ r[0] = <<>>
            /\ \A i \in 1 .. n :
                 r[i] = Written(r[i - 1], s[i])
            /\ WithoutNul(s) = r[n]
    BY NulFold
<1>3. WithoutNul(s) \in Seq(Characters \ {"NUL"})
    <2> DEFINE T == {i \in 0 .. n : r[i] \in Seq(Characters \ {"NUL"})}
    <2>1. 0 \in T
        BY <1>1, <1>2
    <2>2. ASSUME NEW i \in 1 .. n, i - 1 \in T PROVE i \in T
        <3>1. i \in 0 .. n /\ r[i - 1] \in Seq(Characters \ {"NUL"})
            BY <1>1, <2>2
        <3>2. s[i] # "NUL" => Append(r[i - 1], s[i]) \in Seq(Characters \ {"NUL"})
            BY <1>1, <3>1
        <3> QED
            BY <1>2, <3>1, <3>2 DEF Written
    <2>3. 0 .. n \subseteq T
        <3> HIDE DEF T, n
        <3> QED
            BY <1>1, <2>1, <2>2, UpTo
    <2> QED
        BY <1>1, <1>2, <2>3
<1>4. ASSUME s \in Seq(Characters \ {"NUL"}) PROVE WithoutNul(s) = s
    <2> DEFINE T == {i \in 0 .. n : r[i] = SubSeq(s, 1, i)}
    <2>1. 0 \in T
        BY <1>1, <1>2
    <2>2. ASSUME NEW i \in 1 .. n, i - 1 \in T PROVE i \in T
        <3>1. i \in 0 .. n /\ r[i - 1] = SubSeq(s, 1, i - 1) /\ s[i] # "NUL"
            BY <1>1, <1>4, <2>2
        <3>2. Append(SubSeq(s, 1, i - 1), s[i]) = SubSeq(s, 1, i)
            BY <1>1
        <3> QED
            BY <1>2, <3>1, <3>2 DEF Written
    <2>3. 0 .. n \subseteq T
        <3> HIDE DEF T, n
        <3> QED
            BY <1>1, <2>1, <2>2, UpTo
    <2>4. r[n] = SubSeq(s, 1, n) /\ SubSeq(s, 1, n) = s
        BY <1>1, <2>3
    <2> QED
        BY <1>2, <2>4
<1> QED
    BY <1>3, <1>4

(* What cleaning a text makes of it can be kept. *)
LEMMA CleanTextKept ==
  ASSUME NEW s \in Text, NEW length \in Nat \ {0}
  PROVE  CleanText(s, length) \in Kept(length) \cup {None}
<1>1. CASE s = None
    BY <1>1 DEF CleanText
<1>2. CASE s # None
    <2> DEFINE w == WithoutNul(s)
               t == Trim(w)
               c == Slice(t, length)
    <2>1. s \in Seq(Characters)
        BY <1>2 DEF Text
    <2>2. w \in Seq(Characters \ {"NUL"}) /\ w \in Seq(Characters)
        <3>1. w \in Seq(Characters \ {"NUL"})
            BY <2>1, NulFacts
        <3> HIDE DEF w
        <3> QED
            BY <3>1
    <2> HIDE DEF w
    <2>3. /\ t \in Seq(Characters)
          /\ t # <<>> => 1 \in Inked(t)
          /\ \A i \in DOMAIN t : \E j \in DOMAIN w : t[i] = w[j]
        BY <2>2, TrimFacts
    <2> HIDE DEF t
    <2>4. t \in Seq(Characters \ {"NUL"})
        <3>1. \A i \in 1 .. Len(t) : t[i] \in Characters \ {"NUL"}
            BY <2>2, <2>3
        <3> QED
            BY <2>3, <3>1
    <2>5. ASSUME t # <<>> PROVE c \in Kept(length)
        <3>1. Len(t) \in Nat \ {0} /\ 1 \in Inked(t)
            BY <2>3, <2>4, <2>5
        <3> DEFINE m == IF Len(t) < length THEN Len(t) ELSE length
        <3>2. m \in 1 .. length /\ m <= Len(t) /\ c = SubSeq(t, 1, m)
            BY <3>1 DEF Slice
        <3> HIDE DEF c, m
        <3>3. c \in Seq(Characters \ {"NUL"}) /\ Len(c) = m /\ c[1] = t[1]
            BY <2>4, <3>1, <3>2
        <3>4. 1 \in Inked(c)
            <4>1. 1 \in DOMAIN c
                BY <3>2, <3>3
            <4>2. t[1] # " "
                BY <3>1 DEF Inked
            <4> QED
                BY <3>3, <4>1, <4>2 DEF Inked
        <3> QED
            BY <3>2, <3>3, <3>4 DEF Kept
    <2>6. CleanText(s, length) = IF t = <<>> THEN None ELSE c
        BY <1>2 DEF CleanText, t, w
    <2> QED
        BY <2>5, <2>6
<1> QED
    BY <1>1, <1>2

(* A kept text is only trimmed when it is cleaned once more. *)
LEMMA KeptStays ==
  ASSUME NEW length \in Nat \ {0}, NEW s \in Kept(length)
  PROVE  /\ s # None /\ s \in Text
         /\ CleanText(s, length) = Trim(s)
         /\ Trim(s) \in Kept(length)
         /\ CleanText(s, length) # None
<1>1. s \in Seq(Characters \ {"NUL"}) /\ s \in Seq(Characters) /\ 1 \in Inked(s)
      /\ Len(s) <= length
    <2>1. s \in Seq(Characters \ {"NUL"}) /\ 1 \in Inked(s) /\ Len(s) <= length
        BY DEF Kept
    <2> QED
        BY <2>1
<1>2. s # None
    BY <1>1, CvDataAssumption
<1>3. WithoutNul(s) = s
    BY <1>1, NulFacts
<1>4. /\ Trim(s) \in Seq(Characters) /\ Trim(s) # <<>>
      /\ Len(Trim(s)) <= Len(s)
    BY <1>1, TrimFacts
<1> DEFINE t == Trim(s)
<1>5. Slice(t, length) = t
    <2>1. Len(s) \in Nat
        BY <1>1
    <2> HIDE DEF t
    <2>2. t \in Seq(Characters) /\ Len(t) <= length
        BY <1>1, <1>4, <2>1 DEF t
    <2> QED
        BY <2>2 DEF Slice
<1>6. CleanText(s, length) = t
    BY <1>2, <1>3, <1>4, <1>5 DEF CleanText
<1>7. t # None
    BY <1>4, CvDataAssumption
<1>8. s \in Text
    BY <1>1 DEF Text
<1>9. CleanText(s, length) \in Kept(length) \cup {None}
    BY <1>8, CleanTextKept
<1> QED
    BY <1>2, <1>6, <1>7, <1>8, <1>9

-----------------------------------------------------------------------------
(***************************************************************************)
(* Lists, entries and parsed data.                                         *)
(***************************************************************************)
(* Collecting entries is a run through them ... *)
LEMMA CollectFold ==
  ASSUME NEW E, None \notin E, NEW s \in Seq(E \cup {None})
  PROVE  \E r \in [0 .. Len(s) -> Seq(E)] :
            /\ r[0] = <<>>
            /\ \A i \in 1 .. Len(s) :
                 r[i] = Pushed(r[i - 1], s[i])
            /\ Collect(s) = r[Len(s)]
<1> DEFINE A == Seq(E)
           n == Len(s)
           step == [p \in A \X (1 .. n) |->
                      Pushed(p[1], s[p[2]])]
           Rec(f) == [S \in SUBSET (1 .. n) |->
                        IF S = {} THEN <<>>
                        ELSE LET x == Max(S)
                             IN  Pushed(f[S \ {x}], s[x])]
<1>1. n \in Nat /\ DOMAIN s = 1 .. n /\ \A i \in 1 .. n : s[i] \in E \cup {None}
    OBVIOUS
<1>2. \A k \in A, i \in 1 .. n : Pushed(k, s[i]) \in A
    BY <1>1 DEF Pushed
<1>3. PICK g : g = CHOOSE f : f = Rec(f)
    OBVIOUS
<1>4. Collect(s) = g[1 .. n]
    BY <1>1, <1>3 DEF Pushed, Collect, FoldLeft, MapThenFoldSet
<1>5. \E f : f = Rec(f)
    <2>1. <<>> \in A /\ step \in [A \X (1 .. n) -> A]
        BY <1>2
    <2> HIDE DEF A, n, step
    <2>2. PICK f \in Solutions(A, <<>>, step, n) : TRUE
        BY <1>1, <2>1, FoldExists
    <2>3. f \in [SUBSET (1 .. n) -> A]
        BY <2>2 DEF Solutions
    <2>4. ASSUME NEW S \in SUBSET (1 .. n)
          PROVE  f[S] = Rec(f)[S]
        <3>1. CASE S = {}
            BY <2>2, <3>1 DEF Solutions
        <3>2. CASE S # {}
            <4>1. Max(S) \in 1 .. n /\ S \ {Max(S)} \in SUBSET (1 .. n)
                <5>1. S \subseteq 0 .. n
                    BY <1>1
                <5> QED
                    BY <1>1, <3>2, <5>1, MinMax
            <4>2. f[S] = step[<<f[S \ {Max(S)}], Max(S)>>]
                BY <2>2, <3>2 DEF Solutions
            <4>3. f[S \ {Max(S)}] \in A
                BY <2>3, <4>1
            <4> HIDE DEF Max
            <4> QED
                BY <3>2, <4>1, <4>2, <4>3 DEF step
        <3> QED
            BY <3>1, <3>2
    <2>5. f = Rec(f)
        BY <2>3, <2>4
    <2> QED
        BY <2>5
<1>6. g = Rec(g)
    BY <1>3, <1>5
<1>7. g[1 .. 0] = <<>>
    BY <1>6
<1>8. ASSUME NEW i \in 1 .. n
      PROVE  g[1 .. i] = Pushed(g[1 .. (i - 1)], s[i])
    <2> HIDE DEF n
    <2>1. /\ 1 .. i \in SUBSET (1 .. n) /\ 1 .. i # {}
          /\ Max(1 .. i) = i /\ (1 .. i) \ {i} = 1 .. (i - 1)
        BY <1>1, FoldRuns
    <2> QED
        BY <1>6, <2>1
<1> DEFINE r == [i \in 0 .. n |-> g[1 .. i]]
           T == {i \in 0 .. n : g[1 .. i] \in A}
<1>9. 0 .. n \subseteq T
    <2>1. 0 \in T
        <3>1. 0 \in 0 .. n /\ <<>> \in A
            BY <1>1
        <3> QED
            BY <1>7, <3>1
    <2>2. ASSUME NEW i \in 1 .. n, i - 1 \in T PROVE i \in T
        <3>1. i \in 0 .. n /\ g[1 .. (i - 1)] \in A
            BY <1>1, <2>2
        <3>2. g[1 .. i] \in A
            BY <1>2, <1>8, <3>1
        <3> QED
            BY <3>1, <3>2
    <2> HIDE DEF T
    <2> QED
        BY <1>1, <2>1, <2>2, UpTo
<1>10. r \in [0 .. n -> A] /\ r[0] = <<>> /\ Collect(s) = r[n]
    BY <1>1, <1>4, <1>7, <1>9
<1>11. ASSUME NEW i \in 1 .. n
       PROVE  r[i] = Pushed(r[i - 1], s[i])
    <2>1. i \in 0 .. n /\ i - 1 \in 0 .. n
        BY <1>1
    <2> QED
        BY <1>8, <2>1
<1> HIDE DEF r
<1> QED
    BY <1>10, <1>11

(* ... and so is cleaning a list. *)
LEMMA CleanListFold ==
  ASSUME NEW s \in Seq(Text)
  PROVE  \E r \in [0 .. Len(s) -> Seq(Kept(SkillLength))] :
            /\ r[0] = <<>>
            /\ \A i \in 1 .. Len(s) :
                 r[i] = Added(r[i - 1], s[i])
            /\ CleanList(s) = r[Len(s)]
<1> DEFINE A == Seq(Kept(SkillLength))
           n == Len(s)
           step == [p \in A \X (1 .. n) |->
                      Added(p[1], s[p[2]])]
           Rec(f) == [S \in SUBSET (1 .. n) |->
                        IF S = {} THEN <<>>
                        ELSE LET x == Max(S)
                             IN  Added(f[S \ {x}], s[x])]
<1>1. n \in Nat /\ DOMAIN s = 1 .. n /\ \A i \in 1 .. n : CleanText(s[i], SkillLength) \in Kept(SkillLength) \cup {None}
    BY CleanTextKept, CvDataAssumption
<1>2. \A k \in A, i \in 1 .. n : Added(k, s[i]) \in A
    BY <1>1 DEF Added
<1>3. PICK g : g = CHOOSE f : f = Rec(f)
    OBVIOUS
<1>4. CleanList(s) = g[1 .. n]
    BY <1>1, <1>3 DEF Added, CleanList, FoldLeft, MapThenFoldSet
<1>5. \E f : f = Rec(f)
    <2>1. <<>> \in A /\ step \in [A \X (1 .. n) -> A]
        BY <1>2
    <2> HIDE DEF A, n, step
    <2>2. PICK f \in Solutions(A, <<>>, step, n) : TRUE
        BY <1>1, <2>1, FoldExists
    <2>3. f \in [SUBSET (1 .. n) -> A]
        BY <2>2 DEF Solutions
    <2>4. ASSUME NEW S \in SUBSET (1 .. n)
          PROVE  f[S] = Rec(f)[S]
        <3>1. CASE S = {}
            BY <2>2, <3>1 DEF Solutions
        <3>2. CASE S # {}
            <4>1. Max(S) \in 1 .. n /\ S \ {Max(S)} \in SUBSET (1 .. n)
                <5>1. S \subseteq 0 .. n
                    BY <1>1
                <5> QED
                    BY <1>1, <3>2, <5>1, MinMax
            <4>2. f[S] = step[<<f[S \ {Max(S)}], Max(S)>>]
                BY <2>2, <3>2 DEF Solutions
            <4>3. f[S \ {Max(S)}] \in A
                BY <2>3, <4>1
            <4> HIDE DEF Max
            <4> QED
                BY <3>2, <4>1, <4>2, <4>3 DEF step
        <3> QED
            BY <3>1, <3>2
    <2>5. f = Rec(f)
        BY <2>3, <2>4
    <2> QED
        BY <2>5
<1>6. g = Rec(g)
    BY <1>3, <1>5
<1>7. g[1 .. 0] = <<>>
    BY <1>6
<1>8. ASSUME NEW i \in 1 .. n
      PROVE  g[1 .. i] = Added(g[1 .. (i - 1)], s[i])
    <2> HIDE DEF n
    <2>1. /\ 1 .. i \in SUBSET (1 .. n) /\ 1 .. i # {}
          /\ Max(1 .. i) = i /\ (1 .. i) \ {i} = 1 .. (i - 1)
        BY <1>1, FoldRuns
    <2> QED
        BY <1>6, <2>1
<1> DEFINE r == [i \in 0 .. n |-> g[1 .. i]]
           T == {i \in 0 .. n : g[1 .. i] \in A}
<1>9. 0 .. n \subseteq T
    <2>1. 0 \in T
        <3>1. 0 \in 0 .. n /\ <<>> \in A
            BY <1>1
        <3> QED
            BY <1>7, <3>1
    <2>2. ASSUME NEW i \in 1 .. n, i - 1 \in T PROVE i \in T
        <3>1. i \in 0 .. n /\ g[1 .. (i - 1)] \in A
            BY <1>1, <2>2
        <3>2. g[1 .. i] \in A
            BY <1>2, <1>8, <3>1
        <3> QED
            BY <3>1, <3>2
    <2> HIDE DEF T
    <2> QED
        BY <1>1, <2>1, <2>2, UpTo
<1>10. r \in [0 .. n -> A] /\ r[0] = <<>> /\ CleanList(s) = r[n]
    BY <1>1, <1>4, <1>7, <1>9
<1>11. ASSUME NEW i \in 1 .. n
       PROVE  r[i] = Added(r[i - 1], s[i])
    <2>1. i \in 0 .. n /\ i - 1 \in 0 .. n
        BY <1>1
    <2> QED
        BY <1>8, <2>1
<1> HIDE DEF r
<1> QED
    BY <1>10, <1>11

(* A list of kept things. *)
UpToListCount(E) == {list \in Seq(E) : Len(list) <= ListCount}

(* A cleaned list can be kept. *)
LEMMA CleanListKept ==
  ASSUME NEW s \in Seq(Text)
  PROVE  CleanList(s) \in UpToListCount(Kept(SkillLength))
<1> DEFINE n == Len(s)
<1>1. n \in Nat /\ 0 \in 0 .. n /\ n \in 0 .. n /\ ListCount \in Nat \ {0}
    BY CvDataAssumption
<1>2. PICK r \in [0 .. n -> Seq(Kept(SkillLength))] :
            /\ r[0] = <<>>
            /\ \A i \in 1 .. n : r[i] = Added(r[i - 1], s[i])
            /\ CleanList(s) = r[n]
    BY CleanListFold
<1> DEFINE T == {i \in 0 .. n : Len(r[i]) <= ListCount}
<1>3. 0 .. n \subseteq T
    <2>1. 0 \in T
        BY <1>1, <1>2
    <2>2. ASSUME NEW i \in 1 .. n, i - 1 \in T PROVE i \in T
        <3> DEFINE k == r[i - 1]
        <3>1. i \in 0 .. n /\ k \in Seq(Kept(SkillLength)) /\ Len(k) <= ListCount
            <4>1. i \in 0 .. n /\ i - 1 \in 0 .. n
                BY <1>1
            <4>2. Len(k) <= ListCount
                BY <2>2
            <4> QED
                BY <1>2, <4>1, <4>2
        <3>2. r[i] = Added(k, s[i])
            BY <1>2
        <3> HIDE DEF k
        <3>3. \A t : Len(Append(k, t)) = Len(k) + 1 /\ Len(k) \in Nat
            BY <3>1
        <3>4. Len(Added(k, s[i])) <= ListCount
            BY <1>1, <3>1, <3>3 DEF Added
        <3> QED
            BY <3>1, <3>2, <3>4
    <2> HIDE DEF T, n
    <2> QED
        BY <1>1, <2>1, <2>2, UpTo
<1> QED
    BY <1>1, <1>2, <1>3 DEF UpToListCount

(* Cleaned once more it has the same texts, up to case and blanks. *)
LEMMA ListStays ==
  ASSUME NEW s \in UpToListCount(Kept(SkillLength))
  PROVE  {Lower(Trim(CleanList(s)[i])) : i \in DOMAIN CleanList(s)}
            = {Lower(Trim(s[i])) : i \in DOMAIN s}
<1> DEFINE n == Len(s)
<1>1. /\ n \in Nat /\ 0 \in 0 .. n /\ n \in 0 .. n /\ n <= ListCount
      /\ ListCount \in Nat \ {0} /\ SkillLength \in Nat \ {0}
      /\ DOMAIN s = 1 .. n /\ \A i \in 1 .. n : s[i] \in Kept(SkillLength)
    BY CvDataAssumption DEF UpToListCount
<1>2. /\ s \in Seq(Text)
      /\ \A i \in 1 .. n : /\ CleanText(s[i], SkillLength) = Trim(s[i])
                           /\ CleanText(s[i], SkillLength) # None
                           /\ Trim(Trim(s[i])) = Trim(s[i])
                           /\ Trim(s[i]) \in Kept(SkillLength)
    <2>1. ASSUME NEW i \in 1 .. n
          PROVE  /\ s[i] \in Text
                 /\ CleanText(s[i], SkillLength) = Trim(s[i])
                 /\ CleanText(s[i], SkillLength) # None
                 /\ Trim(Trim(s[i])) = Trim(s[i])
                 /\ Trim(s[i]) \in Kept(SkillLength)
        <3>1. s[i] \in Kept(SkillLength)
            BY <1>1
        <3>2. /\ s[i] # None /\ s[i] \in Text
              /\ CleanText(s[i], SkillLength) = Trim(s[i])
              /\ CleanText(s[i], SkillLength) # None
              /\ Trim(s[i]) \in Kept(SkillLength)
            BY <1>1, <3>1, KeptStays
        <3>3. s[i] \in Seq(Characters)
            BY <3>2 DEF Text
        <3> QED
            BY <3>2, <3>3, TrimTwice
    <2>2. s \in Seq(Text)
        <3>1. s \in Seq(Kept(SkillLength))
            BY DEF UpToListCount
        <3> QED
            BY <2>1, <3>1
    <2> QED
        BY <2>1, <2>2
<1>3. PICK r \in [0 .. n -> Seq(Kept(SkillLength))] :
            /\ r[0] = <<>>
            /\ \A i \in 1 .. n : r[i] = Added(r[i - 1], s[i])
            /\ CleanList(s) = r[n]
    BY <1>2, CleanListFold
<1> DEFINE Same(list, k) ==
              /\ \A i \in DOMAIN list : \E j \in 1 .. k : list[i] = Trim(s[j])
              /\ \A j \in 1 .. k : \E i \in DOMAIN list : Lower(list[i]) = Lower(Trim(s[j]))
           T == {k \in 0 .. n : Len(r[k]) <= k /\ Same(r[k], k)}
<1>4. 0 .. n \subseteq T
    <2>1. 0 \in T
        BY <1>1, <1>3
    <2>2. ASSUME NEW k \in 1 .. n, k - 1 \in T PROVE k \in T
        <3> DEFINE old == r[k - 1]
        <3>1. /\ k \in 0 .. n /\ k - 1 \in 0 .. n /\ old \in Seq(Kept(SkillLength))
              /\ Len(old) <= k - 1 /\ Same(old, k - 1) /\ Len(old) \in Nat
            <4>1. k \in 0 .. n /\ k - 1 \in 0 .. n
                BY <1>1
            <4>2. old \in Seq(Kept(SkillLength))
                BY <1>3, <4>1
            <4>3. Len(old) <= k - 1 /\ Same(old, k - 1)
                BY <2>2
            <4>4. Len(old) \in Nat
                BY <4>2
            <4> QED
                BY <4>1, <4>2, <4>3, <4>4
        <3>2. r[k] = Added(old, s[k])
            BY <1>3
        <3> HIDE DEF old
        <3>3. Len(old) # ListCount /\ k \in 1 .. k /\ \A j \in 1 .. k : j = k \/ j \in 1 .. (k - 1)
            BY <1>1, <3>1
        <3>4. CASE \E i \in DOMAIN old : Lower(old[i]) = Lower(Trim(s[k]))
            <4>1. r[k] = old
                BY <1>2, <3>2, <3>4 DEF Added
            <4>2. \A i \in DOMAIN old : \E j \in 1 .. k : old[i] = Trim(s[j])
                BY <3>1
            <4>3. \A j \in 1 .. k : \E i \in DOMAIN old : Lower(old[i]) = Lower(Trim(s[j]))
                BY <3>1, <3>3, <3>4
            <4>4. Len(old) <= k
                BY <3>1
            <4> QED
                BY <3>1, <4>1, <4>2, <4>3, <4>4
        <3>5. CASE ~ \E i \in DOMAIN old : Lower(old[i]) = Lower(Trim(s[k]))
            <4> DEFINE new == Append(old, Trim(s[k]))
            <4>1. r[k] = new
                BY <1>2, <3>2, <3>3, <3>5 DEF Added
            <4>2. /\ Len(new) = Len(old) + 1 /\ DOMAIN new = 1 .. Len(old) + 1
                  /\ \A i \in DOMAIN old : i \in DOMAIN new /\ new[i] = old[i]
                  /\ new[Len(old) + 1] = Trim(s[k]) /\ DOMAIN old = 1 .. Len(old)
                <5>1. /\ new \in Seq(Kept(SkillLength)) /\ Len(new) = Len(old) + 1
                      /\ \A i \in 1 .. Len(old) : new[i] = old[i]
                      /\ new[Len(old) + 1] = Trim(s[k])
                    BY <1>2, <3>1, AppendProperties
                <5>2. DOMAIN new = 1 .. Len(new) /\ DOMAIN old = 1 .. Len(old)
                    BY <3>1, <5>1
                <5> QED
                    BY <3>1, <5>1, <5>2
            <4> HIDE DEF new
            <4>3. \A i \in DOMAIN new : i = Len(old) + 1 \/ i \in DOMAIN old
                BY <3>1, <4>2
            <4>4. \A i \in DOMAIN new : \E j \in 1 .. k : new[i] = Trim(s[j])
                <5>1. ASSUME NEW i \in DOMAIN old PROVE \E j \in 1 .. k : new[i] = Trim(s[j])
                    <6>1. PICK j \in 1 .. (k - 1) : old[i] = Trim(s[j])
                        BY <3>1
                    <6> QED
                        BY <4>2, <6>1
                <5> QED
                    BY <3>3, <4>2, <4>3, <5>1
            <4>5. \A j \in 1 .. k : \E i \in DOMAIN new : Lower(new[i]) = Lower(Trim(s[j]))
                <5>1. Len(old) + 1 \in DOMAIN new
                    BY <3>1, <4>2
                <5> QED
                    BY <3>1, <3>3, <4>2, <5>1
            <4>6. Len(new) <= k
                BY <3>1, <4>2
            <4> QED
                BY <3>1, <4>1, <4>4, <4>5, <4>6
        <3> QED
            BY <3>4, <3>5
    <2> HIDE DEF T, n
    <2> QED
        BY <1>1, <2>1, <2>2, UpTo
<1> DEFINE c == CleanList(s)
<1>5. Same(c, n)
    <2>1. n \in T
        BY <1>1, <1>4
    <2>2. c = r[n]
        BY <1>3
    <2> HIDE DEF c
    <2> QED
        BY <2>1, <2>2
<1> HIDE DEF c
<1>6. ASSUME NEW i \in DOMAIN c PROVE \E j \in DOMAIN s : Lower(Trim(c[i])) = Lower(Trim(s[j]))
    BY <1>1, <1>2, <1>5
<1>7. ASSUME NEW j \in DOMAIN s PROVE \E i \in DOMAIN c : Lower(Trim(c[i])) = Lower(Trim(s[j]))
    <2>1. PICK i \in DOMAIN c : Lower(c[i]) = Lower(Trim(s[j]))
        BY <1>1, <1>5
    <2>2. Trim(c[i]) = c[i]
        BY <1>2, <1>5
    <2> QED
        BY <2>1, <2>2
<1>8. {Lower(Trim(c[i])) : i \in DOMAIN c} = {Lower(Trim(s[i])) : i \in DOMAIN s}
    BY <1>6, <1>7
<1> QED
    BY <1>8 DEF c

(* What is collected is a list of the entries that are there, and a list   *)
(* without a gap is collected as it is.                                    *)
LEMMA Collected ==
  ASSUME NEW E, None \notin E, NEW s \in Seq(E \cup {None})
  PROVE  /\ Collect(s) \in UpToListCount(E)
         /\ s \in UpToListCount(E) => Collect(s) = s
<1> DEFINE n == Len(s)
<1>1. /\ n \in Nat /\ 0 \in 0 .. n /\ n \in 0 .. n /\ ListCount \in Nat \ {0}
      /\ \A i \in 1 .. n : s[i] \in E \cup {None}
    BY CvDataAssumption
<1>2. PICK r \in [0 .. n -> Seq(E)] :
            /\ r[0] = <<>>
            /\ \A i \in 1 .. n : r[i] = Pushed(r[i - 1], s[i])
            /\ Collect(s) = r[n]
    BY CollectFold
<1>3. Collect(s) \in UpToListCount(E)
    <2> DEFINE T == {i \in 0 .. n : Len(r[i]) <= ListCount}
    <2>1. 0 \in T
        BY <1>1, <1>2
    <2>2. ASSUME NEW i \in 1 .. n, i - 1 \in T PROVE i \in T
        <3> DEFINE k == r[i - 1]
        <3>1. i \in 0 .. n /\ k \in Seq(E) /\ Len(k) <= ListCount
            BY <1>1, <1>2, <2>2
        <3>2. r[i] = Pushed(k, s[i])
            BY <1>2
        <3> HIDE DEF k
        <3>3. Len(Append(k, s[i])) = Len(k) + 1 /\ Len(k) \in Nat
            BY <3>1
        <3>4. Len(Pushed(k, s[i])) <= ListCount
            BY <1>1, <3>1, <3>3 DEF Pushed
        <3> QED
            BY <3>1, <3>2, <3>4
    <2>3. 0 .. n \subseteq T
        <3> HIDE DEF T, n
        <3> QED
            BY <1>1, <2>1, <2>2, UpTo
    <2> QED
        BY <1>1, <1>2, <2>3 DEF UpToListCount
<1>4. ASSUME s \in UpToListCount(E) PROVE Collect(s) = s
    <2> DEFINE T == {i \in 0 .. n : r[i] = SubSeq(s, 1, i)}
    <2>0. s \in Seq(E) /\ n <= ListCount
        BY <1>4 DEF UpToListCount
    <2>1. 0 \in T
        BY <1>1, <1>2
    <2>2. ASSUME NEW i \in 1 .. n, i - 1 \in T PROVE i \in T
        <3> DEFINE k == SubSeq(s, 1, i - 1)
        <3>1. i \in 0 .. n /\ r[i - 1] = k /\ s[i] # None
            BY <1>1, <2>0, <2>2
        <3>2. Append(k, s[i]) = SubSeq(s, 1, i) /\ Len(k) = i - 1
            BY <1>1
        <3>3. Len(k) # ListCount
            BY <1>1, <2>0, <3>2
        <3>4. r[i] = Pushed(k, s[i])
            BY <1>2, <3>1
        <3> HIDE DEF k
        <3>5. r[i] = SubSeq(s, 1, i)
            BY <3>1, <3>2, <3>3, <3>4 DEF Pushed
        <3> QED
            BY <3>1, <3>5
    <2>3. 0 .. n \subseteq T
        <3> HIDE DEF T, n
        <3> QED
            BY <1>1, <2>1, <2>2, UpTo
    <2>4. r[n] = SubSeq(s, 1, n) /\ SubSeq(s, 1, n) = s
        BY <1>1, <2>3
    <2> QED
        BY <1>2, <2>4
<1> QED
    BY <1>3, <1>4
(* Parsed data as it is kept. *)
KeptExperience ==
    [company : Kept(TextLength), position : Kept(TextLength),
     technologies : UpToListCount(Kept(SkillLength)), startDate : {None, "yearMonth"}]

KeptEducation ==
    [institution : Kept(TextLength), graduationYear : {None, "year"}]

KeptData ==
    [summary : Kept(TextLength) \cup {None},
     skills : UpToListCount(Kept(SkillLength)),
     experiences : UpToListCount(KeptExperience),
     education : UpToListCount(KeptEducation)]

(* Kept texts are texts, and None is not one of them. *)
LEMMA KeptIsText ==
  /\ {TextLength, SkillLength, ListCount} \subseteq Nat \ {0}
  /\ \A t \in Kept(TextLength) : t \in Text /\ t # None
  /\ Seq(Kept(SkillLength)) \subseteq Seq(Text)
<1>1. {TextLength, SkillLength, ListCount} \subseteq Nat \ {0}
    BY CvDataAssumption
<1>2. \A t \in Kept(TextLength) : t \in Text /\ t # None
    BY <1>1, KeptStays
<1>3. \A t \in Kept(SkillLength) : t \in Text
    BY <1>1, KeptStays
<1>4. Seq(Kept(SkillLength)) \subseteq Seq(Text)
    BY <1>3
<1> QED
    BY <1>1, <1>2, <1>4

(* Kept entries are entries, and None is not one of them. *)
LEMMA KeptEntries ==
  /\ KeptExperience \subseteq Experience /\ None \notin KeptExperience
  /\ KeptEducation \subseteq Education /\ None \notin KeptEducation
<1>1. KeptExperience \subseteq Experience
    <2> SUFFICES ASSUME NEW e \in KeptExperience PROVE e \in Experience
        OBVIOUS
    <2>1. /\ e.company \in Text /\ e.position \in Text
          /\ e.technologies \in Seq(Kept(SkillLength))
          /\ e.startDate \in {None, "yearMonth"}
        BY KeptIsText DEF KeptExperience, UpToListCount
    <2>2. e.technologies \in Seq(Text)
        BY <2>1, KeptIsText
    <2>3. e = [company |-> e.company, position |-> e.position,
               technologies |-> e.technologies, startDate |-> e.startDate]
        BY DEF KeptExperience
    <2> QED
        BY <2>1, <2>2, <2>3 DEF Experience
<1>2. KeptEducation \subseteq Education
    <2> SUFFICES ASSUME NEW e \in KeptEducation PROVE e \in Education
        OBVIOUS
    <2>1. e.institution \in Text /\ e.graduationYear \in {None, "year"}
        BY KeptIsText DEF KeptEducation
    <2>2. e = [institution |-> e.institution, graduationYear |-> e.graduationYear]
        BY DEF KeptEducation
    <2> QED
        BY <2>1, <2>2 DEF Education
<1> QED
    BY <1>1, <1>2, CvDataAssumption

(* An experience that is built can be kept, and one that was kept can be   *)
(* built once more.                                                        *)
LEMMA BuiltExperience ==
  ASSUME NEW raw \in Experience
  PROVE  /\ BuildExperience(raw) \in KeptExperience \cup {None}
         /\ raw \in KeptExperience => BuildExperience(raw) # None
<1> DEFINE company == CleanText(raw.company, TextLength)
           position == CleanText(raw.position, TextLength)
           technologies == CleanList(raw.technologies)
           startDate == CleanYearMonth(raw.startDate)
           e == [company |-> company, position |-> position,
                 startDate |-> startDate, technologies |-> technologies]
<1>1. /\ raw.company \in Text /\ raw.position \in Text
      /\ raw.technologies \in Seq(Text)
    BY DEF Experience
<1>2. /\ company \in Kept(TextLength) \cup {None}
      /\ position \in Kept(TextLength) \cup {None}
      /\ technologies \in UpToListCount(Kept(SkillLength))
      /\ startDate \in {None, "yearMonth"}
    <2>1. startDate \in {None, "yearMonth"}
        BY DEF CleanYearMonth
    <2>2. technologies \in UpToListCount(Kept(SkillLength))
        BY <1>1, CleanListKept
    <2> QED
        BY <1>1, <2>1, <2>2, CleanTextKept, KeptIsText
<1>3. BuildExperience(raw) = IF None \in {company, position} THEN None ELSE e
    BY DEF BuildExperience
<1>4. ASSUME raw \in KeptExperience PROVE company # None /\ position # None
    <2>1. raw.company \in Kept(TextLength) /\ raw.position \in Kept(TextLength)
        BY <1>4 DEF KeptExperience
    <2> QED
        BY <2>1, KeptStays, KeptIsText
<1>5. e # None
    <2>1. /\ startDate \in {None, "yearMonth", "fullDate", "dateTime", "other"}
          /\ technologies \in Seq(Text)
          /\ company \in Text /\ position \in Text
        <3> HIDE DEF company, position, technologies, startDate
        <3> QED
            BY <1>2, KeptIsText DEF UpToListCount, Text
    <2>2. e \in Experience
        <3> HIDE DEF company, position, technologies, startDate
        <3> QED
            BY <2>1 DEF Experience
    <2> QED
        BY <2>2, CvDataAssumption
<1> HIDE DEF company, position, technologies, startDate
<1>6. None \notin {company, position} => e \in KeptExperience
    BY <1>2 DEF KeptExperience
<1> HIDE DEF e
<1> QED
    BY <1>3, <1>4, <1>5, <1>6

(* ... and education the same. *)
LEMMA BuiltEducation ==
  ASSUME NEW raw \in Education
  PROVE  /\ BuildEducation(raw) \in KeptEducation \cup {None}
         /\ raw \in KeptEducation => BuildEducation(raw) # None
<1> DEFINE institution == CleanText(raw.institution, TextLength)
           year == CleanYear(raw.graduationYear)
           e == [institution |-> institution, graduationYear |-> year]
<1>1. raw.institution \in Text
    BY DEF Education
<1>2. institution \in Kept(TextLength) \cup {None} /\ year \in {None, "year"}
    <2>1. year \in {None, "year"}
        BY DEF CleanYear
    <2> QED
        BY <1>1, <2>1, CleanTextKept, KeptIsText
<1>3. BuildEducation(raw) = IF institution = None THEN None ELSE e
    BY DEF BuildEducation
<1>4. ASSUME raw \in KeptEducation PROVE institution # None
    <2>1. raw.institution \in Kept(TextLength)
        BY <1>4 DEF KeptEducation
    <2> QED
        BY <2>1, KeptStays, KeptIsText
<1> HIDE DEF institution, year
<1>5. institution # None => e \in KeptEducation
    BY <1>2 DEF KeptEducation
<1> HIDE DEF e
<1> QED
    BY <1>3, <1>4, <1>5, KeptEntries

(* Whatever the model answered, its normalization can be kept. *)
LEMMA NormalizedIsKept ==
  ASSUME NEW raw \in ParsedData
  PROVE  NormalizeParsedData(raw) \in KeptData
<1>1. /\ raw.summary \in Text /\ raw.skills \in Seq(Text)
      /\ raw.experiences \in Seq(Experience) /\ raw.education \in Seq(Education)
    BY DEF ParsedData
<1>2. CleanText(raw.summary, TextLength) \in Kept(TextLength) \cup {None}
    BY <1>1, CleanTextKept, KeptIsText
<1>3. CleanList(raw.skills) \in UpToListCount(Kept(SkillLength))
    BY <1>1, CleanListKept
<1>4. Collect([i \in DOMAIN raw.experiences |-> BuildExperience(raw.experiences[i])])
        \in UpToListCount(KeptExperience)
    <2> DEFINE s == [i \in DOMAIN raw.experiences |-> BuildExperience(raw.experiences[i])]
    <2>1. \A i \in DOMAIN raw.experiences :
            BuildExperience(raw.experiences[i]) \in KeptExperience \cup {None}
        BY <1>1, BuiltExperience
    <2>2. s \in Seq(KeptExperience \cup {None})
        BY <1>1, <2>1
    <2> HIDE DEF s
    <2>3. Collect(s) \in UpToListCount(KeptExperience)
        BY <2>2, Collected, KeptEntries
    <2> QED
        BY <2>3 DEF s
<1>5. Collect([i \in DOMAIN raw.education |-> BuildEducation(raw.education[i])])
        \in UpToListCount(KeptEducation)
    <2> DEFINE s == [i \in DOMAIN raw.education |-> BuildEducation(raw.education[i])]
    <2>1. \A i \in DOMAIN raw.education :
            BuildEducation(raw.education[i]) \in KeptEducation \cup {None}
        BY <1>1, BuiltEducation
    <2>2. s \in Seq(KeptEducation \cup {None})
        BY <1>1, <2>1
    <2> HIDE DEF s
    <2>3. Collect(s) \in UpToListCount(KeptEducation)
        BY <2>2, Collected, KeptEntries
    <2> QED
        BY <2>3 DEF s
<1> QED
    BY <1>2, <1>3, <1>4, <1>5 DEF NormalizeParsedData, KeptData

(* What is kept passes the validation of an edit ... *)
LEMMA KeptIsValid ==
  ASSUME NEW data \in KeptData
  PROVE  ValidUpdate(data)
<1>1. ASSUME NEW length \in Nat \ {0}, NEW t \in Kept(length)
      PROVE  t # None /\ Len(t) \in 1 .. length
    BY <1>1, KeptStays DEF Kept
<1>2. ASSUME NEW list \in UpToListCount(Kept(SkillLength))
      PROVE  ValidList(list)
    <2>1. \A i \in DOMAIN list : list[i] \in Kept(SkillLength)
        BY DEF UpToListCount
    <2>2. \A i \in DOMAIN list : list[i] # None /\ Len(list[i]) \in 1 .. SkillLength
        BY <1>1, <2>1, KeptIsText
    <2> QED
        BY <2>2, KeptIsText DEF ValidList, UpToListCount
<1>3. ASSUME NEW e \in KeptExperience PROVE ValidExperience(e)
    <2>1. /\ e.company \in Kept(TextLength) /\ e.position \in Kept(TextLength)
          /\ e.startDate \in {None, "yearMonth"}
          /\ e.technologies \in UpToListCount(Kept(SkillLength))
        BY DEF KeptExperience
    <2>2. ValidText(e.company) /\ ValidText(e.position)
        BY <1>1, <2>1, KeptIsText DEF ValidText
    <2> QED
        BY <1>2, <2>1, <2>2 DEF ValidExperience
<1>4. ASSUME NEW e \in KeptEducation PROVE ValidEducation(e)
    <2>1. e.institution \in Kept(TextLength) /\ e.graduationYear \in {None, "year"}
        BY DEF KeptEducation
    <2>2. ValidText(e.institution)
        BY <1>1, <2>1, KeptIsText DEF ValidText
    <2> QED
        BY <2>1, <2>2 DEF ValidEducation
<1>5. /\ data.summary \in Kept(TextLength) \cup {None}
      /\ data.skills \in UpToListCount(Kept(SkillLength))
      /\ data.experiences \in UpToListCount(KeptExperience)
      /\ data.education \in UpToListCount(KeptEducation)
    BY DEF KeptData
<1>6. data.summary # None => Len(data.summary) <= TextLength
    BY <1>1, <1>5, KeptIsText
<1>7. /\ Len(data.experiences) <= ListCount
      /\ \A i \in DOMAIN data.experiences : data.experiences[i] \in KeptExperience
    BY <1>5 DEF UpToListCount
<1>8. /\ Len(data.education) <= ListCount
      /\ \A i \in DOMAIN data.education : data.education[i] \in KeptEducation
    BY <1>5 DEF UpToListCount
<1> QED
    BY <1>2, <1>3, <1>4, <1>5, <1>6, <1>7, <1>8 DEF ValidUpdate

(* ... and keeps its entries and, up to case and blanks, its skills. *)
LEMMA KeptSurvives ==
  ASSUME NEW data \in KeptData
  PROVE  LET again == NormalizeParsedData(data)
         IN  /\ Len(again.experiences) = Len(data.experiences)
             /\ Len(again.education) = Len(data.education)
             /\ {Lower(Trim(again.skills[i])) : i \in DOMAIN again.skills}
                    = {Lower(Trim(data.skills[i])) : i \in DOMAIN data.skills}
<1>1. /\ data.skills \in UpToListCount(Kept(SkillLength))
      /\ data.experiences \in UpToListCount(KeptExperience)
      /\ data.education \in UpToListCount(KeptEducation)
    BY DEF KeptData
<1>2. ASSUME NEW E, None \notin E, NEW list \in UpToListCount(E), NEW s,
             s = [i \in DOMAIN list |-> s[i]], \A i \in DOMAIN list : s[i] \in E
      PROVE  Len(Collect(s)) = Len(list)
    <2>1. list \in Seq(E) /\ Len(list) <= ListCount /\ Len(list) \in Nat
        BY DEF UpToListCount
    <2>2. s \in Seq(E) /\ Len(s) = Len(list)
        BY <1>2, <2>1
    <2>3. s \in Seq(E \cup {None}) /\ s \in UpToListCount(E)
        BY <2>1, <2>2 DEF UpToListCount
    <2>4. Collect(s) = s
        BY <1>2, <2>3, Collected
    <2> QED
        BY <2>2, <2>4
<1>3. Len(Collect([i \in DOMAIN data.experiences |-> BuildExperience(data.experiences[i])]))
        = Len(data.experiences)
    <2> DEFINE s == [i \in DOMAIN data.experiences |-> BuildExperience(data.experiences[i])]
    <2>1. ASSUME NEW i \in DOMAIN data.experiences PROVE s[i] \in KeptExperience
        <3>1. data.experiences[i] \in KeptExperience
            BY <1>1 DEF UpToListCount
        <3> QED
            BY <3>1, BuiltExperience, KeptEntries
    <2>2. s = [i \in DOMAIN data.experiences |-> s[i]]
        OBVIOUS
    <2> HIDE DEF s
    <2>3. Len(Collect(s)) = Len(data.experiences)
        BY <1>1, <1>2, <2>1, <2>2, KeptEntries
    <2> QED
        BY <2>3 DEF s
<1>4. Len(Collect([i \in DOMAIN data.education |-> BuildEducation(data.education[i])]))
        = Len(data.education)
    <2> DEFINE s == [i \in DOMAIN data.education |-> BuildEducation(data.education[i])]
    <2>1. ASSUME NEW i \in DOMAIN data.education PROVE s[i] \in KeptEducation
        <3>1. data.education[i] \in KeptEducation
            BY <1>1 DEF UpToListCount
        <3> QED
            BY <3>1, BuiltEducation, KeptEntries
    <2>2. s = [i \in DOMAIN data.education |-> s[i]]
        OBVIOUS
    <2> HIDE DEF s
    <2>3. Len(Collect(s)) = Len(data.education)
        BY <1>1, <1>2, <2>1, <2>2, KeptEntries
    <2> QED
        BY <2>3 DEF s
<1>5. {Lower(Trim(CleanList(data.skills)[i])) : i \in DOMAIN CleanList(data.skills)}
        = {Lower(Trim(data.skills[i])) : i \in DOMAIN data.skills}
    BY <1>1, ListStays
<1> QED
    BY <1>3, <1>4, <1>5 DEF NormalizeParsedData

-----------------------------------------------------------------------------
(***************************************************************************)
(* Question sets.                                                          *)
(***************************************************************************)
(* An item of a set that conforms is refused for a blank text only. *)
LEMMA ContentFacts ==
  ASSUME NEW item, item.content \in Text
  PROVE  /\ Content(item) \in Seq(Characters)
         /\ Trim(Content(item)) = Content(item)
         /\ item.content # None =>
              /\ item.content \in Seq(Characters)
              /\ Content(item) = Trim(item.content)
              /\ Len(Content(item)) <= Len(item.content)
<1>1. CASE item.content = None
    <2>1. Content(item) = <<>> /\ Trim(<<>>) = <<>>
        BY <1>1 DEF Content, Trim, Inked
    <2> QED
        BY <1>1, <2>1
<1>2. CASE item.content # None
    <2>1. item.content \in Seq(Characters) /\ Content(item) = Trim(item.content)
        BY <1>2 DEF Text, Content
    <2> QED
        BY <1>2, <2>1, TrimFacts, TrimTwice
<1> QED
    BY <1>1, <1>2

(* The contents that a model answers are texts. *)
LEMMA AskedTexts ==
  ASSUME NEW raw \in RawQuestionSet
  PROVE  /\ Len(raw.questions) \in Nat
         /\ DOMAIN raw.questions = 1 .. Len(raw.questions)
         /\ \A i \in DOMAIN raw.questions : raw.questions[i].content \in Text
<1> DEFINE R == [is : {"object", "other"}, content : Text,
                 domain : QuestionDomain \cup {"other"},
                 difficulty : QuestionDifficulty \cup {"other"}]
           asked == raw.questions
<1>1. asked \in Seq(R)
    BY DEF RawQuestionSet
<1>2. \A item \in R : item.content \in Text
    OBVIOUS
<1> HIDE DEF R, asked
<1>3. Len(asked) \in Nat /\ DOMAIN asked = 1 .. Len(asked)
    BY <1>1
<1>4. \A i \in DOMAIN asked : asked[i] \in R
    BY <1>1
<1> QED
    BY <1>2, <1>3, <1>4 DEF asked

(* A set that was accepted has no blank question and none twice. *)
LEMMA AcceptedSet ==
  ASSUME NEW raw \in RawQuestionSet, ValidateQuestionSet(raw) # None
  PROVE  LET saved == ValidateQuestionSet(raw)
         IN  \A i, j \in DOMAIN saved :
                /\ saved[i].orderIndex = i
                /\ saved[i].content # <<>>
                /\ i # j => Lower(Trim(saved[i].content)) # Lower(Trim(saved[j].content))
<1> DEFINE asked == raw.questions
           saved == ValidateQuestionSet(raw)
<1>1. /\ Len(asked) = QuestionCount
      /\ \A i \in DOMAIN asked : ValidItem(asked[i])
      /\ \A i, j \in DOMAIN asked : Key(asked[i]) = Key(asked[j]) => i = j
      /\ saved = [i \in 1 .. QuestionCount |->
                    [orderIndex |-> i, content |-> Content(asked[i]),
                     domain |-> asked[i].domain, difficulty |-> asked[i].difficulty]]
    BY DEF ValidateQuestionSet
<1> HIDE DEF saved
<1>2. DOMAIN asked = 1 .. QuestionCount /\ \A i \in DOMAIN asked : asked[i].content \in Text
    BY <1>1, AskedTexts
<1>3. DOMAIN saved = 1 .. QuestionCount
    BY <1>1
<1>4. ASSUME NEW i \in 1 .. QuestionCount
      PROVE  /\ saved[i].orderIndex = i
             /\ saved[i].content = Content(asked[i])
             /\ Trim(saved[i].content) = Content(asked[i])
             /\ saved[i].content # <<>>
    <2>1. saved[i].orderIndex = i /\ saved[i].content = Content(asked[i])
        BY <1>1
    <2>2. Len(Content(asked[i])) # 0
        BY <1>1, <1>2 DEF ValidItem
    <2> QED
        BY <1>2, <2>1, <2>2, ContentFacts
<1>5. ASSUME NEW i \in 1 .. QuestionCount, NEW j \in 1 .. QuestionCount, i # j
      PROVE  Lower(Trim(saved[i].content)) # Lower(Trim(saved[j].content))
    <2>1. Key(asked[i]) # Key(asked[j])
        BY <1>1, <1>2, <1>5
    <2> QED
        BY <1>4, <2>1 DEF Key
<1> QED
    BY <1>3, <1>4, <1>5 DEF saved

(* A set that conforms to the schema is refused for a blank or a double. *)
LEMMA RefusedSet ==
  ASSUME NEW raw \in RawQuestionSet, ValidateQuestionSet(raw) = None, ConformsToSchema(raw)
  PROVE  \E i, j \in DOMAIN raw.questions :
            \/ Trim(raw.questions[i].content) = <<>>
            \/ /\ i # j
               /\ Lower(Trim(raw.questions[i].content)) = Lower(Trim(raw.questions[j].content))
<1> DEFINE asked == raw.questions
           saved == [i \in 1 .. QuestionCount |->
                        [orderIndex |-> i, content |-> Content(asked[i]),
                         domain |-> asked[i].domain, difficulty |-> asked[i].difficulty]]
<1>1. /\ raw.is = "array"
      /\ Len(asked) = QuestionCount
      /\ \A i \in DOMAIN asked :
            /\ asked[i].is = "object"
            /\ asked[i].content # None
            /\ Len(asked[i].content) <= QuestionLength
            /\ asked[i].domain \in QuestionDomain
            /\ asked[i].difficulty \in QuestionDifficulty
    BY DEF ConformsToSchema
<1>2. /\ QuestionCount \in Nat /\ DOMAIN asked = 1 .. QuestionCount
      /\ \A i \in DOMAIN asked : asked[i].content \in Text
    BY <1>1, AskedTexts, QuestionSetAssumption
<1>3. \A i \in DOMAIN asked :
        /\ Content(asked[i]) \in Seq(Characters)
        /\ Content(asked[i]) = Trim(asked[i].content)
        /\ Len(Content(asked[i])) <= Len(asked[i].content)
        /\ Len(asked[i].content) \in Nat
    <2> SUFFICES ASSUME NEW i \in DOMAIN asked
                 PROVE  /\ Content(asked[i]) \in Seq(Characters)
                        /\ Content(asked[i]) = Trim(asked[i].content)
                        /\ Len(Content(asked[i])) <= Len(asked[i].content)
                        /\ Len(asked[i].content) \in Nat
        OBVIOUS
    <2>1. asked[i].content \in Seq(Characters)
        BY <1>1, <1>2, ContentFacts
    <2> QED
        BY <1>1, <1>2, <2>1, ContentFacts
<1>4. saved # None
    <2>1. \A i \in 1 .. QuestionCount : saved[i] \in Question
        BY <1>1, <1>2, <1>3 DEF Question
    <2>2. saved \in Seq(Question)
        BY <1>2, <2>1
    <2> QED
        BY <2>2, QuestionSetAssumption
<1>5. CASE \E i \in DOMAIN asked : ~ValidItem(asked[i])
    <2>1. PICK i \in DOMAIN asked : ~ValidItem(asked[i])
        BY <1>5
    <2>2. Len(Content(asked[i])) \notin 1 .. QuestionLength
        BY <1>1, <2>1 DEF ValidItem
    <2>3. Len(Content(asked[i])) = 0
        BY <1>1, <1>3, <2>2, QuestionSetAssumption
    <2>4. Trim(asked[i].content) = <<>>
        BY <1>3, <2>3
    <2> QED
        BY <2>4
<1>6. CASE \E i, j \in DOMAIN asked : Key(asked[i]) = Key(asked[j]) /\ i # j
    BY <1>3, <1>6 DEF Key
<1>7. \/ \E i \in DOMAIN asked : ~ValidItem(asked[i])
      \/ \E i, j \in DOMAIN asked : Key(asked[i]) = Key(asked[j]) /\ i # j
    <2> SUFFICES ASSUME \A i \in DOMAIN asked : ValidItem(asked[i]),
                        \A i, j \in DOMAIN asked : Key(asked[i]) = Key(asked[j]) => i = j
                 PROVE  FALSE
        OBVIOUS
    <2>1. ValidateQuestionSet(raw) = saved
        BY <1>1 DEF ValidateQuestionSet
    <2> QED
        BY <1>4, <2>1
<1> QED
    BY <1>5, <1>6, <1>7

-----------------------------------------------------------------------------
(***************************************************************************)
(* Scores.                                                                 *)
(***************************************************************************)
(* Any JSON becomes a score in the range. *)
LEMMA ClampedInRange ==
  ASSUME NEW raw \in RawScore, NEW t \in ClampScore(raw)
  PROVE  t \in 0 .. 100
<1>1. \E n \in 0 .. 1000 : t \in Rounded(n)
    <2>0. raw.n \in Int /\ 0 \in 0 .. 1000 /\ 1000 \in 0 .. 1000
        BY DEF RawScore
    <2>1. CASE raw.is # "number" \/ raw.n < 0
        BY <2>0, <2>1 DEF ClampScore
    <2>2. CASE raw.is = "number" /\ ~(raw.n < 0) /\ ~(raw.n > 1000)
        <3>1. raw.n \in 0 .. 1000
            BY <2>0, <2>2
        <3> QED
            BY <2>2, <3>1 DEF ClampScore
    <2>3. CASE raw.is = "number" /\ ~(raw.n < 0) /\ raw.n > 1000
        BY <2>0, <2>3 DEF ClampScore
    <2> QED
        BY <2>0, <2>1, <2>2, <2>3
<1>2. PICK n \in 0 .. 1000 : t \in Rounded(n)
    BY <1>1
<1> QED
    BY ONLY <1>2 DEF Rounded

(* The smallest and the largest of three numbers. *)
LEMMA ThreeParts ==
  ASSUME NEW a \in Int, NEW b \in Int, NEW c \in Int
  PROVE  /\ Min({a, b, c}) \in {a, b, c} /\ \A x \in {a, b, c} : Min({a, b, c}) <= x
         /\ Max({a, b, c}) \in {a, b, c} /\ \A x \in {a, b, c} : x <= Max({a, b, c})
<1> DEFINE parts == {a, b, c}
<1>1. \E x \in parts : \A y \in parts : x <= y
    OBVIOUS
<1>2. \E x \in parts : \A y \in parts : x >= y
    OBVIOUS
<1>3. Min(parts) \in parts /\ \A y \in parts : Min(parts) <= y
    BY <1>1 DEF Min
<1>4. Max(parts) \in parts /\ \A y \in parts : Max(parts) >= y
    BY <1>2 DEF Max
<1>5. \A y \in parts : y <= Max(parts)
    BY <1>4
<1> QED
    BY <1>3, <1>4, <1>5

(* What the adapter makes of the JSON has scores in the range. *)
LEMMA EvaluationInRange ==
  ASSUME NEW raw \in RawEvaluation, NEW e \in Evaluation(raw)
  PROVE  /\ {e.content, e.relevance, e.confidence, e.overall} \subseteq 0 .. 100
         /\ raw.is # "object" \/ raw.overall.is = "missing" => ~e.given
         /\ e.feedback = Feedback(raw)
<1>1. \A score \in RawScore : Field(raw, score) \in RawScore
    BY DEF Field, RawScore
<1>2. {raw.content, raw.relevance, raw.confidence, raw.overall} \subseteq RawScore
    BY DEF RawEvaluation
<1>3. /\ e.content \in ClampScore(Field(raw, raw.content))
      /\ e.relevance \in ClampScore(Field(raw, raw.relevance))
      /\ e.confidence \in ClampScore(Field(raw, raw.confidence))
      /\ e.overall \in ClampScore(Field(raw, raw.overall))
      /\ e.given = (Field(raw, raw.overall).is # "missing")
      /\ e.feedback = Feedback(raw)
    BY DEF Evaluation
<1>4. {e.content, e.relevance, e.confidence, e.overall} \subseteq 0 .. 100
    BY <1>1, <1>2, <1>3, ClampedInRange
<1>5. raw.is # "object" \/ raw.overall.is = "missing" => ~e.given
    BY <1>3 DEF Field
<1> QED
    BY <1>3, <1>4, <1>5

(* The overall score, given or weighed. *)
LEMMA OverallInRange ==
  ASSUME NEW raw \in RawEvaluation, NEW e \in Evaluation(raw), NEW s \in CreateScore(e)
  PROVE  LET parts == {s.content, s.relevance, s.confidence}
         IN  /\ parts \cup {s.overall} \subseteq 0 .. 100
             /\ raw.is # "object" \/ raw.overall.is = "missing" =>
                    s.overall \in Min(parts) .. Max(parts)
<1> DEFINE parts == {s.content, s.relevance, s.confidence}
           low == Min(parts)
           high == Max(parts)
           sum == 4 * e.content + 4 * e.relevance + 2 * e.confidence
<1>1. /\ e.content \in 0 .. 100 /\ e.relevance \in 0 .. 100 /\ e.confidence \in 0 .. 100
      /\ e.overall \in 0 .. 100
    BY EvaluationInRange
<1>2. /\ s.content = e.content /\ s.relevance = e.relevance /\ s.confidence = e.confidence
      /\ s.overall \in (IF e.given THEN {e.overall} ELSE Rounded(sum))
    <2> HIDE DEF sum
    <2>1. s \in [content : {e.content}, relevance : {e.relevance}, confidence : {e.confidence},
                 overall : IF e.given THEN {e.overall} ELSE Rounded(sum)]
        BY DEF CreateScore, sum
    <2> QED
        BY <2>1
<1>3. /\ low \in parts /\ \A x \in parts : low <= x
      /\ high \in parts /\ \A x \in parts : x <= high
    <2>1. s.content \in Int /\ s.relevance \in Int /\ s.confidence \in Int
        BY <1>1, <1>2
    <2> QED
        BY ONLY <2>1, ThreeParts
<1>4. /\ low \in 0 .. 100 /\ low <= e.content /\ low <= e.relevance /\ low <= e.confidence
      /\ high \in 0 .. 100 /\ e.content <= high /\ e.relevance <= high /\ e.confidence <= high
    BY <1>1, <1>2, <1>3
<1>5. ASSUME ~e.given PROVE s.overall \in 0 .. 100 /\ s.overall \in low .. high
    <2> DEFINE a == e.content
               b == e.relevance
               c == e.confidence
               t == s.overall
    <2>1. /\ a \in 0 .. 100 /\ b \in 0 .. 100 /\ c \in 0 .. 100
          /\ low \in 0 .. 100 /\ high \in 0 .. 100
          /\ low <= a /\ low <= b /\ low <= c
          /\ a <= high /\ b <= high /\ c <= high
        BY <1>1, <1>4
    <2>2. sum = 4 * a + 4 * b + 2 * c
        OBVIOUS
    <2> HIDE DEF a, b, c, t, sum, low, high
    <2>3. t \in Rounded(sum)
        BY <1>2, <1>5 DEF t
    <2>4. sum \in 0 .. 1000 /\ 10 * low <= sum /\ sum <= 10 * high
        BY <2>1, <2>2
    <2>5. t \in Int /\ 10 * t - 5 <= sum /\ sum <= 10 * t + 5
        BY <2>3, <2>4 DEF Rounded
    <2>6. t \in 0 .. 100 /\ t \in low .. high
        BY <2>1, <2>4, <2>5
    <2> QED
        BY <2>6 DEF t
<1>6. s.overall \in 0 .. 100
    BY <1>1, <1>2, <1>5
<1>7. raw.is # "object" \/ raw.overall.is = "missing" => ~e.given
    BY EvaluationInRange
<1> QED
    BY <1>1, <1>2, <1>5, <1>6, <1>7
=============================================================================
