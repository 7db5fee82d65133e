--------------------------- MODULE DataPathProofs ---------------------------
(***************************************************************************)
(* What options and data come to on their way through packets and buffers, *)
(* for every value of the constants: what a datagram that is cut decodes   *)
(* to, what the negotiation of options guarantees, and that DataPath has   *)
(* the properties that its run checks.  Inv is the inductive invariant:    *)
(* Conversation tells the stages of a transfer, each by what is on the     *)
(* wire and what both sides have come to agree on.                         *)
(***************************************************************************)
EXTENDS DataPath, FiniteSetTheorems, SequenceTheorems, TLAPS

-----------------------------------------------------------------------------
(* Numbers, and the strings of a packet *)

(* A set of natural numbers has a least one. *)
LEMMA LeastNatural ==
    ASSUME NEW S, S \subseteq Nat, S # {}
    PROVE  \E x \in S : \A y \in S : x <= y
<1> DEFINE R == {ss \in Nat \X Nat : ss[1] < ss[2]}
<1>1. IsWellFoundedOn(R, Nat)
    BY NatLessThanWellFounded DEF OpToRel
<1>2. PICK x \in S : \A y \in S : <<y, x>> \notin R
  <2> HIDE DEF R
  <2> QED BY <1>1, WFMin
<1>3. \A y \in S : ~(y < x)
    BY <1>2
<1> QED BY <1>3

(* Induction over the natural numbers, for a set of them *)
LEMMA SetInduction ==
    ASSUME NEW T, 0 \in T, \A n \in Nat : n \in T => n + 1 \in T
    PROVE  Nat \subseteq T
<1> SUFFICES ASSUME Nat \ T # {} PROVE FALSE
    OBVIOUS
<1>1. PICK x \in Nat \ T : \A y \in Nat \ T : x <= y
    BY LeastNatural
<1>2. x # 0 /\ x - 1 \in Nat
    OBVIOUS
<1>3. x - 1 \in T
    BY <1>1, <1>2
<1> QED BY <1>2, <1>3

Cells == Seq(Nat)

(* Each NUL counts once. *)
LEMMA CountStep ==
    ASSUME NEW cells, NEW n \in Nat
    PROVE  /\ Count(cells, n) \in Nat
           /\ Count(cells, 0) = 0
           /\ Count(cells, n + 1) = IF cells[n + 1] = NUL THEN Count(cells, n) + 1 ELSE Count(cells, n)
<1> DEFINE S(m) == {i \in 1 .. m : cells[i] = NUL}
<1>1. \A m \in Nat : IsFiniteSet(S(m))
  <2> TAKE m \in Nat
  <2>1. IsFiniteSet(1 .. m) /\ S(m) \in SUBSET (1 .. m)   BY FS_Interval
  <2> QED BY <2>1, FS_Subset
<1>2. S(0) = {}   OBVIOUS
<1>3. CASE cells[n + 1] = NUL
  <2>1. S(n + 1) = S(n) \cup {n + 1}   BY <1>3
  <2>2. n + 1 \notin S(n)   OBVIOUS
  <2> HIDE DEF S
  <2>3. Cardinality(S(n + 1)) = Cardinality(S(n)) + 1   BY <1>1, <2>1, <2>2, FS_AddElement
  <2> QED BY <1>1, <1>2, <1>3, <2>3, FS_EmptySet, FS_CardinalityType DEF Count, S
<1>4. CASE cells[n + 1] # NUL
  <2>1. S(n + 1) = S(n)   BY <1>4
  <2> HIDE DEF S
  <2> QED BY <1>1, <1>2, <1>4, <2>1, FS_EmptySet, FS_CardinalityType DEF Count, S
<1> QED BY <1>3, <1>4

(* The number of the NULs grows with the part that is looked at. *)
LEMMA CountGrows ==
    ASSUME NEW cells, NEW m \in Nat, NEW n \in Nat, m <= n
    PROVE  /\ Count(cells, m) <= Count(cells, n)
           /\ m < n /\ cells[n] = NUL => Count(cells, m) < Count(cells, n)
<1> DEFINE S(k) == {i \in 1 .. k : cells[i] = NUL}
<1>1. \A k \in Nat : IsFiniteSet(S(k))
  <2> TAKE k \in Nat
  <2>1. IsFiniteSet(1 .. k) /\ S(k) \in SUBSET (1 .. k)   BY FS_Interval
  <2> QED BY <2>1, FS_Subset
<1>2. S(m) \in SUBSET S(n)   OBVIOUS
<1>3. m < n /\ cells[n] = NUL => n \in S(n) /\ n \notin S(m)   OBVIOUS
<1> HIDE DEF S
<1>4. Cardinality(S(m)) <= Cardinality(S(n)) /\ (Cardinality(S(m)) = Cardinality(S(n)) => S(m) = S(n))
    BY <1>1, <1>2, FS_Subset
<1>5. Cardinality(S(m)) \in Nat /\ Cardinality(S(n)) \in Nat   BY <1>1, FS_CardinalityType
<1>6. m < n /\ cells[n] = NUL => Cardinality(S(m)) # Cardinality(S(n))   BY <1>3, <1>4
<1> QED BY <1>4, <1>5, <1>6 DEF Count, S

(* Each number up to the last one is that of a NUL. *)
LEMMA EndExists ==
    ASSUME NEW cells, NEW n \in Nat, NEW k \in 1 .. Count(cells, n)
    PROVE  \E i \in 1 .. n : cells[i] = NUL /\ Count(cells, i) = k
<1> DEFINE T == {m \in Nat : \A j \in 1 .. Count(cells, m) : \E i \in 1 .. m : cells[i] = NUL /\ Count(cells, i) = j}
<1>1. 0 \in T
    BY CountStep
<1>2. ASSUME NEW m \in Nat, m \in T PROVE m + 1 \in T
  <2> SUFFICES ASSUME NEW j \in 1 .. Count(cells, m + 1)
               PROVE  \E i \in 1 .. m + 1 : cells[i] = NUL /\ Count(cells, i) = j
      OBVIOUS
  <2>1. CASE j \in 1 .. Count(cells, m)   BY <1>2, <2>1
  <2>2. CASE j \notin 1 .. Count(cells, m)
    <3>1. cells[m + 1] = NUL /\ Count(cells, m + 1) = j   BY <2>2, CountStep
    <3> QED BY <3>1
  <2> QED BY <2>1, <2>2
<1> HIDE DEF T
<1>3. n \in T   BY <1>1, <1>2, SetInduction
<1> QED BY <1>3 DEF T

(* Ends() is as its comment says. *)
LEMMA EndsOf ==
    ASSUME NEW cells \in Cells, NEW k \in 1 .. Count(cells, Len(cells))
    PROVE  /\ DOMAIN Ends(cells) = 1 .. Count(cells, Len(cells))
           /\ Ends(cells)[k] \in 1 .. Len(cells)
           /\ cells[Ends(cells)[k]] = NUL
           /\ Count(cells, Ends(cells)[k]) = k
           /\ \A i \in 1 .. Len(cells) : cells[i] = NUL /\ Count(cells, i) = k => i = Ends(cells)[k]
<1> DEFINE P(i) == cells[i] = NUL /\ Count(cells, i) = k
<1>0. Len(cells) \in Nat /\ DOMAIN cells = 1 .. Len(cells)   BY DEF Cells
<1>1. \E i \in DOMAIN cells : P(i)   BY <1>0, EndExists
<1>2. Ends(cells)[k] = CHOOSE i \in DOMAIN cells : P(i)   BY DEF Ends
<1>3. Ends(cells)[k] \in DOMAIN cells /\ P(Ends(cells)[k])   BY <1>1, <1>2
<1>4. ASSUME NEW i \in 1 .. Len(cells), P(i), NEW j \in 1 .. Len(cells), P(j) PROVE i = j
  <2>1. ~(i < j) /\ ~(j < i)   BY <1>0, <1>4, CountGrows
  <2> QED BY <2>1
<1> QED BY <1>0, <1>3, <1>4 DEF Ends

(* What the ends count depends on nothing behind them. *)
LEMMA CountSame ==
    ASSUME NEW c, NEW d, NEW n \in Nat, \A i \in 1 .. n : c[i] = d[i]
    PROVE  Count(c, n) = Count(d, n)
<1>1. {i \in 1 .. n : c[i] = NUL} = {i \in 1 .. n : d[i] = NUL}   OBVIOUS
<1> QED BY <1>1 DEF Count

IsStart(c, d) == Len(c) <= Len(d) /\ \A i \in 1 .. Len(c) : c[i] = d[i]

(* The strings of the beginning of a datagram are the first ones of the datagram. *)
LEMMA StringsOfStart ==
    ASSUME NEW c \in Cells, NEW d \in Cells, IsStart(c, d)
    PROVE  /\ Count(c, Len(c)) = Count(d, Len(c))
           /\ Count(c, Len(c)) <= Count(d, Len(d))
           /\ DOMAIN Strings(c) = 1 .. Count(c, Len(c))
           /\ \A k \in 1 .. Count(c, Len(c)) : /\ Ends(c)[k] = Ends(d)[k]
                                                /\ Strings(c)[k] = Strings(d)[k]
<1> DEFINE N == Count(c, Len(c))
<1>0. Len(c) \in Nat /\ Len(d) \in Nat   BY DEF Cells
<1>1. \A n \in 0 .. Len(c) : Count(c, n) = Count(d, n)   BY <1>0, CountSame DEF IsStart
<1>2. N <= Count(d, Len(d)) /\ N \in Nat /\ Count(d, Len(d)) \in Nat
  <2>1. N = Count(d, Len(c)) /\ N \in Nat /\ Count(d, Len(d)) \in Nat   BY SMTT(20), <1>0, <1>1, CountStep
  <2> HIDE DEF N
  <2> QED BY <1>0, <2>1, CountGrows DEF IsStart
<1>3. ASSUME NEW k \in 1 .. N PROVE Ends(c)[k] = Ends(d)[k] /\ Ends(c)[k] \in 1 .. Len(c)
  <2>1. Ends(c)[k] \in 1 .. Len(c) /\ c[Ends(c)[k]] = NUL /\ Count(c, Ends(c)[k]) = k   BY EndsOf
  <2>2. d[Ends(c)[k]] = NUL /\ Count(d, Ends(c)[k]) = k /\ Ends(c)[k] \in 1 .. Len(d)
      BY <1>0, <1>1, <2>1 DEF IsStart
  <2>3. k \in 1 .. Count(d, Len(d))   BY <1>2
  <2> QED BY <2>1, <2>2, <2>3, EndsOf
<1>4. DOMAIN Ends(c) = 1 .. N /\ DOMAIN Ends(d) = 1 .. Count(d, Len(d))   BY DEF Ends
<1>5. DOMAIN Strings(c) = 1 .. N   BY <1>4 DEF Strings
<1>6. ASSUME NEW k \in 1 .. N PROVE Strings(c)[k] = Strings(d)[k]
  <2> DEFINE first == IF k = 1 THEN 1 ELSE Ends(c)[k - 1] + 1
             last  == Ends(c)[k] - 1
  <2>1. Strings(c)[k] = SubSeq(c, first, last)   BY <1>4 DEF Strings
  <2>2. k # 1 => k - 1 \in 1 .. N   BY <1>2
  <2>3. first = (IF k = 1 THEN 1 ELSE Ends(d)[k - 1] + 1) /\ last = Ends(d)[k] - 1   BY <1>3, <2>2
  <2>4. k \in 1 .. Count(d, Len(d))   BY <1>2
  <2>5. Strings(d)[k] = SubSeq(d, first, last)   BY <1>4, <2>3, <2>4 DEF Strings
  <2>6. first \in Nat /\ last \in Nat /\ first >= 1 /\ last <= Len(c)   BY <1>0, <1>3, <2>2
  <2> HIDE DEF first, last
  <2>7. \A i \in first .. last : c[i] = d[i]   BY <2>6 DEF IsStart
  <2>8. SubSeq(c, first, last) = SubSeq(d, first, last)
    <3>1. SubSeq(c, first, last) \in Cells /\ SubSeq(d, first, last) \in Cells
      <4>1. \A i \in first .. last : c[i] \in Nat   BY <1>0, <2>6, ElementOfSeq DEF Cells
      <4>2. \A i \in first .. last : d[i] \in Nat   BY <2>7, <4>1
      <4> QED BY <2>6, <4>1, <4>2, SubSeqProperties DEF Cells
    <3> QED BY <2>6, <2>7, <3>1, SubSeqProperties, SeqEqual DEF Cells
  <2> QED BY <2>1, <2>5, <2>8
<1> QED BY <1>0, <1>1, <1>2, <1>3, <1>5, <1>6

(* What one more string, with its end, is *)
OneMore(u, t, c) ==
    /\ Len(c) = Len(u) + Len(t) + 1
    /\ \A i \in 1 .. Len(u) : c[i] = u[i]
    /\ \A i \in 1 .. Len(t) : c[Len(u) + i] = t[i]
    /\ c[Len(u) + Len(t) + 1] = NUL

(* A string, with its end, is appended. *)
LEMMA OneMoreAppended ==
    ASSUME NEW u \in Cells, NEW t \in Cells
    PROVE  u \o t \o <<NUL>> \in Cells /\ OneMore(u, t, u \o t \o <<NUL>>)
<1> DEFINE c == u \o t \o <<NUL>>
<1>0. Len(u) \in Nat /\ Len(t) \in Nat /\ <<NUL>> \in Seq(Nat) /\ Len(<<NUL>>) = 1   BY DEF Cells, NUL
<1>1. u \o t \in Seq(Nat) /\ Len(u \o t) = Len(u) + Len(t)
        /\ \A i \in 1 .. Len(u) + Len(t) : (u \o t)[i] = IF i <= Len(u) THEN u[i] ELSE t[i - Len(u)]
    BY ConcatProperties DEF Cells
<1>2. /\ c \in Seq(Nat) /\ Len(c) = Len(u) + Len(t) + 1
        /\ \A i \in 1 .. Len(u) + Len(t) + 1 : c[i] = IF i <= Len(u) + Len(t) THEN (u \o t)[i] ELSE <<NUL>>[i - (Len(u) + Len(t))]
    BY <1>0, <1>1, ConcatProperties
<1>3. c[Len(u) + Len(t) + 1] = NUL   BY <1>0, <1>2
<1>4. \A i \in 1 .. Len(u) : c[i] = u[i]   BY <1>0, <1>1, <1>2
<1>5. ASSUME NEW i \in 1 .. Len(t) PROVE c[Len(u) + i] = t[i]
  <2>1. Len(u) + i \in 1 .. Len(u) + Len(t) /\ ~(Len(u) + i <= Len(u)) /\ Len(u) + i - Len(u) = i   BY <1>0
  <2>2. Len(u) + i \in 1 .. Len(u) + Len(t) + 1 /\ Len(u) + i <= Len(u) + Len(t)   BY <1>0
  <2> QED BY <1>1, <1>2, <2>1, <2>2
<1> QED BY <1>2, <1>3, <1>4, <1>5 DEF Cells, OneMore

(* The strings of a datagram with one more *)
LEMMA OneMoreString ==
    ASSUME NEW u \in Cells, Terminated(u), NEW t \in Cells, \A i \in 1 .. Len(t) : t[i] # NUL,
           NEW c \in Cells, OneMore(u, t, c)
    PROVE  /\ Terminated(c) /\ IsStart(u, c)
           /\ Count(c, Len(c)) = Count(u, Len(u)) + 1
           /\ Ends(c)[Count(c, Len(c))] = Len(c)
           /\ Strings(c)[Count(c, Len(c))] = t
<1> DEFINE N == Count(u, Len(u))
<1>0. Len(u) \in Nat /\ Len(t) \in Nat   BY DEF Cells
<1>1. /\ c \in Cells /\ Len(c) = Len(u) + Len(t) + 1
      /\ \A i \in 1 .. Len(u) : c[i] = u[i]
      /\ \A i \in 1 .. Len(t) : c[Len(u) + i] = t[i]
      /\ c[Len(u) + Len(t) + 1] = NUL
    BY DEF OneMore
<1>2. Terminated(c) /\ IsStart(u, c)   BY <1>0, <1>1 DEF Terminated, Last, IsStart
<1>3. Count(c, Len(u)) = N /\ N \in Nat
  <2>1. Count(c, Len(u)) = Count(u, Len(u))   BY <1>0, <1>1, CountSame
  <2>2. Count(u, Len(u)) \in Nat   BY <1>0, CountStep
  <2> QED BY <2>1, <2>2
<1>4. Count(c, Len(u) + Len(t)) = N
  <2> DEFINE T == {m \in Nat : m <= Len(t) => Count(c, Len(u) + m) = N}
  <2>1. 0 \in T   BY <1>0, <1>3
  <2>2. ASSUME NEW m \in Nat, m \in T PROVE m + 1 \in T
    <3> SUFFICES ASSUME m + 1 <= Len(t) PROVE Count(c, Len(u) + (m + 1)) = N   OBVIOUS
    <3>1. c[Len(u) + (m + 1)] # NUL   BY <1>0, <1>1
    <3>2. Len(u) + m \in Nat /\ Len(u) + (m + 1) = (Len(u) + m) + 1   BY <1>0
    <3>3. Count(c, Len(u) + m) = N   BY <1>0, <2>2
    <3> QED BY <3>1, <3>2, <3>3, CountStep
  <2> HIDE DEF T
  <2>3. Len(t) \in T   BY <1>0, <2>1, <2>2, SetInduction
  <2> QED BY <1>0, <2>3 DEF T
<1>5. Count(c, Len(c)) = N + 1
  <2> DEFINE m == Len(u) + Len(t)
  <2>1. m \in Nat /\ Len(c) = m + 1 /\ c[m + 1] = NUL   BY <1>0, <1>1
  <2>2. Count(c, m) = N   BY <1>4
  <2> HIDE DEF m, N
  <2> QED BY <2>1, <2>2, CountStep
<1>6. Len(c) \in 1 .. Len(c) /\ N + 1 \in 1 .. Count(c, Len(c))   BY <1>0, <1>1, <1>3, <1>5
<1>7. Ends(c)[N + 1] = Len(c)   BY <1>1, <1>5, <1>6, EndsOf
<1>8. N # 0 => Ends(c)[N] = Len(u)
  <2> SUFFICES ASSUME N # 0 PROVE Ends(c)[N] = Len(u)   OBVIOUS
  <2>1. u # <<>>   BY <1>0, CountStep DEF Cells
  <2>2. Len(u) # 0 /\ u[Len(u)] = NUL   BY <1>0, <2>1, EmptySeq DEF Terminated, Last, Cells
  <2>3. Len(u) \in 1 .. Len(u) /\ Len(u) \in 1 .. Len(c)   BY <1>0, <1>1, <2>2
  <2>4. c[Len(u)] = NUL   BY <1>1, <2>2, <2>3
  <2>5. N \in 1 .. Count(c, Len(c))   BY <1>3, <1>5
  <2> HIDE DEF N
  <2> QED BY <1>1, <1>3, <2>3, <2>4, <2>5, EndsOf
<1>9. N = 0 => Len(u) = 0
  <2> SUFFICES ASSUME Len(u) # 0 PROVE N # 0   OBVIOUS
  <2>1. u[Len(u)] = NUL   BY DEF Terminated, Last
  <2>2. Count(u, 0) < Count(u, Len(u))   BY <1>0, <2>1, CountGrows
  <2> QED BY <2>2, CountStep, <1>3
<1>10. Strings(c)[N + 1] = t
  <2>1. DOMAIN Ends(c) = 1 .. N + 1   BY <1>5 DEF Ends
  <2>2. Strings(c)[N + 1] = SubSeq(c, IF N + 1 = 1 THEN 1 ELSE Ends(c)[(N + 1) - 1] + 1, Ends(c)[N + 1] - 1)
    <3>1. N + 1 \in DOMAIN Ends(c)   BY <1>3, <2>1
    <3> HIDE DEF N
    <3> QED BY <3>1 DEF Strings
  <2>3. Strings(c)[N + 1] = SubSeq(c, Len(u) + 1, Len(u) + Len(t))
    <3>1. Ends(c)[N + 1] - 1 = Len(u) + Len(t)   BY <1>0, <1>1, <1>7
    <3>2. CASE N = 0
      <4>1. Len(u) + 1 = 1   BY <3>2, <1>9, <1>0
      <4> QED BY <2>2, <3>1, <3>2, <4>1
    <3>3. CASE N # 0
      <4>1. (N + 1) - 1 = N /\ N + 1 # 1   BY <1>3, <3>3
      <4>2. Ends(c)[(N + 1) - 1] + 1 = Len(u) + 1   BY <1>8, <3>3, <4>1
      <4> QED BY <2>2, <3>1, <4>1, <4>2
    <3> QED BY <3>2, <3>3
  <2>4. \A i \in Len(u) + 1 .. Len(u) + Len(t) : c[i] \in Nat   BY <1>0, <1>1, ElementOfSeq DEF Cells
  <2>5. /\ SubSeq(c, Len(u) + 1, Len(u) + Len(t)) \in Seq(Nat)
        /\ Len(SubSeq(c, Len(u) + 1, Len(u) + Len(t))) = Len(t)
        /\ \A i \in 1 .. Len(t) : SubSeq(c, Len(u) + 1, Len(u) + Len(t))[i] = c[Len(u) + i]
    <3> DEFINE m == Len(u) + 1  n == Len(u) + Len(t)
    <3>1. m \in Int /\ n \in Int /\ n - m + 1 = Len(t) /\ (m <= n <=> Len(t) # 0)   BY <1>0
    <3>2. \A i \in 1 .. Len(t) : m + i - 1 = Len(u) + i   BY <1>0
    <3>3. \A i \in m .. n : c[i] \in Nat   BY <2>4
    <3> HIDE DEF m, n
    <3>4. /\ SubSeq(c, m, n) \in Seq(Nat)
          /\ Len(SubSeq(c, m, n)) = IF m <= n THEN n - m + 1 ELSE 0
          /\ \A i \in 1 .. n - m + 1 : SubSeq(c, m, n)[i] = c[m + i - 1]
        BY <3>1, <3>3, SubSeqProperties
    <3>5. /\ SubSeq(c, m, n) \in Seq(Nat)
          /\ Len(SubSeq(c, m, n)) = Len(t)
          /\ \A i \in 1 .. Len(t) : SubSeq(c, m, n)[i] = c[Len(u) + i]
        BY <1>0, <3>1, <3>2, <3>4
    <3> QED BY <3>5 DEF m, n
  <2>6. t \in Seq(Nat)   BY DEF Cells
  <2> HIDE DEF N
  <2> QED BY SMTT(20), <1>1, <2>3, <2>5, <2>6, SeqEqual
<1> QED BY <1>1, <1>2, <1>5, <1>7, <1>10

(* FlattenSeq() appends one sequence after the other. *)
LEMMA FlattenedStepwise ==
    ASSUME NEW seqs, Len(seqs) \in Nat \ {0}
    PROVE  \E f : /\ f[1] = seqs[1]
                  /\ \A i \in 1 .. Len(seqs) : i # 1 => f[i] = f[i - 1] \o seqs[i]
                  /\ FlattenSeq(seqs) = f[Len(seqs)]
<1> DEFINE Step(f, i) == IF i = 1 THEN seqs[i] ELSE f[i - 1] \o seqs[i]
           T == {m \in Nat : \E f : f = [i \in 1 .. m |-> Step(f, i)]}
<1>1. 0 \in T
  <2> DEFINE empty == [i \in 1 .. 0 |-> seqs[i]]
  <2>1. empty = [i \in 1 .. 0 |-> Step(empty, i)]   OBVIOUS
  <2> QED BY <2>1
<1>2. ASSUME NEW m \in Nat, m \in T PROVE m + 1 \in T
  <2>1. PICK f : f = [i \in 1 .. m |-> Step(f, i)]   BY <1>2
  <2> DEFINE g == [i \in 1 .. m + 1 |-> IF i = m + 1 THEN Step(f, m + 1) ELSE f[i]]
  <2>2. ASSUME NEW i \in 1 .. m + 1 PROVE g[i] = Step(g, i)
    <3>1. CASE i = m + 1
      <4>1. i # 1 => i - 1 \in 1 .. m + 1 /\ i - 1 # m + 1   BY <3>1
      <4> QED BY <3>1, <4>1
    <3>2. CASE i # m + 1
      <4>1. i \in 1 .. m /\ (i # 1 => i - 1 \in 1 .. m + 1 /\ i - 1 # m + 1)   BY <3>2
      <4>2. g[i] = f[i] /\ f[i] = Step(f, i)   BY <2>1, <3>2, <4>1
      <4> QED BY <4>1, <4>2
    <3> QED BY <3>1, <3>2
  <2>3. g = [i \in 1 .. m + 1 |-> Step(g, i)]   BY <2>2
  <2> HIDE DEF g
  <2>4. \E h : h = [i \in 1 .. m + 1 |-> Step(h, i)]   BY <2>3
  <2>5. m + 1 \in Nat   OBVIOUS
  <2> QED BY <2>4, <2>5, Zenon
<1> HIDE DEF T
<1>3. Len(seqs) \in T   BY <1>1, <1>2, SetInduction
<1> DEFINE P(f) == f = [i \in 1 .. Len(seqs) |-> Step(f, i)]
           flatten == CHOOSE f : P(f)
<1>4. P(flatten)   BY <1>3 DEF T
<1>5. FlattenSeq(seqs) = flatten[Len(seqs)]
    BY DEF FlattenSeq
<1> HIDE DEF flatten
<1>6. \A i \in 1 .. Len(seqs) : flatten[i] = Step(flatten, i)   BY <1>4
<1>7. 1 \in 1 .. Len(seqs)   OBVIOUS
<1> QED BY <1>5, <1>6, <1>7

-----------------------------------------------------------------------------
(* Options in a packet: names and values one after the other *)

(* SetToSeq() has each element. *)
LEMMA SetToSeqHasAll ==
    ASSUME NEW S, IsFiniteSet(S)
    PROVE  /\ SetToSeq(S) \in Seq(S)
           /\ \A x \in S : \E i \in 1 .. Len(SetToSeq(S)) : SetToSeq(S)[i] = x
<1> DEFINE n == Cardinality(S)
<1>1. n \in Nat /\ ExistsBijection(1 .. n, S)   BY FS_CardinalityType
<1>2. \E f \in [1 .. n -> S] : IsInjective(f)
    BY <1>1 DEF ExistsBijection, Bijection, Injection
<1>3. SetToSeq(S) \in [1 .. n -> S] /\ IsInjective(SetToSeq(S))   BY <1>2 DEF SetToSeq
<1>4. IsFiniteSet(1 .. n) /\ Cardinality(1 .. n) = n   BY <1>1, FS_Interval
<1>5. SetToSeq(S) \in Surjection(1 .. n, S)   BY <1>3, <1>4, FS_Injection DEF Injection
<1>6. SetToSeq(S) \in Seq(S) /\ Len(SetToSeq(S)) = n   BY <1>1, <1>3
<1> QED BY <1>5, <1>6 DEF Surjection

(* The order of the names: first the known ones, and then each other one. *)
LEMMA NamesInOrder ==
    /\ Len(OrderedNames) \in Nat /\ Len(OrderedNames) >= 3 /\ DOMAIN OrderedNames = 1 .. Len(OrderedNames)
    /\ OrderedNames[1] = "blksize" /\ OrderedNames[2] = "timeout" /\ OrderedNames[3] = "tsize"
    /\ \A i \in 1 .. Len(OrderedNames) : OrderedNames[i] \in OptionNames
    /\ \A i \in 4 .. Len(OrderedNames) : OrderedNames[i] \in OtherOptions
    /\ \A name \in OptionNames : \E i \in 1 .. Len(OrderedNames) : OrderedNames[i] = name
<1> DEFINE others == SetToSeq(OtherOptions)  known == <<"blksize", "timeout", "tsize">>
<1>1. others \in Seq(OtherOptions) /\ \A x \in OtherOptions : \E i \in 1 .. Len(others) : others[i] = x
    BY PacketAssumption, SetToSeqHasAll
<1>2. others \in Seq(OptionNames)
    BY <1>1, SeqMonotonic DEF OptionNames
<1>3. known \in Seq(OptionNames) /\ Len(known) = 3 /\ known[1] = "blksize" /\ known[2] = "timeout" /\ known[3] = "tsize"
    BY DEF OptionNames, KnownOptions
<1> HIDE DEF others, known
<1>4. /\ OrderedNames \in Seq(OptionNames)
      /\ Len(OrderedNames) = 3 + Len(others)
      /\ \A i \in 1 .. 3 + Len(others) : OrderedNames[i] = IF i <= 3 THEN known[i] ELSE others[i - 3]
    BY <1>2, <1>3, ConcatProperties DEF OrderedNames, known, others
<1>5. Len(others) \in Nat   BY <1>1
<1>6. ASSUME NEW name \in OptionNames PROVE \E i \in 1 .. Len(OrderedNames) : OrderedNames[i] = name
  <2>1. CASE name \in OtherOptions
    <3>1. PICK i \in 1 .. Len(others) : others[i] = name   BY <1>1, <2>1
    <3>2. i + 3 \in 1 .. Len(OrderedNames) /\ ~(i + 3 <= 3) /\ (i + 3) - 3 = i   BY <1>4, <1>5
    <3> QED BY <1>4, <3>1, <3>2
  <2>2. CASE name \in KnownOptions
    <3>1. /\ 1 \in 1 .. Len(OrderedNames) /\ 2 \in 1 .. Len(OrderedNames) /\ 3 \in 1 .. Len(OrderedNames)
          /\ OrderedNames[1] = "blksize" /\ OrderedNames[2] = "timeout" /\ OrderedNames[3] = "tsize"
        BY <1>3, <1>4, <1>5
    <3> QED BY <2>2, <3>1 DEF KnownOptions
  <2> QED BY <2>1, <2>2 DEF OptionNames
<1>7. /\ Len(OrderedNames) \in Nat /\ Len(OrderedNames) >= 3 /\ DOMAIN OrderedNames = 1 .. Len(OrderedNames)
      /\ \A i \in 1 .. Len(OrderedNames) : OrderedNames[i] \in OptionNames
    BY <1>4, <1>5, LenProperties, ElementOfSeq
<1>8. OrderedNames[1] = "blksize" /\ OrderedNames[2] = "timeout" /\ OrderedNames[3] = "tsize"
    BY <1>3, <1>4, <1>5
<1>9. ASSUME NEW i \in 4 .. Len(OrderedNames) PROVE OrderedNames[i] \in OtherOptions
  <2>1. i \in 1 .. 3 + Len(others) /\ ~(i <= 3) /\ i - 3 \in 1 .. Len(others)   BY <1>4, <1>5
  <2>2. others[i - 3] \in OtherOptions   BY <1>1, <2>1, ElementOfSeq
  <2> QED BY <1>4, <2>1, <2>2
<1> QED BY <1>6, <1>7, <1>8, <1>9

(* A name has a cell of its own, and is read from it. *)
LEMMA NameIsRead ==
    ASSUME NEW name \in OptionNames
    PROVE  /\ NameCell(name) \in Nat /\ NameCell(name) # NUL
           /\ IsName(<<NameCell(name)>>) /\ NameOf(<<NameCell(name)>>) = name
<1> DEFINE Index(n) == CHOOSE i \in DOMAIN OrderedNames : OrderedNames[i] = n
<1>1. \A n \in OptionNames : Index(n) \in 1 .. Len(OrderedNames) /\ OrderedNames[Index(n)] = n
    BY NamesInOrder
<1>2. \A n : NameCell(n) = 10 + Index(n)   BY DEF NameCell
<1> HIDE DEF Index
<1>3. \A n \in OptionNames : NameCell(n) \in Nat /\ NameCell(n) # NUL
  <2>1. Len(OrderedNames) \in Nat   BY NamesInOrder
  <2>2. \A n \in OptionNames : Index(n) \in Nat /\ Index(n) >= 1   BY <1>1, <2>1
  <2> QED BY <1>2, <2>2 DEF NUL
<1>4. ASSUME NEW n \in OptionNames, <<NameCell(name)>> = <<NameCell(n)>> PROVE n = name
  <2>1. NameCell(name) = NameCell(n)   BY <1>4
  <2>2. Index(name) = Index(n)   BY <1>1, <1>2, <2>1, NamesInOrder
  <2> QED BY <1>1, <2>2
<1>5. IsName(<<NameCell(name)>>)   BY DEF IsName
<1>6. NameOf(<<NameCell(name)>>) = name   BY <1>4 DEF NameOf
<1> QED BY <1>3, <1>5, <1>6

(* A value is read from its string. *)
LEMMA ValueIsRead ==
    ASSUME NEW value \in Values
    PROVE  /\ ValueCells(value) \in Cells /\ Len(ValueCells(value)) <= 1
           /\ \A i \in 1 .. Len(ValueCells(value)) : ValueCells(value)[i] # NUL
           /\ ValueOf(ValueCells(value)) = value
<1>1. CASE value = Empty
    BY <1>1 DEF ValueCells, ValueOf, Cells, NUL
<1>2. CASE value = Text
  <2>1. ValueCells(value) = <<99>>   BY <1>2 DEF ValueCells, Text, Empty
  <2> QED BY <1>2, <2>1 DEF ValueOf, Cells, NUL
<1>3. CASE value \in Nat
  <2>1. ValueCells(value) = <<100 + value>>   BY <1>3 DEF ValueCells, Text, Empty
  <2>2. ValueOf(<<100 + value>>) = (100 + value) - 100   BY <1>3 DEF ValueOf
  <2> QED BY <1>3, <2>1, <2>2 DEF Cells, NUL
<1> QED BY <1>1, <1>2, <1>3 DEF Values

(* What RawOptions() has of a name *)
Item(options, name) ==
    IF name \in DOMAIN options THEN <<NameCell(name), NUL>> \o ValueCells(options[name]) \o <<NUL>> ELSE <<>>

(* Cells that are options, the first n names of them at least *)
Encodes(cells, options, n) ==
    /\ cells \in Cells /\ Terminated(cells) /\ Len(cells) <= 4 * n
    /\ Count(cells, Len(cells)) % 2 = 0
    /\ \A k \in 1 .. Count(cells, Len(cells)) : k % 2 = 1 =>
          \E name \in DOMAIN options : /\ Strings(cells)[k] = <<NameCell(name)>>
                                        /\ Strings(cells)[k + 1] = ValueCells(options[name])
    /\ \A i \in 1 .. n : OrderedNames[i] \in DOMAIN options =>
          \E k \in 1 .. Count(cells, Len(cells)) :
              k % 2 = 1 /\ Strings(cells)[k] = <<NameCell(OrderedNames[i])>>

(* Concatenation is associative. *)
LEMMA Associative == \A s, t, u \in Seq(Nat) : (s \o t) \o u = s \o (t \o u)
BY ConcatAssociative

(* Numbers are even or odd. *)
LEMMA Parity ==
    ASSUME NEW n \in Nat, n % 2 = 0
    PROVE  (n + 1) % 2 = 1 /\ (n + 2) % 2 = 0 /\ \A k \in 1 .. n : k % 2 = 1 => k + 1 \in 1 .. n
OBVIOUS

(* The next name is appended. *)
LEMMA ItemAppended ==
    ASSUME NEW options, IsOptions(options), NEW n \in Nat, n + 1 <= Len(OrderedNames),
           NEW u, Encodes(u, options, n)
    PROVE  /\ Encodes(u \o Item(options, OrderedNames[n + 1]), options, n + 1)
           /\ IsStart(u, u \o Item(options, OrderedNames[n + 1]))
<1> DEFINE name == OrderedNames[n + 1]  c == u \o Item(options, name)
<1>0. u \in Cells /\ Terminated(u) /\ Len(u) \in Nat   BY DEF Encodes, Cells
<1>1. CASE name \notin DOMAIN options
  <2>1. c = u
    <3>1. Item(options, name) = <<>>   BY <1>1 DEF Item
    <3> QED BY <1>0, <3>1, ConcatEmptySeq DEF Cells
  <2> HIDE DEF c
  <2>2. ASSUME NEW i \in 1 .. n + 1, OrderedNames[i] \in DOMAIN options PROVE i \in 1 .. n
      BY <1>1, <2>2
  <2>3. Encodes(u, options, n + 1)
    <3>1. Len(u) <= 4 * (n + 1)   BY <1>0 DEF Encodes
    <3> QED BY <2>2, <3>1 DEF Encodes
  <2>4. IsStart(u, u)   BY <1>0 DEF IsStart
  <2> QED BY <2>1, <2>3, <2>4 DEF c
<1>2. CASE name \in DOMAIN options
  <2> DEFINE nc == <<NameCell(name)>>  vc == ValueCells(options[name])
             v == u \o nc \o <<NUL>>  w == v \o vc \o <<NUL>>
             N == Count(u, Len(u))
  <2>1. name \in OptionNames /\ options[name] \in Values   BY <1>2 DEF IsOptions, OptionNames
  <2>2. nc \in Cells /\ Len(nc) = 1 /\ \A i \in 1 .. Len(nc) : nc[i] # NUL   BY <2>1, NameIsRead DEF Cells
  <2>3. vc \in Cells /\ Len(vc) <= 1 /\ Len(vc) \in Nat /\ \A i \in 1 .. Len(vc) : vc[i] # NUL
      BY <2>1, ValueIsRead DEF Cells
  <2>4. c = w
    <3>1. <<NUL>> \in Cells /\ nc \o <<NUL>> \in Cells /\ <<NameCell(name), NUL>> = nc \o <<NUL>>
        BY <2>1, NameIsRead DEF Cells, NUL
    <3> DEFINE x == nc \o <<NUL>>  y == <<NUL>>
    <3>2. c = u \o (x \o vc \o y)   BY <1>2, <3>1 DEF Item
    <3> HIDE DEF nc, vc, c
    <3>3. v = u \o x   BY SMTT(20), <1>0, <2>2, <3>1, ConcatAssociative DEF Cells
    <3>4. w = (u \o x) \o vc \o y   BY <3>3
    <3>5. x \in Seq(Nat) /\ y \in Seq(Nat) /\ vc \in Seq(Nat) /\ u \in Seq(Nat)   BY <1>0, <2>3, <3>1 DEF Cells
    <3> HIDE DEF x, y, w, v
    <3>6. x \o vc \in Seq(Nat) /\ u \o x \in Seq(Nat)   BY <3>5, ConcatProperties
    <3>7. (u \o x) \o vc = u \o (x \o vc)   BY <3>5, Associative
    <3>8. (u \o (x \o vc)) \o y = u \o ((x \o vc) \o y)   BY <3>5, <3>6, Associative
    <3> QED BY <3>2, <3>4, <3>7, <3>8
  <2> HIDE DEF nc, vc, c
  <2>5. v \in Cells /\ OneMore(u, nc, v)   BY <1>0, <2>2, OneMoreAppended
  <2>6. w \in Cells /\ OneMore(v, vc, w)   BY <2>3, <2>5, OneMoreAppended
  <2> HIDE DEF v, w
  <2>7. /\ Terminated(v) /\ IsStart(u, v) /\ Len(v) = Len(u) + 2
        /\ Count(v, Len(v)) = N + 1 /\ Strings(v)[N + 1] = nc
    <3>1. Terminated(v) /\ IsStart(u, v) /\ Count(v, Len(v)) = Count(u, Len(u)) + 1 /\ Strings(v)[Count(v, Len(v))] = nc
        BY <1>0, <2>2, <2>5, OneMoreString
    <3>2. Len(v) = Len(u) + 2   BY <1>0, <2>2, <2>5 DEF OneMore
    <3> QED BY <3>1, <3>2
  <2>8. /\ Terminated(w) /\ IsStart(v, w) /\ Len(w) <= Len(u) + 4 /\ Len(w) \in Nat
        /\ Count(w, Len(w)) = (N + 1) + 1 /\ Strings(w)[(N + 1) + 1] = vc
    <3>1. Terminated(w) /\ IsStart(v, w) /\ Count(w, Len(w)) = Count(v, Len(v)) + 1 /\ Strings(w)[Count(w, Len(w))] = vc
        BY <2>3, <2>5, <2>6, <2>7, OneMoreString
    <3>2. Len(w) <= Len(u) + 4 /\ Len(w) \in Nat   BY <1>0, <2>3, <2>6, <2>7 DEF OneMore
    <3> QED BY <2>7, <3>1, <3>2
  <2>9. N \in Nat /\ N % 2 = 0 /\ (N + 1) % 2 = 1 /\ (N + 2) % 2 = 0 /\ N + 2 = (N + 1) + 1
    <3>1. N \in Nat /\ N % 2 = 0   BY <1>0, CountStep DEF Encodes
    <3> HIDE DEF N
    <3> QED BY <3>1, Parity
  <2>10. \A k \in 1 .. N : Strings(v)[k] = Strings(u)[k]   BY <1>0, <2>5, <2>7, StringsOfStart
  <2>11. \A k \in 1 .. N + 1 : Strings(w)[k] = Strings(v)[k]
    <3> HIDE DEF N
    <3> QED BY <2>5, <2>6, <2>7, <2>8, StringsOfStart
  <2>12. \A k \in 1 .. N : Strings(w)[k] = Strings(u)[k]   BY <2>9, <2>10, <2>11
  <2>13. Strings(w)[N + 1] = nc /\ Strings(w)[N + 2] = vc   BY <2>7, <2>8, <2>9, <2>11
  <2>14. IsStart(u, w)   BY SMTT(20), <1>0, <2>5, <2>6, <2>7, <2>8 DEF IsStart, Cells
  <2>15. Count(w, Len(w)) = N + 2   BY <2>8, <2>9
  <2>16. ASSUME NEW k \in 1 .. N + 2, k % 2 = 1
         PROVE  \E nm \in DOMAIN options : Strings(w)[k] = <<NameCell(nm)>> /\ Strings(w)[k + 1] = ValueCells(options[nm])
    <3>1. CASE k <= N
      <4>1. k + 1 \in 1 .. N /\ k \in 1 .. N   BY <2>9, <2>16, <3>1
      <4>2. \E nm \in DOMAIN options : Strings(u)[k] = <<NameCell(nm)>> /\ Strings(u)[k + 1] = ValueCells(options[nm])
          BY <2>16, <4>1 DEF Encodes
      <4> QED BY <2>12, <4>1, <4>2
    <3>2. CASE ~(k <= N)
      <4>1. k = N + 1 /\ k + 1 = N + 2   
        <5> HIDE DEF N
        <5>1. k = N + 1 \/ k = N + 2   BY <2>9, <3>2
        <5> QED BY <2>9, <2>16, <5>1
      <4> QED BY <1>2, <2>13, <4>1 DEF nc, vc
    <3> QED BY <3>1, <3>2
  <2>17. ASSUME NEW i \in 1 .. n + 1, OrderedNames[i] \in DOMAIN options
         PROVE  \E k \in 1 .. N + 2 : k % 2 = 1 /\ Strings(w)[k] = <<NameCell(OrderedNames[i])>>
    <3>1. CASE i = n + 1
      <4>1. N + 1 \in 1 .. N + 2   BY <2>9
      <4>2. Strings(w)[N + 1] = <<NameCell(OrderedNames[i])>>   BY <2>13, <3>1 DEF nc
      <4> QED BY <2>9, <4>1, <4>2
    <3>2. CASE i # n + 1
      <4>1. i \in 1 .. n   BY <3>2
      <4>2. PICK k \in 1 .. N : k % 2 = 1 /\ Strings(u)[k] = <<NameCell(OrderedNames[i])>>   BY <2>17, <4>1 DEF Encodes
      <4>3. k \in 1 .. N + 2   BY <2>9
      <4> QED BY <2>12, <4>2, <4>3
    <3> QED BY <3>1, <3>2
  <2>18. Len(w) <= 4 * (n + 1)   BY <1>0, <2>8 DEF Encodes
  <2> HIDE DEF N
  <2>19. Encodes(w, options, n + 1)
      BY <2>6, <2>8, <2>9, <2>15, <2>16, <2>17, <2>18 DEF Encodes
  <2> QED BY <2>4, <2>14, <2>19 DEF c
<1> QED BY <1>1, <1>2

(* RawOptions() encodes each option, those of the library in the first twelve cells, and *)
(* nothing else if there are no others.                                                   *)
LEMMA RawEncodes ==
    ASSUME NEW options, IsOptions(options)
    PROVE  /\ Encodes(RawOptions(options), options, Len(OrderedNames))
           /\ \E known : Encodes(known, options, 3) /\ IsStart(known, RawOptions(options))
           /\ DOMAIN options \subseteq KnownOptions => Len(RawOptions(options)) <= 12
<1> DEFINE seqs == [i \in DOMAIN OrderedNames |-> Item(options, OrderedNames[i])]
           L == Len(OrderedNames)
<1>0. L \in Nat /\ L >= 3 /\ DOMAIN OrderedNames = 1 .. L   BY NamesInOrder
<1>1. RawOptions(options) = FlattenSeq(seqs)   BY DEF RawOptions, Item
<1>2. Len(seqs) = L /\ Len(seqs) \in Nat \ {0} /\ \A i \in 1 .. L : seqs[i] = Item(options, OrderedNames[i])
    BY <1>0
<1> HIDE DEF seqs
<1>3. PICK f : /\ f[1] = seqs[1]
               /\ \A i \in 1 .. L : i # 1 => f[i] = f[i - 1] \o seqs[i]
               /\ FlattenSeq(seqs) = f[L]
    BY <1>2, FlattenedStepwise
<1> DEFINE g(n) == IF n = 0 THEN <<>> ELSE f[n]
<1>4. \A n \in Nat : n + 1 <= L => g(n + 1) = g(n) \o Item(options, OrderedNames[n + 1])
  <2> SUFFICES ASSUME NEW n \in Nat, n + 1 <= L PROVE g(n + 1) = g(n) \o Item(options, OrderedNames[n + 1])
      OBVIOUS
  <2>1. n + 1 \in 1 .. L /\ n + 1 # 0 /\ (n + 1) - 1 = n   BY <1>0
  <2>2. CASE n = 0
    <3>1. g(n + 1) = Item(options, OrderedNames[1])   BY <1>2, <1>3, <2>1, <2>2
    <3>2. Item(options, OrderedNames[1]) \in Seq(Nat)
      <4>1. OrderedNames[1] \in DOMAIN options =>
              /\ NameCell(OrderedNames[1]) \in Nat /\ ValueCells(options[OrderedNames[1]]) \in Seq(Nat)
          BY NameIsRead, ValueIsRead DEF IsOptions, OptionNames, Cells
      <4>2. <<NUL>> \in Seq(Nat)   BY DEF NUL
      <4>3. OrderedNames[1] \in DOMAIN options => <<NameCell(OrderedNames[1]), NUL>> \in Seq(Nat)   BY <4>1 DEF NUL
      <4> QED BY <4>1, <4>2, <4>3, ConcatProperties DEF Item
    <3> QED BY <2>2, <3>1, <3>2, ConcatEmptySeq
  <2>3. CASE n # 0
    <3>1. f[n + 1] = f[n] \o seqs[n + 1]
      <4> DEFINE i == n + 1
      <4>1. i \in 1 .. L /\ i # 1 /\ i - 1 = n   BY <1>0, <2>1, <2>3
      <4> HIDE DEF i
      <4>2. f[i] = f[i - 1] \o seqs[i]   BY <1>3, <4>1
      <4> QED BY <4>1, <4>2 DEF i
    <3>2. seqs[n + 1] = Item(options, OrderedNames[n + 1])   BY <1>2, <2>1
    <3> QED BY <2>1, <2>3, <3>1, <3>2
  <2> QED BY <2>2, <2>3
<1>5. g(L) = RawOptions(options)   BY <1>0, <1>1, <1>3
<1>6. g(0) = <<>>   OBVIOUS
<1> HIDE DEF g
<1> DEFINE T == {n \in Nat : n <= L => /\ Encodes(g(n), options, n)
                                       /\ n >= 3 => IsStart(g(3), g(n))
                                       /\ DOMAIN options \subseteq KnownOptions => Len(g(n)) <= 12}
<1>7. 0 \in T
  <2>1. <<>> \in Cells /\ Len(<<>>) = 0 /\ Count(<<>>, 0) = 0   BY CountStep DEF Cells
  <2>2. Encodes(<<>>, options, 0)   BY <2>1 DEF Encodes, Terminated
  <2> QED BY <1>6, <2>2
<1>8. ASSUME NEW n \in Nat, n \in T PROVE n + 1 \in T
  <2> SUFFICES ASSUME n + 1 <= L
               PROVE  /\ Encodes(g(n + 1), options, n + 1) /\ (n + 1 >= 3 => IsStart(g(3), g(n + 1)))
                      /\ DOMAIN options \subseteq KnownOptions => Len(g(n + 1)) <= 12
      OBVIOUS
  <2>1. /\ Encodes(g(n), options, n) /\ (n >= 3 => IsStart(g(3), g(n)))
        /\ DOMAIN options \subseteq KnownOptions => Len(g(n)) <= 12
      BY <1>0, <1>8
  <2>2. Encodes(g(n + 1), options, n + 1) /\ IsStart(g(n), g(n + 1))   BY <1>4, <2>1, ItemAppended
  <2>3. ASSUME n + 1 >= 3 PROVE IsStart(g(3), g(n + 1))
    <3>1. g(n) \in Cells /\ g(n + 1) \in Cells   BY <2>1, <2>2 DEF Encodes
    <3>2. CASE n = 2   BY <3>1, <3>2, <2>2 DEF IsStart, Cells
    <3>3. CASE n >= 3
      <4>1. IsStart(g(3), g(n)) /\ IsStart(g(n), g(n + 1))   BY <2>1, <2>2, <3>3
      <4>2. Len(g(3)) \in Int \/ Len(g(3)) \notin Int   OBVIOUS
      <4> QED BY <3>1, <4>1 DEF IsStart, Cells
    <3> QED BY <2>3, <3>2, <3>3
  <2>4. ASSUME DOMAIN options \subseteq KnownOptions PROVE Len(g(n + 1)) <= 12
    <3>1. CASE n < 3   BY <2>2, <3>1 DEF Encodes, Cells
    <3>2. CASE n >= 3
      <4> DEFINE i == n + 1
      <4>1. i \in 4 .. Len(OrderedNames)   BY <1>0, <3>2
      <4>2. OrderedNames[i] \in OtherOptions   BY <4>1, NamesInOrder
      <4>3. i = n + 1 /\ g(n + 1) = g(n) \o Item(options, OrderedNames[i])   BY <1>4
      <4> HIDE DEF i
      <4>4. OrderedNames[i] \notin DOMAIN options   BY <2>4, <4>2, OptionAssumption
      <4>5. Item(options, OrderedNames[i]) = <<>>   BY <4>4 DEF Item
      <4>6. g(n + 1) = g(n) \o <<>>   BY <4>3, <4>5
      <4>7. g(n + 1) = g(n)   BY <2>1, <4>6, ConcatEmptySeq DEF Encodes, Cells
      <4> QED BY <2>1, <2>4, <4>7
    <3> QED BY <3>1, <3>2
  <2> QED BY <2>2, <2>3, <2>4
<1> HIDE DEF T
<1>9. Nat \subseteq T   BY <1>7, <1>8, SetInduction
<1>10. /\ Encodes(g(L), options, L) /\ IsStart(g(3), g(L)) /\ Encodes(g(3), options, 3)
       /\ DOMAIN options \subseteq KnownOptions => Len(g(L)) <= 12
  <2>1. L \in T /\ 3 \in T   BY <1>0, <1>9
  <2> QED BY <1>0, <2>1 DEF T
<1> QED BY <1>5, <1>10

(* The strings of options are a name and its value in turn. *)
NamesAndValues(strings, n, options) ==
    /\ n % 2 = 0
    /\ \A k \in 1 .. n : k % 2 = 1 =>
          \E name \in DOMAIN options : strings[k] = <<NameCell(name)>> /\ strings[k + 1] = ValueCells(options[name])

(* Pairs() finds the values of the names that are there. *)
LEMMA PairsAreOptions ==
    ASSUME NEW options, IsOptions(options), NEW n \in Nat, NEW strings, DOMAIN strings = 1 .. n,
           NamesAndValues(strings, n, options)
    PROVE  /\ DOMAIN Pairs(strings) \subseteq DOMAIN options
           /\ \A name \in DOMAIN Pairs(strings) : Pairs(strings)[name] = options[name]
           /\ \A name \in DOMAIN options :
                 (\E k \in 1 .. n : k % 2 = 1 /\ strings[k] = <<NameCell(name)>>) => name \in DOMAIN Pairs(strings)
           /\ Pairs(strings) = [name \in DOMAIN Pairs(strings) |-> Pairs(strings)[name]]
<1> DEFINE names == {i \in DOMAIN strings : i % 2 = 1 /\ IsName(strings[i])}
           P(name, i) == /\ NameOf(strings[i]) = name
                         /\ \A j \in names : NameOf(strings[j]) = name => i <= j
           First(name) == CHOOSE i \in names : P(name, i)
           D == {NameOf(strings[i]) : i \in names}
<1>0. Pairs(strings) = [name \in D |-> ValueOf(strings[First(name) + 1])]   BY DEF Pairs
<1>1. \A nm \in DOMAIN options : nm \in OptionNames /\ options[nm] \in Values   BY DEF IsOptions, OptionNames
<1>2. ASSUME NEW i \in names
      PROVE  NameOf(strings[i]) \in DOMAIN options /\ ValueOf(strings[i + 1]) = options[NameOf(strings[i])]
  <2>1. PICK name \in DOMAIN options : strings[i] = <<NameCell(name)>> /\ strings[i + 1] = ValueCells(options[name])
      BY DEF NamesAndValues
  <2>2. NameOf(strings[i]) = name   BY <1>1, <2>1, NameIsRead
  <2>3. ValueOf(strings[i + 1]) = options[name]   BY <1>1, <2>1, ValueIsRead
  <2> QED BY <2>2, <2>3
<1>3. ASSUME NEW name \in D PROVE First(name) \in names /\ NameOf(strings[First(name)]) = name
  <2> DEFINE S == {i \in names : NameOf(strings[i]) = name}
  <2>1. S # {} /\ S \subseteq Nat   OBVIOUS
  <2>2. PICK x \in S : \A y \in S : x <= y   BY <2>1, LeastNatural
  <2>3. x \in names /\ P(name, x)   BY <2>2
  <2>4. \E i \in names : P(name, i)   BY <2>3
  <2> HIDE DEF names, P, S
  <2>5. First(name) \in names /\ P(name, First(name))   BY <2>4
  <2> QED BY <2>5 DEF P
<1> HIDE DEF First
<1>4. DOMAIN Pairs(strings) = D /\ \A name \in D : Pairs(strings)[name] = ValueOf(strings[First(name) + 1])
    BY <1>0
<1>5. D \subseteq DOMAIN options   BY <1>2
<1>6. \A name \in D : Pairs(strings)[name] = options[name]   BY <1>2, <1>3, <1>4
<1>7. ASSUME NEW name \in DOMAIN options, NEW k \in 1 .. n, k % 2 = 1, strings[k] = <<NameCell(name)>>
      PROVE  name \in D
  <2>1. IsName(strings[k]) /\ NameOf(strings[k]) = name   BY <1>1, <1>7, NameIsRead
  <2> QED BY <1>7, <2>1
<1>8. Pairs(strings) = [name \in DOMAIN Pairs(strings) |-> Pairs(strings)[name]]   BY DEF Pairs
<1> QED BY <1>4, <1>5, <1>6, <1>7, <1>8

(* Options_options(): options that have been cut are refused, or some of them are decoded; the *)
(* options of the library are among them unless they do not fit in twelve cells.                *)
LEMMA OptionsAreDecoded ==
    ASSUME NEW options, IsOptions(options), NEW cells \in Cells, IsStart(cells, RawOptions(options))
    PROVE  /\ DecodeOptions(cells).valid =>
                LET decoded == DecodeOptions(cells).options IN
                /\ IsOptions(decoded)
                /\ DOMAIN decoded \subseteq DOMAIN options
                /\ \A name \in DOMAIN decoded : decoded[name] = options[name]
                /\ Len(cells) >= 12 => DOMAIN options \cap KnownOptions \subseteq DOMAIN decoded
                /\ Len(cells) = Len(RawOptions(options)) => decoded = options
           /\ Len(cells) = Len(RawOptions(options)) => DecodeOptions(cells).valid
<1> DEFINE raw == RawOptions(options)  N == Count(cells, Len(cells))  M == Count(raw, Len(raw))
<1>1. Encodes(raw, options, Len(OrderedNames)) /\ raw \in Cells   BY RawEncodes DEF Encodes
<1>2. PICK known : Encodes(known, options, 3) /\ IsStart(known, raw)   BY RawEncodes
<1> HIDE DEF raw
<1>3. Len(cells) \in Nat /\ Len(raw) \in Nat /\ Len(cells) <= Len(raw) /\ N \in Nat /\ M \in Nat
    BY <1>1, CountStep DEF Cells, IsStart, raw
<1>4. /\ N <= M /\ DOMAIN Strings(cells) = 1 .. N
      /\ \A k \in 1 .. N : Strings(cells)[k] = Strings(raw)[k]
    BY <1>1, StringsOfStart DEF raw
<1>5. Len(Strings(cells)) = N
    BY <1>3, <1>4 DEF Strings, Ends
<1>6. ASSUME DecodeOptions(cells).valid PROVE N % 2 = 0 /\ DecodeOptions(cells).options = Pairs(Strings(cells))
    BY <1>5, <1>6 DEF DecodeOptions
<1>7. ASSUME N % 2 = 0 PROVE NamesAndValues(Strings(cells), N, options)
  <2> SUFFICES ASSUME NEW k \in 1 .. N, k % 2 = 1
               PROVE  \E name \in DOMAIN options : /\ Strings(cells)[k] = <<NameCell(name)>>
                                                    /\ Strings(cells)[k + 1] = ValueCells(options[name])
      BY <1>7 DEF NamesAndValues
  <2>1. k + 1 \in 1 .. N
    <3> HIDE DEF N
    <3> QED BY <1>3, <1>7, Parity
  <2>2. k \in 1 .. M   BY <1>3, <1>4
  <2>3. \E name \in DOMAIN options : Strings(raw)[k] = <<NameCell(name)>> /\ Strings(raw)[k + 1] = ValueCells(options[name])
      BY <1>1, <2>2 DEF Encodes
  <2> QED BY <1>4, <2>1, <2>3
<1>8. ASSUME NEW part, NEW n \in Nat, n <= Len(OrderedNames), Encodes(part, options, n), IsStart(part, raw), Len(part) <= Len(cells),
             NEW i \in 1 .. n, OrderedNames[i] \in DOMAIN options
      PROVE  \E k \in 1 .. N : k % 2 = 1 /\ Strings(cells)[k] = <<NameCell(OrderedNames[i])>>
  <2>1. part \in Cells /\ Len(part) \in Nat   BY <1>8 DEF Encodes, Cells
  <2>2. IsStart(part, cells)   BY <1>3, <1>8, <2>1 DEF IsStart, raw
  <2>3. PICK k \in 1 .. Count(part, Len(part)) : k % 2 = 1 /\ Strings(part)[k] = <<NameCell(OrderedNames[i])>>
      BY <1>8 DEF Encodes
  <2>4. Count(part, Len(part)) <= N /\ Strings(cells)[k] = Strings(part)[k] /\ Count(part, Len(part)) \in Nat
      BY <2>1, <2>2, StringsOfStart, CountStep
  <2>5. k \in 1 .. N   BY <1>3, <2>4
  <2> QED BY <2>3, <2>4, <2>5
<1> HIDE DEF N
<1>9. ASSUME DecodeOptions(cells).valid
      PROVE  LET decoded == DecodeOptions(cells).options IN
                /\ IsOptions(decoded)
                /\ DOMAIN decoded \subseteq DOMAIN options
                /\ \A name \in DOMAIN decoded : decoded[name] = options[name]
                /\ Len(cells) >= 12 => DOMAIN options \cap KnownOptions \subseteq DOMAIN decoded
                /\ Len(cells) = Len(RawOptions(options)) => decoded = options
  <2> DEFINE decoded == DecodeOptions(cells).options
  <2>1. decoded = Pairs(Strings(cells)) /\ NamesAndValues(Strings(cells), N, options)   BY <1>6, <1>7, <1>9
  <2>2. /\ DOMAIN decoded \subseteq DOMAIN options
        /\ \A name \in DOMAIN decoded : decoded[name] = options[name]
        /\ \A name \in DOMAIN options :
              (\E k \in 1 .. N : k % 2 = 1 /\ Strings(cells)[k] = <<NameCell(name)>>) => name \in DOMAIN decoded
        /\ decoded = [name \in DOMAIN decoded |-> decoded[name]]
      BY <1>3, <1>4, <2>1, PairsAreOptions
  <2> HIDE DEF decoded
  <2>3. IsOptions(decoded)   BY <2>2 DEF IsOptions
  <2>4. ASSUME Len(cells) >= 12, NEW name \in DOMAIN options \cap KnownOptions PROVE name \in DOMAIN decoded
    <3>1. Len(known) <= Len(cells) /\ 3 \in Nat /\ 3 <= Len(OrderedNames)
        BY <1>2, <1>3, <2>4, NamesInOrder DEF Encodes, Cells
    <3>2. PICK i \in 1 .. 3 : OrderedNames[i] = name   BY NamesInOrder DEF KnownOptions
    <3> QED BY <1>2, <1>8, <2>2, <3>1, <3>2
  <2>5. ASSUME Len(cells) = Len(raw) PROVE decoded = options
    <3>1. IsStart(raw, raw) /\ Len(raw) <= Len(cells)   BY <1>3, <2>5 DEF IsStart
    <3>2. ASSUME NEW name \in DOMAIN options PROVE name \in DOMAIN decoded
      <4>1. name \in OptionNames   BY DEF IsOptions, OptionNames
      <4>2. PICK i \in 1 .. Len(OrderedNames) : OrderedNames[i] = name   BY <4>1, NamesInOrder
      <4>3. Len(OrderedNames) \in Nat /\ Len(OrderedNames) <= Len(OrderedNames)   BY NamesInOrder
      <4>4. \E k \in 1 .. N : k % 2 = 1 /\ Strings(cells)[k] = <<NameCell(name)>>
          BY <1>1, <1>8, <3>1, <4>2, <4>3
      <4> QED BY <2>2, <4>4
    <3>3. options = [name \in DOMAIN options |-> options[name]]   BY DEF IsOptions
    <3> QED BY <2>2, <3>2, <3>3
  <2> QED BY <2>2, <2>3, <2>4, <2>5 DEF decoded, raw
<1>10. ASSUME Len(cells) = Len(raw) PROVE DecodeOptions(cells).valid
  <2>1. cells = raw   BY <1>1, <1>10, SeqEqual DEF IsStart, Cells, raw
  <2>2. Terminated(cells) /\ N % 2 = 0   BY <1>1, <2>1 DEF Encodes, N
  <2> QED BY <1>5, <2>2 DEF DecodeOptions
<1> QED BY <1>9, <1>10 DEF raw

Types == {"RRQ", "WRQ", "DATA", "ACK", "ERROR", "OACK"}

(* packetType(): the opcode at the beginning tells the type. *)
LEMMA TypeOfOpcode ==
    ASSUME NEW type \in Types, NEW cells \in Cells, Len(cells) # 0, cells[1] = Opcodes[type]
    PROVE  PacketType(cells) = type
<1>1. DOMAIN Opcodes = Types   BY DEF Opcodes, Types
<1>2. cells # <<>> /\ Head(cells) = Opcodes[type]   BY DEF Cells
<1>3. \A t, u \in Types : Opcodes[t] = Opcodes[u] => t = u   BY DEF Opcodes, Types
<1> QED BY <1>1, <1>2, <1>3 DEF PacketType

(* A packet without a cell has no type, and is invalid. *)
LEMMA NoType == PacketType(<<>>) = "INVALID" /\ Decode(<<>>) = InvalidPacket
BY DEF PacketType, Decode

(* What a buffer of "size" bytes holds *)
LEMMA CutIsStart ==
    ASSUME NEW cells \in Cells, NEW size \in Nat
    PROVE  /\ Cut(cells, size) \in Cells /\ IsStart(Cut(cells, size), cells)
           /\ Len(Cut(cells, size)) = (IF Len(cells) < size THEN Len(cells) ELSE size)
           /\ Len(cells) <= size => Cut(cells, size) = cells
<1> DEFINE n == IF Len(cells) < size THEN Len(cells) ELSE size  c == SubSeq(cells, 1, n)
<1>1. n \in Nat /\ n <= Len(cells) /\ (Len(cells) <= size => n = Len(cells)) /\ Len(cells) \in Nat
    BY DEF Cells
<1>2. \A i \in 1 .. n : cells[i] \in Nat   BY <1>1, ElementOfSeq DEF Cells
<1> HIDE DEF n
<1>3. c \in Seq(Nat) /\ Len(c) = n /\ \A i \in 1 .. n : c[i] = cells[i]
  <2>1. /\ SubSeq(cells, 1, n) \in Seq(Nat)
        /\ Len(SubSeq(cells, 1, n)) = IF 1 <= n THEN n - 1 + 1 ELSE 0
        /\ \A i \in 1 .. n - 1 + 1 : SubSeq(cells, 1, n)[i] = cells[1 + i - 1]
      BY <1>1, <1>2, SubSeqProperties
  <2> QED BY <1>1, <2>1
<1>4. Len(cells) <= size => c = cells   BY <1>1, SubSeqFull DEF Cells
<1>5. Cut(cells, size) = c   BY DEF Cut, n
<1> QED BY <1>1, <1>3, <1>4, <1>5 DEF Cells, IsStart, n

(* A packet is an opcode and a body. *)
LEMMA PacketOf ==
    ASSUME NEW code \in Nat, NEW body \in Cells
    PROVE  LET cells == <<code>> \o body IN
           /\ cells \in Cells /\ Len(cells) = 1 + Len(body) /\ cells[1] = code /\ Len(cells) # 0
           /\ \A i \in 1 .. Len(body) : cells[1 + i] = body[i]
           /\ Tail(cells) = body
<1> DEFINE cells == <<code>> \o body
<1>1. <<code>> \in Seq(Nat) /\ Len(<<code>>) = 1 /\ body \in Seq(Nat) /\ Len(body) \in Nat   BY DEF Cells
<1>2. /\ cells \in Seq(Nat) /\ Len(cells) = 1 + Len(body)
      /\ \A i \in 1 .. 1 + Len(body) : cells[i] = IF i <= 1 THEN <<code>>[i] ELSE body[i - 1]
    BY <1>1, ConcatProperties
<1>3. cells[1] = code   BY <1>1, <1>2
<1>4. \A i \in 1 .. Len(body) : cells[1 + i] = body[i]
  <2> TAKE i \in 1 .. Len(body)
  <2>1. 1 + i \in 1 .. 1 + Len(body) /\ ~(1 + i <= 1) /\ (1 + i) - 1 = i   BY <1>1
  <2> QED BY <1>2, <2>1
<1> HIDE DEF cells
<1>5. cells # <<>>   BY <1>1, <1>2
<1>6. Tail(cells) = body
  <2>1. Tail(cells) \in Seq(Nat) /\ Len(Tail(cells)) = Len(body) /\ \A i \in 1 .. Len(body) : Tail(cells)[i] = cells[1 + i]
      BY <1>1, <1>2, <1>5, HeadTailProperties
  <2> QED BY <1>1, <1>4, <2>1, SeqEqual
<1> QED BY <1>1, <1>2, <1>3, <1>4, <1>6 DEF Cells, cells

(* Of a packet that is cut the body is cut, or there is nothing left. *)
LEMMA BodyIsCut ==
    ASSUME NEW code \in Nat, NEW body \in Cells, NEW size \in Nat
    PROVE  LET cut == Cut(<<code>> \o body, size) IN
           /\ size = 0 => cut = <<>>
           /\ size # 0 => /\ cut \in Cells /\ Len(cut) # 0 /\ cut[1] = code
                          /\ Tail(cut) = Cut(body, size - 1)
<1> DEFINE cells == <<code>> \o body  cut == Cut(cells, size)
<1>1. /\ cells \in Cells /\ Len(cells) = 1 + Len(body) /\ cells[1] = code
      /\ \A i \in 1 .. Len(body) : cells[1 + i] = body[i]
    BY PacketOf
<1> HIDE DEF cells
<1>2. cut \in Cells /\ IsStart(cut, cells) /\ Len(cut) = (IF Len(cells) < size THEN Len(cells) ELSE size)
    BY <1>1, CutIsStart
<1>3. Len(body) \in Nat   BY DEF Cells
<1> HIDE DEF cut
<1>4. size = 0 => cut = <<>>   BY <1>1, <1>2, <1>3, EmptySeq DEF Cells
<1>5. ASSUME size # 0 PROVE cut \in Cells /\ Len(cut) # 0 /\ cut[1] = code /\ Tail(cut) = Cut(body, size - 1)
  <2>1. size - 1 \in Nat /\ Len(cut) \in Nat /\ Len(cut) >= 1   BY <1>1, <1>2, <1>3, <1>5
  <2>2. cut[1] = code   BY <1>1, <1>2, <2>1 DEF IsStart
  <2>3. /\ Cut(body, size - 1) \in Cells /\ IsStart(Cut(body, size - 1), body)
        /\ Len(Cut(body, size - 1)) = (IF Len(body) < size - 1 THEN Len(body) ELSE size - 1)
      BY <2>1, CutIsStart
  <2>4. cut # <<>>   BY <2>1
  <2>5. Tail(cut) \in Seq(Nat) /\ Len(Tail(cut)) = Len(cut) - 1 /\ \A i \in 1 .. Len(Tail(cut)) : Tail(cut)[i] = cut[i + 1]
      BY <1>2, <2>4, HeadTailProperties DEF Cells
  <2>6. Len(Tail(cut)) = Len(Cut(body, size - 1))   BY <1>1, <1>2, <1>3, <2>3, <2>5
  <2>7. ASSUME NEW i \in 1 .. Len(Tail(cut)) PROVE Tail(cut)[i] = Cut(body, size - 1)[i]
    <3>1. i + 1 \in 1 .. Len(cut) /\ i \in 1 .. Len(body) /\ 1 + i = i + 1   BY <1>1, <1>2, <1>3, <2>1, <2>3, <2>5, <2>6
    <3>2. Tail(cut)[i] = cells[i + 1]   BY <1>2, <2>5, <3>1 DEF IsStart
    <3>3. Cut(body, size - 1)[i] = body[i]   BY <2>3, <2>6 DEF IsStart
    <3> QED BY <1>1, <3>1, <3>2, <3>3
  <2> DEFINE s == Tail(cut)  t == Cut(body, size - 1)
  <2>8. s \in Seq(Nat) /\ t \in Seq(Nat) /\ Len(s) = Len(t) /\ \A i \in 1 .. Len(s) : s[i] = t[i]
      BY <2>3, <2>5, <2>6, <2>7 DEF Cells
  <2> HIDE DEF s, t
  <2>9. s = t   BY <2>8, SeqEqual
  <2> QED BY <1>2, <2>1, <2>2, <2>9 DEF s, t
<1> QED BY <1>4, <1>5 DEF cut, cells

(* decodeBody(), by the type of a datagram *)
LEMMA DecodeByType ==
    ASSUME NEW type \in Types, NEW cells \in Cells, Len(cells) # 0, cells[1] = Opcodes[type]
    PROVE  Decode(cells) = CASE type = "RRQ"   -> DecodeRequest("RRQ", Tail(cells))
                             [] type = "WRQ"   -> DecodeRequest("WRQ", Tail(cells))
                             [] type = "DATA"  -> DecodeData(Tail(cells))
                             [] type = "ACK"   -> DecodeAck(Tail(cells))
                             [] type = "ERROR" -> DecodeError(Tail(cells))
                             [] type = "OACK"  -> DecodeOack(Tail(cells))
<1>1. PacketType(cells) = type   BY TypeOfOpcode
<1> QED BY <1>1 DEF Decode, Types

(* Opcodes of packets *)
LEMMA OpcodesAreCells == \A type \in Types : Opcodes[type] \in Nat
BY DEF Opcodes, Types

(* DATA: all of it, or nothing of use *)
LEMMA DataIsDecoded ==
    ASSUME NEW block \in Nat, NEW data \in Cells, NEW buffer \in Nat,
           buffer <= 1 \/ buffer >= 2 + Len(data)
    PROVE  /\ EncodeData(block, data) \in Cells
           /\ PacketType(EncodeData(block, data)) = "DATA"
           /\ Decode(Cut(EncodeData(block, data), buffer)) =
                IF buffer <= 1 THEN InvalidPacket ELSE [type |-> "DATA", block |-> block, data |-> data]
<1> DEFINE body == <<block>> \o data  code == Opcodes["DATA"]
<1>1. body \in Cells /\ Len(body) = 1 + Len(data) /\ body[1] = block /\ Tail(body) = data /\ Len(data) \in Nat
    BY PacketOf DEF Cells
<1>2. code \in Nat /\ "DATA" \in Types   BY OpcodesAreCells DEF Types
<1>3. EncodeData(block, data) = <<code>> \o body
  <2>1. <<code, block>> = <<code>> \o <<block>>   BY <1>2
  <2>2. <<code>> \in Seq(Nat) /\ <<block>> \in Seq(Nat) /\ data \in Seq(Nat)   BY <1>2 DEF Cells
  <2> QED BY <2>1, <2>2, Associative DEF EncodeData
<1> HIDE DEF body, code
<1>4. /\ EncodeData(block, data) \in Cells /\ Len(EncodeData(block, data)) # 0 /\ EncodeData(block, data)[1] = code
    BY <1>1, <1>2, <1>3, PacketOf
<1>5. PacketType(EncodeData(block, data)) = "DATA"   BY <1>2, <1>4, TypeOfOpcode DEF code
<1> DEFINE cut == Cut(EncodeData(block, data), buffer)
<1>6. CASE buffer = 0
  <2>1. cut = <<>>   BY <1>1, <1>2, <1>3, <1>6, BodyIsCut
  <2> QED BY <1>4, <1>5, <1>6, <2>1, NoType
<1>7. CASE buffer # 0
  <2>0. cut = Cut(<<code>> \o body, buffer)   BY <1>3
  <2>1. /\ cut \in Cells /\ Len(cut) # 0 /\ cut[1] = code /\ Tail(cut) = Cut(body, buffer - 1)
      BY <1>1, <1>2, <1>7, <2>0, BodyIsCut
  <2>2. buffer - 1 \in Nat   BY <1>7
  <2>3. Decode(cut) = DecodeData(Cut(body, buffer - 1))   BY <1>2, <2>1, DecodeByType DEF code
  <2>4. CASE buffer = 1
    <3>1. Len(Cut(body, buffer - 1)) = 0 /\ Cut(body, buffer - 1) \in Cells   BY <1>1, <2>2, <2>4, CutIsStart
    <3>2. Cut(body, buffer - 1) = <<>>   BY <3>1, EmptySeq DEF Cells
    <3> QED BY <1>4, <1>5, <2>3, <2>4, <3>2 DEF DecodeData
  <2>5. CASE buffer # 1
    <3>1. Len(body) <= buffer - 1   BY <1>1, <1>7, <2>5
    <3>2. Cut(body, buffer - 1) = body   BY <1>1, <2>2, <3>1, CutIsStart
    <3>3. body # <<>> /\ Head(body) = block   BY <1>1 DEF Cells
    <3>4. DecodeData(body) = [type |-> "DATA", block |-> block, data |-> data]   BY <1>1, <3>3 DEF DecodeData
    <3>5. ~(buffer <= 1)   BY <1>7, <2>5
    <3> QED BY <1>4, <1>5, <2>3, <3>2, <3>4, <3>5
  <2> QED BY <2>4, <2>5
<1> QED BY <1>6, <1>7

(* ACK *)
LEMMA AckIsDecoded ==
    ASSUME NEW block \in Nat, NEW buffer \in Nat
    PROVE  /\ EncodeAck(block) \in Cells
           /\ PacketType(EncodeAck(block)) = "ACK"
           /\ Decode(Cut(EncodeAck(block), buffer)) =
                IF buffer <= 1 THEN InvalidPacket ELSE [type |-> "ACK", block |-> block]
<1> DEFINE body == <<block>>  code == Opcodes["ACK"]
<1>1. body \in Cells /\ Len(body) = 1 /\ body[1] = block   BY DEF Cells
<1>2. code \in Nat /\ "ACK" \in Types   BY OpcodesAreCells DEF Types
<1>3. EncodeAck(block) = <<code>> \o body   BY <1>2 DEF EncodeAck
<1> HIDE DEF body, code
<1>4. EncodeAck(block) \in Cells /\ Len(EncodeAck(block)) # 0 /\ EncodeAck(block)[1] = code
    BY <1>1, <1>2, <1>3, PacketOf
<1>5. PacketType(EncodeAck(block)) = "ACK"   BY <1>2, <1>4, TypeOfOpcode DEF code
<1> DEFINE cut == Cut(EncodeAck(block), buffer)
<1>6. CASE buffer = 0
  <2>1. cut = <<>>   BY <1>1, <1>2, <1>3, <1>6, BodyIsCut
  <2> QED BY <1>4, <1>5, <1>6, <2>1, NoType
<1>7. CASE buffer # 0
  <2>0. cut = Cut(<<code>> \o body, buffer)   BY <1>3
  <2>1. /\ cut \in Cells /\ Len(cut) # 0 /\ cut[1] = code /\ Tail(cut) = Cut(body, buffer - 1)
      BY <1>1, <1>2, <1>7, <2>0, BodyIsCut
  <2>2. buffer - 1 \in Nat   BY <1>7
  <2>3. Decode(cut) = DecodeAck(Cut(body, buffer - 1))   BY ZenonT(40), <1>2, <2>1, DecodeByType DEF code
  <2>4. CASE buffer = 1
    <3>1. Len(Cut(body, buffer - 1)) = 0   BY <1>1, <2>2, <2>4, CutIsStart
    <3> QED BY <1>4, <1>5, <2>3, <2>4, <3>1 DEF DecodeAck
  <2>5. CASE buffer # 1
    <3>1. Len(body) <= buffer - 1   BY <1>1, <1>7, <2>5
    <3>2. Cut(body, buffer - 1) = body   BY <1>1, <2>2, <3>1, CutIsStart
    <3>3. Head(body) = block   BY <1>1 DEF Cells
    <3> QED BY <1>1, <1>4, <1>5, <1>7, <2>3, <2>5, <3>2, <3>3 DEF DecodeAck
  <2> QED BY <2>4, <2>5
<1> QED BY <1>6, <1>7

(* ERROR: it fits every buffer that has room for more than a header. *)
LEMMA ErrorIsDecoded ==
    ASSUME NEW code \in ErrorCodes, NEW buffer \in Nat, buffer <= 1 \/ buffer >= 4
    PROVE  /\ EncodeError(code) \in Cells
           /\ PacketType(EncodeError(code)) = "ERROR"
           /\ Decode(Cut(EncodeError(code), buffer)) =
                IF buffer <= 1 THEN InvalidPacket ELSE [type |-> "ERROR", code |-> code]
<1> DEFINE body == <<CodeCells[code], Letter, NUL>>  op == Opcodes["ERROR"]
<1>0. CodeCells[code] \in Nat /\ \A c \in ErrorCodes : CodeCells[c] = CodeCells[code] => c = code
    BY DEF ErrorCodes, CodeCells
<1>1. body \in Cells /\ Len(body) = 3 /\ body[1] = CodeCells[code] /\ body[3] = NUL
    BY <1>0 DEF Cells, NUL, Letter
<1>2. op \in Nat /\ "ERROR" \in Types   BY OpcodesAreCells DEF Types
<1>3. EncodeError(code) = <<op>> \o body   BY <1>0, <1>2 DEF EncodeError
<1> HIDE DEF body, op
<1>4. EncodeError(code) \in Cells /\ Len(EncodeError(code)) # 0 /\ EncodeError(code)[1] = op
    BY <1>1, <1>2, <1>3, PacketOf
<1>5. PacketType(EncodeError(code)) = "ERROR"   BY <1>2, <1>4, TypeOfOpcode DEF op
<1> DEFINE cut == Cut(EncodeError(code), buffer)
<1>6. CASE buffer = 0
  <2>1. cut = <<>>   BY <1>1, <1>2, <1>3, <1>6, BodyIsCut
  <2> QED BY <1>4, <1>5, <1>6, <2>1, NoType
<1>7. CASE buffer # 0
  <2>0. cut = Cut(<<op>> \o body, buffer)   BY <1>3
  <2>1. /\ cut \in Cells /\ Len(cut) # 0 /\ cut[1] = op /\ Tail(cut) = Cut(body, buffer - 1)
      BY <1>1, <1>2, <1>7, <2>0, BodyIsCut
  <2>2. buffer - 1 \in Nat   BY <1>7
  <2>3. Decode(cut) = DecodeError(Cut(body, buffer - 1))   BY ZenonT(40), <1>2, <2>1, DecodeByType DEF op
  <2>4. CASE buffer = 1
    <3>1. Len(Cut(body, buffer - 1)) = 0   BY <1>1, <2>2, <2>4, CutIsStart
    <3> QED BY <1>4, <1>5, <2>3, <2>4, <3>1 DEF DecodeError
  <2>5. CASE buffer # 1
    <3>1. Len(body) <= buffer - 1   BY <1>1, <1>7, <2>5
    <3>2. Cut(body, buffer - 1) = body   BY <1>1, <2>2, <3>1, CutIsStart
    <3>3. Head(body) = CodeCells[code]   BY <1>1 DEF Cells
    <3>4. (CHOOSE c \in ErrorCodes : CodeCells[c] = Head(body)) = code   BY <1>0, <3>3
    <3>5. DecodeError(body) = [type |-> "ERROR", code |-> code]
      <4>1. Last(body) = NUL /\ ~(Len(body) < 2)   BY <1>1 DEF Last
      <4> QED BY <3>4, <4>1 DEF DecodeError
    <3>6. ~(buffer <= 1)   BY <1>7, <2>5
    <3> QED BY <1>4, <1>5, <2>3, <3>2, <3>5, <3>6
  <2> QED BY <2>4, <2>5
<1> QED BY <1>6, <1>7

(* OACK: refused, or the options of the library are as they have been sent. *)
LEMMA OackIsDecoded ==
    ASSUME NEW options, IsOptions(options), NEW buffer \in Nat, buffer <= 1 \/ buffer >= 13
    PROVE  LET packet == Decode(Cut(EncodeOack(options), buffer)) IN
           /\ EncodeOack(options) \in Cells
           /\ PacketType(EncodeOack(options)) = "OACK"
           /\ packet = InvalidPacket \/ packet = [type |-> "OACK", options |-> packet.options]
           /\ packet.type = "OACK" =>
                /\ buffer > 1
                /\ IsOptions(packet.options)
                /\ DOMAIN packet.options \subseteq DOMAIN options
                /\ \A name \in DOMAIN packet.options : packet.options[name] = options[name]
                /\ DOMAIN options \cap KnownOptions \subseteq DOMAIN packet.options
           /\ DOMAIN options # {} /\ Len(EncodeOack(options)) <= buffer =>
                packet.type = "OACK" /\ packet.options = options
<1> DEFINE body == RawOptions(options)  code == Opcodes["OACK"]  packet == Decode(Cut(EncodeOack(options), buffer))
<1>1. body \in Cells /\ Len(body) \in Nat /\ Encodes(body, options, Len(OrderedNames))
  <2>1. Encodes(body, options, Len(OrderedNames))   BY RawEncodes
  <2>2. body \in Cells   BY <2>1 DEF Encodes
  <2> QED BY <2>1, <2>2 DEF Cells
<1>2. code \in Nat /\ "OACK" \in Types   BY OpcodesAreCells DEF Types
<1>3. EncodeOack(options) = <<code>> \o body   BY DEF EncodeOack
<1> HIDE DEF body, code, packet
<1>4. EncodeOack(options) \in Cells /\ Len(EncodeOack(options)) = 1 + Len(body) /\ EncodeOack(options)[1] = code
      /\ Len(EncodeOack(options)) # 0
    BY <1>1, <1>2, <1>3, PacketOf
<1>5. PacketType(EncodeOack(options)) = "OACK"   BY <1>2, <1>4, TypeOfOpcode DEF code
<1> DEFINE cut == Cut(EncodeOack(options), buffer)
<1>6. CASE buffer = 0
  <2>1. cut = <<>>   BY <1>1, <1>2, <1>3, <1>6, BodyIsCut
  <2>2. packet = InvalidPacket   BY <2>1, NoType DEF packet
  <2>3. packet.type # "OACK" /\ ~(Len(EncodeOack(options)) <= buffer)   BY <1>1, <1>4, <1>6, <2>2 DEF InvalidPacket
  <2> QED BY <1>4, <1>5, <2>2, <2>3 DEF packet
<1>7. CASE buffer # 0
  <2> DEFINE part == Cut(body, buffer - 1)  decoded == DecodeOptions(part)
  <2>0. cut = Cut(<<code>> \o body, buffer)   BY <1>3
  <2>1. /\ cut \in Cells /\ Len(cut) # 0 /\ cut[1] = code /\ Tail(cut) = part
      BY <1>1, <1>2, <1>7, <2>0, BodyIsCut
  <2>2. buffer - 1 \in Nat   BY <1>7
  <2>3. /\ part \in Cells /\ IsStart(part, body)
        /\ Len(part) = (IF Len(body) < buffer - 1 THEN Len(body) ELSE buffer - 1)
        /\ Len(body) <= buffer - 1 => part = body
      BY <1>1, <2>2, CutIsStart
  <2>4. packet = DecodeOack(part)   BY ZenonT(40), <1>2, <2>1, DecodeByType DEF code, packet
  <2> HIDE DEF part, decoded
  <2>5. packet = IF part = <<>> \/ ~decoded.valid THEN InvalidPacket ELSE [type |-> "OACK", options |-> decoded.options]
      BY <2>4 DEF DecodeOack, decoded
  <2>6. /\ decoded.valid =>
              /\ IsOptions(decoded.options)
              /\ DOMAIN decoded.options \subseteq DOMAIN options
              /\ \A name \in DOMAIN decoded.options : decoded.options[name] = options[name]
              /\ Len(part) >= 12 => DOMAIN options \cap KnownOptions \subseteq DOMAIN decoded.options
              /\ Len(part) = Len(body) => decoded.options = options
        /\ Len(part) = Len(body) => decoded.valid
      BY <2>3, OptionsAreDecoded DEF body, decoded
  <2>7. packet = InvalidPacket \/ packet = [type |-> "OACK", options |-> packet.options]   BY <2>5
  <2>8. ASSUME packet.type = "OACK"
        PROVE  /\ buffer > 1
               /\ IsOptions(packet.options)
               /\ DOMAIN packet.options \subseteq DOMAIN options
               /\ \A name \in DOMAIN packet.options : packet.options[name] = options[name]
               /\ DOMAIN options \cap KnownOptions \subseteq DOMAIN packet.options
    <3>1. part # <<>> /\ decoded.valid /\ packet.options = decoded.options   BY <2>5, <2>8 DEF InvalidPacket
    <3>2. buffer > 1
      <4>1. Len(part) # 0   BY <2>3, <3>1, EmptySeq DEF Cells
      <4> QED BY <1>1, <1>7, <2>3, <4>1
    <3>3. DOMAIN options \cap KnownOptions \subseteq DOMAIN packet.options
      <4>1. buffer - 1 >= 12   BY <3>2
      <4>2. Len(part) >= 12 \/ Len(part) = Len(body)   BY <1>1, <2>3, <4>1
      <4> QED BY <2>6, <3>1, <4>2
    <3> QED BY <2>6, <3>1, <3>2, <3>3
  <2>9. ASSUME DOMAIN options # {}, Len(EncodeOack(options)) <= buffer
        PROVE  packet.type = "OACK" /\ packet.options = options
    <3>1. Len(body) <= buffer - 1   BY <1>1, <1>4, <1>7, <2>9
    <3>2. part = body /\ Len(part) = Len(body)   BY <2>3, <3>1
    <3>3. body # <<>>
      <4>1. PICK name \in OptionNames : name \in DOMAIN options   BY <2>9 DEF IsOptions, OptionNames
      <4>2. PICK i \in 1 .. Len(OrderedNames) : OrderedNames[i] = name   BY NamesInOrder
      <4>3. Count(body, Len(body)) # 0 /\ Count(body, Len(body)) \in Nat
        <5>1. \E k \in 1 .. Count(body, Len(body)) : TRUE   BY <1>1, <4>1, <4>2 DEF Encodes
        <5>2. Count(body, Len(body)) \in Nat   BY <1>1, CountStep
        <5> QED BY <5>1, <5>2
      <4>4. Len(body) # 0   BY <4>3, CountStep
      <4> QED BY <4>4, EmptySeq
    <3> QED BY <2>5, <2>6, <3>2, <3>3
  <2> QED BY <1>4, <1>5, <2>7, <2>8, <2>9 DEF packet
<1> QED BY <1>6, <1>7

(* Cells one after the other are the sequence of them. *)
LEMMA ThreeCells == \A a, b, c \in Nat : (<<a>> \o <<b>>) \o <<c>> = <<a, b, c>>
<1> TAKE a, b, c \in Nat
<1> DEFINE x == <<a>>  y == <<b>>  z == <<c>>  two == <<a, b>>  three == <<a, b, c>>
<1>1. /\ x \in Seq(Nat) /\ Len(x) = 1 /\ x[1] = a
      /\ y \in Seq(Nat) /\ Len(y) = 1 /\ y[1] = b
      /\ z \in Seq(Nat) /\ Len(z) = 1 /\ z[1] = c
      /\ two \in Seq(Nat) /\ Len(two) = 2 /\ two[1] = a /\ two[2] = b
      /\ three \in Seq(Nat) /\ Len(three) = 3 /\ three[1] = a /\ three[2] = b /\ three[3] = c
    OBVIOUS
<1> HIDE DEF x, y, z, two, three
<1>2. x \o y = two
  <2>1. /\ x \o y \in Seq(Nat) /\ Len(x \o y) = Len(x) + Len(y)
        /\ \A i \in 1 .. Len(x) + Len(y) :
              (x \o y)[i] = IF i <= Len(x) THEN x[i] ELSE y[i - Len(x)]
      BY <1>1, ConcatProperties
  <2>2. Len(x) = 1 /\ Len(x) + Len(y) = 2   BY <1>1
  <2>3. (x \o y)[1] = x[1]
    <3>1. 1 \in 1 .. Len(x) + Len(y) /\ 1 <= Len(x)   BY <2>2
    <3> QED BY <2>1, <3>1
  <2>4. (x \o y)[2] = y[1]
    <3>1. 2 \in 1 .. Len(x) + Len(y) /\ ~(2 <= Len(x)) /\ 2 - Len(x) = 1   BY <2>2
    <3> QED BY <2>1, <3>1
  <2>5. Len(x \o y) = Len(two)   BY <1>1, <2>1, <2>2
  <2>6. \A i \in 1 .. Len(two) : i = 1 \/ i = 2   BY <1>1
  <2>7. \A i \in 1 .. Len(two) : (x \o y)[i] = two[i]   BY <1>1, <2>3, <2>4, <2>6
  <2> QED BY <1>1, <2>1, <2>5, <2>7, SeqEqual
<1>3. two \o z = three
  <2>1. /\ two \o z \in Seq(Nat) /\ Len(two \o z) = Len(two) + Len(z)
        /\ \A i \in 1 .. Len(two) + Len(z) :
              (two \o z)[i] = IF i <= Len(two) THEN two[i] ELSE z[i - Len(two)]
      BY <1>1, ConcatProperties
  <2>2. Len(two) = 2 /\ Len(two) + Len(z) = 3   BY <1>1
  <2>3. (two \o z)[1] = two[1] /\ (two \o z)[2] = two[2]
    <3>1. /\ 1 \in 1 .. Len(two) + Len(z) /\ 1 <= Len(two)
          /\ 2 \in 1 .. Len(two) + Len(z) /\ 2 <= Len(two)
        BY <2>2
    <3> QED BY <2>1, <3>1
  <2>4. (two \o z)[3] = z[1]
    <3>1. 3 \in 1 .. Len(two) + Len(z) /\ ~(3 <= Len(two)) /\ 3 - Len(two) = 1   BY <2>2
    <3> QED BY <2>1, <3>1
  <2>5. Len(two \o z) = Len(three)   BY <1>1, <2>1, <2>2
  <2>6. \A i \in 1 .. Len(three) : i = 1 \/ i = 2 \/ i = 3   BY <1>1
  <2>7. \A i \in 1 .. Len(three) : (two \o z)[i] = three[i]   BY <1>1, <2>3, <2>4, <2>6
  <2> QED BY <1>1, <2>1, <2>5, <2>7, SeqEqual
<1> QED BY <1>2, <1>3 DEF x, y, z, three

(* The filename and the mode are the first strings of a request. *)
LEMMA NameAndMode ==
    ASSUME NEW name \in Seq({Letter}), NEW mode \in Modes
    PROVE  \E p \in Cells : /\ p = name \o <<NUL, ModeCells[mode], NUL>>
                            /\ Len(p) = Len(name) + 3 /\ Count(p, Len(p)) = 2
                            /\ Strings(p)[1] = name /\ Strings(p)[2] = <<ModeCells[mode]>>
                            /\ Ends(p)[2] = Len(p)
<1> DEFINE m == <<ModeCells[mode]>>  e == <<>>  v == e \o name \o <<NUL>>  p == v \o m \o <<NUL>>
<1>1. e \in Cells /\ Terminated(e) /\ Len(e) = 0 /\ Count(e, 0) = 0   BY CountStep DEF Cells, Terminated
<1>2. name \in Cells /\ Len(name) \in Nat /\ \A i \in 1 .. Len(name) : name[i] # NUL
  <2>1. name \in Seq(Nat)   BY SeqMonotonic DEF Letter
  <2>2. \A i \in 1 .. Len(name) : name[i] \in {Letter}   BY ElementOfSeq
  <2> QED BY <2>1, <2>2 DEF Cells, Letter, NUL
<1>3. m \in Cells /\ Len(m) = 1 /\ \A i \in 1 .. Len(m) : m[i] # NUL /\ ModeCells[mode] \in Nat
    BY DEF Cells, Modes, ModeCells, NUL
<1> HIDE DEF e, m
<1>4. v \in Cells /\ OneMore(e, name, v)   BY <1>1, <1>2, OneMoreAppended
<1>5. p \in Cells /\ OneMore(v, m, p)   BY <1>3, <1>4, OneMoreAppended
<1>6. p = name \o <<NUL, ModeCells[mode], NUL>>
  <2>1. v = name \o <<NUL>>   BY <1>2, ConcatEmptySeq DEF Cells, e
  <2>2. <<NUL>> \in Seq(Nat) /\ m \in Seq(Nat) /\ name \in Seq(Nat)   BY <1>2, <1>3 DEF Cells, NUL
  <2>3. <<NUL>> \o m \in Seq(Nat)   BY <2>2, ConcatProperties
  <2>4. (name \o <<NUL>>) \o m = name \o (<<NUL>> \o m)   BY <2>2, Associative
  <2>5. (name \o (<<NUL>> \o m)) \o <<NUL>> = name \o ((<<NUL>> \o m) \o <<NUL>>)   BY <2>2, <2>3, Associative
  <2>6. (<<NUL>> \o m) \o <<NUL>> = <<NUL, ModeCells[mode], NUL>>   
    <3>1. ModeCells[mode] \in Nat /\ NUL \in Nat   BY DEF Modes, ModeCells, NUL
    <3> QED BY <3>1, ThreeCells DEF m
  <2> QED BY <2>1, <2>4, <2>5, <2>6
<1> HIDE DEF v, p
<1>7. Terminated(v) /\ IsStart(e, v) /\ Len(v) = Len(name) + 1 /\ Count(v, Len(v)) = 1 /\ Strings(v)[1] = name
  <2>1. Terminated(v) /\ IsStart(e, v) /\ Count(v, Len(v)) = Count(e, Len(e)) + 1 /\ Strings(v)[Count(v, Len(v))] = name
      BY <1>1, <1>2, <1>4, OneMoreString
  <2>2. Len(v) = Len(name) + 1   BY <1>1, <1>2, <1>4 DEF OneMore
  <2> QED BY <1>1, <2>1, <2>2
<1>8. IsStart(v, p) /\ Len(p) = Len(name) + 3 /\ Count(p, Len(p)) = 2 /\ Strings(p)[2] = m /\ Ends(p)[2] = Len(p)
  <2>1. /\ IsStart(v, p) /\ Count(p, Len(p)) = Count(v, Len(v)) + 1 /\ Strings(p)[Count(p, Len(p))] = m
        /\ Ends(p)[Count(p, Len(p))] = Len(p)
      BY <1>3, <1>4, <1>5, <1>7, OneMoreString
  <2>2. Len(p) = Len(name) + 3   BY <1>2, <1>3, <1>5, <1>7 DEF OneMore
  <2> QED BY <1>7, <2>1, <2>2
<1>9. Strings(p)[1] = name
  <2>1. 1 \in 1 .. Count(v, Len(v))   BY <1>7
  <2> QED BY <1>4, <1>5, <1>7, <1>8, <2>1, StringsOfStart
<1> QED BY <1>5, <1>6, <1>8, <1>9 DEF m

(* What is decoded of a request with the given contents *)
AsSent(packet, type, name, mode, options) ==
    /\ packet = [type |-> type, name |-> name, mode |-> mode, options |-> packet.options]
    /\ IsOptions(packet.options)
    /\ DOMAIN packet.options \subseteq DOMAIN options
    /\ \A n \in DOMAIN packet.options : packet.options[n] = options[n]

(* decodeBody() of a request: it is refused, or the name and the mode are as they have been sent, *)
(* and so are the options that are decoded.                                                        *)
LEMMA BodyIsDecoded ==
    ASSUME NEW type, type # "INVALID", NEW name \in Seq({Letter}), NEW mode \in Modes, NEW options, IsOptions(options),
           NEW body \in Cells, IsStart(body, name \o <<NUL, ModeCells[mode], NUL>> \o RawOptions(options))
    PROVE  LET packet == DecodeRequest(type, body)
               full   == name \o <<NUL, ModeCells[mode], NUL>> \o RawOptions(options)
           IN
           /\ packet = InvalidPacket \/ AsSent(packet, type, name, mode, options)
           /\ Len(body) = Len(full) => packet.type = type /\ packet.options = options
<1> DEFINE raw == RawOptions(options)  packet == DecodeRequest(type, body)  full == name \o <<NUL, ModeCells[mode], NUL>> \o raw
<1>1. raw \in Cells /\ Encodes(raw, options, Len(OrderedNames)) /\ Len(raw) \in Nat
  <2>1. Encodes(raw, options, Len(OrderedNames))   BY RawEncodes
  <2>2. raw \in Cells   BY <2>1 DEF Encodes
  <2> QED BY <2>1, <2>2 DEF Cells
<1>2. PICK p \in Cells : /\ p = name \o <<NUL, ModeCells[mode], NUL>>
                         /\ Len(p) = Len(name) + 3 /\ Count(p, Len(p)) = 2
                         /\ Strings(p)[1] = name /\ Strings(p)[2] = <<ModeCells[mode]>>
                         /\ Ends(p)[2] = Len(p)
    BY NameAndMode
<1> HIDE DEF raw
<1>3. full = p \o raw   BY <1>2
<1>4. /\ full \in Cells /\ Len(full) = Len(p) + Len(raw) /\ IsStart(p, full) /\ Len(p) \in Nat
      /\ \A i \in 1 .. Len(raw) : full[Len(p) + i] = raw[i]
  <2>1. /\ full \in Seq(Nat) /\ Len(full) = Len(p) + Len(raw)
        /\ \A i \in 1 .. Len(p) + Len(raw) : full[i] = IF i <= Len(p) THEN p[i] ELSE raw[i - Len(p)]
      BY ZenonT(40), <1>1, <1>3, ConcatProperties DEF Cells
  <2>2. Len(p) \in Nat   BY DEF Cells
  <2> HIDE DEF full
  <2>3. IsStart(p, full)   BY <1>1, <2>1, <2>2 DEF IsStart
  <2>4. ASSUME NEW i \in 1 .. Len(raw) PROVE full[Len(p) + i] = raw[i]
    <3>1. Len(p) + i \in 1 .. Len(p) + Len(raw) /\ ~(Len(p) + i <= Len(p)) /\ (Len(p) + i) - Len(p) = i   BY <1>1, <2>2
    <3> QED BY <2>1, <3>1
  <2> QED BY <2>1, <2>2, <2>3, <2>4 DEF Cells
<1>5. IsStart(body, full) /\ Len(body) \in Nat /\ Len(body) <= Len(full)   
  <2>1. IsStart(body, full)   BY DEF raw
  <2> HIDE DEF full
  <2> QED BY <2>1 DEF Cells, IsStart
<1> HIDE DEF full
<1>6. DOMAIN Strings(body) = 1 .. Count(body, Len(body)) /\ Count(body, Len(body)) \in Nat /\ Len(Strings(body)) = Count(body, Len(body))
  <2>1. DOMAIN Strings(body) = 1 .. Count(body, Len(body)) /\ Count(body, Len(body)) \in Nat
      BY <1>4, <1>5, StringsOfStart, CountStep
  <2> QED BY <2>1 DEF Strings, Ends
<1>7. ASSUME Count(body, Len(body)) >= 2
      PROVE  Strings(body)[1] = name /\ Strings(body)[2] = <<ModeCells[mode]>> /\ Ends(body)[2] = Len(p)
  <2>1. 1 \in 1 .. Count(body, Len(body)) /\ 2 \in 1 .. Count(body, Len(body))   BY <1>6, <1>7
  <2>2. Strings(body)[1] = Strings(full)[1] /\ Strings(body)[2] = Strings(full)[2] /\ Ends(body)[2] = Ends(full)[2]
      BY <1>4, <1>5, <2>1, StringsOfStart
  <2>3. 1 \in 1 .. Count(p, Len(p)) /\ 2 \in 1 .. Count(p, Len(p))   BY <1>2
  <2>4. Strings(p)[1] = Strings(full)[1] /\ Strings(p)[2] = Strings(full)[2] /\ Ends(p)[2] = Ends(full)[2]
      BY <1>4, <2>3, StringsOfStart
  <2> QED BY <1>2, <2>2, <2>4
<1> DEFINE rest == SubSeq(body, Len(p) + 1, Len(body))  decoded == DecodeOptions(rest)
<1>8. rest \in Cells /\ IsStart(rest, raw) /\ (Len(body) = Len(full) => Len(rest) = Len(raw))
  <2> DEFINE a == Len(p) + 1  b == Len(body)
  <2>1. a \in Int /\ b \in Int /\ a >= 1 /\ \A i \in a .. b : body[i] \in Nat   BY <1>4, <1>5, ElementOfSeq DEF Cells
  <2>2. /\ SubSeq(body, a, b) \in Seq(Nat)
        /\ Len(SubSeq(body, a, b)) = IF a <= b THEN b - a + 1 ELSE 0
        /\ \A i \in 1 .. b - a + 1 : SubSeq(body, a, b)[i] = body[a + i - 1]
    <3> HIDE DEF a, b
    <3> QED BY <2>1, SubSeqProperties
  <2>3. Len(rest) <= Len(raw) /\ (Len(body) = Len(full) => Len(rest) = Len(raw))   BY <1>1, <1>4, <1>5, <2>2
  <2>4. ASSUME NEW i \in 1 .. Len(rest) PROVE rest[i] = raw[i]
    <3>1. i \in 1 .. b - a + 1 /\ a + i - 1 = Len(p) + i /\ i \in 1 .. Len(raw) /\ Len(p) + i \in 1 .. Len(body)
        BY <1>1, <1>4, <1>5, <2>2, <2>3
    <3>2. rest[i] = body[Len(p) + i]   BY <2>2, <3>1
    <3>3. body[Len(p) + i] = full[Len(p) + i]   BY <1>5, <3>1 DEF IsStart
    <3> QED BY <1>4, <3>1, <3>2, <3>3
  <2> QED BY <2>2, <2>3, <2>4 DEF Cells, IsStart
<1> HIDE DEF rest, decoded
<1>9. /\ decoded.valid =>
            /\ IsOptions(decoded.options)
            /\ DOMAIN decoded.options \subseteq DOMAIN options
            /\ \A n \in DOMAIN decoded.options : decoded.options[n] = options[n]
            /\ Len(rest) = Len(raw) => decoded.options = options
      /\ Len(rest) = Len(raw) => decoded.valid
    BY <1>8, OptionsAreDecoded DEF raw, decoded
<1>10. \A m \in Modes : <<ModeCells[mode]>> = <<ModeCells[m]>> => m = mode
    BY DEF Modes, ModeCells
<1>11. CASE body = <<>> \/ ~Terminated(body) \/ Len(Strings(body)) < 2
  <2>1. packet = InvalidPacket   BY <1>11 DEF DecodeRequest
  <2>2. Len(body) # Len(full)
    <3> SUFFICES ASSUME Len(body) = Len(full) PROVE FALSE   OBVIOUS
    <3>1. body = full   BY <1>4, <1>5, SeqEqual DEF IsStart, Cells
    <3>2. Len(full) >= 3   BY <1>1, <1>2, <1>4
    <3>3. Terminated(full)
      <4>1. CASE raw = <<>>
        <5>1. full = p   BY <1>3, <4>1, ConcatEmptySeq DEF Cells, full
        <5>2. p[Len(p)] = NUL
          <6>1. 2 \in 1 .. Count(p, Len(p))   BY <1>2
          <6> QED BY <1>2, <6>1, EndsOf
        <5> QED BY <5>1, <5>2 DEF Terminated, Last
      <4>2. CASE raw # <<>>
        <5>1. raw[Len(raw)] = NUL   BY <1>1, <4>2 DEF Encodes, Terminated, Last
        <5>2. Len(raw) \in 1 .. Len(raw)   BY <1>1, <4>2, EmptySeq DEF Cells
        <5>3. full[Len(p) + Len(raw)] = raw[Len(raw)]   BY <1>4, <5>2
        <5> QED BY <1>4, <5>1, <5>3 DEF Terminated, Last
      <4> QED BY <4>1, <4>2
    <3>4. Count(full, Len(full)) >= 2   BY <1>2, <1>4, StringsOfStart
    <3> QED BY <1>6, <1>11, <3>1, <3>2, <3>3, <3>4
  <2> QED BY <2>1, <2>2 DEF packet, full, raw
<1>12. CASE ~(body = <<>> \/ ~Terminated(body) \/ Len(Strings(body)) < 2)
  <2>1. Count(body, Len(body)) >= 2   BY <1>6, <1>12
  <2>2. (IF \E m \in Modes : Strings(body)[2] = <<ModeCells[m]>>
         THEN CHOOSE m \in Modes : Strings(body)[2] = <<ModeCells[m]>> ELSE "Invalid") = mode
      BY <1>7, <1>10, <2>1
  <2>3. packet = IF ~decoded.valid THEN InvalidPacket
                 ELSE [type |-> type, name |-> Strings(body)[1],
                       mode |-> IF \E m \in Modes : Strings(body)[2] = <<ModeCells[m]>>
                                THEN CHOOSE m \in Modes : Strings(body)[2] = <<ModeCells[m]>> ELSE "Invalid",
                       options |-> decoded.options]
    <3>1. decoded = DecodeOptions(SubSeq(body, Ends(body)[2] + 1, Len(body)))   BY <1>7, <2>1 DEF decoded, rest
    <3> QED BY <1>12, <3>1 DEF DecodeRequest
  <2>4. packet = IF ~decoded.valid THEN InvalidPacket
                 ELSE [type |-> type, name |-> name, mode |-> mode, options |-> decoded.options]
      BY <1>7, <2>1, <2>2, <2>3
  <2> HIDE DEF packet
  <2>5. ASSUME decoded.valid
        PROVE  /\ packet = [type |-> type, name |-> name, mode |-> mode, options |-> packet.options]
               /\ packet.options = decoded.options /\ packet.type = type
      BY <2>4, <2>5
  <2>6. CASE decoded.valid   BY <1>8, <1>9, <2>5, <2>6 DEF packet, full, raw, AsSent
  <2>7. CASE ~decoded.valid   BY <1>8, <1>9, <2>4, <2>7 DEF packet, full, raw
  <2> QED BY <2>6, <2>7
<1> QED BY <1>11, <1>12

(* A request is made of cells, and tells its type. *)
LEMMA RequestIsCells ==
    ASSUME NEW type \in {"RRQ", "WRQ"}, NEW name \in Seq({Letter}), NEW mode \in Modes,
           NEW options, IsOptions(options)
    PROVE  LET cells == EncodeRequest(type, name, mode, options)
               body  == name \o <<NUL, ModeCells[mode], NUL>> \o RawOptions(options)
           IN
           /\ cells \in Cells /\ PacketType(cells) = type
           /\ body \in Cells /\ cells = <<Opcodes[type]>> \o body
<1> DEFINE cells == EncodeRequest(type, name, mode, options)  code == Opcodes[type]
           body == name \o <<NUL, ModeCells[mode], NUL>> \o RawOptions(options)
<1>1. code \in Nat /\ type \in Types   BY OpcodesAreCells DEF Types
<1>2. body \in Cells /\ cells = <<code>> \o body
  <2> DEFINE x == <<code>>  y == <<NUL, ModeCells[mode], NUL>>  z == RawOptions(options)
  <2>1. x \in Seq(Nat) /\ y \in Seq(Nat)   BY <1>1 DEF NUL, Modes, ModeCells
  <2>2. z \in Seq(Nat)   BY RawEncodes DEF Encodes, Cells
  <2>3. name \in Seq(Nat)   BY SeqMonotonic DEF Letter
  <2>4. cells = x \o name \o y \o z   BY DEF EncodeRequest
  <2> HIDE DEF x, y, z
  <2>5. name \o y \in Seq(Nat) /\ name \o y \o z \in Seq(Nat)   BY <2>1, <2>2, <2>3, ConcatProperties
  <2>6. (x \o name) \o y = x \o (name \o y)   BY <2>1, <2>3, Associative
  <2>7. (x \o (name \o y)) \o z = x \o ((name \o y) \o z)   BY SMTT(20), <2>1, <2>2, <2>5, Associative
  <2> QED BY <2>4, <2>5, <2>6, <2>7 DEF x, y, z, Cells
<1> HIDE DEF body, cells, code
<1>3. cells \in Cells /\ Len(cells) # 0 /\ cells[1] = code   BY <1>1, <1>2, PacketOf DEF Cells
<1>4. PacketType(cells) = type   BY <1>1, <1>3, TypeOfOpcode DEF code
<1> QED BY <1>2, <1>3, <1>4 DEF cells, body, code

(* A request that is cut *)
LEMMA RequestIsDecodedAsSent ==
    ASSUME NEW type \in {"RRQ", "WRQ"}, NEW name \in Seq({Letter}), NEW mode \in Modes, NEW options, IsOptions(options),
           NEW size \in Nat, size # 0
    PROVE  LET cells == EncodeRequest(type, name, mode, options)
               packet == Decode(Cut(cells, size))
           IN
           /\ cells \in Cells /\ PacketType(cells) = type
           /\ packet = InvalidPacket \/ AsSent(packet, type, name, mode, options)
           /\ Len(cells) <= size => packet.type = type /\ packet.options = options
<1> DEFINE cells == EncodeRequest(type, name, mode, options)  packet == Decode(Cut(cells, size))  code == Opcodes[type]
           body == name \o <<NUL, ModeCells[mode], NUL>> \o RawOptions(options)
<1>1. code \in Nat /\ type \in Types   BY OpcodesAreCells DEF Types
<1>2. /\ body \in Cells /\ cells = <<code>> \o body
      /\ cells \in Cells /\ PacketType(cells) = type
    BY SMTT(20), RequestIsCells
<1> HIDE DEF body, cells, code
<1>3. cells \in Cells /\ Len(cells) # 0 /\ cells[1] = code /\ Len(cells) = 1 + Len(body) /\ Len(body) \in Nat
    BY <1>1, <1>2, PacketOf DEF Cells
<1>4. PacketType(cells) = type   BY <1>2
<1> DEFINE cut == Cut(cells, size)  part == Cut(body, size - 1)
<1>5. cut \in Cells /\ Len(cut) # 0 /\ cut[1] = code /\ Tail(cut) = part
  <2>1. cut = Cut(<<code>> \o body, size)   BY <1>2
  <2> HIDE DEF cut
  <2>2. code \in Nat /\ body \in Cells /\ size # 0   BY <1>1, <1>2
  <2> DEFINE k == Cut(<<code>> \o body, size)
  <2>3. k \in Cells /\ Len(k) # 0 /\ k[1] = code /\ Tail(k) = Cut(body, size - 1)
    <3> USE <2>2
    <3> HIDE <1>2, <2>1
    <3> QED BY <2>2, BodyIsCut
  <2> HIDE DEF k
  <2> QED BY <2>1, <2>3 DEF k
<1>6. size - 1 \in Nat   OBVIOUS
<1>7. part \in Cells /\ IsStart(part, body) /\ (Len(cells) <= size => Len(part) = Len(body))
    BY <1>2, <1>3, <1>6, CutIsStart
<1>8. packet = DecodeRequest(type, part)   BY <1>1, <1>5, DecodeByType DEF code
<1> HIDE DEF part, packet
<1>9. /\ packet = InvalidPacket \/ AsSent(packet, type, name, mode, options)
      /\ Len(part) = Len(body) => packet.type = type /\ packet.options = options
  <2>1. type # "INVALID"   OBVIOUS
  <2>2. IsStart(part, name \o <<NUL, ModeCells[mode], NUL>> \o RawOptions(options)) /\ part \in Cells
      BY <1>7 DEF body
  <2>3. Len(body) = Len(name \o <<NUL, ModeCells[mode], NUL>> \o RawOptions(options))
      BY DEF body
  <2> DEFINE full == name \o <<NUL, ModeCells[mode], NUL>> \o RawOptions(options)
             result == DecodeRequest(type, part)
  <2>4. /\ result = InvalidPacket \/ AsSent(result, type, name, mode, options)
        /\ Len(part) = Len(full) => result.type = type /\ result.options = options
      BY <2>1, <2>2, BodyIsDecoded
  <2> HIDE DEF full, result
  <2> QED BY <1>8, <2>3, <2>4 DEF full, result
<1> QED BY <1>3, <1>4, <1>7, <1>9 DEF cells, packet

(* A configuration within the ranges of the options *)
IsInRange(config) == config \in Configuration /\ InRange(config)

(* Additional options of the user that leave the known ones to the library *)
LeavesKnown(additional) == IsOptions(additional) /\ DOMAIN additional \cap KnownOptions = {}

Sizes == Nat \cup {None}

(* The data of a block for a negotiated block size *)
DataSize(blockSize) == IF blockSize = None THEN DefaultDataSize ELSE blockSize

-----------------------------------------------------------------------------
(* The options of the library *)

(* try_emplace() adds a value, and changes no option that is already there. *)
LEMMA WithOptionAdds ==
    ASSUME NEW options, NEW name, name \notin DOMAIN options, NEW value
    PROVE  /\ name \in DOMAIN WithOption(options, name, value) <=> value # None
           /\ value # None => WithOption(options, name, value)[name] = value
BY DEF WithOption

(* Adding an option leaves the other options as they are. *)
LEMMA WithOptionKeeps ==
    ASSUME NEW options, NEW name, NEW value, NEW other, other # name
    PROVE  /\ other \in DOMAIN WithOption(options, name, value) <=> other \in DOMAIN options
           /\ other \in DOMAIN options => WithOption(options, name, value)[other] = options[other]
BY DEF WithOption

(* request(), start(): each option of the library is in the packet exactly if it has a value. *)
LEMMA WithOptionsAdds ==
    ASSUME NEW additional, LeavesKnown(additional), NEW blockSize, NEW timeout, NEW size
    PROVE  LET options == WithOptions(additional, blockSize, timeout, size) IN
           /\ "blksize" \in DOMAIN options <=> blockSize # None
           /\ blockSize # None => options["blksize"] = blockSize
           /\ "timeout" \in DOMAIN options <=> timeout # None
           /\ timeout # None => options["timeout"] = timeout
           /\ "tsize" \in DOMAIN options <=> size # None
           /\ size # None => options["tsize"] = size
<1> DEFINE one == WithOption(additional, "blksize", blockSize)
           two == WithOption(one, "timeout", timeout)
           all == WithOption(two, "tsize", size)
<1>0. /\ "blksize" \notin DOMAIN additional
      /\ "timeout" \notin DOMAIN additional
      /\ "tsize" \notin DOMAIN additional
    BY DEF LeavesKnown, KnownOptions
<1>1. /\ "blksize" \in DOMAIN one <=> blockSize # None
      /\ blockSize # None => one["blksize"] = blockSize
      /\ "timeout" \notin DOMAIN one /\ "tsize" \notin DOMAIN one
    BY <1>0, WithOptionAdds, WithOptionKeeps
<1>2. /\ "blksize" \in DOMAIN two <=> blockSize # None
      /\ blockSize # None => two["blksize"] = blockSize
      /\ "timeout" \in DOMAIN two <=> timeout # None
      /\ timeout # None => two["timeout"] = timeout
      /\ "tsize" \notin DOMAIN two
    <2> HIDE DEF one
    <2>1. /\ "blksize" \in DOMAIN two <=> "blksize" \in DOMAIN one
          /\ "blksize" \in DOMAIN one => two["blksize"] = one["blksize"]
          /\ "tsize" \in DOMAIN two <=> "tsize" \in DOMAIN one
        BY WithOptionKeeps
    <2>2. /\ "timeout" \in DOMAIN two <=> timeout # None
          /\ timeout # None => two["timeout"] = timeout
        BY <1>1, WithOptionAdds
    <2> QED BY <1>1, <2>1, <2>2
<1>3. /\ "blksize" \in DOMAIN all <=> blockSize # None
      /\ blockSize # None => all["blksize"] = blockSize
      /\ "timeout" \in DOMAIN all <=> timeout # None
      /\ timeout # None => all["timeout"] = timeout
      /\ "tsize" \in DOMAIN all <=> size # None
      /\ size # None => all["tsize"] = size
    <2> HIDE DEF two
    <2>1. /\ "blksize" \in DOMAIN all <=> "blksize" \in DOMAIN two
          /\ "blksize" \in DOMAIN two => all["blksize"] = two["blksize"]
          /\ "timeout" \in DOMAIN all <=> "timeout" \in DOMAIN two
          /\ "timeout" \in DOMAIN two => all["timeout"] = two["timeout"]
        BY WithOptionKeeps
    <2>2. /\ "tsize" \in DOMAIN all <=> size # None
          /\ size # None => all["tsize"] = size
        BY <1>2, WithOptionAdds
    <2> QED BY <1>2, <2>1, <2>2
<1> QED BY <1>3 DEF WithOptions

-----------------------------------------------------------------------------
(* What is read of them *)

(* Options_getOption(): what the packet has is what is read, or there was no such option. *)
LEMMA GetOptionReads ==
    ASSUME NEW options, NEW name, NEW values, NEW value,
           name \in DOMAIN options <=> value # None,
           value # None => options[name] = value /\ value \in values
    PROVE  GetOption(options, name, values) = [valid |-> TRUE, value |-> value]
BY DEF GetOption

(* ServerImpl::tftpOptions(): the server decodes the block size and the timeout that the *)
(* client has requested.                                                                  *)
LEMMA RequestIsDecoded ==
    ASSUME NEW config, IsInRange(config), NEW additional, LeavesKnown(additional), NEW size \in Sizes
    PROVE  LET options == TftpOptions(RequestOptions(config, additional, size)) IN
           options.blockSize = config.blockSize /\ options.timeout = config.timeout
<1> DEFINE timeout == IF config.timeout = None THEN None ELSE config.timeout % Word
           options == RequestOptions(config, additional, size)
<1>1. timeout = config.timeout
    BY OptionAssumption, SMT DEF IsInRange, InRange, None
<1>2. /\ "blksize" \in DOMAIN options <=> config.blockSize # None
      /\ config.blockSize # None => options["blksize"] = config.blockSize
      /\ "timeout" \in DOMAIN options <=> timeout # None
      /\ timeout # None => options["timeout"] = timeout
    BY WithOptionsAdds DEF RequestOptions
<1>3. /\ config.blockSize # None => config.blockSize \in BlockSizeMin .. BlockSizeMax
      /\ config.timeout # None => config.timeout \in TimeoutMin .. TimeoutMax
    BY DEF IsInRange, InRange
<1> HIDE DEF options, timeout
<1>4. BlockSizeOption(options) = [valid |-> TRUE, value |-> config.blockSize]
    BY <1>2, <1>3, GetOptionReads DEF BlockSizeOption
<1>5. TimeoutOption(options) = [valid |-> TRUE, value |-> config.timeout]
    BY <1>1, <1>2, <1>3, GetOptionReads DEF TimeoutOption
<1> QED BY <1>4, <1>5 DEF TftpOptions, options

(* start(): what the server grants is in range, and not more than either side has. *)
LEMMA GrantedIsInRange ==
    ASSUME NEW config, IsInRange(config), NEW decoded,
           decoded.blockSize \in BlockSizeMin .. BlockSizeMax \cup {None},
           decoded.timeout \in TimeoutMin .. TimeoutMax \cup {None}
    PROVE  /\ GrantedBlockSize(config, decoded) # None =>
                /\ GrantedBlockSize(config, decoded) \in BlockSizeMin .. BlockSizeMax
                /\ GrantedBlockSize(config, decoded) <= config.blockSize
                /\ GrantedBlockSize(config, decoded) <= decoded.blockSize
                /\ decoded.blockSize # None
           /\ GrantedTimeout(config, decoded) # None =>
                /\ GrantedTimeout(config, decoded) \in TimeoutMin .. TimeoutMax
                /\ GrantedTimeout(config, decoded) = decoded.timeout
BY OptionAssumption, SMT DEF IsInRange, InRange, GrantedBlockSize, GrantedTimeout, None

(* optionsAcknowledgementPacket(): the client reads from the answer what the server uses. *)
LEMMA AnswerIsDecoded ==
    ASSUME NEW config, IsInRange(config), NEW decoded,
           decoded.blockSize \in BlockSizeMin .. BlockSizeMax \cup {None},
           decoded.timeout \in TimeoutMin .. TimeoutMax \cup {None},
           NEW additional, LeavesKnown(additional), NEW size
    PROVE  LET answer == ServerOptions(config, decoded, additional, size) IN
           /\ BlockSizeOption(answer) = [valid |-> TRUE, value |-> GrantedBlockSize(config, decoded)]
           /\ TimeoutOption(answer) = [valid |-> TRUE, value |-> GrantedTimeout(config, decoded)]
<1> DEFINE blockSize == GrantedBlockSize(config, decoded)
           timeout   == GrantedTimeout(config, decoded)
           answer    == ServerOptions(config, decoded, additional, size)
<1>1. /\ "blksize" \in DOMAIN answer <=> blockSize # None
      /\ blockSize # None => answer["blksize"] = blockSize
      /\ "timeout" \in DOMAIN answer <=> timeout # None
      /\ timeout # None => answer["timeout"] = timeout
    BY WithOptionsAdds DEF ServerOptions
<1>2. /\ blockSize # None => blockSize \in BlockSizeMin .. BlockSizeMax
      /\ timeout # None => timeout \in TimeoutMin .. TimeoutMax
    BY GrantedIsInRange
<1> HIDE DEF answer, blockSize, timeout
<1>3. BlockSizeOption(answer) = [valid |-> TRUE, value |-> blockSize]
    BY <1>1, <1>2, GetOptionReads DEF BlockSizeOption
<1>4. TimeoutOption(answer) = [valid |-> TRUE, value |-> timeout]
    BY <1>1, <1>2, GetOptionReads DEF TimeoutOption
<1> QED BY <1>3, <1>4 DEF answer, blockSize, timeout

-----------------------------------------------------------------------------
(* What the negotiation guarantees *)

(* request(), tftpOptions(), start(), optionsAcknowledgementPacket(): a client never refuses *)
(* the block size or the timeout that a server of this library answers, and both sides use    *)
(* the same values, if their configurations are in range and no user sets a known option.     *)
THEOREM NegotiationSucceeds ==
    ASSUME NEW clientConfig, IsInRange(clientConfig), NEW serverConfig, IsInRange(serverConfig),
           NEW additional, LeavesKnown(additional), NEW extra, LeavesKnown(extra),
           NEW size \in Sizes, NEW answered
    PROVE  LET request == RequestOptions(clientConfig, additional, size)
               answer  == ServerOptions(serverConfig, TftpOptions(request), extra, answered)
           IN  /\ ~RefusesBlockSize(clientConfig, BlockSizeOption(answer))
               /\ ~RefusesTimeout(clientConfig, TimeoutOption(answer))
               /\ BlockSizeOption(answer).value = GrantedBlockSize(serverConfig, TftpOptions(request))
               /\ TimeoutOption(answer).value = GrantedTimeout(serverConfig, TftpOptions(request))
<1> DEFINE decoded == TftpOptions(RequestOptions(clientConfig, additional, size))
           answer  == ServerOptions(serverConfig, decoded, extra, answered)
<1>1. decoded.blockSize = clientConfig.blockSize /\ decoded.timeout = clientConfig.timeout
    BY RequestIsDecoded
<1>2. /\ decoded.blockSize \in BlockSizeMin .. BlockSizeMax \cup {None}
      /\ decoded.timeout \in TimeoutMin .. TimeoutMax \cup {None}
    BY <1>1 DEF IsInRange, InRange
<1> HIDE DEF decoded
<1>3. /\ BlockSizeOption(answer) = [valid |-> TRUE, value |-> GrantedBlockSize(serverConfig, decoded)]
      /\ TimeoutOption(answer) = [valid |-> TRUE, value |-> GrantedTimeout(serverConfig, decoded)]
    BY <1>2, AnswerIsDecoded
<1> HIDE DEF answer
<1>4. ~RefusesBlockSize(clientConfig, BlockSizeOption(answer))
    <2>1. GrantedBlockSize(serverConfig, decoded) # None =>
            /\ GrantedBlockSize(serverConfig, decoded) \in BlockSizeMin .. BlockSizeMax
            /\ GrantedBlockSize(serverConfig, decoded) <= clientConfig.blockSize
            /\ clientConfig.blockSize # None
        BY <1>1, <1>2, GrantedIsInRange
    <2>2. clientConfig.blockSize # None => clientConfig.blockSize \in BlockSizeMin .. BlockSizeMax
        BY DEF IsInRange, InRange
    <2>3. ~(GrantedBlockSize(serverConfig, decoded) # None
            /\ (clientConfig.blockSize = None \/ GrantedBlockSize(serverConfig, decoded) > clientConfig.blockSize))
        BY <2>1, <2>2, OptionAssumption, SMT DEF None
    <2> QED BY <1>3, <2>3 DEF RefusesBlockSize
<1>5. ~RefusesTimeout(clientConfig, TimeoutOption(answer))
    BY <1>1, <1>2, <1>3, GrantedIsInRange DEF RefusesTimeout
<1> QED BY <1>3, <1>4, <1>5 DEF answer, decoded

(* optionsConfiguration() of a receiver: its buffer holds every packet with the block size *)
(* that the server grants, or the default one, whichever side it is on.                     *)
THEOREM BufferHoldsBlock ==
    ASSUME NEW config, IsInRange(config), NEW blockSize \in Nat \cup {None},
           blockSize # None => config.blockSize # None /\ blockSize <= config.blockSize
    PROVE  HeaderSize + DataSize(blockSize) <= BufferSize(config)
<1> DEFINE data == IF config.blockSize > DefaultDataSize THEN config.blockSize ELSE DefaultDataSize
<1>1. data \in Nat /\ DataSize(blockSize) \in Nat /\ DataSize(blockSize) <= data
    BY OptionAssumption, SMT DEF IsInRange, InRange, DataSize, None
<1>2. HeaderSize + data < Word
    BY OptionAssumption, SMT DEF IsInRange, InRange, None
<1> HIDE DEF data
<1>3. (HeaderSize + data) % Word = HeaderSize + data
    BY <1>1, <1>2, OptionAssumption, SMT
<1>4. BufferSize(config) = (HeaderSize + data) % Word
    BY DEF BufferSize, data
<1> QED BY <1>1, <1>3, <1>4, OptionAssumption, SMT

-----------------------------------------------------------------------------
(* What has been configured, and what a file is *)

OperationFields == {"config", "buffer", "file", "phase", "status", "dataSize", "timeout",
                    "lastReceived", "lastTransmitted", "last", "packet", "announced"}
ClientFields == OperationFields \cup {"oackReceived", "transferSize", "asked", "requested"}
ServerFields == OperationFields \cup {"extra", "decoded"}

(* The file of an operation is the one it has been given: one that is sent does not change. *)
SameFile(file, given) ==
    /\ file.type = given.type /\ file.operation = given.operation /\ file.size = given.size
    /\ given.operation = "Transmit" => file.content = given.content

(* The buffer of an operation has wrapped, or holds what the operation may be sent. *)
Holds(o) ==
    \/ o.buffer <= 1
    \/ /\ o.buffer >= HeaderSize + DefaultDataSize
       /\ o.file.operation = "Receive" =>
            /\ o.buffer >= HeaderSize + o.dataSize
            /\ o.config.blockSize # None => o.buffer >= HeaderSize + o.config.blockSize

OperationOK(o, given) ==
    /\ o.config \in Configuration /\ o.buffer \in Nat
    /\ o.file \in File(Cells) /\ SameFile(o.file, given)
    /\ o.dataSize \in Nat /\ o.timeout \in Nat
    /\ o.lastReceived \in BlockNumbers /\ o.lastTransmitted \in BlockNumbers
    /\ o.last \in BOOLEAN /\ o.packet \in Cells
    /\ Holds(o)

TypeOK ==
    /\ setup \in Setups /\ round \in Nat
    /\ DOMAIN client = ClientFields /\ OperationOK(client, setup.client.file)
    /\ DOMAIN server = ServerFields /\ OperationOK(server, setup.server.file)
    /\ client.phase \in {"idle", "requested", "transfer", "done"}
    /\ server.phase \in {"idle", "transfer", "done"}
    /\ client.oackReceived \in BOOLEAN /\ client.asked \in BOOLEAN
    /\ IsOptions(client.requested)
    /\ server.extra \in {"none", "remaining", "unasked"}
    /\ wire = Nothing \/ /\ wire.to \in {"dispatcher", "client", "server"}
                         /\ wire = [to |-> wire.to, cells |-> wire.cells]

-----------------------------------------------------------------------------
(* The conversation *)

(* What is sent *)
Original == (IF Reading THEN setup.server ELSE setup.client).file.content

RequestType == IF Reading THEN "RRQ" ELSE "WRQ"

ClientRequest ==
    EncodeRequest(RequestType, setup.client.name, setup.client.mode, client.requested)

(* A block is on its way to the sink, which has all of the file before it. *)
InFlight(source, sink) ==
    \E p \in 0 .. source.file.position :
        /\ source.packet = EncodeData(source.lastTransmitted, SubSeq(Original, p + 1, source.file.position))
        /\ source.file.position - p <= source.dataSize
        /\ source.last <=> source.file.position - p < source.dataSize
        /\ sink.file.type # "null" => sink.file.content = SubSeq(Original, 1, p)

(* Full blocks have been sent, and then the last one. *)
Supplied(source) ==
    /\ source.dataSize # 0
    /\ source.file.position <= Len(Original)
    /\ IF source.last
       THEN /\ source.file.position = Len(Original)
            /\ source.lastTransmitted = BlockOf(Len(Original) \div source.dataSize + 1)
       ELSE \E q \in 0 .. source.file.position :
                source.file.position = q * source.dataSize /\ source.lastTransmitted = BlockOf(q)

(* The sink has all that has been sent, and there is more to send. *)
Ready(source, sink) ==
    /\ Supplied(source) /\ ~source.last
    /\ sink.file.type # "null" => sink.file.content = SubSeq(Original, 1, source.file.position)

IsRequest ==
    /\ client.phase = "requested" /\ client.status = "none"
    /\ client.dataSize = DefaultDataSize /\ client.lastTransmitted = 0 /\ ~client.last
    /\ client.lastReceived = IF Reading THEN 0 ELSE MaxBlock
    /\ client.file.position = 0 /\ (Reading => client.file.content = <<>>)
    /\ client.announced = None /\ ~client.asked
    /\ client.packet = ClientRequest
    /\ round = 1 => client.timeout = DefaultTimeout
    /\ ~Reading /\ client.config.transferSize =>
          client.transferSize = RequestedTransferSize(client.file)

IsUnused(o) ==
    /\ o.phase = "idle" /\ o.status = "none" /\ o.packet = <<>>
    /\ o.dataSize = DefaultDataSize /\ o.timeout = DefaultTimeout
    /\ o.lastReceived = 0 /\ o.lastTransmitted = 0 /\ ~o.last
    /\ o.announced = None

(* The receiver knows the size that the source has, or none. *)
Announced(o) == o.announced \in {None, Len(Original)}

(* An operation has ended with an error, of which it has told. *)
HasRefused(o) ==
    /\ o.phase = "done" /\ o.status # "Successful"
    /\ \E code \in ErrorCodes : o.packet = EncodeError(code)

(* The answer to a request is an OACK: of what the server uses. *)
Value(options, name, default) == IF name \in DOMAIN options THEN options[name] ELSE default

HasAnswered(options) ==
    /\ server.phase = "transfer" /\ server.status = "none" /\ server.packet = EncodeOack(options)
    /\ IsOptions(options) /\ DOMAIN options # {}
    /\ server.dataSize = Value(options, "blksize", DefaultDataSize)
    /\ server.timeout = Value(options, "timeout", DefaultTimeout)
    /\ IF Reading THEN Value(options, "tsize", None) \in {None, Len(Original)}
       ELSE Value(options, "tsize", None) = server.announced
    /\ server.lastTransmitted = 0 /\ ~server.last /\ server.file.position = 0
    /\ ~Reading => server.file.content = <<>>

(* The answer to a request is a DATA or ACK packet: nothing has been negotiated. *)
HasStarted ==
    /\ server.phase = "transfer" /\ server.status = "none"
    /\ server.dataSize = DefaultDataSize /\ server.timeout = DefaultTimeout
    /\ IF Reading THEN InFlight(server, client) /\ Supplied(server)
       ELSE server.packet = EncodeAck(0) /\ server.file.content = <<>> /\ server.announced = None

(* Both sides are in the transfer. *)
Transferring ==
    /\ client.phase = "transfer" /\ client.status = "none"
    /\ server.phase = "transfer" /\ server.status = "none"
    /\ client.dataSize = server.dataSize
    /\ client.timeout = server.timeout \/ round > 1
    /\ Announced(Sink)

IsAck(o) == \E block \in BlockNumbers : o.packet = EncodeAck(block)

(* All has been received, and the last acknowledgement is on its way. *)
IsOver(source, sink) ==
    /\ sink.phase = "done" /\ sink.status = "Successful" /\ IsAck(sink)
    /\ source.phase = "transfer" /\ source.status = "none" /\ source.last /\ Supplied(source)

OnWire(to, o) == wire = [to |-> to, cells |-> o.packet]

Idle ==
    /\ round = 0 /\ wire = Nothing /\ client.phase = "idle" /\ IsUnused(client) /\ IsUnused(server)

Asking ==
    /\ round > 0 /\ IsRequest /\ IsUnused(server)
    /\ wire = Nothing \/ OnWire("dispatcher", client)

Answered ==
    /\ round > 0 /\ IsRequest /\ OnWire("client", server)
    /\ HasRefused(server) \/ HasStarted \/ \E options : HasAnswered(options)

ServersTurn ==
    /\ round > 0 /\ OnWire("server", client) /\ Transferring
    /\ IF Reading THEN Ready(server, client) /\ IsAck(client)
       ELSE InFlight(client, server) /\ Supplied(client)

ClientsTurn ==
    /\ round > 0 /\ OnWire("client", server) /\ client.phase = "transfer" /\ client.status = "none"
    /\ \/ HasRefused(server)
       \/ /\ Transferring
          /\ IF Reading THEN InFlight(server, client) /\ Supplied(server)
             ELSE Ready(client, server) /\ IsAck(server)
       \/ ~Reading /\ IsOver(client, server)

ServersEnd ==
    /\ round > 0 /\ OnWire("server", client)
    /\ \/ HasRefused(client) /\ server.phase \in {"transfer", "done"}
       \/ Reading /\ IsOver(server, client)

ClientsEnd ==
    /\ round > 0 /\ client.phase = "done" /\ server.phase \in {"idle", "done"}
    /\ wire = Nothing \/ wire.to = "client"

Conversation == Idle \/ Asking \/ Answered \/ ServersTurn \/ ClientsTurn \/ ServersEnd \/ ClientsEnd

(* What a success means *)
Results ==
    /\ Sink.status = "Successful" =>
          Announced(Sink) /\ (Sink.file.type # "null" => Sink.file.content = Original)
    /\ Source.status = "Successful" =>
          Source.lastTransmitted = BlockOf(Len(Original) \div Source.dataSize + 1)

Understood ==
    /\ server.phase = "idle" => server.decoded = InvalidPacket
    /\ \/ server.decoded = InvalidPacket
       \/ AsSent(server.decoded, RequestType, setup.client.name, setup.client.mode, client.requested)

Consults ==
    /\ round = 0 => ~client.oackReceived
    /\ HasHandler /\ client.phase # "idle" =>
        /\ round <= 1 /\ client.oackReceived => client.asked
        /\ Reading /\ ~client.oackReceived /\ client.lastReceived # 0 => client.asked
        /\ ~Reading /\ client.lastTransmitted # 0 => client.asked

(* What a step of an operation changes: the fields of the others stay. *)
Changes(o, p, fields) == DOMAIN p = DOMAIN o /\ \A f \in DOMAIN o \ fields : p[f] = o[f]

IsOperation(o) == OperationFields \subseteq DOMAIN o

(* BlockNumber::next() is a block number. *)
LEMMA NextIsBlock == \A block \in BlockNumbers : NextBlock(block) \in BlockNumbers /\ block \in Nat
BY MaxBlockAssumption DEF NextBlock, BlockNumbers

(* Parts of files are data. *)
LEMMA PartIsData ==
    ASSUME NEW c \in Cells, NEW p \in Nat, NEW q \in Nat, p <= q, q <= Len(c)
    PROVE  /\ SubSeq(c, p + 1, q) \in Cells
           /\ Len(SubSeq(c, p + 1, q)) = q - p
           /\ SubSeq(c, 1, p) \o SubSeq(c, p + 1, q) = SubSeq(c, 1, q)
<1> DEFINE a == SubSeq(c, 1, p)  b == SubSeq(c, p + 1, q)  d == SubSeq(c, 1, q)
<1>0. Len(c) \in Nat /\ \A i \in 1 .. Len(c) : c[i] \in Nat   BY ElementOfSeq DEF Cells
<1>1. a \in Seq(Nat) /\ Len(a) = p /\ \A i \in 1 .. p : a[i] = c[i]
    BY <1>0, SubSeqProperties
<1>2. b \in Seq(Nat) /\ Len(b) = q - p /\ \A i \in 1 .. q - p : b[i] = c[p + i]
  <2> DEFINE m == p + 1
  <2>1. m \in Int /\ q - m + 1 = q - p /\ (m <= q <=> p # q) /\ \A i \in m .. q : c[i] \in Nat   BY <1>0
  <2>2. \A i \in 1 .. q - p : m + i - 1 = p + i   OBVIOUS
  <2> HIDE DEF m
  <2>3. /\ SubSeq(c, m, q) \in Seq(Nat)
        /\ Len(SubSeq(c, m, q)) = IF m <= q THEN q - m + 1 ELSE 0
        /\ \A i \in 1 .. q - m + 1 : SubSeq(c, m, q)[i] = c[m + i - 1]
      BY <2>1, SubSeqProperties
  <2>4. SubSeq(c, m, q) \in Seq(Nat) /\ Len(SubSeq(c, m, q)) = q - p /\ \A i \in 1 .. q - p : SubSeq(c, m, q)[i] = c[p + i]
      BY <2>1, <2>2, <2>3
  <2> QED BY <2>4 DEF m
<1>3. d \in Seq(Nat) /\ Len(d) = q /\ \A i \in 1 .. q : d[i] = c[i]
    BY <1>0, SubSeqProperties
<1> HIDE DEF a, b, d
<1>4. /\ a \o b \in Seq(Nat) /\ Len(a \o b) = q
      /\ \A i \in 1 .. q : (a \o b)[i] = IF i <= p THEN a[i] ELSE b[i - p]
  <2>1. /\ a \o b \in Seq(Nat) /\ Len(a \o b) = Len(a) + Len(b)
        /\ \A i \in 1 .. Len(a) + Len(b) : (a \o b)[i] = IF i <= Len(a) THEN a[i] ELSE b[i - Len(a)]
      BY ZenonT(40), <1>1, <1>2, ConcatProperties
  <2>2. Len(a) + Len(b) = q   BY <1>1, <1>2
  <2> QED BY <1>1, <2>1, <2>2
<1>5. ASSUME NEW i \in 1 .. q PROVE (a \o b)[i] = d[i]
  <2>1. CASE i <= p
    <3>1. i \in 1 .. p   BY <2>1
    <3> QED BY <1>1, <1>3, <1>4, <2>1, <3>1
  <2>2. CASE ~(i <= p)
    <3>1. i - p \in 1 .. q - p /\ p + (i - p) = i   BY <2>2
    <3> QED BY <1>2, <1>3, <1>4, <2>2, <3>1
  <2> QED BY <2>1, <2>2
<1>6. a \o b = d   BY <1>3, <1>4, <1>5, SeqEqual
<1> QED BY <1>2, <1>6 DEF a, b, d, Cells

(* Errors and acknowledgements are cells. *)
LEMMA PacketsAreCells ==
    /\ \A code \in ErrorCodes : EncodeError(code) \in Cells
    /\ \A block \in BlockNumbers : EncodeAck(block) \in Cells
<1>1. ASSUME NEW code \in ErrorCodes PROVE EncodeError(code) \in Cells
  <2>1. 4 \in Nat   OBVIOUS
  <2> QED BY ErrorIsDecoded, <2>1
<1>2. ASSUME NEW block \in BlockNumbers PROVE EncodeAck(block) \in Cells
  <2>1. block \in Nat /\ 1 \in Nat   BY NextIsBlock
  <2> QED BY <2>1, AckIsDecoded
<1> QED BY <1>1, <1>2

(* Finish() *)
LEMMA FinishOf ==
    ASSUME NEW o, IsOperation(o), o.file \in File(Cells), NEW status
    PROVE  LET p == Finish(o, status) IN
           /\ Changes(o, p, {"phase", "status", "file"})
           /\ p.phase = "done" /\ p.status = status /\ p.file = Closed(o.file)
           /\ p.file.content = o.file.content
BY DEF IsOperation, OperationFields, Finish, Closed, Changes, File

(* An operation that has finished keeps what holds of it. *)
LEMMA FinishOK ==
    ASSUME NEW o, NEW given, IsOperation(o), OperationOK(o, given), NEW status
    PROVE  OperationOK(Finish(o, status), given)
<1> DEFINE p == Finish(o, status)
<1>1. /\ Changes(o, p, {"phase", "status", "file"})
      /\ p.file = Closed(o.file)
    BY FinishOf DEF OperationOK
<1>2. p.file \in File(Cells) /\ SameFile(p.file, given) /\ p.file.operation = o.file.operation
    BY <1>1 DEF OperationOK, File, Closed, SameFile
<1> HIDE DEF p
<1>3. /\ p.config = o.config /\ p.buffer = o.buffer /\ p.dataSize = o.dataSize /\ p.timeout = o.timeout
      /\ p.lastReceived = o.lastReceived /\ p.lastTransmitted = o.lastTransmitted
      /\ p.last = o.last /\ p.packet = o.packet
    BY <1>1 DEF Changes, IsOperation, OperationFields
<1> QED BY <1>2, <1>3 DEF OperationOK, Holds, p

(* Refused() *)
LEMMA RefusedOf ==
    ASSUME NEW o, NEW given, IsOperation(o), OperationOK(o, given), NEW code \in ErrorCodes, NEW status
    PROVE  LET p == Refused(o, code, status) IN
           /\ Changes(o, p, {"phase", "status", "file", "packet"})
           /\ p.phase = "done" /\ p.status = status /\ p.file.content = o.file.content
           /\ p.packet = EncodeError(code)
           /\ OperationOK(p, given)
<1> DEFINE q == [o EXCEPT !.packet = EncodeError(code)]  p == Refused(o, code, status)
<1>1. Changes(o, q, {"packet"}) /\ q.packet = EncodeError(code)
    BY DEF Changes, IsOperation, OperationFields
<1>2. q.packet \in Cells   BY <1>1, PacketsAreCells
<1>3. p = Finish(q, status)   BY DEF Refused
<1> HIDE DEF p, q
<1>4. IsOperation(q)   BY <1>1 DEF Changes, IsOperation
<1>5. OperationOK(q, given)
    BY <1>1, <1>2 DEF OperationOK, Changes, IsOperation, OperationFields, Holds
<1>6. OperationOK(p, given)   BY <1>3, <1>4, <1>5, FinishOK
<1>7. /\ Changes(q, p, {"phase", "status", "file"})
      /\ p.phase = "done" /\ p.status = status /\ p.file.content = q.file.content
    BY <1>3, <1>4, <1>5, FinishOf DEF OperationOK
<1>8. Changes(o, p, {"phase", "status", "file", "packet"})
    BY <1>1, <1>7 DEF Changes
<1>9. p.packet = EncodeError(code) /\ q.file = o.file
    BY <1>1, <1>4, <1>7 DEF Changes, IsOperation, OperationFields
<1> QED BY <1>6, <1>7, <1>8, <1>9 DEF p

(* Acknowledge() *)
LEMMA AcknowledgeOf ==
    ASSUME NEW o, NEW given, IsOperation(o), OperationOK(o, given), NEW block \in BlockNumbers
    PROVE  LET p == Acknowledge(o, block) IN
           /\ Changes(o, p, {"phase", "lastReceived", "packet"})
           /\ p.phase = "transfer" /\ p.lastReceived = block /\ p.packet = EncodeAck(block)
           /\ OperationOK(p, given)
<1> DEFINE p == Acknowledge(o, block)
<1>1. /\ Changes(o, p, {"phase", "lastReceived", "packet"})
      /\ p.phase = "transfer" /\ p.lastReceived = block /\ p.packet = EncodeAck(block)
    BY DEF Acknowledge, Changes, IsOperation, OperationFields
<1>2. p.packet \in Cells   BY <1>1, PacketsAreCells
<1> HIDE DEF p
<1>3. /\ p.config = o.config /\ p.buffer = o.buffer /\ p.dataSize = o.dataSize /\ p.timeout = o.timeout
      /\ p.file = o.file /\ p.lastTransmitted = o.lastTransmitted /\ p.last = o.last
    BY <1>1 DEF Changes, IsOperation, OperationFields
<1>4. OperationOK(p, given)   BY <1>1, <1>2, <1>3 DEF OperationOK, Holds
<1> QED BY <1>1, <1>4 DEF p

(* Acknowledged() *)
LEMMA AcknowledgedOf ==
    ASSUME NEW o, NEW given, IsOperation(o), OperationOK(o, given),
           NEW packet, packet.block \in BlockNumbers
    PROVE  LET p == Acknowledged(o, packet) IN
           Changes(o, p, {"lastReceived"}) /\ p.lastReceived = packet.block /\ OperationOK(p, given)
<1> DEFINE p == Acknowledged(o, packet)
<1>1. Changes(o, p, {"lastReceived"}) /\ p.lastReceived = packet.block
    BY DEF Acknowledged, Changes, IsOperation, OperationFields
<1> HIDE DEF p
<1>3. /\ p.config = o.config /\ p.buffer = o.buffer /\ p.dataSize = o.dataSize /\ p.timeout = o.timeout
      /\ p.file = o.file /\ p.lastTransmitted = o.lastTransmitted /\ p.last = o.last /\ p.packet = o.packet
    BY <1>1 DEF Changes, IsOperation, OperationFields
<1>4. OperationOK(p, given)   BY <1>1, <1>3 DEF OperationOK, Holds
<1> QED BY <1>1, <1>4 DEF p

(* sendData() *)
LEMMA SendDataOf ==
    ASSUME NEW o, NEW given, IsOperation(o), OperationOK(o, given),
           o.file.position <= Len(o.file.content)
    PROVE  LET p    == SendData(o)
               from == o.file.position
               upTo == Minimum(from + o.dataSize, Len(o.file.content))
           IN
           /\ Changes(o, p, {"phase", "lastTransmitted", "file", "last", "packet"})
           /\ p.phase = "transfer" /\ p.lastTransmitted = NextBlock(o.lastTransmitted)
           /\ p.file.content = o.file.content /\ p.file.position = upTo
           /\ p.last = (o.last \/ upTo - from < o.dataSize)
           /\ p.packet = EncodeData(p.lastTransmitted, SubSeq(o.file.content, from + 1, upTo))
           /\ OperationOK(p, given)
<1> DEFINE p    == SendData(o)
           from == o.file.position
           upTo == Minimum(from + o.dataSize, Len(o.file.content))
           data == SubSeq(o.file.content, from + 1, upTo)
<1>1. /\ o.file.content \in Cells /\ from \in Nat /\ o.dataSize \in Nat
      /\ o.last \in BOOLEAN /\ o.lastTransmitted \in BlockNumbers /\ Len(o.file.content) \in Nat
    BY DEF OperationOK, File, Cells
<1>2. upTo \in Nat /\ from <= upTo /\ upTo <= Len(o.file.content)
    BY <1>1 DEF Minimum
<1>3. data \in Cells /\ Len(data) = upTo - from
  <2> HIDE DEF upTo, from
  <2> QED BY <1>1, <1>2, PartIsData
<1>4. DataToSend(o.file, o.dataSize) = data   BY DEF DataToSend
<1>5. /\ Changes(o, p, {"phase", "lastTransmitted", "file", "last", "packet"})
      /\ p.phase = "transfer" /\ p.lastTransmitted = NextBlock(o.lastTransmitted)
      /\ p.file = Sent(o.file, o.dataSize)
      /\ p.last = (o.last \/ Len(data) < o.dataSize)
      /\ p.packet = EncodeData(NextBlock(o.lastTransmitted), data)
  <2> HIDE DEF data
  <2> QED BY <1>4 DEF SendData, Changes, IsOperation, OperationFields
<1>6. /\ p.file \in File(Cells) /\ SameFile(p.file, given) /\ p.file.operation = o.file.operation
      /\ p.file.content = o.file.content /\ p.file.position = upTo
    BY <1>1, <1>2, <1>5 DEF OperationOK, File, Sent, SameFile
<1>7. p.lastTransmitted \in BlockNumbers /\ p.last \in BOOLEAN
    BY <1>1, <1>5, NextIsBlock
<1>8. p.packet \in Cells
  <2>1. NextBlock(o.lastTransmitted) \in Nat /\ 1 \in Nat   BY <1>1, NextIsBlock
  <2> HIDE DEF data, p
  <2> QED BY <1>3, <1>5, <2>1, DataIsDecoded
<1> HIDE DEF p, data, from, upTo
<1>9. /\ p.config = o.config /\ p.buffer = o.buffer /\ p.dataSize = o.dataSize /\ p.timeout = o.timeout
      /\ p.lastReceived = o.lastReceived
    BY <1>5 DEF Changes, IsOperation, OperationFields
<1>10. OperationOK(p, given)   BY <1>6, <1>7, <1>8, <1>9 DEF OperationOK, Holds
<1> QED BY <1>3, <1>5, <1>6, <1>10 DEF p, data, from, upTo

(* dataPacket() of the next block *)
LEMMA StoreOf ==
    ASSUME NEW o, NEW given, IsOperation(o), OperationOK(o, given), given.operation = "Receive",
           NEW packet, packet.block \in BlockNumbers, packet.data \in Cells,
           Len(packet.data) <= o.dataSize
    PROVE  LET p == Store(o, packet) IN
           /\ Changes(o, p, {"phase", "status", "lastReceived", "file", "packet"})
           /\ p.packet = EncodeAck(packet.block)
           /\ p.lastReceived = packet.block
           /\ p.file.content = IF o.file.type = "null" THEN o.file.content
                               ELSE o.file.content \o packet.data
           /\ p.phase = IF Len(packet.data) < o.dataSize THEN "done" ELSE "transfer"
           /\ p.status = IF Len(packet.data) < o.dataSize THEN "Successful" ELSE o.status
           /\ OperationOK(p, given)
<1> DEFINE a == Acknowledge(o, packet.block)
           stored == [a EXCEPT !.file = Received(@, packet.data)]
           p == Store(o, packet)
<1>0. /\ o.dataSize \in Nat /\ Len(packet.data) \in Nat /\ o.file \in File(Cells)
      /\ o.file.content \in Cells /\ SameFile(o.file, given)
    BY DEF OperationOK, Cells, File
<1>1. /\ Changes(o, a, {"phase", "lastReceived", "packet"}) /\ DOMAIN a = DOMAIN o
      /\ a.phase = "transfer" /\ a.lastReceived = packet.block /\ a.packet = EncodeAck(packet.block)
      /\ OperationOK(a, given)
    BY AcknowledgeOf DEF Changes
<1>2. a.file = o.file /\ a.status = o.status /\ IsOperation(a)
    BY <1>1 DEF Changes, IsOperation, OperationFields
<1>3. p = IF Len(packet.data) < o.dataSize THEN Finish(stored, "Successful") ELSE stored
    BY <1>0 DEF Store
<1> HIDE DEF a, p
<1>4. Changes(a, stored, {"file"}) /\ stored.file = Received(o.file, packet.data)
    BY <1>2 DEF Changes, IsOperation, OperationFields
<1> HIDE DEF stored
<1>5. o.file.content \o packet.data \in Cells   BY <1>0, ConcatProperties DEF Cells
<1>6. /\ stored.file \in File(Cells) /\ SameFile(stored.file, given) /\ stored.file.operation = o.file.operation
      /\ stored.file.content = IF o.file.type = "null" THEN o.file.content ELSE o.file.content \o packet.data
    BY <1>0, <1>4, <1>5 DEF File, Received, SameFile
<1>7. /\ stored.config = a.config /\ stored.buffer = a.buffer /\ stored.dataSize = a.dataSize
      /\ stored.timeout = a.timeout /\ stored.lastTransmitted = a.lastTransmitted
      /\ stored.last = a.last /\ stored.phase = a.phase /\ stored.status = a.status
      /\ stored.lastReceived = a.lastReceived /\ stored.packet = a.packet /\ IsOperation(stored)
    BY <1>2, <1>4 DEF Changes, IsOperation, OperationFields
<1>8. OperationOK(stored, given)   BY <1>1, <1>2, <1>6, <1>7 DEF OperationOK, Holds
<1>9. Changes(o, stored, {"phase", "lastReceived", "file", "packet"})
    BY <1>1, <1>4 DEF Changes
<1>10. CASE Len(packet.data) < o.dataSize
  <2>1. p = Finish(stored, "Successful")   BY <1>3, <1>10
  <2>2. /\ Changes(stored, p, {"phase", "status", "file"}) /\ p.phase = "done" /\ p.status = "Successful"
        /\ p.file.content = stored.file.content /\ OperationOK(p, given)
    <3>1. IsOperation(stored) /\ stored.file \in File(Cells)   BY <1>6, <1>7
    <3>2. OperationOK(p, given)   BY <1>8, <2>1, <3>1, FinishOK
    <3> QED BY <2>1, <3>1, <3>2, FinishOf
  <2>3. Changes(o, p, {"phase", "status", "lastReceived", "file", "packet"})
      BY <1>9, <2>2 DEF Changes
  <2>4. p.packet = stored.packet /\ p.lastReceived = stored.lastReceived
      BY <1>7, <2>2 DEF Changes, IsOperation, OperationFields
  <2> QED BY <1>1, <1>6, <1>7, <1>10, <2>2, <2>3, <2>4 DEF p
<1>11. CASE ~(Len(packet.data) < o.dataSize)
  <2>1. p = stored   BY <1>3, <1>11
  <2>2. Changes(o, p, {"phase", "status", "lastReceived", "file", "packet"})
      BY <1>9, <2>1 DEF Changes
  <2> QED BY <1>1, <1>2, <1>6, <1>7, <1>8, <1>11, <2>1, <2>2 DEF p
<1> QED BY <1>10, <1>11

-----------------------------------------------------------------------------
(* What the member functions of an operation change *)

(* What a setup is *)
LEMMA SetupFacts ==
    ASSUME setup \in Setups
    PROVE  /\ setup.kind \in {"read", "write"}
           /\ setup.client.configurations \in Seq(Configuration)
           /\ setup.server.configurations \in Seq(Configuration)
           /\ IsOptions(setup.client.additional)
           /\ setup.client.name \in Seq({Letter}) /\ setup.client.mode \in Modes
           /\ setup.client.handler \in Handlers
           /\ setup.server.extra \in {"none", "remaining", "unasked"}
           /\ setup.client.file \in File(Cells) /\ setup.server.file \in File(Cells)
           /\ IF Reading THEN SinkFile(setup.client.file) /\ SourceFile(setup.server.file)
              ELSE SourceFile(setup.client.file) /\ SinkFile(setup.server.file)
<1>1. /\ IsOptions(setup.client.additional) /\ setup \in Setup({setup.client.additional})
      /\ IF Reading THEN SinkFile(setup.client.file) /\ SourceFile(setup.server.file)
         ELSE SourceFile(setup.client.file) /\ SinkFile(setup.server.file)
    BY DataPathAssumption DEF Reading
<1>2. setup.client \in ClientSetup({setup.client.additional}) /\ setup.server \in ServerSetup /\ setup.kind \in {"read", "write"}
    BY <1>1 DEF Setup
<1>3. /\ setup.client.configurations \in Seq(Configuration)
      /\ setup.client.name \in Seq({Letter}) /\ setup.client.mode \in Modes
      /\ setup.client.handler \in Handlers /\ setup.client.file \in File(Cells)
    BY <1>2 DEF ClientSetup, Cells
<1>4. /\ setup.server.configurations \in Seq(Configuration)
      /\ setup.server.extra \in {"none", "remaining", "unasked"} /\ setup.server.file \in File(Cells)
    BY <1>2 DEF ServerSetup, Cells
<1> QED BY <1>1, <1>2, <1>3, <1>4

(* BufferSize(): the buffer has wrapped, or holds a block of the size that is configured. *)
LEMMA BufferWrapsOrHolds ==
    ASSUME NEW config \in Configuration
    PROVE  /\ BufferSize(config) \in Nat
           /\ \/ BufferSize(config) <= 1
              \/ /\ BufferSize(config) >= HeaderSize + DefaultDataSize
                 /\ config.blockSize # None => BufferSize(config) >= HeaderSize + config.blockSize
<1> DEFINE n == HeaderSize + IF config.blockSize > DefaultDataSize THEN config.blockSize ELSE DefaultDataSize
<1>1. config.blockSize \in 0 .. Word - 1 \cup {None}   BY DEF Configuration
<1>2. /\ Word \in Nat /\ Word > 1 /\ HeaderSize = 2 /\ DefaultDataSize \in Nat /\ HeaderSize + DefaultDataSize < Word
    BY OptionAssumption, PacketAssumption
<1>3. n \in Nat /\ n <= Word + 1 /\ n >= HeaderSize + DefaultDataSize
       /\ (config.blockSize # None => n >= HeaderSize + config.blockSize)
    BY <1>1, <1>2 DEF None
<1> HIDE DEF n
<1>4. n % Word \in Nat /\ (n < Word => n % Word = n) /\ (n >= Word => n % Word <= 1)
  <2>1. n < Word => n % Word = n   BY <1>2, <1>3
  <2>2. n = Word => n % Word = 0   BY <1>2, <1>3
  <2>3. n = Word + 1 => n % Word = 1   BY <1>2, <1>3
  <2> QED BY <1>2, <1>3, <2>1, <2>2, <2>3
<1>5. BufferSize(config) = n % Word   BY DEF BufferSize, n
<1> QED BY <1>2, <1>3, <1>4, <1>5

(* An operation as the factory and the user leave it *)
LEMMA ConfiguredOf ==
    ASSUME NEW configurations \in Seq(Configuration), NEW file \in File(Cells)
    PROVE  LET o == Configured(configurations, file) IN
           /\ DOMAIN o = OperationFields /\ IsUnused(o) /\ o.file = file /\ OperationOK(o, file)
<1> DEFINE n == NewOperation(file)
<1>0. /\ DefaultDataSize \in Nat /\ HeaderSize = 2 /\ DefaultTimeout \in Nat /\ MaxBlock \in Nat
    BY OptionAssumption, PacketAssumption, DataPathAssumption, MaxBlockAssumption
<1>1. /\ DOMAIN n = OperationFields /\ IsUnused(n) /\ n.file = file
      /\ n.config = NoConfiguration /\ n.buffer = HeaderSize + DefaultDataSize
    BY DEF NewOperation, OperationFields, IsUnused
<1>2. NoConfiguration \in Configuration /\ NoConfiguration.blockSize = None
    BY DEF NoConfiguration, Configuration
<1>3. <<>> \in Cells /\ SameFile(file, file) /\ 0 \in BlockNumbers
    BY <1>0 DEF Cells, SameFile, BlockNumbers
<1> HIDE DEF n
<1>4. OperationOK(n, file)
  <2>1. n.config \in Configuration /\ n.buffer \in Nat /\ n.file \in File(Cells) /\ SameFile(n.file, file)
      BY <1>0, <1>1, <1>2, <1>3
  <2>2. /\ n.dataSize \in Nat /\ n.timeout \in Nat /\ n.lastReceived \in BlockNumbers
        /\ n.lastTransmitted \in BlockNumbers /\ n.packet \in Cells
      BY <1>0, <1>1, <1>3 DEF IsUnused
  <2>3. n.last \in BOOLEAN   BY DEF n, NewOperation
  <2>4. Holds(n)   BY <1>0, <1>1, <1>2 DEF Holds, IsUnused
  <2> QED BY <2>1, <2>2, <2>3, <2>4 DEF OperationOK
<1>5. CASE configurations = <<>>
    BY <1>1, <1>4, <1>5 DEF Configured, n
<1>6. CASE configurations # <<>>
  <2> DEFINE c == Last(configurations)  o == OptionsConfiguration(n, c)
  <2>1. c \in Configuration
    <3>1. Len(configurations) \in 1 .. Len(configurations)   BY <1>6, EmptySeq
    <3> QED BY <3>1, ElementOfSeq DEF Last
  <2>2. Configured(configurations, file) = o   BY <1>6 DEF Configured, n
  <2> HIDE DEF c
  <2>3. /\ DOMAIN o = OperationFields /\ o.file = file /\ o.config = c
        /\ o.buffer = IF file.operation = "Receive" THEN BufferSize(c) ELSE n.buffer
        /\ o.phase = n.phase /\ o.status = n.status /\ o.dataSize = n.dataSize
        /\ o.timeout = n.timeout /\ o.lastReceived = n.lastReceived /\ o.announced = n.announced
        /\ o.lastTransmitted = n.lastTransmitted /\ o.last = n.last /\ o.packet = n.packet
      BY <1>1 DEF OptionsConfiguration, OperationFields
  <2> HIDE DEF o
  <2>4. /\ o.buffer \in Nat
        /\ \/ o.buffer <= 1
           \/ /\ o.buffer >= HeaderSize + DefaultDataSize
              /\ file.operation = "Receive" /\ c.blockSize # None => o.buffer >= HeaderSize + c.blockSize
    <3>1. CASE file.operation = "Receive"
      <4>1. o.buffer = BufferSize(c)   BY <2>3, <3>1
      <4> QED BY <2>1, <4>1, BufferWrapsOrHolds
    <3>2. CASE file.operation # "Receive"   BY <1>0, <1>1, <2>3, <3>2
    <3> QED BY <3>1, <3>2
  <2>5. o.dataSize = DefaultDataSize   BY <1>1, <2>3 DEF IsUnused
  <2>6. Holds(o)   BY <1>0, <2>3, <2>4, <2>5 DEF Holds
  <2>7. IsUnused(o)   BY <1>1, <2>3 DEF IsUnused
  <2>8. OperationOK(o, file)   BY <1>3, <1>4, <2>1, <2>3, <2>4, <2>6 DEF OperationOK
  <2> QED BY <2>2, <2>3, <2>7, <2>8
<1> QED BY <1>5, <1>6

(* What an operation has in addition *)
LEMMA ExtendedOf ==
    ASSUME NEW o, NEW given, DOMAIN o = OperationFields, IsUnused(o), OperationOK(o, given),
           NEW e, DOMAIN e \cap OperationFields = {}
    PROVE  /\ DOMAIN With(o, e) = OperationFields \cup DOMAIN e
           /\ IsUnused(With(o, e)) /\ OperationOK(With(o, e), given) /\ With(o, e).file = o.file
           /\ \A f \in DOMAIN e : With(o, e)[f] = e[f]
<1> DEFINE p == With(o, e)
<1>1. DOMAIN p = OperationFields \cup DOMAIN e /\ \A f \in DOMAIN e : p[f] = e[f]
    BY DEF With
<1>2. /\ p.config = o.config /\ p.buffer = o.buffer /\ p.dataSize = o.dataSize /\ p.timeout = o.timeout
      /\ p.file = o.file /\ p.lastTransmitted = o.lastTransmitted /\ p.last = o.last /\ p.packet = o.packet
      /\ p.phase = o.phase /\ p.status = o.status /\ p.lastReceived = o.lastReceived /\ p.announced = o.announced
    BY DEF With, OperationFields
<1> HIDE DEF p
<1>3. IsUnused(p)   BY <1>2 DEF IsUnused
<1>4. OperationOK(p, given)   BY <1>2 DEF OperationOK, Holds
<1> QED BY <1>1, <1>2, <1>3, <1>4 DEF p

(* The operation of the client, before its first request *)
LEMMA NewClientOf ==
    ASSUME NEW s, s.client.configurations \in Seq(Configuration), s.client.file \in File(Cells)
    PROVE  LET o == NewClient(s) IN
           /\ DOMAIN o = ClientFields /\ IsUnused(o) /\ OperationOK(o, s.client.file)
           /\ o.oackReceived = FALSE /\ o.asked = FALSE /\ o.requested = NoOptions
<1> DEFINE o == Configured(s.client.configurations, s.client.file)
           e == [oackReceived |-> FALSE, transferSize |-> None, asked |-> FALSE, requested |-> NoOptions]
<1>1. /\ DOMAIN o = OperationFields /\ IsUnused(o) /\ OperationOK(o, s.client.file)   BY ConfiguredOf
<1>2. DOMAIN e = {"oackReceived", "transferSize", "asked", "requested"}
       /\ e["oackReceived"] = FALSE /\ e["asked"] = FALSE /\ e["requested"] = NoOptions
    OBVIOUS
<1>3. DOMAIN e \cap OperationFields = {} /\ OperationFields \cup DOMAIN e = ClientFields
    BY <1>2 DEF OperationFields, ClientFields
<1> HIDE DEF o, e
<1>4. /\ DOMAIN With(o, e) = OperationFields \cup DOMAIN e
      /\ IsUnused(With(o, e)) /\ OperationOK(With(o, e), s.client.file)
      /\ \A f \in DOMAIN e : With(o, e)[f] = e[f]
    BY <1>1, <1>3, ExtendedOf
<1>5. NewClient(s) = With(o, e)   BY DEF NewClient, o, e
<1> QED BY <1>2, <1>3, <1>4, <1>5

(* The operation of the server, before it is started *)
LEMMA NewServerOf ==
    ASSUME NEW s, s.configurations \in Seq(Configuration), s.file \in File(Cells)
    PROVE  LET o == NewServer(s) IN
           /\ DOMAIN o = ServerFields /\ IsUnused(o) /\ OperationOK(o, s.file)
           /\ o.extra = s.extra /\ o.decoded = InvalidPacket
<1> DEFINE o == Configured(s.configurations, s.file)
           e == [extra |-> s.extra, decoded |-> InvalidPacket]
<1>1. /\ DOMAIN o = OperationFields /\ IsUnused(o) /\ OperationOK(o, s.file)   BY ConfiguredOf
<1>2. DOMAIN e = {"extra", "decoded"} /\ e["extra"] = s.extra /\ e["decoded"] = InvalidPacket
    OBVIOUS
<1>3. DOMAIN e \cap OperationFields = {} /\ OperationFields \cup DOMAIN e = ServerFields
    BY <1>2 DEF OperationFields, ServerFields
<1> HIDE DEF o, e
<1>4. /\ DOMAIN With(o, e) = OperationFields \cup DOMAIN e
      /\ IsUnused(With(o, e)) /\ OperationOK(With(o, e), s.file)
      /\ \A f \in DOMAIN e : With(o, e)[f] = e[f]
    BY <1>1, <1>3, ExtendedOf
<1>5. NewServer(s) = With(o, e)   BY DEF NewServer, o, e
<1> QED BY <1>2, <1>3, <1>4, <1>5

-----------------------------------------------------------------------------
(* Requests and answers *)

(* Options with one more are options. *)
LEMMA WithOptionTyped ==
    ASSUME NEW options, IsOptions(options), NEW name \in KnownOptions, NEW value \in Nat \cup {None}
    PROVE  IsOptions(WithOption(options, name, value))
BY DEF IsOptions, WithOption, Values, None

(* The options of a packet are options, whatever is added. *)
LEMMA WithOptionsTyped ==
    ASSUME NEW options, IsOptions(options), NEW blockSize \in Nat \cup {None},
           NEW timeout \in Nat \cup {None}, NEW size \in Nat \cup {None}
    PROVE  IsOptions(WithOptions(options, blockSize, timeout, size))
<1>1. "blksize" \in KnownOptions /\ "timeout" \in KnownOptions /\ "tsize" \in KnownOptions   BY DEF KnownOptions
<1>2. IsOptions(WithOption(options, "blksize", blockSize))   BY <1>1, WithOptionTyped
<1>3. IsOptions(WithOption(WithOption(options, "blksize", blockSize), "timeout", timeout))
    BY <1>1, <1>2, WithOptionTyped
<1> QED BY <1>1, <1>3, WithOptionTyped DEF WithOptions

(* A size that is told is that of the file, or there is none. *)
LEMMA RequestedSize ==
    ASSUME NEW file \in File(Cells), NEW given, SameFile(file, given), SourceFile(given)
    PROVE  RequestedTransferSize(file) \in Nat \cup {None}
           /\ RequestedTransferSize(file) \in {None, Len(given.content)}
BY DEF RequestedTransferSize, File, Cells, SameFile, SourceFile, Unknown, None

(* request(): the options are options. *)
LEMMA RequestOptionsTyped ==
    ASSUME NEW config \in Configuration, NEW additional, IsOptions(additional), NEW size \in Nat \cup {None}
    PROVE  IsOptions(RequestOptions(config, additional, size))
<1> DEFINE timeout == IF config.timeout = None THEN None ELSE config.timeout % Word
<1>1. config.timeout \in Nat \cup {None} /\ config.blockSize \in Nat \cup {None} /\ Word \in Nat /\ Word > 0
    BY OptionAssumption DEF Configuration
<1>2. timeout \in Nat \cup {None}
  <2>1. CASE config.timeout = None   BY <2>1
  <2>2. CASE config.timeout # None   BY <1>1, <2>2
  <2> QED BY <2>1, <2>2
<1>3. (IF config.transferSize THEN size ELSE None) \in Nat \cup {None}   OBVIOUS
<1> HIDE DEF timeout
<1>4. IsOptions(WithOptions(additional, config.blockSize, timeout, IF config.transferSize THEN size ELSE None))
    BY <1>1, <1>2, <1>3, WithOptionsTyped
<1> QED BY <1>4 DEF RequestOptions, timeout

(* start() of a data handler *)
LEMMA StartedOf ==
    ASSUME NEW file \in File(Cells), NEW given, SameFile(file, given)
    PROVE  /\ Started(file) \in File(Cells) /\ SameFile(Started(file), given)
           /\ Started(file).position = 0 /\ Started(file).operation = file.operation
           /\ Started(file).content = IF file.operation = "Receive" THEN <<>> ELSE file.content
           /\ RequestedTransferSize(Started(file)) = RequestedTransferSize(file) \/ file.operation = "Receive"
<1>1. <<>> \in Cells   BY DEF Cells
<1> QED BY <1>1 DEF Started, File, SameFile, RequestedTransferSize

(* What is read of an option is what the packet has, or nothing. *)
LEMMA OptionRead ==
    ASSUME NEW options, NEW name, NEW values, None \notin values
    PROVE  LET option == GetOption(options, name, values) IN
           /\ option.value \in values \cup {None}
           /\ option.valid /\ name \in DOMAIN options =>
                 option.value = options[name] /\ option.value \in values
           /\ option.valid /\ name \notin DOMAIN options => option.value = None
           /\ option.value # None => name \in DOMAIN options /\ option.value = options[name]
           /\ option.valid \in BOOLEAN
BY DEF GetOption

(* The three options of the library, as they are read *)
LEMMA OptionsRead ==
    ASSUME NEW options
    PROVE  /\ BlockSizeOption(options).value \in BlockSizeMin .. BlockSizeMax \cup {None}
           /\ BlockSizeOption(options).valid => BlockSizeOption(options).value = Value(options, "blksize", None)
           /\ TimeoutOption(options).value \in TimeoutMin .. TimeoutMax \cup {None}
           /\ TimeoutOption(options).valid => TimeoutOption(options).value = Value(options, "timeout", None)
           /\ TransferSizeOption(options).value \in Nat \cup {None}
           /\ TransferSizeOption(options).valid => TransferSizeOption(options).value = Value(options, "tsize", None)
<1>1. None \notin BlockSizeMin .. BlockSizeMax /\ None \notin TimeoutMin .. TimeoutMax /\ None \notin Nat
    BY OptionAssumption DEF None
<1>2. /\ BlockSizeOption(options).value \in BlockSizeMin .. BlockSizeMax \cup {None}
      /\ BlockSizeOption(options).valid => BlockSizeOption(options).value = Value(options, "blksize", None)
    BY <1>1, OptionRead DEF BlockSizeOption, Value
<1>3. /\ TimeoutOption(options).value \in TimeoutMin .. TimeoutMax \cup {None}
      /\ TimeoutOption(options).valid => TimeoutOption(options).value = Value(options, "timeout", None)
    BY <1>1, OptionRead DEF TimeoutOption, Value
<1>4. /\ TransferSizeOption(options).value \in Nat \cup {None}
      /\ TransferSizeOption(options).valid => TransferSizeOption(options).value = Value(options, "tsize", None)
    BY <1>1, OptionRead DEF TransferSizeOption, Value
<1> QED BY <1>2, <1>3, <1>4

(* optionsAcknowledgementPacket(): what is used of the answer *)
LEMMA AdoptedOf ==
    ASSUME TypeOK
    PROVE  LET p == Adopted  options == ClientPacket.options IN
           /\ Changes(client, p, {"dataSize", "timeout", "announced", "asked"})
           /\ OperationOK(p, setup.client.file)
           /\ p.asked \in BOOLEAN
           /\ ~RefusedOack =>
                /\ p.dataSize = Value(options, "blksize", client.dataSize)
                /\ p.timeout = Value(options, "timeout", client.timeout)
                /\ Reading => p.announced = Value(options, "tsize", None)
                /\ ~Reading => p.announced = client.announced
                /\ ~Reading /\ Value(options, "tsize", None) # None =>
                      client.config.transferSize /\ Value(options, "tsize", None) = client.transferSize
                /\ HasHandler => p.asked
                /\ p.dataSize = client.dataSize \/ p.dataSize # 0
<1> DEFINE p == Adopted  options == ClientPacket.options
           blockSize == BlockSizeOption(options)  timeout == TimeoutOption(options)  size == TransferSizeOption(options)
<1>0. /\ BlockSizeMin \in Nat /\ BlockSizeMax \in Nat /\ TimeoutMin \in Nat /\ TimeoutMax \in Nat
      /\ 0 < BlockSizeMin /\ HeaderSize = 2
    BY OptionAssumption, PacketAssumption
<1>1. /\ blockSize.value \in BlockSizeMin .. BlockSizeMax \cup {None}
      /\ blockSize.valid => blockSize.value = Value(options, "blksize", None)
      /\ timeout.value \in TimeoutMin .. TimeoutMax \cup {None}
      /\ timeout.valid => timeout.value = Value(options, "timeout", None)
      /\ size.valid => size.value = Value(options, "tsize", None)
    BY OptionsRead
<1>2. DOMAIN client = ClientFields /\ OperationOK(client, setup.client.file) /\ HasHandler \in BOOLEAN
    BY DEF TypeOK, HasHandler
<1>3. /\ Changes(client, p, {"dataSize", "timeout", "announced", "asked"})
      /\ p.dataSize  = IF RefusedBlockSize \/ blockSize.value = None THEN client.dataSize ELSE blockSize.value
      /\ p.timeout   = IF RefusedBlockSize \/ RefusedTimeout \/ timeout.value = None THEN client.timeout ELSE timeout.value
      /\ p.announced = IF Consulted /\ Reading THEN size.value ELSE client.announced
      /\ p.asked     = (Consulted /\ HasHandler)
  <2> HIDE DEF blockSize, timeout, size
  <2>1. p = [client EXCEPT
            !.dataSize  = IF RefusedBlockSize \/ blockSize.value = None THEN @ ELSE blockSize.value,
            !.timeout   = IF RefusedBlockSize \/ RefusedTimeout \/ timeout.value = None THEN @ ELSE timeout.value,
            !.announced = IF Consulted /\ Reading THEN size.value ELSE @,
            !.asked     = Consulted /\ HasHandler]
      BY DEF Adopted, blockSize, timeout, size
  <2> HIDE DEF p
  <2> QED BY <1>2, <2>1 DEF Changes, ClientFields, OperationFields
<1>4. /\ RefusedBlockSize <=> RefusesBlockSize(client.config, blockSize)
      /\ RefusedTimeout <=> (~RefusedBlockSize /\ RefusesTimeout(client.config, timeout))
      /\ RefusedTransferSize <=> /\ ~RefusedBlockSize /\ ~RefusedTimeout
                                 /\ RefusesTransferSize(client.config, size, AcceptableSize(size.value))
    BY DEF RefusedBlockSize, RefusedTimeout, RefusedTransferSize
<1> HIDE DEF p, options, blockSize, timeout, size
<1>5. p.dataSize \in Nat /\ (p.dataSize = client.dataSize \/ p.dataSize # 0)
    BY <1>0, <1>1, <1>2, <1>3 DEF OperationOK
<1>6. p.timeout \in Nat   BY <1>0, <1>1, <1>2, <1>3 DEF OperationOK
<1>7. p.dataSize # client.dataSize => client.config.blockSize # None /\ p.dataSize <= client.config.blockSize
  <2> SUFFICES ASSUME p.dataSize # client.dataSize
               PROVE  client.config.blockSize # None /\ p.dataSize <= client.config.blockSize
      OBVIOUS
  <2>1. ~RefusedBlockSize /\ blockSize.value # None /\ p.dataSize = blockSize.value   BY <1>3
  <2>2. ~(client.config.blockSize = None \/ blockSize.value > client.config.blockSize)
      BY <1>4, <2>1 DEF RefusesBlockSize
  <2>3. client.config.blockSize \in Nat \cup {None} /\ blockSize.value \in Nat
      BY <1>0, <1>1, <1>2, <2>1, OptionAssumption DEF OperationOK, Configuration
  <2> QED BY <2>1, <2>2, <2>3
<1>8. /\ p.config = client.config /\ p.buffer = client.buffer /\ p.file = client.file
      /\ p.lastReceived = client.lastReceived /\ p.lastTransmitted = client.lastTransmitted
      /\ p.last = client.last /\ p.packet = client.packet
    BY <1>2, <1>3 DEF Changes, ClientFields, OperationFields
<1>9. Holds(p)
  <2>1. CASE p.dataSize = client.dataSize   BY <1>2, <1>8, <2>1 DEF OperationOK, Holds
  <2>2. CASE p.dataSize # client.dataSize
    <3>1. client.config.blockSize # None /\ p.dataSize <= client.config.blockSize   BY <1>7, <2>2
    <3>2. client.config.blockSize \in Nat /\ p.dataSize \in Nat /\ client.buffer \in Nat
        BY <1>2, <1>5, <3>1, OptionAssumption DEF OperationOK, Configuration
    <3> QED BY <1>0, <1>2, <1>8, <3>1, <3>2 DEF OperationOK, Holds
  <2> QED BY <2>1, <2>2
<1>10. OperationOK(p, setup.client.file)   BY <1>2, <1>5, <1>6, <1>8, <1>9 DEF OperationOK
<1>11. p.asked \in BOOLEAN   BY <1>2, <1>3 DEF Consulted, HasHandler
<1>12. ASSUME ~RefusedOack
       PROVE  /\ p.dataSize = Value(options, "blksize", client.dataSize)
              /\ p.timeout = Value(options, "timeout", client.timeout)
              /\ Reading => p.announced = Value(options, "tsize", None)
              /\ ~Reading => p.announced = client.announced
              /\ ~Reading /\ Value(options, "tsize", None) # None =>
                    client.config.transferSize /\ Value(options, "tsize", None) = client.transferSize
              /\ HasHandler => p.asked
  <2>1. Consulted /\ ~RefusedBlockSize /\ ~RefusedTimeout /\ ~RefusedTransferSize
      BY <1>12 DEF RefusedOack, Consulted
  <2>2. /\ blockSize.valid /\ timeout.valid /\ size.valid
        /\ size.value # None => client.config.transferSize /\ AcceptableSize(size.value)
      BY <1>4, <2>1 DEF RefusesBlockSize, RefusesTimeout, RefusesTransferSize
  <2>3. p.dataSize = Value(options, "blksize", client.dataSize)
    <3>1. "blksize" \in DOMAIN options => options["blksize"] # None
      <4>1. GetOption(options, "blksize", BlockSizeMin .. BlockSizeMax).valid   BY <2>2 DEF blockSize, BlockSizeOption
      <4> QED BY <1>0, <4>1 DEF GetOption, None
    <3> QED BY <1>1, <1>3, <2>1, <2>2, <3>1 DEF Value
  <2>4. p.timeout = Value(options, "timeout", client.timeout)
    <3>1. "timeout" \in DOMAIN options => options["timeout"] # None
      <4>1. GetOption(options, "timeout", TimeoutMin .. TimeoutMax).valid   BY <2>2 DEF timeout, TimeoutOption
      <4> QED BY <1>0, <4>1 DEF GetOption, None
    <3> QED BY <1>1, <1>3, <2>1, <2>2, <3>1 DEF Value
  <2>5. Reading => p.announced = Value(options, "tsize", None)   BY <1>1, <1>3, <2>1, <2>2
  <2>6. ~Reading => p.announced = client.announced   BY <1>3
  <2>7. ~Reading /\ size.value # None => client.config.transferSize /\ size.value = client.transferSize
      BY <2>2 DEF AcceptableSize
  <2> QED BY <1>1, <1>3, <2>1, <2>2, <2>3, <2>4, <2>5, <2>6, <2>7
<1> QED BY <1>3, <1>5, <1>10, <1>11, <1>12 DEF p, options

(* start(): what is used of the request *)
LEMMA AnsweringOf ==
    ASSUME TypeOK, IsUnused(server)
    PROVE  LET p == Answering IN
           /\ Changes(server, p, {"phase", "file", "decoded", "dataSize", "timeout"})
           /\ p.phase = "transfer" /\ p.file = Started(server.file) /\ p.decoded = RequestPacket
           /\ p.dataSize = LET granted == GrantedBlockSize(server.config, ClientOptions)
                           IN  IF granted = None THEN DefaultDataSize ELSE granted
           /\ p.timeout = LET granted == GrantedTimeout(server.config, ClientOptions)
                          IN  IF granted = None THEN DefaultTimeout ELSE granted
           /\ GrantedBlockSize(server.config, ClientOptions) \in Nat \cup {None}
           /\ GrantedTimeout(server.config, ClientOptions) \in Nat \cup {None}
           /\ OperationOK(p, setup.server.file)
<1> DEFINE p == Answering
           blockSize == GrantedBlockSize(server.config, ClientOptions)
           timeout   == GrantedTimeout(server.config, ClientOptions)
<1>0. /\ BlockSizeMin \in Nat /\ BlockSizeMax \in Nat /\ TimeoutMin \in Nat /\ TimeoutMax \in Nat
      /\ 0 < BlockSizeMin /\ HeaderSize = 2 /\ DefaultDataSize \in Nat /\ Word \in Nat /\ DefaultTimeout \in Nat
    BY OptionAssumption, PacketAssumption, DataPathAssumption
<1>1. /\ ClientOptions.blockSize \in BlockSizeMin .. BlockSizeMax \cup {None}
      /\ ClientOptions.timeout \in TimeoutMin .. TimeoutMax \cup {None}
    BY OptionsRead DEF ClientOptions, TftpOptions
<1>2. /\ DOMAIN server = ServerFields /\ OperationOK(server, setup.server.file)
      /\ server.dataSize = DefaultDataSize /\ server.timeout = DefaultTimeout
      /\ server.config.blockSize \in Nat \cup {None} /\ server.config.timeout \in Nat \cup {None}
    BY <1>0 DEF TypeOK, OperationOK, Configuration, IsUnused
<1>3. /\ blockSize \in Nat \cup {None}
      /\ blockSize # None => server.config.blockSize # None /\ blockSize <= server.config.blockSize
  <2>1. CASE server.config.blockSize = None \/ ClientOptions.blockSize = None
      BY <2>1 DEF GrantedBlockSize
  <2>2. CASE ~(server.config.blockSize = None \/ ClientOptions.blockSize = None)
    <3>1. ClientOptions.blockSize \in Nat /\ server.config.blockSize \in Nat   BY <1>0, <1>1, <1>2, <2>2
    <3> QED BY <2>2, <3>1 DEF GrantedBlockSize
  <2> QED BY <2>1, <2>2
<1>4. timeout \in Nat \cup {None}
    BY <1>0, <1>1 DEF GrantedTimeout, None
<1>5. /\ Changes(server, p, {"phase", "file", "decoded", "dataSize", "timeout"})
      /\ p.phase = "transfer" /\ p.file = Started(server.file) /\ p.decoded = RequestPacket
      /\ p.dataSize = IF blockSize = None THEN server.dataSize ELSE blockSize
      /\ p.timeout = IF timeout = None THEN server.timeout ELSE timeout
  <2> HIDE DEF blockSize, timeout
  <2>1. p = [server EXCEPT !.phase = "transfer", !.file = Started(@), !.decoded = RequestPacket,
                           !.dataSize = IF blockSize = None THEN @ ELSE blockSize,
                           !.timeout  = IF timeout = None THEN @ ELSE timeout]
      BY DEF Answering, blockSize, timeout
  <2> HIDE DEF p
  <2> QED BY <1>2, <2>1 DEF Changes, ServerFields, OperationFields
<1> HIDE DEF p
<1>6. p.file \in File(Cells) /\ SameFile(p.file, setup.server.file) /\ p.file.operation = server.file.operation
    BY <1>2, <1>5, StartedOf DEF OperationOK
<1>7. /\ p.config = server.config /\ p.buffer = server.buffer /\ p.lastReceived = server.lastReceived
      /\ p.lastTransmitted = server.lastTransmitted /\ p.last = server.last /\ p.packet = server.packet
    BY <1>2, <1>5 DEF Changes, ServerFields, OperationFields
<1> HIDE DEF blockSize, timeout
<1>8. p.dataSize \in Nat /\ p.timeout \in Nat   BY <1>0, <1>2, <1>3, <1>4, <1>5
<1>9. Holds(p)
  <2>1. CASE blockSize = None   BY <1>2, <1>5, <1>6, <1>7, <2>1 DEF OperationOK, Holds
  <2>2. CASE blockSize # None
    <3>1. server.config.blockSize \in Nat /\ server.config.blockSize # None /\ blockSize \in Nat
          /\ blockSize <= server.config.blockSize /\ server.buffer \in Nat /\ p.dataSize = blockSize
        BY <1>2, <1>3, <1>5, <2>2 DEF OperationOK
    <3> QED BY <1>0, <1>2, <1>6, <1>7, <3>1 DEF OperationOK, Holds
  <2> QED BY <2>1, <2>2
<1>10. OperationOK(p, setup.server.file)   BY <1>2, <1>6, <1>7, <1>8, <1>9 DEF OperationOK
<1> QED BY <1>2, <1>3, <1>4, <1>5, <1>10 DEF p, blockSize, timeout

(* What the user of the library adds is no option of the library. *)
LEMMA AdditionalLeavesKnown ==
    ASSUME TypeOK, IsOptions(RequestPacket.options)
    PROVE  LeavesKnown(AdditionalOptions)
<1>1. LeavesKnown(NoOptions)   BY DEF LeavesKnown, IsOptions, NoOptions
<1>2. LeavesKnown(Remaining(RequestPacket.options))   BY DEF LeavesKnown, IsOptions, Remaining
<1>3. LeavesKnown([name \in OtherOptions |-> 1])
    BY OptionAssumption DEF LeavesKnown, IsOptions, Values
<1> QED BY <1>1, <1>2, <1>3 DEF AdditionalOptions, TypeOK

(* start(): what is answered is what is used. *)
LEMMA ServerOptionsOf ==
    ASSUME TypeOK, IsUnused(server), IsOptions(RequestPacket.options), NEW size \in Nat \cup {None}
    PROVE  LET options == ServerOptions(server.config, ClientOptions, AdditionalOptions, size)
               p == Answering
           IN
           /\ IsOptions(options)
           /\ p.dataSize = Value(options, "blksize", DefaultDataSize)
           /\ p.timeout = Value(options, "timeout", DefaultTimeout)
           /\ Value(options, "tsize", None) = IF SizeIsHandled THEN size ELSE None
<1> DEFINE blockSize == GrantedBlockSize(server.config, ClientOptions)
           timeout   == GrantedTimeout(server.config, ClientOptions)
           told      == IF SizeIsHandled THEN size ELSE None
           options   == ServerOptions(server.config, ClientOptions, AdditionalOptions, size)
           p         == Answering
<1>1. /\ blockSize \in Nat \cup {None} /\ timeout \in Nat \cup {None}
      /\ p.dataSize = IF blockSize = None THEN DefaultDataSize ELSE blockSize
      /\ p.timeout = IF timeout = None THEN DefaultTimeout ELSE timeout
    BY AnsweringOf
<1>2. LeavesKnown(AdditionalOptions) /\ IsOptions(AdditionalOptions)
    BY AdditionalLeavesKnown DEF LeavesKnown
<1>3. told \in Nat \cup {None}   OBVIOUS
<1>4. options = WithOptions(AdditionalOptions, blockSize, timeout, told)
    BY DEF ServerOptions, SizeIsHandled
<1> HIDE DEF options, p, blockSize, timeout, told
<1>5. IsOptions(options)   BY <1>1, <1>2, <1>3, <1>4, WithOptionsTyped
<1>6. /\ "blksize" \in DOMAIN options <=> blockSize # None
      /\ blockSize # None => options["blksize"] = blockSize
      /\ "timeout" \in DOMAIN options <=> timeout # None
      /\ timeout # None => options["timeout"] = timeout
      /\ "tsize" \in DOMAIN options <=> told # None
      /\ told # None => options["tsize"] = told
    BY <1>2, <1>4, WithOptionsAdds
<1>7. Value(options, "tsize", None) = told   BY <1>6 DEF Value
<1> QED BY <1>1, <1>5, <1>6, <1>7 DEF Value, options, p, told

(* request(): what is reset *)
LEMMA FreshOf ==
    ASSUME TypeOK
    PROVE  LET p == Fresh(client) IN
           /\ Changes(client, p, {"phase", "status", "file", "dataSize", "lastTransmitted", "last",
                                  "lastReceived", "asked", "announced"})
           /\ p.phase = "requested" /\ p.status = "none" /\ p.file = Started(client.file)
           /\ p.dataSize = DefaultDataSize /\ p.lastTransmitted = 0 /\ p.last = FALSE
           /\ p.lastReceived = (IF Reading THEN 0 ELSE MaxBlock)
           /\ p.asked = FALSE /\ p.announced = None
           /\ OperationOK(p, setup.client.file)
<1> DEFINE p == Fresh(client)
<1>0. /\ DOMAIN client = ClientFields /\ OperationOK(client, setup.client.file) /\ HeaderSize = 2
      /\ DefaultDataSize \in Nat /\ 0 \in BlockNumbers /\ MaxBlock \in BlockNumbers
    BY OptionAssumption, PacketAssumption, MaxBlockAssumption DEF TypeOK, BlockNumbers
<1>1. /\ Changes(client, p, {"phase", "status", "file", "dataSize", "lastTransmitted", "last",
                             "lastReceived", "asked", "announced"})
      /\ p.phase = "requested" /\ p.status = "none" /\ p.file = Started(client.file)
      /\ p.dataSize = DefaultDataSize /\ p.lastTransmitted = 0 /\ p.last = FALSE
      /\ p.lastReceived = (IF Reading THEN 0 ELSE MaxBlock)
      /\ p.asked = FALSE /\ p.announced = None
    BY <1>0 DEF Fresh, Changes, ClientFields, OperationFields
<1> HIDE DEF p
<1>2. p.file \in File(Cells) /\ SameFile(p.file, setup.client.file) /\ p.file.operation = client.file.operation
    BY <1>0, <1>1, StartedOf DEF OperationOK
<1>3. /\ p.config = client.config /\ p.buffer = client.buffer /\ p.timeout = client.timeout /\ p.packet = client.packet
    BY <1>0, <1>1 DEF Changes, ClientFields, OperationFields
<1>4. Holds(p)   BY <1>0, <1>1, <1>2, <1>3 DEF OperationOK, Holds
<1>5. OperationOK(p, setup.client.file)
    BY <1>0, <1>1, <1>2, <1>3, <1>4 DEF OperationOK
<1> QED BY <1>1, <1>5 DEF p

-----------------------------------------------------------------------------
(* Blocks of a file *)

(* The remainders of successive numbers count up, and start again at 0. *)
LEMMA Remainders ==
    ASSUME NEW m \in Nat
    PROVE  /\ m % MaxBlock \in 0 .. MaxBlock - 1
           /\ (m + 1) % MaxBlock = IF m % MaxBlock = MaxBlock - 1 THEN 0 ELSE (m % MaxBlock) + 1
<1> DEFINE q == m \div MaxBlock
           r == m % MaxBlock
<1>1. MaxBlock \in Nat /\ MaxBlock >= 2
  BY MaxBlockAssumption
<1>2. m = MaxBlock * q + r /\ r \in 0 .. MaxBlock - 1 /\ q \in Nat
  BY <1>1, Z3
<1> HIDE DEF q, r
<1>3. CASE r = MaxBlock - 1
  <2>1. m + 1 = MaxBlock * (q + 1)
    BY <1>1, <1>2, <1>3
  <2>2. (MaxBlock * (q + 1)) % MaxBlock = 0
    BY <1>1, <1>2
  <2> QED BY <1>2, <1>3, <2>1, <2>2 DEF r
<1>4. CASE r # MaxBlock - 1
  <2>1. m + 1 = MaxBlock * q + (r + 1) /\ r + 1 \in 0 .. MaxBlock - 1
    BY <1>1, <1>2, <1>4
  <2>2. (MaxBlock * q + (r + 1)) % MaxBlock = r + 1
    BY <1>1, <1>2, <2>1
  <2> QED BY <1>2, <1>4, <2>1, <2>2 DEF r
<1> QED BY <1>2, <1>3, <1>4 DEF r

(* BlockNumber::next() gives chunk i + 1 the number after that of chunk i, which is 1 *)
(* after the largest one.                                                             *)
LEMMA NextNumber ==
    ASSUME NEW i \in Nat
    PROVE  BlockOf(i + 1) = NextBlock(BlockOf(i))
<1>1. MaxBlock \in Nat /\ MaxBlock >= 2
  BY MaxBlockAssumption
<1>2. CASE i = 0
  <2>1. 0 % MaxBlock = 0
    BY <1>1
  <2>2. BlockOf(0) = 0 /\ BlockOf(1) = 1
    BY <2>1 DEF BlockOf
  <2> QED BY <1>1, <1>2, <2>2 DEF NextBlock
<1>3. CASE i # 0
  <2> DEFINE m == i - 1
             r == m % MaxBlock
             s == (m + 1) % MaxBlock
  <2>1. m \in Nat /\ i = m + 1 /\ i + 1 # 0 /\ i + 1 - 1 = m + 1
    BY <1>3
  <2>2. r \in 0 .. MaxBlock - 1 /\ s = IF r = MaxBlock - 1 THEN 0 ELSE r + 1
    BY <2>1, Remainders
  <2>3. BlockOf(i) = r + 1 /\ BlockOf(i + 1) = s + 1
    BY <1>3, <2>1 DEF BlockOf
  <2> HIDE DEF m, r, s
  <2> QED BY <1>1, <2>2, <2>3 DEF NextBlock
<1> QED BY <1>2, <1>3

(* Block numbers are block numbers. *)
LEMMA BlockOfTyped ==
    /\ BlockOf(0) = 0
    /\ \A q \in Nat : BlockOf(q) \in BlockNumbers
<1>1. ASSUME NEW q \in Nat PROVE BlockOf(q) \in BlockNumbers
  <2>1. MaxBlock \in Nat /\ MaxBlock >= 2   BY MaxBlockAssumption
  <2>2. q # 0 => (q - 1) % MaxBlock \in 0 .. MaxBlock - 1   BY Remainders
  <2> QED BY <2>1, <2>2 DEF BlockOf, BlockNumbers
<1> QED BY <1>1 DEF BlockOf

(* Each side has the file it has been given. *)
LEMMA FilesOf ==
    ASSUME TypeOK
    PROVE  /\ Original \in Cells /\ Len(Original) \in Nat
           /\ Source.file.content = Original /\ Source.file.operation = "Transmit"
           /\ Source.file.type # "null"
           /\ Sink.file.operation = "Receive"
           /\ RequestedTransferSize(Source.file) \in {None, Len(Original)}
           /\ RequestedTransferSize(Source.file) \in Nat \cup {None}
           /\ Source.file.position \in Nat /\ Sink.file.content \in Cells
           /\ DOMAIN client = ClientFields /\ IsOperation(client) /\ OperationOK(client, setup.client.file)
           /\ DOMAIN server = ServerFields /\ IsOperation(server) /\ OperationOK(server, setup.server.file)
<1>1. /\ setup.client.file \in File(Cells) /\ setup.server.file \in File(Cells)
      /\ IF Reading THEN SinkFile(setup.client.file) /\ SourceFile(setup.server.file)
         ELSE SourceFile(setup.client.file) /\ SinkFile(setup.server.file)
    BY SetupFacts DEF TypeOK
<1>2. /\ DOMAIN client = ClientFields /\ IsOperation(client) /\ OperationOK(client, setup.client.file)
      /\ DOMAIN server = ServerFields /\ IsOperation(server) /\ OperationOK(server, setup.server.file)
    BY DEF TypeOK, IsOperation, ClientFields, ServerFields
<1>3. /\ client.file \in File(Cells) /\ SameFile(client.file, setup.client.file)
      /\ server.file \in File(Cells) /\ SameFile(server.file, setup.server.file)
    BY <1>2 DEF OperationOK
<1>4. \A f \in File(Cells) : f.content \in Cells /\ Len(f.content) \in Nat /\ f.position \in Nat
    BY DEF File, Cells
<1>5. CASE Reading
  <2>1. Source = server /\ Sink = client /\ Original = setup.server.file.content   BY <1>5 DEF Source, Sink, Original
  <2> QED BY <1>1, <1>2, <1>3, <1>4, <1>5, <2>1, RequestedSize DEF SourceFile, SinkFile, SameFile
<1>6. CASE ~Reading
  <2>1. Source = client /\ Sink = server /\ Original = setup.client.file.content   BY <1>6 DEF Source, Sink, Original
  <2> QED BY <1>1, <1>2, <1>3, <1>4, <1>6, <2>1, RequestedSize DEF SourceFile, SinkFile, SameFile
<1> QED BY <1>5, <1>6

(* A block as it is decoded *)
Hears(source, sink, packet) ==
    \E p \in 0 .. source.file.position :
        /\ packet = [type |-> "DATA", block |-> source.lastTransmitted,
                     data |-> SubSeq(Original, p + 1, source.file.position)]
        /\ source.file.position - p <= source.dataSize
        /\ source.last <=> source.file.position - p < source.dataSize
        /\ sink.file.type # "null" => sink.file.content = SubSeq(Original, 1, p)

Agreed ==
    /\ client.dataSize = server.dataSize
    /\ client.timeout = server.timeout \/ round > 1
    /\ Announced(Sink)

(* A block that is on its way is received as it is, or not at all if the buffer has wrapped. *)
LEMMA BlockIsHeard ==
    ASSUME TypeOK, Supplied(Source), InFlight(Source, Sink), Source.dataSize = Sink.dataSize,
           NEW packet, packet = Decode(Cut(Source.packet, Sink.buffer))
    PROVE  /\ packet = InvalidPacket \/ Hears(Source, Sink, packet)
           /\ Sink.buffer > 1 => Hears(Source, Sink, packet)
<1>1. PICK p \in 0 .. Source.file.position :
        /\ Source.packet = EncodeData(Source.lastTransmitted, SubSeq(Original, p + 1, Source.file.position))
        /\ Source.file.position - p <= Source.dataSize
        /\ Source.last <=> Source.file.position - p < Source.dataSize
        /\ Sink.file.type # "null" => Sink.file.content = SubSeq(Original, 1, p)
    BY DEF InFlight
<1> DEFINE data == SubSeq(Original, p + 1, Source.file.position)
<1>2. /\ p \in Nat /\ Source.file.position \in Nat /\ p <= Source.file.position
      /\ Source.file.position <= Len(Original) /\ Original \in Cells
    BY FilesOf DEF Supplied
<1>3. data \in Cells /\ Len(data) = Source.file.position - p   BY <1>2, PartIsData
<1>4. /\ Sink.buffer \in Nat /\ Source.dataSize \in Nat /\ Source.lastTransmitted \in Nat
      /\ Sink.buffer <= 1 \/ Sink.buffer >= 2 + Sink.dataSize
    BY FilesOf, NextIsBlock, PacketAssumption DEF OperationOK, Holds, Source, Sink
<1>5. Sink.buffer <= 1 \/ Sink.buffer >= 2 + Len(data)   BY SMTT(20), <1>1, <1>3, <1>4, FilesOf
<1> HIDE DEF data
<1>6. packet = IF Sink.buffer <= 1 THEN InvalidPacket
               ELSE [type |-> "DATA", block |-> Source.lastTransmitted, data |-> data]
  <2>1. packet = Decode(Cut(EncodeData(Source.lastTransmitted, data), Sink.buffer))   BY <1>1 DEF data
  <2> QED BY <1>3, <1>4, <1>5, <2>1, DataIsDecoded
<1>7. Hears(Source, Sink, packet) \/ Sink.buffer <= 1   BY <1>1, <1>6 DEF Hears, data
<1> QED BY <1>4, <1>6, <1>7

(* So is an acknowledgement. *)
LEMMA AckIsHeard ==
    ASSUME NEW block \in BlockNumbers, NEW buffer \in Nat, NEW packet,
           packet = Decode(Cut(EncodeAck(block), buffer))
    PROVE  packet = InvalidPacket \/ packet = [type |-> "ACK", block |-> block]
<1>1. block \in Nat   BY NextIsBlock
<1> QED BY <1>1, AckIsDecoded

(* And an error *)
LEMMA ErrorIsHeard ==
    ASSUME NEW o, NEW p, NEW given, OperationOK(o, given), HasRefused(p),
           NEW packet, packet = Decode(Cut(p.packet, o.buffer))
    PROVE  packet = InvalidPacket \/ packet.type = "ERROR"
<1>1. PICK code \in ErrorCodes : p.packet = EncodeError(code)   BY DEF HasRefused
<1>2. o.buffer \in Nat /\ (o.buffer <= 1 \/ o.buffer >= 4)
    BY OptionAssumption, PacketAssumption DEF OperationOK, Holds
<1> QED BY <1>1, <1>2, ErrorIsDecoded

-----------------------------------------------------------------------------
(* What an operation may be told *)

(* What the client may be told: that the server has ended, what has been negotiated, a block, *)
(* or that one has been stored.                                                                *)
OackHeard ==
    /\ IsRequest /\ ClientPacket.type = "OACK"
    /\ \E options : /\ HasAnswered(options)
                    /\ \A name \in KnownOptions : \A default :
                          Value(ClientPacket.options, name, default) = Value(options, name, default)

InTransfer(o) == o.phase = "transfer" /\ o.status = "none"

DataHeard == Reading /\ InTransfer(server) /\ Agreed /\ Supplied(server) /\ Hears(server, client, ClientPacket)

AckHeard ==
    /\ ~Reading /\ \E block \in BlockNumbers : ClientPacket = [type |-> "ACK", block |-> block]
    /\ (InTransfer(server) /\ Agreed /\ Ready(client, server)) \/ IsOver(client, server)

(* Nothing has been sent yet. *)
LEMMA FreshIsReady ==
    ASSUME NEW o, NEW k, o.file.position = 0, o.dataSize \in Nat \ {0}, ~o.last, o.lastTransmitted = 0,
           k.file.content = <<>>, Original \in Cells
    PROVE  Ready(o, k)
<1>1. Len(Original) \in Nat   BY DEF Cells
<1>2. 0 \in 0 .. 0 /\ 0 = 0 * o.dataSize /\ BlockOf(0) = 0   BY BlockOfTyped
<1>3. Supplied(o)   BY <1>1, <1>2 DEF Supplied
<1>4. SubSeq(Original, 1, 0) = <<>>
  <2>1. \A i \in 1 .. 0 : Original[i] \in Nat   OBVIOUS
  <2>2. SubSeq(Original, 1, 0) \in Seq(Nat) /\ Len(SubSeq(Original, 1, 0)) = 0   BY <2>1, SubSeqProperties
  <2> QED BY <2>2, EmptySeq
<1> QED BY <1>3, <1>4 DEF Ready

(* What the client receives is one of these, or is invalid if its buffer has wrapped. *)
LEMMA ClientHears ==
    ASSUME TypeOK, Conversation, wire.to = "client", client.phase \in {"requested", "transfer"}
    PROVE  /\ round > 0 /\ server.phase \in {"transfer", "done"} /\ client.status = "none"
           /\ \/ ClientPacket = InvalidPacket
              \/ ClientPacket.type = "ERROR" /\ server.phase = "done"
              \/ OackHeard \/ DataHeard \/ AckHeard
<1>1. Answered \/ ClientsTurn
    BY DEF Conversation, Idle, Asking, ServersTurn, ServersEnd, ClientsEnd, OnWire, Nothing
<1>2. /\ wire.cells = server.packet /\ ClientPacket = Decode(Cut(server.packet, client.buffer)) /\ round > 0
      /\ client.status = "none"
    BY <1>1 DEF Answered, ClientsTurn, OnWire, ClientPacket, IsRequest
<1>3. /\ OperationOK(client, setup.client.file) /\ client.buffer \in Nat
    BY FilesOf DEF OperationOK
<1>4. ASSUME HasRefused(server)
      PROVE  server.phase = "done" /\ (ClientPacket = InvalidPacket \/ ClientPacket.type = "ERROR")
    BY <1>2, <1>3, <1>4, ErrorIsHeard DEF HasRefused
<1>5. ASSUME Reading, InTransfer(server), Agreed, Supplied(server), InFlight(server, client)
      PROVE  ClientPacket = InvalidPacket \/ DataHeard
  <2>1. Source = server /\ Sink = client /\ client.dataSize = server.dataSize   BY <1>5 DEF Source, Sink, Agreed
  <2>2. ClientPacket = InvalidPacket \/ Hears(server, client, ClientPacket)
      BY <1>2, <1>5, <2>1, BlockIsHeard
  <2> QED BY <1>5, <2>2 DEF DataHeard
<1>6. ASSUME NEW block \in BlockNumbers, server.packet = EncodeAck(block)
      PROVE  ClientPacket = InvalidPacket \/ ClientPacket = [type |-> "ACK", block |-> block]
    BY <1>2, <1>3, <1>6, AckIsHeard
<1>7. CASE Answered
  <2>1. CASE HasRefused(server)   BY <1>2, <1>4, <2>1
  <2>2. CASE HasStarted
    <3>1. /\ InTransfer(server) /\ client.dataSize = server.dataSize
          /\ client.timeout = server.timeout \/ round > 1
          /\ IsRequest
      <4>1. round = 1 => client.timeout = DefaultTimeout   BY <1>7 DEF Answered, IsRequest
      <4>2. round \in Nat   BY DEF TypeOK
      <4> QED BY <1>2, <1>7, <2>2, <4>1, <4>2 DEF Answered, HasStarted, InTransfer, IsRequest
    <3>2. CASE Reading
      <4>1. Agreed   BY <3>1, <3>2 DEF Agreed, Announced, Sink, IsRequest
      <4>2. InFlight(server, client) /\ Supplied(server)   BY <2>2, <3>2 DEF HasStarted
      <4> QED BY <1>2, <1>5, <3>1, <3>2, <4>1, <4>2 DEF InTransfer
    <3>3. CASE ~Reading
      <4>1. server.packet = EncodeAck(0) /\ server.file.content = <<>> /\ server.announced = None
          BY <2>2, <3>3 DEF HasStarted
      <4>2. Agreed   BY <3>1, <3>3, <4>1 DEF Agreed, Announced, Sink
      <4>3. Ready(client, server)
        <5>1. /\ client.file.position = 0 /\ client.dataSize = DefaultDataSize
              /\ client.lastTransmitted = 0 /\ ~client.last
            BY <3>1 DEF IsRequest
        <5>2. DefaultDataSize \in Nat \ {0}   BY OptionAssumption
        <5> QED BY <4>1, <5>1, <5>2, FilesOf, FreshIsReady
      <4>4. 0 \in BlockNumbers   BY MaxBlockAssumption DEF BlockNumbers
      <4> QED BY <1>2, <1>6, <3>1, <3>3, <4>1, <4>2, <4>3, <4>4 DEF AckHeard, InTransfer
    <3> QED BY <3>2, <3>3
  <2>3. ASSUME NEW options, HasAnswered(options)
        PROVE  server.phase \in {"transfer", "done"} /\ (ClientPacket = InvalidPacket \/ OackHeard)
    <3>1. IsOptions(options) /\ server.packet = EncodeOack(options) /\ server.phase = "transfer"
        BY <2>3 DEF HasAnswered
    <3>2. client.buffer <= 1 \/ client.buffer >= 13
        BY <1>3, OptionAssumption, PacketAssumption DEF OperationOK, Holds
    <3>3. /\ ClientPacket = InvalidPacket \/ ClientPacket.type = "OACK"
          /\ ClientPacket.type = "OACK" =>
                /\ DOMAIN ClientPacket.options \subseteq DOMAIN options
                /\ \A name \in DOMAIN ClientPacket.options : ClientPacket.options[name] = options[name]
                /\ DOMAIN options \cap KnownOptions \subseteq DOMAIN ClientPacket.options
      <4> DEFINE packet == Decode(Cut(EncodeOack(options), client.buffer))
      <4>1. /\ packet = InvalidPacket \/ packet = [type |-> "OACK", options |-> packet.options]
            /\ packet.type = "OACK" =>
                /\ DOMAIN packet.options \subseteq DOMAIN options
                /\ \A name \in DOMAIN packet.options : packet.options[name] = options[name]
                /\ DOMAIN options \cap KnownOptions \subseteq DOMAIN packet.options
          BY <1>3, <3>1, <3>2, OackIsDecoded
      <4>2. ClientPacket = packet   BY <1>2, <3>1
      <4> HIDE DEF packet
      <4>3. packet = InvalidPacket \/ packet.type = "OACK"   BY <4>1
      <4> QED BY <4>1, <4>2, <4>3
    <3>4. ASSUME ClientPacket.type = "OACK", NEW name \in KnownOptions, NEW default
          PROVE  Value(ClientPacket.options, name, default) = Value(options, name, default)
        BY <3>3, <3>4 DEF Value
    <3>5. IsRequest   BY <1>7 DEF Answered
    <3> QED BY <2>3, <3>1, <3>3, <3>4, <3>5 DEF OackHeard
  <2> QED BY <1>2, <1>7, <2>1, <2>2, <2>3 DEF Answered
<1>8. CASE ClientsTurn
  <2>1. CASE HasRefused(server)   BY <1>2, <1>4, <2>1
  <2>2. CASE Transferring /\ IF Reading THEN InFlight(server, client) /\ Supplied(server)
                             ELSE Ready(client, server) /\ IsAck(server)
    <3>1. InTransfer(server) /\ Agreed /\ server.phase = "transfer"   BY <2>2 DEF Transferring, InTransfer, Agreed
    <3>2. CASE Reading   BY <1>2, <1>5, <2>2, <3>1, <3>2
    <3>3. CASE ~Reading
      <4>1. PICK block \in BlockNumbers : server.packet = EncodeAck(block)   BY <2>2, <3>3 DEF IsAck
      <4> QED BY <1>2, <1>6, <2>2, <3>1, <3>3, <4>1 DEF AckHeard
    <3> QED BY <3>2, <3>3
  <2>3. CASE ~Reading /\ IsOver(client, server)
    <3>1. PICK block \in BlockNumbers : server.packet = EncodeAck(block)   BY <2>3 DEF IsOver, IsAck
    <3> QED BY <1>2, <1>6, <2>3, <3>1 DEF AckHeard, IsOver
  <2> QED BY <1>8, <2>1, <2>2, <2>3 DEF ClientsTurn
<1> QED BY <1>1, <1>7, <1>8

(* What the server may be told *)
LEMMA ServerHears ==
    ASSUME TypeOK, Conversation, wire.to = "server", server.phase = "transfer"
    PROVE  /\ round > 0 /\ client.phase \in {"transfer", "done"}
           /\ \/ ServerPacket = InvalidPacket
              \/ ServerPacket.type = "ERROR" /\ client.phase = "done"
              \/ ~Reading /\ Transferring /\ Supplied(client) /\ Hears(client, server, ServerPacket)
              \/ /\ Reading /\ \E block \in BlockNumbers : ServerPacket = [type |-> "ACK", block |-> block]
                 /\ (Transferring /\ Ready(server, client)) \/ IsOver(server, client)
<1>1. ServersTurn \/ ServersEnd
    BY DEF Conversation, Idle, Asking, Answered, ClientsTurn, ClientsEnd, OnWire, Nothing
<1>2. wire.cells = client.packet /\ ServerPacket = Decode(Cut(client.packet, server.buffer)) /\ round > 0
    BY <1>1 DEF ServersTurn, ServersEnd, OnWire, ServerPacket
<1>3. /\ OperationOK(server, setup.server.file) /\ server.buffer \in Nat
    BY FilesOf DEF OperationOK
<1>4. ASSUME HasRefused(client)
      PROVE  client.phase = "done" /\ (ServerPacket = InvalidPacket \/ ServerPacket.type = "ERROR")
    BY <1>2, <1>3, <1>4, ErrorIsHeard DEF HasRefused
<1>5. ASSUME NEW block \in BlockNumbers, client.packet = EncodeAck(block)
      PROVE  ServerPacket = InvalidPacket \/ ServerPacket = [type |-> "ACK", block |-> block]
    BY <1>2, <1>3, <1>5, AckIsHeard
<1>6. CASE ServersTurn
  <2>1. Transferring /\ client.phase = "transfer"   BY <1>6 DEF ServersTurn, Transferring
  <2>2. CASE Reading
    <3>1. Ready(server, client) /\ IsAck(client)   BY <1>6, <2>2 DEF ServersTurn
    <3>2. PICK block \in BlockNumbers : client.packet = EncodeAck(block)   BY <3>1 DEF IsAck
    <3> QED BY <1>2, <1>5, <2>1, <2>2, <3>1, <3>2
  <2>3. CASE ~Reading
    <3>1. InFlight(client, server) /\ Supplied(client)   BY <1>6, <2>3 DEF ServersTurn
    <3>2. Source = client /\ Sink = server /\ client.dataSize = server.dataSize
        BY <2>1, <2>3 DEF Source, Sink, Transferring
    <3>3. ServerPacket = InvalidPacket \/ Hears(client, server, ServerPacket)
        BY <1>2, <3>1, <3>2, BlockIsHeard
    <3> QED BY <1>2, <2>1, <2>3, <3>1, <3>3
  <2> QED BY <2>2, <2>3
<1>7. CASE ServersEnd
  <2>1. CASE HasRefused(client)   BY <1>2, <1>4, <2>1
  <2>2. CASE Reading /\ IsOver(server, client)
    <3>1. PICK block \in BlockNumbers : client.packet = EncodeAck(block)   BY <2>2 DEF IsOver, IsAck
    <3> QED BY <1>2, <1>5, <2>2, <3>1 DEF IsOver
  <2> QED BY <1>7, <2>1, <2>2 DEF ServersEnd
<1> QED BY <1>1, <1>6, <1>7

(* sendData(): a full block, or the last one *)
LEMMA SuppliesNext ==
    ASSUME NEW o, NEW k, NEW given, IsOperation(o), OperationOK(o, given), o.file.content = Original,
           Ready(o, k)
    PROVE  LET p == SendData(o) IN Supplied(p) /\ InFlight(p, k)
<1> DEFINE p == SendData(o)
           from == o.file.position
           upTo == Minimum(from + o.dataSize, Len(Original))
<1>1. /\ o.dataSize # 0 /\ from <= Len(Original) /\ ~o.last
      /\ k.file.type # "null" => k.file.content = SubSeq(Original, 1, from)
    BY DEF Ready, Supplied
<1>2. PICK q \in 0 .. from : from = q * o.dataSize /\ o.lastTransmitted = BlockOf(q)
    BY DEF Ready, Supplied
<1>3. /\ o.dataSize \in Nat /\ from \in Nat /\ Original \in Cells /\ Len(Original) \in Nat /\ q \in Nat
    BY DEF OperationOK, File, Cells
<1>4. /\ Changes(o, p, {"phase", "lastTransmitted", "file", "last", "packet"})
      /\ p.phase = "transfer" /\ p.lastTransmitted = NextBlock(o.lastTransmitted)
      /\ p.file.content = o.file.content /\ p.file.position = upTo
      /\ p.last = (o.last \/ upTo - from < o.dataSize)
      /\ p.packet = EncodeData(p.lastTransmitted, SubSeq(Original, from + 1, upTo))
    BY <1>1, SendDataOf
<1>5. p.dataSize = o.dataSize   BY <1>4 DEF Changes, IsOperation, OperationFields
<1>6. p.lastTransmitted = BlockOf(q + 1)   BY <1>2, <1>3, <1>4, NextNumber
<1> HIDE DEF p
<1>7. /\ upTo \in Nat /\ from <= upTo /\ upTo <= Len(Original) /\ upTo - from <= o.dataSize
      /\ (p.last <=> upTo - from < o.dataSize)
      /\ (upTo - from < o.dataSize => upTo = Len(Original) /\ Len(Original) < from + o.dataSize)
      /\ (~(upTo - from < o.dataSize) => upTo = from + o.dataSize)
  <2> DEFINE L == Len(Original)
  <2>1. L \in Nat /\ from \in Nat /\ o.dataSize \in Nat /\ from <= L   BY <1>1, <1>3
  <2> HIDE DEF L, from
  <2>2. upTo = IF from + o.dataSize <= L THEN from + o.dataSize ELSE L   BY DEF Minimum, L
  <2>3. p.last <=> upTo - from < o.dataSize   BY <1>1, <1>4
  <2> HIDE DEF upTo
  <2>4. upTo \in Nat /\ from <= upTo /\ upTo <= L /\ upTo - from <= o.dataSize   BY <2>1, <2>2
  <2>5. upTo - from < o.dataSize => upTo = L /\ L < from + o.dataSize   BY <2>1, <2>2
  <2>6. ~(upTo - from < o.dataSize) => upTo = from + o.dataSize   BY <2>1, <2>2
  <2> QED BY <2>3, <2>4, <2>5, <2>6 DEF L
<1> HIDE DEF upTo
<1>8. InFlight(p, k)
  <2>1. from \in 0 .. upTo   BY <1>3, <1>7
  <2> QED BY <1>1, <1>4, <1>5, <1>7, <2>1 DEF InFlight
<1>9. Supplied(p)
  <2>1. CASE p.last
    <3>1. upTo = Len(Original) /\ q * o.dataSize <= Len(Original) /\ Len(Original) < q * o.dataSize + o.dataSize
        BY <1>1, <1>2, <1>7, <2>1
    <3>2. Len(Original) \div o.dataSize = q
      <4> DEFINE L == Len(Original)  d == o.dataSize  r == L - q * d
      <4>0. q * d \in Nat /\ L \in Nat /\ d \in Nat /\ d # 0   BY <1>1, <1>2, <1>3
      <4>1. r \in 0 .. d - 1   BY <1>3, <3>1, <4>0
      <4>2. L = q * d + r
        <5> DEFINE m == q * d
        <5>1. m \in Nat   BY <4>0
        <5> HIDE DEF m, L
        <5> QED BY <4>0, <5>1 DEF m
      <4> HIDE DEF L, d, r
      <4>3. (q * d + r) \div d = q   BY <1>3, <4>0, <4>1
      <4> QED BY <4>2, <4>3 DEF L, d
    <3> QED BY <1>1, <1>4, <1>5, <1>6, <1>7, <2>1, <3>1, <3>2 DEF Supplied
  <2>2. CASE ~p.last
    <3>1. upTo = from + o.dataSize   BY <1>7, <2>2
    <3>2. (q + 1) * o.dataSize = q * o.dataSize + o.dataSize   BY <1>3
    <3>3. q + 1 \in 0 .. upTo /\ upTo = (q + 1) * o.dataSize   BY <1>1, <1>2, <1>3, <3>1, <3>2
    <3> QED BY <1>1, <1>4, <1>5, <1>6, <1>7, <2>2, <3>3 DEF Supplied
  <2> QED BY <2>1, <2>2
<1> QED BY <1>8, <1>9 DEF p

(* dataPacket(): the last block ends the transfer, with all that has been sent. *)
LEMMA StoresNext ==
    ASSUME NEW s, NEW k, NEW given, NEW origin,
           IsOperation(s), OperationOK(s, origin), s.file.content = Original, Supplied(s),
           IsOperation(k), OperationOK(k, given), given.operation = "Receive",
           s.dataSize = k.dataSize,
           NEW packet, Hears(s, k, packet)
    PROVE  LET p == Store(k, packet) IN
           /\ Changes(k, p, {"phase", "status", "lastReceived", "file", "packet"})
           /\ p.lastReceived = s.lastTransmitted /\ packet.block = s.lastTransmitted
           /\ IsAck(p) /\ OperationOK(p, given)
           /\ \/ /\ p.phase = "done" /\ p.status = "Successful" /\ s.last
                 /\ p.file.type # "null" => p.file.content = Original
              \/ p.phase = "transfer" /\ p.status = k.status /\ Ready(s, p)
<1> DEFINE p == Store(k, packet)
           upTo == s.file.position
<1>1. /\ upTo \in Nat /\ upTo <= Len(Original) /\ Original \in Cells /\ Len(Original) \in Nat
      /\ s.lastTransmitted \in BlockNumbers /\ k.dataSize \in Nat /\ k.file.content \in Cells
      /\ s.last \in BOOLEAN /\ k.file.operation = "Receive"
    BY DEF OperationOK, File, Cells, Supplied, SameFile
<1>2. PICK from \in 0 .. upTo :
        /\ packet = [type |-> "DATA", block |-> s.lastTransmitted, data |-> SubSeq(Original, from + 1, upTo)]
        /\ upTo - from <= s.dataSize
        /\ s.last <=> upTo - from < s.dataSize
        /\ k.file.type # "null" => k.file.content = SubSeq(Original, 1, from)
    BY DEF Hears
<1> HIDE DEF upTo
<1>3. /\ packet.block = s.lastTransmitted /\ packet.data = SubSeq(Original, from + 1, upTo)
      /\ packet.data \in Cells /\ Len(packet.data) = upTo - from
      /\ SubSeq(Original, 1, from) \o packet.data = SubSeq(Original, 1, upTo)
    BY <1>1, <1>2, PartIsData
<1>4. /\ Changes(k, p, {"phase", "status", "lastReceived", "file", "packet"})
      /\ p.packet = EncodeAck(packet.block) /\ p.lastReceived = packet.block
      /\ p.file.content = IF k.file.type = "null" THEN k.file.content
                          ELSE k.file.content \o packet.data
      /\ p.phase = IF Len(packet.data) < k.dataSize THEN "done" ELSE "transfer"
      /\ p.status = IF Len(packet.data) < k.dataSize THEN "Successful" ELSE k.status
      /\ OperationOK(p, given)
  <2>1. packet.block \in BlockNumbers /\ packet.data \in Cells /\ Len(packet.data) <= k.dataSize
      BY <1>1, <1>2, <1>3
  <2> QED BY <2>1, StoreOf
<1> HIDE DEF p
<1>5. p.file.type = k.file.type   BY <1>4 DEF OperationOK, SameFile
<1>6. p.file.type # "null" => p.file.content = SubSeq(Original, 1, upTo)   BY <1>2, <1>3, <1>4, <1>5
<1>7. IsAck(p)   BY <1>1, <1>3, <1>4 DEF IsAck
<1>8. CASE s.last
  <2>1. p.phase = "done" /\ p.status = "Successful"   BY <1>2, <1>3, <1>4, <1>8
  <2>2. upTo = Len(Original)   BY <1>8 DEF Supplied, upTo
  <2>3. SubSeq(Original, 1, Len(Original)) = Original
    <3>1. Original \in Seq(Nat) /\ \A i \in 1 .. Len(Original) : Original[i] \in Nat
        BY <1>1, ElementOfSeq DEF Cells
    <3> DEFINE sub == SubSeq(Original, 1, Len(Original))
    <3>2. sub \in Seq(Nat) /\ Len(sub) = Len(Original) /\ \A i \in 1 .. Len(Original) : sub[i] = Original[i]
        BY <1>1, <3>1, SubSeqProperties
    <3> HIDE DEF sub
    <3> QED BY <3>1, <3>2, SeqEqual DEF sub
  <2> QED BY <1>3, <1>4, <1>6, <1>7, <1>8, <2>1, <2>2, <2>3 DEF p
<1>9. CASE ~s.last
  <2>1. p.phase = "transfer" /\ p.status = k.status   BY <1>2, <1>3, <1>4, <1>9
  <2>2. Ready(s, p)   BY <1>6, <1>9 DEF Ready, upTo
  <2> QED BY <1>3, <1>4, <1>7, <2>1, <2>2 DEF p
<1> QED BY <1>1, <1>8, <1>9

-----------------------------------------------------------------------------
(* The invariant *)

(* What holds of all states *)
Inv == TypeOK /\ Conversation /\ Results /\ Understood

(* What is configured stays. *)
LEMMA Later ==
    ASSUME UNCHANGED setup
    PROVE  /\ Original' = Original /\ (Reading' <=> Reading) /\ RequestType' = RequestType
           /\ Source' = (IF Reading THEN server' ELSE client')
           /\ Sink' = (IF Reading THEN client' ELSE server')
           /\ (Ready(server, client))' <=> Ready(server', client')
           /\ (Ready(client, server))' <=> Ready(client', server')
           /\ (InFlight(server, client))' <=> InFlight(server', client')
           /\ (InFlight(client, server))' <=> InFlight(client', server')
           /\ (Supplied(client))' <=> Supplied(client')
           /\ (Supplied(server))' <=> Supplied(server')
           /\ (Announced(client))' <=> Announced(client')
           /\ (Announced(server))' <=> Announced(server')
<1>1. Original' = Original /\ (Reading' <=> Reading)   BY DEF Original, Reading
<1>2. /\ RequestType' = RequestType
      /\ Source' = (IF Reading THEN server' ELSE client')
      /\ Sink' = (IF Reading THEN client' ELSE server')
    BY <1>1 DEF Source, Sink, RequestType
<1>3. /\ (Supplied(client))' <=> Supplied(client')
      /\ (Supplied(server))' <=> Supplied(server')
    BY <1>1 DEF Supplied
<1>4. /\ (Ready(server, client))' <=> Ready(server', client')
      /\ (Ready(client, server))' <=> Ready(client', server')
    BY <1>1, <1>3 DEF Ready
<1>5. /\ (InFlight(server, client))' <=> InFlight(server', client')
      /\ (InFlight(client, server))' <=> InFlight(client', server')
    BY <1>1 DEF InFlight
<1>6. /\ (Announced(client))' <=> Announced(client')
      /\ (Announced(server))' <=> Announced(server')
    BY <1>1 DEF Announced
<1> QED BY <1>1, <1>2, <1>3, <1>4, <1>5, <1>6

(* Types of the next state after a step of the client *)
LEMMA ClientTyped ==
    ASSUME TypeOK, UNCHANGED <<setup, round, server>>,
           DOMAIN client' = ClientFields, OperationOK(client', setup.client.file),
           client'.phase \in {"idle", "requested", "transfer", "done"},
           client'.oackReceived \in BOOLEAN, client'.asked \in BOOLEAN,
           client'.requested = client.requested,
           wire' = Nothing \/ \E cells : wire' = [to |-> "server", cells |-> cells]
    PROVE  TypeOK'
<1>1. wire' = Nothing \/ (wire'.to = "server" /\ wire' = [to |-> wire'.to, cells |-> wire'.cells])
    OBVIOUS
<1>2. (OperationOK(client, setup.client.file))' <=> OperationOK(client', setup.client.file)
    BY DEF OperationOK, SameFile, Holds
<1>3. (OperationOK(server, setup.server.file))' <=> OperationOK(server, setup.server.file)
    BY DEF OperationOK, SameFile, Holds
<1>4. Nothing' = Nothing   BY DEF Nothing
<1> QED BY <1>1, <1>2, <1>3, <1>4 DEF TypeOK

(* The client gives up, and says so. *)
LEMMA ClientRefuses ==
    ASSUME Inv, wire.to = "client", client.phase \in {"requested", "transfer"},
           NEW o, Changes(client, o, {"dataSize", "timeout", "announced", "asked"}),
           OperationOK(o, setup.client.file), o.asked \in BOOLEAN,
           NEW code \in ErrorCodes, NEW status, status # "Successful",
           ClientSends(Refused(o, code, status), "server")
    PROVE  Inv'
<1> DEFINE p == Refused(o, code, status)
<1>1. client' = p /\ wire' = [to |-> "server", cells |-> p.packet] /\ UNCHANGED <<setup, round, server>>
    BY DEF ClientSends
<1>2. DOMAIN client = ClientFields /\ TypeOK /\ Conversation /\ Results /\ Understood   BY DEF Inv, TypeOK
<1>3. DOMAIN o = ClientFields /\ IsOperation(o)   BY <1>2 DEF Changes, IsOperation, ClientFields
<1>4. /\ Changes(o, p, {"phase", "status", "file", "packet"})
      /\ p.phase = "done" /\ p.status = status /\ p.file.content = o.file.content
      /\ p.packet = EncodeError(code)
      /\ OperationOK(p, setup.client.file)
    BY <1>3, RefusedOf
<1> HIDE DEF p
<1>5. /\ DOMAIN client' = ClientFields /\ client'.asked \in BOOLEAN
      /\ client'.oackReceived = client.oackReceived /\ client'.requested = client.requested
    BY <1>1, <1>2, <1>3, <1>4 DEF Changes, ClientFields, OperationFields
<1>6. TypeOK'
  <2>1. OperationOK(client', setup.client.file) /\ client'.phase \in {"idle", "requested", "transfer", "done"}
      BY <1>1, <1>4
  <2>2. client'.oackReceived \in BOOLEAN   BY <1>2, <1>5 DEF TypeOK
  <2> QED BY <1>1, <1>2, <1>5, <2>1, <2>2, ClientTyped
<1>7. round > 0 /\ server.phase \in {"transfer", "done"}   BY <1>2, ClientHears
<1>8. Conversation'
  <2>1. HasRefused(client)'   BY <1>1, <1>4 DEF HasRefused
  <2>2. OnWire("server", client)'   BY <1>1 DEF OnWire
  <2>3. ServersEnd'   BY <1>1, <1>7, <2>1, <2>2 DEF ServersEnd
  <2> QED BY <2>3 DEF Conversation
<1>9. Results'
  <2>1. client'.status # "Successful"   BY <1>1, <1>4
  <2> QED BY <1>1, <1>2, <2>1, Later DEF Results, Source, Sink, Announced
<1>10. Understood'
    BY <1>1, <1>2, <1>5, Later DEF Understood, AsSent
<1> QED BY <1>6, <1>8, <1>9, <1>10 DEF Inv

(* The client ends, and sends nothing. *)
LEMMA ClientLeaves ==
    ASSUME Inv, round > 0, server.phase \in {"idle", "done"}, client.phase # "idle",
           NEW o, Changes(client, o, {"lastReceived"}), OperationOK(o, setup.client.file),
           NEW status,
           status = "Successful" => ~Reading /\ client.last /\ Supplied(client),
           ClientEnds(o, status)
    PROVE  Inv'
<1> DEFINE p == Finish(o, status)
<1>1. client' = p /\ wire' = Nothing /\ UNCHANGED <<setup, round, server>>
    BY DEF ClientEnds
<1>2. DOMAIN client = ClientFields /\ TypeOK /\ Conversation /\ Results /\ Understood   BY DEF Inv, TypeOK
<1>3. DOMAIN o = ClientFields /\ IsOperation(o) /\ o.file \in File(Cells)
    BY <1>2 DEF Changes, IsOperation, ClientFields, OperationOK
<1>4. /\ Changes(o, p, {"phase", "status", "file"})
      /\ p.phase = "done" /\ p.status = status
      /\ OperationOK(p, setup.client.file)
    BY <1>3, FinishOf, FinishOK
<1> HIDE DEF p
<1>5. /\ DOMAIN client' = ClientFields /\ client'.asked = client.asked
      /\ client'.oackReceived = client.oackReceived /\ client'.requested = client.requested
      /\ client'.dataSize = client.dataSize /\ client'.lastTransmitted = client.lastTransmitted
    BY <1>1, <1>2, <1>3, <1>4 DEF Changes, ClientFields, OperationFields
<1>6. TypeOK'
  <2>1. OperationOK(client', setup.client.file) /\ client'.phase \in {"idle", "requested", "transfer", "done"}
      BY <1>1, <1>4
  <2>2. client'.oackReceived \in BOOLEAN /\ client'.asked \in BOOLEAN   BY <1>2, <1>5 DEF TypeOK
  <2> QED BY <1>1, <1>2, <1>5, <2>1, <2>2, ClientTyped
<1>7. Conversation'
  <2>1. ClientsEnd'   BY <1>1, <1>4 DEF ClientsEnd, Nothing
  <2> QED BY <2>1 DEF Conversation
<1>8. Results'
  <2>1. CASE status # "Successful"
    <3>1. client'.status # "Successful"   BY <1>1, <1>4, <2>1
    <3> QED BY <1>1, <1>2, <3>1, Later DEF Results, Source, Sink, Announced
  <2>2. CASE status = "Successful"
    <3>1. Source' = client' /\ Sink' = server /\ Original' = Original /\ Sink = server
        BY <1>1, <2>2, Later DEF Sink
    <3>2. client'.lastTransmitted = BlockOf(Len(Original) \div client'.dataSize + 1)
        BY <1>5, <2>2 DEF Supplied
    <3> QED BY <1>2, <3>1, <3>2 DEF Results, Announced
  <2> QED BY <2>1, <2>2
<1>9. Understood'
    BY <1>1, <1>2, <1>5, Later DEF Understood, AsSent
<1> QED BY <1>6, <1>7, <1>8, <1>9 DEF Inv

-----------------------------------------------------------------------------
(* The steps of the client *)

(* The client goes on, and it is the turn of the server. *)
LEMMA ClientGoesOn ==
    ASSUME Inv, round > 0, NEW p, ClientSends(p, "server"),
           DOMAIN p = ClientFields, OperationOK(p, setup.client.file),
           p.phase = "transfer", p.status = "none",
           p.oackReceived \in BOOLEAN, p.asked \in BOOLEAN, p.requested = client.requested,
           InTransfer(server), p.dataSize = server.dataSize,
           p.timeout = server.timeout \/ round > 1,
           IF Reading THEN Announced(p) /\ Ready(server, p) /\ IsAck(p)
           ELSE Announced(server) /\ InFlight(p, server) /\ Supplied(p)
    PROVE  Inv'
<1>1. client' = p /\ wire' = [to |-> "server", cells |-> p.packet] /\ UNCHANGED <<setup, round, server>>
    BY DEF ClientSends
<1>2. TypeOK /\ Conversation /\ Results /\ Understood   BY DEF Inv
<1>3. TypeOK'
  <2>1. OperationOK(client', setup.client.file) /\ client'.phase \in {"idle", "requested", "transfer", "done"}
      BY <1>1
  <2> QED BY <1>1, <1>2, <2>1, ClientTyped
<1>4. /\ (Reading' <=> Reading) /\ Original' = Original
      /\ Sink' = (IF Reading THEN p ELSE server) /\ Source' = (IF Reading THEN server ELSE p)
      /\ (Ready(server, client))' <=> Ready(server, p)
      /\ (InFlight(client, server))' <=> InFlight(p, server)
      /\ (Supplied(client))' <=> Supplied(p)
      /\ (Announced(client))' <=> Announced(p)
      /\ (Announced(server))' <=> Announced(server)
    BY <1>1, Later
<1>5. Transferring'
  <2>1. (Announced(Sink))'
      BY <1>1, <1>4 DEF Announced
  <2> QED BY <1>1, <2>1 DEF Transferring, InTransfer
<1>6. ServersTurn'
  <2>1. OnWire("server", client)'   BY <1>1 DEF OnWire
  <2>2. Reading => IsAck(client)'   BY <1>1 DEF IsAck
  <2> QED BY <1>1, <1>4, <1>5, <2>1, <2>2 DEF ServersTurn
<1>7. Results'
  <2>1. Announced(server)' /\ Reading => Source' = server   BY <1>4
  <2>2. Reading => Source = server   BY DEF Source
  <2>3. ~Reading => Sink = server    BY DEF Sink
  <2>4. server.status # "Successful"   BY DEF InTransfer
  <2> QED BY <1>4, <2>4 DEF Results
<1>8. Understood'
    BY <1>1, <1>2, <1>4, Later DEF Understood, AsSent
<1> QED BY <1>3, <1>6, <1>7, <1>8 DEF Inv, Conversation

(* optionsAcknowledgementPacket(), refused: the server is told. *)
LEMMA RefuseOackKeeps == ASSUME Inv, RefuseOack PROVE Inv'
<1>1. TypeOK   BY DEF Inv
<1>2. wire.to = "client" /\ client.phase \in {"requested", "transfer"}   BY DEF RefuseOack, ClientReceives
<1>3. /\ Changes(client, Adopted, {"dataSize", "timeout", "announced", "asked"})
      /\ OperationOK(Adopted, setup.client.file) /\ Adopted.asked \in BOOLEAN
    BY <1>1, AdoptedOf
<1>4. ClientSends(Refused(Adopted, OackError, "OptionNegotiationError"), "server")   BY DEF RefuseOack
<1>5. OackError \in ErrorCodes   BY DEF OackError, ErrorCodes
<1>6. "OptionNegotiationError" # "Successful"   OBVIOUS
<1> HIDE DEF Adopted, OackError
<1> QED BY <1>2, <1>3, <1>4, <1>5, <1>6, ClientRefuses

(* What the handler has been asked changes nothing else. *)
LEMMA AskedOf ==
    ASSUME TypeOK
    PROVE  /\ Changes(client, Asked, {"asked"}) /\ Asked.asked \in BOOLEAN
           /\ OperationOK(Asked, setup.client.file)
<1> DEFINE asks == client.asked \/ (Asks /\ HasHandler)
<1>1. Asked = [client EXCEPT !.asked = asks] /\ asks \in BOOLEAN   
  <2>1. client.asked \in BOOLEAN   BY DEF TypeOK
  <2> QED BY <2>1 DEF Asked
<1>2. DOMAIN client = ClientFields /\ OperationOK(client, setup.client.file)   BY DEF TypeOK
<1> HIDE DEF asks
<1>3. Changes(client, Asked, {"asked"}) /\ Asked.asked = asks
    BY <1>1, <1>2 DEF Changes, ClientFields, OperationFields
<1>4. /\ Asked.config = client.config /\ Asked.buffer = client.buffer /\ Asked.file = client.file
      /\ Asked.dataSize = client.dataSize /\ Asked.timeout = client.timeout
      /\ Asked.lastReceived = client.lastReceived /\ Asked.lastTransmitted = client.lastTransmitted
      /\ Asked.last = client.last /\ Asked.packet = client.packet
    BY <1>2, <1>3 DEF Changes, ClientFields, OperationFields
<1>5. OperationOK(Asked, setup.client.file)
    BY <1>2, <1>4 DEF OperationOK, Holds
<1> QED BY <1>1, <1>3, <1>5

(* dataPacket(), acknowledgementPacket(), and the handler wants an OACK: the server is told. *)
LEMMA RefusePlainKeeps == ASSUME Inv, RefusePlain PROVE Inv'
<1>1. TypeOK   BY DEF Inv
<1>2. wire.to = "client" /\ client.phase \in {"requested", "transfer"}   BY DEF RefusePlain, ClientReceives
<1>3. /\ Changes(client, Asked, {"dataSize", "timeout", "announced", "asked"})
      /\ OperationOK(Asked, setup.client.file) /\ Asked.asked \in BOOLEAN
    BY <1>1, AskedOf DEF Changes
<1>4. ClientSends(Refused(Asked, "TftpOptionRefused", "TransferError"), "server")   BY DEF RefusePlain
<1>5. "TftpOptionRefused" \in ErrorCodes /\ "TransferError" # "Successful"   BY DEF ErrorCodes
<1> HIDE DEF Asked
<1> QED BY <1>2, <1>3, <1>4, <1>5, ClientRefuses

(* invalidPacket() of the client *)
LEMMA ClientInvalidKeeps == ASSUME Inv, ClientInvalid PROVE Inv'
<1>1. TypeOK   BY DEF Inv
<1>2. wire.to = "client" /\ client.phase \in {"requested", "transfer"}   BY DEF ClientInvalid, ClientReceives
<1>3. /\ Changes(client, client, {"dataSize", "timeout", "announced", "asked"})
      /\ OperationOK(client, setup.client.file) /\ client.asked \in BOOLEAN
    BY <1>1 DEF TypeOK, Changes
<1>4. ClientSends(Refused(client, "IllegalTftpOperation", "TransferError"), "server")   BY DEF ClientInvalid
<1>5. "IllegalTftpOperation" \in ErrorCodes /\ "TransferError" # "Successful"   BY DEF ErrorCodes
<1> QED BY <1>2, <1>3, <1>4, <1>5, ClientRefuses

(* errorPacket() of the client: the server has ended. *)
LEMMA ClientErrorKeeps == ASSUME Inv, ClientError PROVE Inv'
<1> DEFINE status == IF PacketType(client.packet) \notin {"RRQ", "WRQ"} THEN "TransferError"
                     ELSE IF ClientPacket.code = "TftpOptionRefused"
                     THEN "OptionNegotiationError" ELSE "RequestError"
<1>1. TypeOK /\ Conversation   BY DEF Inv
<1>2. /\ wire.to = "client" /\ client.phase \in {"requested", "transfer"}
      /\ ClientPacket.type = "ERROR" /\ ClientEnds(client, status)
    BY DEF ClientError, ClientReceives, ClientPacket
<1>3. status # "Successful"   OBVIOUS
<1> HIDE DEF status
<1>4. round > 0 /\ server.phase = "done"
  <2>1. ClientPacket # InvalidPacket /\ ~OackHeard /\ ~DataHeard /\ ~AckHeard
      BY <1>2 DEF InvalidPacket, OackHeard, DataHeard, AckHeard, Hears
  <2> QED BY <1>1, <1>2, <2>1, ClientHears
<1>5. Changes(client, client, {"lastReceived"}) /\ OperationOK(client, setup.client.file)
    BY <1>1 DEF TypeOK, Changes
<1> QED BY <1>2, <1>3, <1>4, <1>5, ClientLeaves

(* The request has not been answered: there is no operation of the server. *)
LEMMA ClientTimesOutKeeps == ASSUME Inv, ClientTimesOut PROVE Inv'
<1>1. TypeOK /\ Conversation   BY DEF Inv
<1>2. client.phase = "requested" /\ wire = Nothing /\ ClientEnds(client, "CommunicationError")
    BY DEF ClientTimesOut
<1>3. ~Idle /\ ~Answered /\ ~ServersTurn /\ ~ClientsTurn /\ ~ServersEnd /\ ~ClientsEnd
    BY <1>2 DEF Idle, Answered, ServersTurn, ClientsTurn, ServersEnd, ClientsEnd, OnWire, Nothing
<1>4. round > 0 /\ server.phase = "idle"   BY <1>1, <1>3 DEF Conversation, Asking, IsUnused
<1>5. Changes(client, client, {"lastReceived"}) /\ OperationOK(client, setup.client.file)
    BY <1>1 DEF TypeOK, Changes
<1> QED BY <1>2, <1>4, <1>5, ClientLeaves

(* acknowledgementPacket() of the last block *)
LEMMA ClientSucceedsKeeps == ASSUME Inv, ClientSucceeds PROVE Inv'
<1> DEFINE o == Acknowledged(client, ClientPacket)
<1>1. TypeOK /\ Conversation   BY DEF Inv
<1>2. /\ wire.to = "client" /\ client.phase \in {"requested", "transfer"}
      /\ ClientPacket.type = "ACK" /\ client.last /\ ClientEnds(o, "Successful")
    BY DEF ClientSucceeds, ClientReceives, ClientPacket
<1>3. round > 0 /\ AckHeard
  <2>1. ClientPacket # InvalidPacket /\ ~OackHeard /\ ~DataHeard
      BY <1>2 DEF InvalidPacket, OackHeard, DataHeard, Hears
  <2> QED BY <1>1, <1>2, <2>1, ClientHears
<1>4. ~Reading /\ server.phase = "done" /\ Supplied(client)
  <2>1. ~Reading /\ IsOver(client, server)   BY <1>2, <1>3 DEF AckHeard, Ready
  <2> QED BY <2>1 DEF IsOver
<1>5. PICK block \in BlockNumbers : ClientPacket = [type |-> "ACK", block |-> block]
    BY <1>3 DEF AckHeard
<1>6. ClientPacket.block \in BlockNumbers   BY <1>5
<1>7. Changes(client, o, {"lastReceived"}) /\ OperationOK(o, setup.client.file)
    BY <1>1, <1>6, FilesOf, AcknowledgedOf
<1> HIDE DEF o
<1> QED BY <1>2, <1>3, <1>4, <1>7, ClientLeaves

(* The OACK is taken: an acknowledgement, or the first block *)
LEMMA AcceptOackKeeps == ASSUME Inv, AcceptOack PROVE Inv'
<1> DEFINE a == Adopted
<1>1. TypeOK /\ Conversation   BY DEF Inv
<1>2. /\ wire.to = "client" /\ client.phase \in {"requested", "transfer"}
      /\ ClientPacket.type = "OACK" /\ ~RefusedOack
      /\ IF Reading THEN ClientSends([Acknowledge(a, 0) EXCEPT !.oackReceived = TRUE], "server")
         ELSE ClientSends(SendData(a), "server")
    BY DEF AcceptOack, ClientReceives, ClientPacket
<1>3. round > 0 /\ OackHeard
  <2>1. ClientPacket # InvalidPacket /\ ~DataHeard /\ ~AckHeard
      BY <1>2 DEF InvalidPacket, AckHeard, DataHeard, Hears
  <2> QED BY <1>1, <1>2, <2>1, ClientHears
<1>4. IsRequest   BY <1>3 DEF OackHeard
<1>5. PICK options :
        /\ HasAnswered(options)
        /\ \A name \in KnownOptions : \A default :
              Value(ClientPacket.options, name, default) = Value(options, name, default)
    BY <1>3 DEF OackHeard
<1>6. "blksize" \in KnownOptions /\ "timeout" \in KnownOptions /\ "tsize" \in KnownOptions
    BY DEF KnownOptions
<1>7. /\ Changes(client, a, {"dataSize", "timeout", "announced", "asked"})
      /\ OperationOK(a, setup.client.file) /\ a.asked \in BOOLEAN
      /\ a.dataSize = Value(options, "blksize", DefaultDataSize)
      /\ a.timeout = Value(options, "timeout", client.timeout)
      /\ Reading => a.announced = Value(options, "tsize", None)
      /\ ~Reading /\ Value(options, "tsize", None) # None =>
            client.config.transferSize /\ Value(options, "tsize", None) = client.transferSize
      /\ a.dataSize = DefaultDataSize \/ a.dataSize # 0
    BY <1>1, <1>2, <1>4, <1>5, <1>6, AdoptedOf DEF IsRequest
<1> HIDE DEF a
<1>8. /\ DOMAIN client = ClientFields /\ DOMAIN a = ClientFields /\ IsOperation(a)
      /\ client.oackReceived \in BOOLEAN
    BY <1>1, <1>7 DEF TypeOK, Changes, IsOperation, ClientFields
<1>9. /\ a.status = client.status /\ a.file = client.file /\ a.last = client.last
      /\ a.lastTransmitted = client.lastTransmitted /\ a.requested = client.requested
      /\ a.oackReceived = client.oackReceived
    BY <1>7, <1>8 DEF Changes, ClientFields, OperationFields
<1>10. a.status = "none" /\ a.file.position = 0 /\ ~a.last /\ a.lastTransmitted = 0
    BY <1>4, <1>9 DEF IsRequest
<1>11. /\ a.dataSize \in Nat \ {0}
       /\ a.dataSize = server.dataSize /\ InTransfer(server)
  <2>1. a.dataSize \in Nat   BY <1>7 DEF OperationOK
  <2>2. DefaultDataSize # 0   BY OptionAssumption
  <2> QED BY <1>5, <1>7, <2>1, <2>2 DEF HasAnswered, InTransfer
<1>12. a.timeout = server.timeout \/ round > 1
  <2>1. round = 1 => client.timeout = DefaultTimeout   BY <1>4 DEF IsRequest
  <2>2. round \in Nat   BY <1>1 DEF TypeOK
  <2>3. round = 1 \/ round > 1   BY <1>3, <2>2
  <2> QED BY <1>5, <1>7, <2>1, <2>3 DEF HasAnswered
<1>13. Original \in Cells   BY <1>1, FilesOf
<1>14. CASE Reading
  <2> DEFINE q == Acknowledge(a, 0)  p == [q EXCEPT !.oackReceived = TRUE]
  <2>1. ClientSends(p, "server")   BY <1>2, <1>14
  <2>2. 0 \in BlockNumbers   BY MaxBlockAssumption DEF BlockNumbers
  <2>3. /\ Changes(a, q, {"phase", "lastReceived", "packet"})
        /\ q.phase = "transfer" /\ q.packet = EncodeAck(0) /\ OperationOK(q, setup.client.file)
      BY <1>7, <1>8, <2>2, AcknowledgeOf
  <2> HIDE DEF q
  <2>4. DOMAIN q = ClientFields   BY <1>8, <2>3 DEF Changes
  <2>5. /\ DOMAIN p = ClientFields /\ p.oackReceived = TRUE
        /\ \A f \in ClientFields : f # "oackReceived" => p[f] = q[f]
      BY <2>4 DEF ClientFields
  <2> HIDE DEF p
  <2>6. /\ p.config = q.config /\ p.buffer = q.buffer /\ p.file = q.file /\ p.dataSize = q.dataSize
        /\ p.timeout = q.timeout /\ p.lastReceived = q.lastReceived /\ p.phase = q.phase
        /\ p.lastTransmitted = q.lastTransmitted /\ p.last = q.last /\ p.packet = q.packet
        /\ p.status = q.status /\ p.announced = q.announced /\ p.asked = q.asked
        /\ p.requested = q.requested
      BY <2>5 DEF ClientFields, OperationFields
  <2>7. /\ q.status = a.status /\ q.announced = a.announced /\ q.asked = a.asked
        /\ q.requested = a.requested /\ q.dataSize = a.dataSize /\ q.timeout = a.timeout
        /\ q.file = a.file
      BY <1>8, <2>3 DEF Changes, ClientFields, OperationFields
  <2>8. OperationOK(p, setup.client.file)   BY <2>3, <2>6 DEF OperationOK, Holds
  <2>9. Ready(server, p)
    <3>1. server.lastTransmitted = 0 /\ ~server.last /\ server.file.position = 0
        BY <1>5 DEF HasAnswered
    <3>2. p.file.content = <<>>   BY <1>4, <1>9, <1>14, <2>6, <2>7 DEF IsRequest
    <3> QED BY <1>11, <1>13, <3>1, <3>2, FreshIsReady
  <2>10. Announced(p)
      BY <1>5, <1>7, <1>14, <2>6, <2>7 DEF HasAnswered, Announced
  <2>11. IsAck(p)   BY <2>2, <2>3, <2>6 DEF IsAck
  <2>12. p.phase = "transfer" /\ p.status = "none" /\ p.requested = client.requested /\ p.oackReceived \in BOOLEAN
      BY <1>9, <1>10, <2>3, <2>5, <2>6, <2>7
  <2>13. p.asked \in BOOLEAN /\ p.dataSize = server.dataSize /\ (p.timeout = server.timeout \/ round > 1)
      BY <1>7, <1>11, <1>12, <2>6, <2>7
  <2> QED BY <1>3, <1>11, <1>12, <1>14, <2>1, <2>5, <2>6, <2>7, <2>8, <2>9, <2>10, <2>11, <2>12, <2>13, ClientGoesOn
<1>15. CASE ~Reading
  <2> DEFINE p == SendData(a)
  <2>1. ClientSends(p, "server")   BY <1>2, <1>15
  <2>2. Ready(a, server)
    <3>1. server.file.content = <<>>   BY <1>5, <1>15 DEF HasAnswered
    <3> QED BY <1>10, <1>11, <1>13, <3>1, FreshIsReady
  <2>3. a.file.content = Original /\ client.file.content = Original
      BY <1>1, <1>9, <1>15, FilesOf DEF Source
  <2>4. Supplied(p) /\ InFlight(p, server)   BY <1>7, <1>8, <2>2, <2>3, SuppliesNext
  <2>5. a.file.position <= Len(a.file.content)
      BY <2>2, <2>3 DEF Ready, Supplied
  <2>6. /\ Changes(a, p, {"phase", "lastTransmitted", "file", "last", "packet"})
        /\ p.phase = "transfer" /\ OperationOK(p, setup.client.file)
      BY <1>7, <1>8, <2>5, SendDataOf
  <2> HIDE DEF p
  <2>7. /\ DOMAIN p = ClientFields
        /\ p.status = a.status /\ p.asked = a.asked /\ p.requested = a.requested
        /\ p.dataSize = a.dataSize /\ p.timeout = a.timeout /\ p.oackReceived = a.oackReceived
      BY <1>8, <2>6 DEF Changes, ClientFields, OperationFields
  <2>8. Announced(server)
    <3>1. server.announced = Value(options, "tsize", None)   BY <1>5, <1>15 DEF HasAnswered
    <3>2. RequestedTransferSize(client.file) \in {None, Len(Original)}
        BY <1>1, <1>15, FilesOf DEF Source
    <3>3. Value(options, "tsize", None) # None =>
              Value(options, "tsize", None) = RequestedTransferSize(client.file)
        BY <1>4, <1>7, <1>15 DEF IsRequest
    <3> QED BY <3>1, <3>2, <3>3 DEF Announced
  <2>9. p.status = "none" /\ p.requested = client.requested /\ p.oackReceived \in BOOLEAN /\ p.asked \in BOOLEAN
      BY <1>7, <1>8, <1>9, <1>10, <2>7
  <2>10. p.dataSize = server.dataSize /\ (p.timeout = server.timeout \/ round > 1)
      BY <1>11, <1>12, <2>7
  <2> QED BY <1>3, <1>11, <1>15, <2>1, <2>4, <2>6, <2>7, <2>8, <2>9, <2>10, ClientGoesOn
<1> QED BY <1>14, <1>15

(* The block is stored: the next one is expected, or it is the last one. *)
LEMMA ClientStoresKeeps == ASSUME Inv, ClientStores PROVE Inv'
<1> DEFINE k == Asked  p == Store(k, ClientPacket)
<1>1. TypeOK /\ Conversation /\ Results /\ Understood   BY DEF Inv
<1>2. /\ wire.to = "client" /\ client.phase \in {"requested", "transfer"}
      /\ ClientPacket.type = "DATA" /\ ClientSends(p, "server")
    BY DEF ClientStores, ClientReceives, ClientPacket
<1>3. round > 0 /\ DataHeard /\ client.status = "none"
  <2>1. ClientPacket # InvalidPacket /\ ~OackHeard /\ ~AckHeard
      BY <1>2 DEF InvalidPacket, OackHeard, AckHeard
  <2> QED BY <1>1, <1>2, <2>1, ClientHears
<1>4. Reading /\ InTransfer(server) /\ Agreed /\ Supplied(server) /\ Hears(server, client, ClientPacket)
    BY <1>3 DEF DataHeard
<1>5. /\ DOMAIN client = ClientFields /\ IsOperation(client) /\ client.oackReceived \in BOOLEAN
      /\ IsOperation(server) /\ OperationOK(server, setup.server.file)
      /\ server.file.content = Original /\ setup.client.file.operation = "Receive"
  <2>1. setup.client.file.operation = "Receive"   BY <1>1, <1>4, SetupFacts DEF TypeOK, SinkFile
  <2> QED BY <1>1, <1>4, <2>1, FilesOf DEF TypeOK, Source
<1>6. Changes(client, k, {"asked"}) /\ k.asked \in BOOLEAN /\ OperationOK(k, setup.client.file)
    BY <1>1, AskedOf
<1> HIDE DEF k
<1>7. /\ DOMAIN k = ClientFields /\ IsOperation(k)
      /\ k.status = client.status /\ k.file = client.file /\ k.dataSize = client.dataSize
      /\ k.timeout = client.timeout /\ k.announced = client.announced
      /\ k.oackReceived = client.oackReceived /\ k.requested = client.requested
    BY <1>5, <1>6 DEF Changes, IsOperation, ClientFields, OperationFields
<1>8. Hears(server, k, ClientPacket)   BY <1>4, <1>7 DEF Hears
<1>9. server.dataSize = k.dataSize /\ (k.timeout = server.timeout \/ round > 1) /\ Announced(client)
    BY <1>4, <1>7 DEF Agreed, Sink
<1>10. /\ Changes(k, p, {"phase", "status", "lastReceived", "file", "packet"})
       /\ IsAck(p) /\ OperationOK(p, setup.client.file)
       /\ \/ /\ p.phase = "done" /\ p.status = "Successful" /\ server.last
             /\ p.file.type # "null" => p.file.content = Original
          \/ p.phase = "transfer" /\ p.status = k.status /\ Ready(server, p)
    BY <1>4, <1>5, <1>6, <1>7, <1>8, <1>9, StoresNext
<1> HIDE DEF p
<1>11. /\ DOMAIN p = ClientFields /\ p.dataSize = k.dataSize /\ p.timeout = k.timeout
       /\ p.announced = k.announced /\ p.asked = k.asked /\ p.oackReceived = k.oackReceived
       /\ p.requested = k.requested
    BY <1>7, <1>10 DEF Changes, ClientFields, OperationFields
<1>12. Announced(p)   BY <1>7, <1>9, <1>11 DEF Announced
<1>13. CASE p.phase = "transfer" /\ p.status = k.status /\ Ready(server, p)
  <2>1. p.phase = "transfer" /\ p.status = "none" /\ p.oackReceived \in BOOLEAN /\ p.asked \in BOOLEAN
        /\ p.requested = client.requested
      BY <1>3, <1>5, <1>6, <1>7, <1>11, <1>13
  <2>2. p.dataSize = server.dataSize /\ (p.timeout = server.timeout \/ round > 1)
      BY <1>9, <1>11
  <2> QED BY <1>2, <1>3, <1>4, <1>10, <1>11, <1>12, <1>13, <2>1, <2>2, ClientGoesOn
<1>14. CASE /\ p.phase = "done" /\ p.status = "Successful" /\ server.last
            /\ p.file.type # "null" => p.file.content = Original
  <2>1. client' = p /\ wire' = [to |-> "server", cells |-> p.packet] /\ UNCHANGED <<setup, round, server>>
      BY <1>2 DEF ClientSends
  <2>2. TypeOK'
    <3>1. /\ OperationOK(client', setup.client.file)
          /\ client'.phase \in {"idle", "requested", "transfer", "done"}
          /\ client'.oackReceived \in BOOLEAN /\ client'.asked \in BOOLEAN
          /\ client'.requested = client.requested /\ DOMAIN client' = ClientFields
        BY <1>5, <1>6, <1>7, <1>10, <1>11, <1>14, <2>1
    <3> QED BY <1>1, <2>1, <3>1, ClientTyped
  <2>3. /\ (Reading' <=> Reading) /\ Original' = Original /\ Sink' = p /\ Source' = server
        /\ (Announced(client))' <=> Announced(p)
        /\ (Supplied(server))' <=> Supplied(server)
      BY <1>4, <2>1, Later
  <2>4. ServersEnd'
    <3>1. OnWire("server", client)' /\ IsAck(client)'
        BY <1>10, <2>1 DEF OnWire, IsAck
    <3>2. (Supplied(server))'   BY <1>4, <2>3
    <3>3. (IsOver(server, client))'
      <4>1. client'.phase = "done" /\ client'.status = "Successful" /\ server.last   BY <1>14, <2>1
      <4>2. server'.phase = "transfer" /\ server'.status = "none" /\ server'.last
          BY <1>4, <2>1, <4>1 DEF InTransfer
      <4> QED BY <3>1, <3>2, <4>1, <4>2 DEF IsOver
    <3> QED BY <1>3, <1>4, <2>1, <2>3, <3>1, <3>3 DEF ServersEnd
  <2>5. Results'
    <3>1. (Announced(Sink))'   BY <1>12, <2>3 DEF Announced
    <3>2. server.status # "Successful"   BY <1>4 DEF InTransfer
    <3> QED BY <1>14, <2>3, <3>1, <3>2 DEF Results
  <2>6. Understood'
      BY <1>1, <1>7, <1>11, <2>1, <2>3, Later DEF Understood, AsSent
  <2> QED BY <2>2, <2>4, <2>5, <2>6 DEF Inv, Conversation
<1> QED BY <1>10, <1>13, <1>14

(* The next block is sent. *)
LEMMA ClientSuppliesKeeps == ASSUME Inv, ClientSupplies PROVE Inv'
<1> DEFINE k == Asked  a == Acknowledged(k, ClientPacket)  p == SendData(a)
<1>1. TypeOK /\ Conversation   BY DEF Inv
<1>2. /\ wire.to = "client" /\ client.phase \in {"requested", "transfer"}
      /\ ClientPacket.type = "ACK" /\ ~client.last /\ ClientSends(p, "server")
    BY DEF ClientSupplies, ClientReceives, ClientPacket
<1>3. round > 0 /\ AckHeard /\ client.status = "none"
  <2>1. ClientPacket # InvalidPacket /\ ~OackHeard /\ ~DataHeard
      BY <1>2 DEF InvalidPacket, OackHeard, DataHeard, Hears
  <2> QED BY <1>1, <1>2, <2>1, ClientHears
<1>4. ~Reading /\ InTransfer(server) /\ Agreed /\ Ready(client, server)
    BY <1>2, <1>3 DEF AckHeard, IsOver
<1>5. PICK block \in BlockNumbers : ClientPacket = [type |-> "ACK", block |-> block]
    BY <1>3 DEF AckHeard
<1>6. ClientPacket.block \in BlockNumbers   BY <1>5
<1>7. /\ DOMAIN client = ClientFields /\ client.oackReceived \in BOOLEAN
      /\ client.file.content = Original
    BY <1>1, <1>4, FilesOf DEF TypeOK, Source
<1>8. Changes(client, k, {"asked"}) /\ k.asked \in BOOLEAN /\ OperationOK(k, setup.client.file)
    BY <1>1, AskedOf
<1> HIDE DEF k
<1>9. DOMAIN k = ClientFields /\ IsOperation(k)
    BY <1>7, <1>8 DEF Changes, IsOperation, ClientFields
<1>10. Changes(k, a, {"lastReceived"}) /\ OperationOK(a, setup.client.file)
    BY <1>6, <1>8, <1>9, AcknowledgedOf
<1> HIDE DEF a
<1>11. /\ DOMAIN a = ClientFields /\ IsOperation(a)
       /\ a.status = client.status /\ a.file = client.file /\ a.dataSize = client.dataSize
       /\ a.timeout = client.timeout /\ a.last = client.last
       /\ a.lastTransmitted = client.lastTransmitted
       /\ a.oackReceived = client.oackReceived /\ a.requested = client.requested
       /\ a.asked = k.asked
    BY <1>7, <1>8, <1>9, <1>10 DEF Changes, IsOperation, ClientFields, OperationFields
<1>12. Ready(a, server)   BY <1>4, <1>11 DEF Ready, Supplied
<1>13. a.file.content = Original /\ a.file.position <= Len(a.file.content)
    BY <1>7, <1>11, <1>12 DEF Ready, Supplied
<1>14. Supplied(p) /\ InFlight(p, server)   BY <1>10, <1>11, <1>12, <1>13, SuppliesNext
<1>15. /\ Changes(a, p, {"phase", "lastTransmitted", "file", "last", "packet"})
       /\ p.phase = "transfer" /\ OperationOK(p, setup.client.file)
    BY <1>10, <1>11, <1>13, SendDataOf
<1> HIDE DEF p
<1>16. /\ DOMAIN p = ClientFields
       /\ p.status = a.status /\ p.asked = a.asked /\ p.requested = a.requested
       /\ p.dataSize = a.dataSize /\ p.timeout = a.timeout /\ p.oackReceived = a.oackReceived
    BY <1>11, <1>15 DEF Changes, ClientFields, OperationFields
<1>17. p.dataSize = server.dataSize /\ (p.timeout = server.timeout \/ round > 1) /\ Announced(server)
    BY <1>4, <1>11, <1>16 DEF Agreed, Sink
<1>18. /\ p.status = "none" /\ p.requested = client.requested /\ p.oackReceived \in BOOLEAN
       /\ p.asked \in BOOLEAN
    BY <1>3, <1>7, <1>8, <1>11, <1>16
<1> QED BY <1>2, <1>3, <1>4, <1>14, <1>15, <1>16, <1>17, <1>18, ClientGoesOn

-----------------------------------------------------------------------------
(* Requests *)

(* request(): the server of it is a new one. *)
LEMMA RequestKeeps == ASSUME Inv, Request PROVE Inv'
<1> DEFINE size    == IF Reading THEN 0 ELSE RequestedTransferSize(client.file)
           options == RequestOptions(client.config, setup.client.additional, size)
           packet  == EncodeRequest(RequestType, setup.client.name, setup.client.mode, options)
           f       == Fresh(client)
           told    == IF client.config.transferSize THEN size ELSE f.transferSize
           p       == [f EXCEPT !.packet = packet, !.requested = options, !.transferSize = told]
<1>1. TypeOK /\ Conversation /\ Results /\ Understood   BY DEF Inv
<1>2. /\ wire = Nothing /\ client.phase \in {"idle", "done"}
      /\ client' = p /\ wire' = [to |-> "dispatcher", cells |-> packet]
      /\ round' = round + 1 /\ UNCHANGED setup
      /\ \/ round = 0 /\ server' = server
         \/ round > 0 /\ \E s \in SecondServers :
                server' = NewServer([s EXCEPT !.file = setup.server.file])
    BY DEF Request, RequestType
<1>3. round \in Nat /\ (round = 0 => Idle)
  <2>1. ~Asking   BY <1>2 DEF Asking, IsRequest
  <2> QED BY <1>1, <2>1 DEF TypeOK, Conversation, Answered, ServersTurn, ClientsTurn, ServersEnd, ClientsEnd
<1>4. /\ setup.client.name \in Seq({Letter}) /\ setup.client.mode \in Modes
      /\ IsOptions(setup.client.additional) /\ setup.server.file \in File(Cells)
      /\ Reading => setup.client.file.operation = "Receive"
      /\ ~Reading => setup.client.file.operation = "Transmit"
    BY <1>1, SetupFacts DEF TypeOK, SinkFile, SourceFile
<1>5. size \in Nat \cup {None} /\ client.config \in Configuration
    BY <1>1, FilesOf DEF Source, OperationOK
<1> HIDE DEF size
<1>6. IsOptions(options)   BY <1>4, <1>5, RequestOptionsTyped
<1> HIDE DEF options
<1>7. packet \in Cells
  <2>1. RequestType \in {"RRQ", "WRQ"} /\ 1 \in Nat /\ 1 # 0   BY DEF RequestType
  <2> DEFINE name == setup.client.name  mode == setup.client.mode
  <2>2. name \in Seq({Letter}) /\ mode \in Modes   BY <1>4
  <2>3. EncodeRequest(RequestType, name, mode, options) \in Cells
    <3> HIDE DEF name, mode
    <3> QED BY <1>6, <2>1, <2>2, RequestIsCells
  <2> QED BY <2>3
<1>8. /\ Changes(client, f, {"phase", "status", "file", "dataSize", "lastTransmitted", "last",
                             "lastReceived", "asked", "announced"})
      /\ f.phase = "requested" /\ f.status = "none" /\ f.file = Started(client.file)
      /\ f.dataSize = DefaultDataSize /\ f.lastTransmitted = 0 /\ f.last = FALSE
      /\ f.lastReceived = (IF Reading THEN 0 ELSE MaxBlock)
      /\ f.asked = FALSE /\ f.announced = None
      /\ OperationOK(f, setup.client.file)
    BY <1>1, FreshOf
<1> HIDE DEF f, told
<1>9. DOMAIN client = ClientFields /\ DOMAIN f = ClientFields   BY <1>1, <1>8 DEF TypeOK, Changes
<1> HIDE DEF packet
<1>10. /\ DOMAIN p = ClientFields /\ p.packet = packet /\ p.requested = options /\ p.transferSize = told
       /\ \A n \in ClientFields \ {"packet", "requested", "transferSize"} : p[n] = f[n]
    BY <1>9 DEF ClientFields, OperationFields
<1> HIDE DEF p
<1>11. /\ p.config = f.config /\ p.buffer = f.buffer /\ p.file = f.file /\ p.dataSize = f.dataSize
       /\ p.timeout = f.timeout /\ p.lastReceived = f.lastReceived /\ p.phase = f.phase
       /\ p.lastTransmitted = f.lastTransmitted /\ p.last = f.last
       /\ p.status = f.status /\ p.announced = f.announced /\ p.asked = f.asked
       /\ p.oackReceived = f.oackReceived
    BY <1>10 DEF ClientFields, OperationFields
<1>12. /\ f.config = client.config /\ f.timeout = client.timeout
       /\ f.oackReceived = client.oackReceived
    BY <1>8, <1>9 DEF Changes, ClientFields, OperationFields
<1>13. OperationOK(p, setup.client.file)   BY <1>7, <1>8, <1>10, <1>11 DEF OperationOK, Holds
<1>14. /\ DOMAIN server' = ServerFields /\ OperationOK(server', setup.server.file)
       /\ server'.extra \in {"none", "remaining", "unasked"} /\ server'.decoded = InvalidPacket
       /\ IsUnused(server')
  <2>1. CASE round = 0
    <3>1. server' = server /\ IsUnused(server)   BY <1>2, <1>3, <2>1 DEF Idle
    <3>2. server.decoded = InvalidPacket   BY <1>1, <3>1 DEF Understood, IsUnused
    <3>3. /\ DOMAIN server = ServerFields /\ OperationOK(server, setup.server.file)
          /\ server.extra \in {"none", "remaining", "unasked"}
        BY <1>1 DEF TypeOK
    <3> QED BY <3>1, <3>2, <3>3
  <2>2. CASE round # 0
    <3>1. PICK s \in SecondServers : server' = NewServer([s EXCEPT !.file = setup.server.file])
        BY <1>2, <2>2
    <3> DEFINE t == [s EXCEPT !.file = setup.server.file]
    <3>2. /\ t.configurations \in Seq(Configuration) /\ t.file = setup.server.file
          /\ t.extra \in {"none", "remaining", "unasked"}
      <4>1. s \in ServerSetup   BY DataPathAssumption
      <4> QED BY <4>1 DEF ServerSetup
    <3> HIDE DEF t
    <3> QED BY <1>4, <3>1, <3>2, NewServerOf DEF t
  <2> QED BY <2>1, <2>2
<1>15. TypeOK'
  <2>1. (OperationOK(client, setup.client.file))' <=> OperationOK(client', setup.client.file)
      BY <1>2 DEF OperationOK, SameFile, Holds
  <2>2. (OperationOK(server, setup.server.file))' <=> OperationOK(server', setup.server.file)
      BY <1>2 DEF OperationOK, SameFile, Holds
  <2>3. round' \in Nat /\ setup' \in Setups   BY <1>1, <1>2, <1>3 DEF TypeOK
  <2>4. client'.phase = "requested" /\ client'.oackReceived \in BOOLEAN /\ client'.asked \in BOOLEAN
        /\ IsOptions(client'.requested) /\ DOMAIN client' = ClientFields
      BY <1>1, <1>2, <1>6, <1>8, <1>10, <1>11, <1>12 DEF TypeOK
  <2>5. wire'.to = "dispatcher" /\ wire' = [to |-> wire'.to, cells |-> wire'.cells]   BY <1>2
  <2>6. server'.phase = "idle"   BY <1>14 DEF IsUnused
  <2> QED BY <1>2, <1>13, <1>14, <2>1, <2>2, <2>3, <2>4, <2>5, <2>6 DEF TypeOK
<1>16. IsRequest'
  <2>1. (Reading' <=> Reading) /\ RequestType' = RequestType   BY <1>2, Later
  <2>2. /\ client.file \in File(Cells) /\ SameFile(client.file, setup.client.file)
        /\ client.file.operation = setup.client.file.operation
      BY <1>1 DEF TypeOK, OperationOK, SameFile
  <2>3. /\ p.file.position = 0
        /\ Reading => p.file.content = <<>>
        /\ ~Reading => RequestedTransferSize(p.file) = RequestedTransferSize(client.file)
      BY <1>4, <1>8, <1>11, <2>2, StartedOf
  <2>4. round' = 1 => p.timeout = DefaultTimeout
    <3>1. round' = 1 => round = 0   BY <1>2, <1>3
    <3>2. round = 0 => client.timeout = DefaultTimeout   BY <1>3 DEF Idle, IsUnused
    <3> QED BY <1>11, <1>12, <3>1, <3>2
  <2>5. ~Reading /\ p.config.transferSize => p.transferSize = RequestedTransferSize(p.file)
    <3>1. p.config = client.config   BY <1>11, <1>12
    <3> QED BY <1>10, <2>3, <3>1 DEF told, size
  <2>6. client'.packet = ClientRequest'
    <3>1. ClientRequest' = EncodeRequest(RequestType', setup'.client.name, setup'.client.mode, client'.requested)
        BY DEF ClientRequest
    <3> QED BY <1>2, <1>10, <2>1, <3>1 DEF packet
  <2>7. /\ client'.phase = "requested" /\ client'.status = "none"
        /\ client'.dataSize = DefaultDataSize /\ client'.lastTransmitted = 0 /\ ~client'.last
        /\ client'.lastReceived = (IF Reading THEN 0 ELSE MaxBlock)
        /\ client'.announced = None /\ ~client'.asked
      BY <1>2, <1>8, <1>11
  <2> QED BY <1>2, <2>1, <2>3, <2>4, <2>5, <2>6, <2>7 DEF IsRequest
<1>17. Conversation'
  <2>1. IsUnused(server)'   BY <1>14 DEF IsUnused
  <2>2. OnWire("dispatcher", client)'   BY <1>2, <1>10 DEF OnWire
  <2>3. round' > 0   BY <1>2, <1>3
  <2> QED BY <1>16, <2>1, <2>2, <2>3 DEF Conversation, Asking
<1>18. Results'
  <2>1. client'.status # "Successful" /\ server'.status # "Successful"
      BY <1>2, <1>8, <1>11, <1>14 DEF IsUnused
  <2>2. Sink'.status # "Successful" /\ Source'.status # "Successful"   BY <1>2, <2>1, Later
  <2> QED BY <2>2 DEF Results
<1>19. Understood'
  <2>1. server'.decoded = InvalidPacket' /\ InvalidPacket' = InvalidPacket   BY <1>14 DEF InvalidPacket
  <2> QED BY <2>1 DEF Understood
<1> QED BY <1>15, <1>17, <1>18, <1>19 DEF Inv

(* A request that is not understood is as one that is lost. *)
LEMMA IgnoredRequestKeeps == ASSUME Inv, IgnoredRequest PROVE Inv'
<1>1. TypeOK /\ Conversation /\ Results /\ Understood   BY DEF Inv
<1>2. wire.to = "dispatcher" /\ wire' = Nothing /\ UNCHANGED <<setup, round, client, server>>
    BY DEF IgnoredRequest
<1>3. Asking
    BY <1>1, <1>2 DEF Conversation, Idle, Answered, ServersTurn, ClientsTurn, ServersEnd, ClientsEnd, OnWire, Nothing
<1>4. TypeOK'
  <2>1. (OperationOK(client, setup.client.file))' <=> OperationOK(client, setup.client.file)
      BY <1>2 DEF OperationOK, SameFile, Holds
  <2>2. (OperationOK(server, setup.server.file))' <=> OperationOK(server, setup.server.file)
      BY <1>2 DEF OperationOK, SameFile, Holds
  <2> QED BY <1>1, <1>2, <2>1, <2>2 DEF TypeOK, Nothing
<1>5. Asking'
  <2>1. IsRequest'   BY <1>2, <1>3 DEF Asking, IsRequest, Reading, ClientRequest, RequestType
  <2>2. IsUnused(server)'   BY <1>2, <1>3 DEF Asking, IsUnused
  <2> QED BY <1>2, <1>3, <2>1, <2>2 DEF Asking, Nothing
<1>6. Results'
    BY <1>1, <1>2 DEF Results, Source, Sink, Reading, Announced, Original
<1>7. Understood'
    BY <1>1, <1>2 DEF Understood, AsSent, RequestType, Reading, InvalidPacket
<1> QED BY <1>4, <1>5, <1>6, <1>7 DEF Inv, Conversation

-----------------------------------------------------------------------------
(* The steps of the server *)

(* Types of the next state after a step of the server *)
LEMMA ServerTyped ==
    ASSUME TypeOK, UNCHANGED <<setup, round, client>>,
           DOMAIN server' = ServerFields, OperationOK(server', setup.server.file),
           server'.phase \in {"idle", "transfer", "done"}, server'.extra = server.extra,
           wire' = Nothing \/ \E cells : wire' = [to |-> "client", cells |-> cells]
    PROVE  TypeOK'
<1>1. wire' = Nothing \/ (wire'.to = "client" /\ wire' = [to |-> wire'.to, cells |-> wire'.cells])
    OBVIOUS
<1>2. (OperationOK(client, setup.client.file))' <=> OperationOK(client, setup.client.file)
    BY DEF OperationOK, SameFile, Holds
<1>3. (OperationOK(server, setup.server.file))' <=> OperationOK(server', setup.server.file)
    BY DEF OperationOK, SameFile, Holds
<1>4. Nothing' = Nothing   BY DEF Nothing
<1> QED BY <1>1, <1>2, <1>3, <1>4 DEF TypeOK

(* What the dispatcher understands is what has been asked. *)
LEMMA RequestHeard ==
    ASSUME TypeOK, Conversation, wire.to = "dispatcher", RequestPacket.type # "INVALID"
    PROVE  /\ Asking /\ RequestPacket.type = RequestType /\ IsOptions(RequestPacket.options)
           /\ AsSent(RequestPacket, RequestType, setup.client.name, setup.client.mode, client.requested)
<1>1. Asking
    BY DEF Conversation, Idle, Answered, ServersTurn, ClientsTurn, ServersEnd, ClientsEnd, OnWire, Nothing
<1>2. wire.cells = ClientRequest   BY <1>1 DEF Asking, OnWire, Nothing, IsRequest
<1> DEFINE name == setup.client.name  mode == setup.client.mode  options == client.requested
           type == RequestType  size == HeaderSize + DefaultDataSize  packet == RequestPacket
<1>3. name \in Seq({Letter}) /\ mode \in Modes   BY SetupFacts DEF TypeOK
<1>4. IsOptions(options) /\ type \in {"RRQ", "WRQ"}   BY DEF TypeOK, RequestType
<1>5. size \in Nat /\ size # 0   BY OptionAssumption, PacketAssumption
<1>6. packet = Decode(Cut(EncodeRequest(type, name, mode, options), size))
    BY <1>2 DEF RequestPacket, ClientRequest
<1>7. packet.type # "INVALID"   OBVIOUS
<1> HIDE DEF name, mode, options, type, size, packet
<1>8. packet = InvalidPacket \/ AsSent(packet, type, name, mode, options)
    BY <1>3, <1>4, <1>5, <1>6, RequestIsDecodedAsSent
<1>9. AsSent(packet, type, name, mode, options)   BY <1>7, <1>8 DEF InvalidPacket
<1>10. packet.type = type /\ IsOptions(packet.options)   BY <1>9 DEF AsSent
<1> QED BY <1>1, <1>9, <1>10 DEF name, mode, options, type, packet

(* The request is answered. *)
LEMMA ServerAnswers ==
    ASSUME Inv, Asking,
           AsSent(RequestPacket, RequestType, setup.client.name, setup.client.mode, client.requested),
           NEW p, ServerSends(p), DOMAIN p = ServerFields, OperationOK(p, setup.server.file),
           p.phase \in {"transfer", "done"}, p.status # "Successful",
           p.extra = server.extra, p.decoded = RequestPacket,
           HasRefused(server)' \/ HasStarted' \/ \E options : HasAnswered(options)'
    PROVE  Inv'
<1>1. server' = p /\ wire' = [to |-> "client", cells |-> p.packet] /\ UNCHANGED <<setup, round, client>>
    BY DEF ServerSends
<1>2. TypeOK /\ Conversation /\ Results /\ Understood   BY DEF Inv
<1>3. TypeOK'   BY <1>1, <1>2, ServerTyped
<1>4. Conversation'
  <2>1. IsRequest'   BY <1>1 DEF Asking, IsRequest, Reading, ClientRequest, RequestType
  <2>2. OnWire("client", server)' /\ round' > 0   BY <1>1 DEF OnWire, Asking
  <2>3. (\E options : HasAnswered(options))' <=> \E options : HasAnswered(options)'   OBVIOUS
  <2>4. Answered'   BY <2>1, <2>2 DEF Answered
  <2> QED BY <2>4 DEF Conversation
<1>5. Results'
  <2>1. client'.status # "Successful" /\ server'.status # "Successful"
      BY <1>1 DEF Asking, IsRequest
  <2>2. Sink'.status # "Successful" /\ Source'.status # "Successful"   BY <1>1, <2>1, Later
  <2> QED BY <2>2 DEF Results
<1>6. Understood'
  <2>1. server'.phase # "idle" /\ server'.decoded = RequestPacket   BY <1>1
  <2>2. RequestType' = RequestType   BY <1>1, Later
  <2>3. AsSent(server'.decoded, RequestType', setup'.client.name, setup'.client.mode, client'.requested)
      BY <1>1, <2>1, <2>2 
  <2> QED BY <2>1, <2>3 DEF Understood, AsSent
<1> QED BY <1>3, <1>4, <1>5, <1>6 DEF Inv

(* The request is refused. *)
LEMMA ServerRefuses ==
    ASSUME Inv, wire.to = "dispatcher", RequestPacket.type # "INVALID",
           NEW code \in ErrorCodes, ServerSends(Refused(Answering, code, "TransferError"))
    PROVE  Inv'
<1> DEFINE a == Answering  p == Refused(a, code, "TransferError")
<1>1. /\ Asking /\ TypeOK
      /\ AsSent(RequestPacket, RequestType, setup.client.name, setup.client.mode, client.requested)
    BY RequestHeard DEF Inv
<1>2. /\ Changes(server, a, {"phase", "file", "decoded", "dataSize", "timeout"})
      /\ a.decoded = RequestPacket /\ OperationOK(a, setup.server.file)
    BY <1>1, AnsweringOf DEF Asking
<1> HIDE DEF a
<1>3. DOMAIN server = ServerFields /\ DOMAIN a = ServerFields /\ IsOperation(a) /\ a.extra = server.extra
    BY <1>1, <1>2 DEF TypeOK, Changes, IsOperation, ServerFields, OperationFields
<1>4. /\ Changes(a, p, {"phase", "status", "file", "packet"})
      /\ p.phase = "done" /\ p.status = "TransferError" /\ p.packet = EncodeError(code)
      /\ OperationOK(p, setup.server.file)
    BY <1>2, <1>3, RefusedOf
<1>5. ServerSends(p)   BY DEF a
<1> HIDE DEF p
<1>6. DOMAIN p = ServerFields /\ p.extra = server.extra /\ p.decoded = RequestPacket
    BY <1>2, <1>3, <1>4 DEF Changes, ServerFields, OperationFields
<1>7. HasRefused(server)'
  <2>1. server' = p   BY <1>5 DEF ServerSends
  <2> QED BY <1>4, <2>1 DEF HasRefused
<1>8. p.phase \in {"transfer", "done"} /\ p.status # "Successful"   BY <1>4
<1> QED BY <1>1, <1>4, <1>5, <1>6, <1>7, <1>8, ServerAnswers

(* What start() begins with *)
LEMMA AnsweringStands ==
    ASSUME Inv, wire.to = "dispatcher", RequestPacket.type # "INVALID"
    PROVE  LET a == Answering IN
           /\ Asking /\ TypeOK /\ RequestPacket.type = RequestType /\ IsOptions(RequestPacket.options)
           /\ AsSent(RequestPacket, RequestType, setup.client.name, setup.client.mode, client.requested)
           /\ DOMAIN a = ServerFields /\ IsOperation(a) /\ OperationOK(a, setup.server.file)
           /\ a.phase = "transfer" /\ a.status = "none" /\ a.extra = server.extra
           /\ a.decoded = RequestPacket /\ a.announced = None
           /\ a.lastTransmitted = 0 /\ ~a.last /\ a.file.position = 0
           /\ Reading => a.file.content = Original
           /\ ~Reading => a.file.content = <<>>
<1> DEFINE a == Answering
<1>1. /\ Asking /\ TypeOK /\ RequestPacket.type = RequestType /\ IsOptions(RequestPacket.options)
      /\ AsSent(RequestPacket, RequestType, setup.client.name, setup.client.mode, client.requested)
    BY RequestHeard DEF Inv
<1>2. /\ Changes(server, a, {"phase", "file", "decoded", "dataSize", "timeout"})
      /\ a.phase = "transfer" /\ a.file = Started(server.file)
      /\ a.decoded = RequestPacket /\ OperationOK(a, setup.server.file)
    BY <1>1, AnsweringOf DEF Asking
<1> HIDE DEF a
<1>3. /\ DOMAIN a = ServerFields /\ IsOperation(a) /\ a.extra = server.extra /\ a.status = server.status
      /\ a.announced = server.announced /\ a.lastTransmitted = server.lastTransmitted
      /\ a.last = server.last
    BY <1>1, <1>2 DEF TypeOK, Changes, IsOperation, ServerFields, OperationFields
<1>4. /\ a.status = "none" /\ a.announced = None /\ a.lastTransmitted = 0 /\ ~a.last
    BY <1>1, <1>3 DEF Asking, IsUnused
<1>5. /\ server.file \in File(Cells) /\ SameFile(server.file, setup.server.file)
      /\ server.file.operation = setup.server.file.operation
    BY <1>1 DEF TypeOK, OperationOK, SameFile
<1>6. /\ a.file.position = 0
      /\ a.file.content = IF server.file.operation = "Receive" THEN <<>> ELSE server.file.content
    BY <1>2, <1>5, StartedOf
<1>7. /\ Reading => server.file.content = Original /\ server.file.operation # "Receive"
      /\ ~Reading => server.file.operation = "Receive"
    BY <1>1, FilesOf DEF Source, Sink
<1> QED BY <1>1, <1>2, <1>3, <1>4, <1>6, <1>7 DEF a

(* start() of a read: an error, the first block or an OACK *)
LEMMA StartReadKeeps == ASSUME Inv, StartRead PROVE Inv'
<1> DEFINE a == Answering
           size    == RequestedTransferSize(server.file)
           options == ServerOptions(server.config, ClientOptions, AdditionalOptions, size)
           refuses == SizeIsHandled /\ ClientOptions.transferSize # 0
           oack    == [a EXCEPT !.lastReceived = MaxBlock, !.packet = EncodeOack(options)]
           data    == SendData(a)
<1>1. /\ wire.to = "dispatcher" /\ RequestPacket.type = "RRQ"
      /\ IF refuses THEN ServerSends(Refused(a, "TftpOptionRefused", "TransferError"))
         ELSE IF DOMAIN options = {} THEN ServerSends(data) ELSE ServerSends(oack)
    BY DEF StartRead
<1>2. /\ Asking /\ TypeOK /\ Reading /\ IsOptions(RequestPacket.options)
      /\ AsSent(RequestPacket, RequestType, setup.client.name, setup.client.mode, client.requested)
      /\ DOMAIN a = ServerFields /\ IsOperation(a) /\ OperationOK(a, setup.server.file)
      /\ a.phase = "transfer" /\ a.status = "none" /\ a.extra = server.extra
      /\ a.decoded = RequestPacket /\ a.announced = None
      /\ a.lastTransmitted = 0 /\ ~a.last /\ a.file.position = 0 /\ a.file.content = Original
  <2>1. RequestPacket.type = RequestType   BY <1>1, AnsweringStands
  <2>2. Reading   BY <1>1, <2>1 DEF RequestType
  <2> QED BY <1>1, <2>2, AnsweringStands
<1>3. CASE refuses
  <2>1. ServerSends(Refused(Answering, "TftpOptionRefused", "TransferError"))   BY <1>1, <1>3
  <2>2. "TftpOptionRefused" \in ErrorCodes /\ RequestPacket.type # "INVALID"   BY <1>1 DEF ErrorCodes
  <2> QED BY <1>1, <2>1, <2>2, ServerRefuses
<1>4. Original \in Cells /\ size \in {None, Len(Original)} /\ size \in Nat \cup {None}
    BY <1>2, FilesOf DEF Source
<1> HIDE DEF size
<1>5. /\ IsOptions(options)
      /\ a.dataSize = Value(options, "blksize", DefaultDataSize)
      /\ a.timeout = Value(options, "timeout", DefaultTimeout)
      /\ Value(options, "tsize", None) = IF SizeIsHandled THEN size ELSE None
    BY <1>2, <1>4, ServerOptionsOf DEF Asking
<1> HIDE DEF a, options, refuses
<1>6. CASE ~refuses /\ DOMAIN options = {}
  <2>1. ServerSends(data)   BY <1>1, <1>6
  <2>2. a.dataSize = DefaultDataSize /\ a.timeout = DefaultTimeout   BY <1>5, <1>6 DEF Value
  <2>3. a.dataSize \in Nat \ {0}   BY <2>2, OptionAssumption
  <2>4. client.file.content = <<>>   BY <1>2 DEF Asking, IsRequest
  <2>5. Ready(a, client)   BY <1>2, <1>4, <2>3, <2>4, FreshIsReady
  <2>6. Supplied(data) /\ InFlight(data, client)   BY <1>2, <2>5, SuppliesNext
  <2>7. a.file.position <= Len(a.file.content)   BY <1>2, <2>5 DEF Ready, Supplied
  <2>8. /\ Changes(a, data, {"phase", "lastTransmitted", "file", "last", "packet"})
        /\ data.phase = "transfer" /\ OperationOK(data, setup.server.file)
      BY <1>2, <2>7, SendDataOf
  <2> HIDE DEF data
  <2>9. /\ DOMAIN data = ServerFields /\ data.status = a.status /\ data.extra = a.extra
        /\ data.decoded = a.decoded /\ data.dataSize = a.dataSize /\ data.timeout = a.timeout
      BY <1>2, <2>8 DEF Changes, ServerFields, OperationFields
  <2>10. server' = data /\ UNCHANGED <<setup, client>>   BY <2>1 DEF ServerSends
  <2>11. HasStarted'
    <3>1. /\ server'.phase = "transfer" /\ server'.status = "none"
          /\ server'.dataSize = DefaultDataSize /\ server'.timeout = DefaultTimeout
        BY <1>2, <2>2, <2>8, <2>9, <2>10
    <3>2. Reading' /\ (InFlight(server, client))' /\ (Supplied(server))'
        BY <1>2, <2>6, <2>10, Later
    <3> QED BY <3>1, <3>2 DEF HasStarted
  <2>12. data.phase \in {"transfer", "done"} /\ data.status # "Successful" /\ data.extra = server.extra
         /\ data.decoded = RequestPacket
      BY <1>2, <2>8, <2>9
  <2> QED BY <1>2, <2>1, <2>8, <2>9, <2>11, <2>12, ServerAnswers
<1>7. CASE ~refuses /\ DOMAIN options # {}
  <2>1. ServerSends(oack)   BY <1>1, <1>7
  <2>2. EncodeOack(options) \in Cells
    <3>1. 0 \in Nat /\ 0 <= 1   OBVIOUS
    <3> QED BY <1>5, <3>1, OackIsDecoded
  <2> DEFINE packet == EncodeOack(options)
  <2> HIDE DEF packet
  <2>3. /\ DOMAIN oack = ServerFields /\ oack.packet = packet /\ oack.lastReceived = MaxBlock
        /\ \A n \in ServerFields \ {"lastReceived", "packet"} : oack[n] = a[n]
      BY <1>2 DEF ServerFields, OperationFields, packet
  <2> HIDE DEF oack
  <2>4. /\ oack.config = a.config /\ oack.buffer = a.buffer /\ oack.file = a.file
        /\ oack.dataSize = a.dataSize /\ oack.timeout = a.timeout /\ oack.phase = a.phase
        /\ oack.lastTransmitted = a.lastTransmitted /\ oack.last = a.last
        /\ oack.status = a.status /\ oack.announced = a.announced
        /\ oack.extra = a.extra /\ oack.decoded = a.decoded
      BY <2>3 DEF ServerFields, OperationFields
  <2>5. MaxBlock \in BlockNumbers   BY MaxBlockAssumption DEF BlockNumbers
  <2>6. OperationOK(oack, setup.server.file)
      BY <1>2, <2>2, <2>3, <2>4, <2>5 DEF OperationOK, Holds, packet
  <2>7. server' = oack /\ UNCHANGED <<setup, client>>   BY <2>1 DEF ServerSends
  <2>0. PICK o : o = options   OBVIOUS
  <2>8. HasAnswered(o)'
    <3>1. /\ server'.phase = "transfer" /\ server'.status = "none" /\ server'.packet = EncodeOack(o)
          /\ server'.dataSize = Value(o, "blksize", DefaultDataSize)
          /\ server'.timeout = Value(o, "timeout", DefaultTimeout)
          /\ server'.lastTransmitted = 0 /\ ~server'.last /\ server'.file.position = 0
        BY <1>2, <1>5, <2>0, <2>3, <2>4, <2>7 DEF packet
    <3>2. Reading' /\ Value(o, "tsize", None) \in {None, Len(Original)} /\ Original' = Original
        BY <1>2, <1>4, <1>5, <2>0, <2>7, Later
    <3> QED BY <1>5, <1>7, <2>0, <3>1, <3>2 DEF HasAnswered
  <2>9. oack.phase \in {"transfer", "done"} /\ oack.status # "Successful" /\ oack.extra = server.extra
        /\ oack.decoded = RequestPacket
      BY <1>2, <2>4
  <2>10. \E k : HasAnswered(k)'   BY <2>8
  <2> QED BY <1>2, <2>1, <2>3, <2>6, <2>9, <2>10, ServerAnswers
<1> QED BY <1>3, <1>6, <1>7

(* start() of a write: an error, an acknowledgement or an OACK *)
LEMMA StartWriteKeeps == ASSUME Inv, StartWrite PROVE Inv'
<1> DEFINE a == Answering
           size    == ClientOptions.transferSize
           options == ServerOptions(server.config, ClientOptions, AdditionalOptions, size)
           refuses == SizeIsHandled /\ ~ReceivedTransferSize(server.file, size)
           told    == IF SizeIsHandled THEN size ELSE a.announced
           o       == [a EXCEPT !.announced = told]
           answer  == IF DOMAIN options = {} THEN EncodeAck(0) ELSE EncodeOack(options)
           p       == [o EXCEPT !.packet = answer]
<1>1. /\ wire.to = "dispatcher" /\ RequestPacket.type = "WRQ"
      /\ IF refuses THEN ServerSends(Refused(a, "DiskFullOrAllocationExceeds", "TransferError"))
         ELSE ServerSends(p)
    BY DEF StartWrite
<1>2. /\ Asking /\ TypeOK /\ ~Reading /\ IsOptions(RequestPacket.options)
      /\ AsSent(RequestPacket, RequestType, setup.client.name, setup.client.mode, client.requested)
      /\ DOMAIN a = ServerFields /\ IsOperation(a) /\ OperationOK(a, setup.server.file)
      /\ a.phase = "transfer" /\ a.status = "none" /\ a.extra = server.extra
      /\ a.decoded = RequestPacket /\ a.announced = None
      /\ a.lastTransmitted = 0 /\ ~a.last /\ a.file.position = 0 /\ a.file.content = <<>>
  <2>1. RequestPacket.type = RequestType   BY <1>1, AnsweringStands
  <2>2. ~Reading   BY <1>1, <2>1 DEF RequestType
  <2> QED BY <1>1, <2>2, AnsweringStands
<1>3. CASE refuses
  <2>1. ServerSends(Refused(Answering, "DiskFullOrAllocationExceeds", "TransferError"))   BY <1>1, <1>3
  <2>2. "DiskFullOrAllocationExceeds" \in ErrorCodes /\ RequestPacket.type # "INVALID"   BY <1>1 DEF ErrorCodes
  <2> QED BY <1>1, <2>1, <2>2, ServerRefuses
<1>4. size \in Nat \cup {None}
    BY OptionsRead DEF ClientOptions, TftpOptions
<1> HIDE DEF size
<1>5. /\ IsOptions(options)
      /\ a.dataSize = Value(options, "blksize", DefaultDataSize)
      /\ a.timeout = Value(options, "timeout", DefaultTimeout)
      /\ Value(options, "tsize", None) = IF SizeIsHandled THEN size ELSE None
    BY <1>2, <1>4, ServerOptionsOf DEF Asking
<1>6. told = Value(options, "tsize", None)   BY <1>2, <1>5
<1> HIDE DEF a, options, refuses, told
<1>7. CASE ~refuses
  <2>1. ServerSends(p)   BY <1>1, <1>7
  <2>2. answer \in Cells
    <3>1. 0 \in Nat /\ 0 <= 1 /\ 0 \in BlockNumbers   BY MaxBlockAssumption DEF BlockNumbers
    <3>2. EncodeOack(options) \in Cells   BY <1>5, <3>1, OackIsDecoded
    <3>3. EncodeAck(0) \in Cells   BY <3>1, PacketsAreCells
    <3> QED BY <3>2, <3>3
  <2> HIDE DEF answer
  <2>3. /\ DOMAIN p = ServerFields /\ p.packet = answer /\ p.announced = told
        /\ \A n \in ServerFields \ {"announced", "packet"} : p[n] = a[n]
      BY <1>2 DEF ServerFields, OperationFields
  <2> HIDE DEF p
  <2>4. /\ p.config = a.config /\ p.buffer = a.buffer /\ p.file = a.file
        /\ p.dataSize = a.dataSize /\ p.timeout = a.timeout /\ p.phase = a.phase
        /\ p.lastTransmitted = a.lastTransmitted /\ p.last = a.last /\ p.lastReceived = a.lastReceived
        /\ p.status = a.status /\ p.extra = a.extra /\ p.decoded = a.decoded
      BY <2>3 DEF ServerFields, OperationFields
  <2>5. OperationOK(p, setup.server.file)
      BY <1>2, <2>2, <2>3, <2>4 DEF OperationOK, Holds
  <2>6. server' = p /\ UNCHANGED <<setup, client>> /\ (Reading' <=> Reading)
      BY <2>1, Later DEF ServerSends
  <2>7. p.phase \in {"transfer", "done"} /\ p.status # "Successful" /\ p.extra = server.extra
        /\ p.decoded = RequestPacket
      BY <1>2, <2>4
  <2>8. HasStarted' \/ \E k : HasAnswered(k)'
    <3>1. CASE DOMAIN options = {}
      <4>1. /\ a.dataSize = DefaultDataSize /\ a.timeout = DefaultTimeout /\ told = None
            /\ answer = EncodeAck(0)
          BY <1>5, <1>6, <3>1 DEF Value, answer
      <4>2. /\ server'.phase = "transfer" /\ server'.status = "none"
            /\ server'.dataSize = DefaultDataSize /\ server'.timeout = DefaultTimeout
            /\ server'.packet = EncodeAck(0) /\ server'.file.content = <<>> /\ server'.announced = None
          BY <1>2, <2>3, <2>4, <2>6, <4>1
      <4> QED BY <1>2, <2>6, <4>2 DEF HasStarted
    <3>2. CASE DOMAIN options # {}
      <4>1. PICK k : k = options   OBVIOUS
      <4>2. answer = EncodeOack(k)   BY <3>2, <4>1 DEF answer
      <4>3. /\ server'.phase = "transfer" /\ server'.status = "none" /\ server'.packet = EncodeOack(k)
            /\ server'.dataSize = Value(k, "blksize", DefaultDataSize)
            /\ server'.timeout = Value(k, "timeout", DefaultTimeout)
            /\ Value(k, "tsize", None) = server'.announced
            /\ server'.lastTransmitted = 0 /\ ~server'.last /\ server'.file.position = 0
            /\ server'.file.content = <<>>
          BY <1>2, <1>5, <1>6, <2>3, <2>4, <2>6, <4>1, <4>2
      <4>4. HasAnswered(k)'   BY <1>2, <1>5, <2>6, <3>2, <4>1, <4>3 DEF HasAnswered
      <4> QED BY <4>4
    <3> QED BY <3>1, <3>2
  <2> QED BY <1>2, <2>1, <2>3, <2>5, <2>7, <2>8, ServerAnswers
<1> QED BY <1>3, <1>7

(* The server goes on, and it is the turn of the client. *)
LEMMA ServerGoesOn ==
    ASSUME Inv, round > 0, NEW p, ServerSends(p),
           DOMAIN p = ServerFields, OperationOK(p, setup.server.file),
           p.phase = "transfer", p.status = "none",
           p.extra = server.extra, p.decoded = server.decoded, server.phase = "transfer",
           InTransfer(client), client.dataSize = p.dataSize,
           client.timeout = p.timeout \/ round > 1,
           IF Reading THEN Announced(client) /\ InFlight(p, client) /\ Supplied(p)
           ELSE Announced(p) /\ Ready(client, p) /\ IsAck(p)
    PROVE  Inv'
<1>1. server' = p /\ wire' = [to |-> "client", cells |-> p.packet] /\ UNCHANGED <<setup, round, client>>
    BY DEF ServerSends
<1>2. TypeOK /\ Conversation /\ Results /\ Understood   BY DEF Inv
<1>3. TypeOK'   BY <1>1, <1>2, ServerTyped
<1>4. /\ (Reading' <=> Reading) /\ Original' = Original
      /\ Sink' = (IF Reading THEN client ELSE p) /\ Source' = (IF Reading THEN p ELSE client)
      /\ (Ready(client, server))' <=> Ready(client, p)
      /\ (InFlight(server, client))' <=> InFlight(p, client)
      /\ (Supplied(server))' <=> Supplied(p)
      /\ (Announced(client))' <=> Announced(client)
      /\ (Announced(server))' <=> Announced(p)
    BY <1>1, Later
<1>5. Transferring'
  <2>1. (Announced(Sink))'   BY <1>1, <1>4 DEF Announced
  <2> QED BY <1>1, <2>1 DEF Transferring, InTransfer
<1>6. ClientsTurn'
  <2>1. OnWire("client", server)'   BY <1>1 DEF OnWire
  <2>2. ~Reading => IsAck(server)'   BY <1>1 DEF IsAck
  <2>3. client'.phase = "transfer" /\ client'.status = "none" /\ round' > 0   BY <1>1 DEF InTransfer
  <2> QED BY <1>1, <1>4, <1>5, <2>1, <2>2, <2>3 DEF ClientsTurn
<1>7. Results'
  <2>1. client.status # "Successful" /\ p.status # "Successful"   BY DEF InTransfer
  <2> QED BY <1>4, <2>1 DEF Results
<1>8. Understood'
  <2>1. server'.phase # "idle" /\ server'.decoded = server.decoded /\ RequestType' = RequestType
      BY <1>1, Later
  <2> QED BY <1>1, <1>2, <2>1 DEF Understood, AsSent, InvalidPacket
<1> QED BY <1>3, <1>6, <1>7, <1>8 DEF Inv, Conversation

(* The server ends, and so has the client. *)
LEMMA ServerLeaves ==
    ASSUME Inv, wire.to = "server", server.phase = "transfer", client.phase = "done",
           NEW o, Changes(server, o, {"lastReceived"}), OperationOK(o, setup.server.file),
           NEW status,
           status = "Successful" => Reading /\ server.last /\ Supplied(server),
           ServerEnds(o, status)
    PROVE  Inv'
<1> DEFINE p == Finish(o, status)
<1>1. server' = p /\ wire' = Nothing /\ UNCHANGED <<setup, round, client>>
    BY DEF ServerEnds
<1>2. DOMAIN server = ServerFields /\ TypeOK /\ Conversation /\ Results /\ Understood   BY DEF Inv, TypeOK
<1>3. DOMAIN o = ServerFields /\ IsOperation(o) /\ o.file \in File(Cells)
    BY <1>2 DEF Changes, IsOperation, ServerFields, OperationOK
<1>4. /\ Changes(o, p, {"phase", "status", "file"})
      /\ p.phase = "done" /\ p.status = status
      /\ OperationOK(p, setup.server.file)
    BY <1>3, FinishOf, FinishOK
<1> HIDE DEF p
<1>5. /\ DOMAIN p = ServerFields /\ p.extra = server.extra /\ p.decoded = server.decoded
      /\ p.dataSize = server.dataSize /\ p.lastTransmitted = server.lastTransmitted
    BY <1>2, <1>3, <1>4 DEF Changes, ServerFields, OperationFields
<1>6. TypeOK'   BY <1>1, <1>2, <1>4, <1>5, ServerTyped
<1>7. Conversation'
  <2>1. round > 0   BY <1>2, ServerHears
  <2>2. ClientsEnd'   BY <1>1, <1>4, <2>1 DEF ClientsEnd, Nothing
  <2> QED BY <2>2 DEF Conversation
<1>8. Results'
  <2>1. CASE status # "Successful"
    <3>1. server'.status # "Successful"   BY <1>1, <1>4, <2>1
    <3> QED BY <1>1, <1>2, <3>1, Later DEF Results, Source, Sink, Announced
  <2>2. CASE status = "Successful"
    <3>1. /\ Source' = server' /\ Sink' = client /\ Original' = Original /\ Sink = client
        BY <1>1, <2>2, Later DEF Sink
    <3>2. server'.lastTransmitted = BlockOf(Len(Original) \div server'.dataSize + 1)
        BY <1>1, <1>5, <2>2 DEF Supplied
    <3> QED BY <1>2, <3>1, <3>2 DEF Results, Announced
  <2> QED BY <2>1, <2>2
<1>9. Understood'
  <2>1. server'.phase # "idle" /\ server'.decoded = server.decoded /\ RequestType' = RequestType
      BY <1>1, <1>4, <1>5, Later
  <2> QED BY <1>1, <1>2, <2>1 DEF Understood, AsSent, InvalidPacket
<1> QED BY <1>6, <1>7, <1>8, <1>9 DEF Inv

(* errorPacket() of the server: the client has ended. *)
LEMMA ServerErrorKeeps == ASSUME Inv, ServerError PROVE Inv'
<1> DEFINE status == IF PacketType(server.packet) = "OACK" /\ ServerPacket.code = "TftpOptionRefused"
                     THEN "OptionNegotiationError" ELSE "TransferError"
<1>1. TypeOK /\ Conversation   BY DEF Inv
<1>2. /\ wire.to = "server" /\ server.phase = "transfer" /\ ServerPacket.type = "ERROR"
      /\ ServerEnds(server, status)
    BY DEF ServerError, ServerReceives
<1>3. status # "Successful"   OBVIOUS
<1> HIDE DEF status
<1>4. client.phase = "done"
  <2>1. /\ ServerPacket # InvalidPacket /\ ~Hears(client, server, ServerPacket)
        /\ ~\E block \in BlockNumbers : ServerPacket = [type |-> "ACK", block |-> block]
      BY <1>2 DEF InvalidPacket, Hears
  <2> QED BY <1>1, <1>2, <2>1, ServerHears
<1>5. Changes(server, server, {"lastReceived"}) /\ OperationOK(server, setup.server.file)
    BY <1>1 DEF TypeOK, Changes
<1> QED BY <1>2, <1>3, <1>4, <1>5, ServerLeaves

(* Of an acknowledgement *)
LEMMA ServerHearsAck ==
    ASSUME TypeOK, Conversation, wire.to = "server", server.phase = "transfer", ServerPacket.type = "ACK"
    PROVE  /\ round > 0 /\ Reading /\ ServerPacket.block \in BlockNumbers
           /\ (Transferring /\ Ready(server, client)) \/ IsOver(server, client)
<1>1. ServerPacket # InvalidPacket /\ ~Hears(client, server, ServerPacket)
    BY DEF InvalidPacket, Hears
<1>2. /\ round > 0 /\ Reading
      /\ \E block \in BlockNumbers : ServerPacket = [type |-> "ACK", block |-> block]
      /\ (Transferring /\ Ready(server, client)) \/ IsOver(server, client)
    BY <1>1, ServerHears
<1> QED BY <1>2

(* acknowledgementPacket() of the last block *)
LEMMA ServerSucceedsKeeps == ASSUME Inv, ServerSucceeds PROVE Inv'
<1> DEFINE o == Acknowledged(server, ServerPacket)
<1>1. TypeOK /\ Conversation   BY DEF Inv
<1>2. /\ wire.to = "server" /\ server.phase = "transfer" /\ ServerPacket.type = "ACK"
      /\ server.last /\ ServerEnds(o, "Successful")
    BY DEF ServerSucceeds, ServerReceives
<1>3. Reading /\ ServerPacket.block \in BlockNumbers /\ IsOver(server, client)
    BY <1>1, <1>2, ServerHearsAck DEF Ready
<1>4. client.phase = "done" /\ Supplied(server)   BY <1>3 DEF IsOver
<1>5. Changes(server, o, {"lastReceived"}) /\ OperationOK(o, setup.server.file)
    BY <1>1, <1>3, FilesOf, AcknowledgedOf
<1> HIDE DEF o
<1> QED BY <1>2, <1>3, <1>4, <1>5, ServerLeaves

(* acknowledgementPacket(): the next block is sent. *)
LEMMA ServerSuppliesKeeps == ASSUME Inv, ServerSupplies PROVE Inv'
<1> DEFINE a == Acknowledged(server, ServerPacket)  p == SendData(a)
<1>1. TypeOK /\ Conversation   BY DEF Inv
<1>2. /\ wire.to = "server" /\ server.phase = "transfer" /\ ServerPacket.type = "ACK"
      /\ ~server.last /\ ServerSends(p)
    BY DEF ServerSupplies, ServerReceives
<1>3. /\ round > 0 /\ Reading /\ ServerPacket.block \in BlockNumbers
      /\ Transferring /\ Ready(server, client)
    BY <1>1, <1>2, ServerHearsAck DEF IsOver
<1>4. /\ DOMAIN server = ServerFields /\ IsOperation(server) /\ OperationOK(server, setup.server.file)
      /\ server.file.content = Original
    BY <1>1, <1>3, FilesOf DEF Source
<1>5. Changes(server, a, {"lastReceived"}) /\ OperationOK(a, setup.server.file)
    BY <1>3, <1>4, AcknowledgedOf
<1> HIDE DEF a
<1>6. /\ DOMAIN a = ServerFields /\ IsOperation(a)
      /\ a.status = server.status /\ a.file = server.file /\ a.dataSize = server.dataSize
      /\ a.timeout = server.timeout /\ a.last = server.last
      /\ a.lastTransmitted = server.lastTransmitted
      /\ a.extra = server.extra /\ a.decoded = server.decoded
    BY <1>4, <1>5 DEF Changes, IsOperation, ServerFields, OperationFields
<1>7. Ready(a, client)   BY <1>3, <1>6 DEF Ready, Supplied
<1>8. a.file.content = Original /\ a.file.position <= Len(a.file.content)
    BY <1>4, <1>6, <1>7 DEF Ready, Supplied
<1>9. Supplied(p) /\ InFlight(p, client)   BY <1>5, <1>6, <1>7, <1>8, SuppliesNext
<1>10. /\ Changes(a, p, {"phase", "lastTransmitted", "file", "last", "packet"})
       /\ p.phase = "transfer" /\ OperationOK(p, setup.server.file)
    BY <1>5, <1>6, <1>8, SendDataOf
<1> HIDE DEF p
<1>11. /\ DOMAIN p = ServerFields
       /\ p.status = a.status /\ p.extra = a.extra /\ p.decoded = a.decoded
       /\ p.dataSize = a.dataSize /\ p.timeout = a.timeout
    BY <1>6, <1>10 DEF Changes, ServerFields, OperationFields
<1>12. /\ p.status = "none" /\ InTransfer(client) /\ client.dataSize = p.dataSize
       /\ client.timeout = p.timeout \/ round > 1
       /\ Announced(client)
    BY <1>3, <1>6, <1>11 DEF Transferring, InTransfer, Sink
<1> QED BY <1>2, <1>3, <1>6, <1>9, <1>10, <1>11, <1>12, ServerGoesOn

(* dataPacket(): the block is stored, and acknowledged. *)
LEMMA ServerStoresKeeps == ASSUME Inv, ServerStores PROVE Inv'
<1> DEFINE p == Store(server, ServerPacket)
<1>1. TypeOK /\ Conversation /\ Results /\ Understood   BY DEF Inv
<1>2. /\ wire.to = "server" /\ server.phase = "transfer" /\ ServerPacket.type = "DATA"
      /\ ServerSends(p)
    BY DEF ServerStores, ServerReceives
<1>3. /\ round > 0 /\ ~Reading /\ Transferring /\ Supplied(client) /\ Hears(client, server, ServerPacket)
  <2>1. /\ ServerPacket # InvalidPacket /\ ServerPacket.type # "ERROR"
        /\ ~\E block \in BlockNumbers : ServerPacket = [type |-> "ACK", block |-> block]
      BY <1>2 DEF InvalidPacket
  <2> QED BY <1>1, <1>2, <2>1, ServerHears
<1>4. /\ DOMAIN server = ServerFields /\ IsOperation(server) /\ OperationOK(server, setup.server.file)
      /\ IsOperation(client) /\ OperationOK(client, setup.client.file)
      /\ client.file.content = Original /\ setup.server.file.operation = "Receive"
  <2>1. setup.server.file.operation = "Receive"   BY <1>1, <1>3, SetupFacts DEF TypeOK, SinkFile
  <2> QED BY <1>1, <1>3, <2>1, FilesOf DEF Source
<1>5. /\ InTransfer(client) /\ client.dataSize = server.dataSize /\ Announced(server)
      /\ client.timeout = server.timeout \/ round > 1
      /\ server.status = "none"
    BY <1>3 DEF Transferring, InTransfer, Sink
<1>6. /\ Changes(server, p, {"phase", "status", "lastReceived", "file", "packet"})
      /\ IsAck(p) /\ OperationOK(p, setup.server.file)
      /\ \/ /\ p.phase = "done" /\ p.status = "Successful" /\ client.last
            /\ p.file.type # "null" => p.file.content = Original
         \/ p.phase = "transfer" /\ p.status = server.status /\ Ready(client, p)
    BY <1>3, <1>4, <1>5, StoresNext
<1> HIDE DEF p
<1>7. /\ DOMAIN p = ServerFields /\ p.dataSize = server.dataSize /\ p.timeout = server.timeout
      /\ p.announced = server.announced /\ p.extra = server.extra /\ p.decoded = server.decoded
    BY <1>4, <1>6 DEF Changes, ServerFields, OperationFields
<1>8. Announced(p)   BY <1>5, <1>7 DEF Announced
<1>9. CASE p.phase = "transfer" /\ p.status = server.status /\ Ready(client, p)
  <2>1. /\ p.status = "none" /\ client.dataSize = p.dataSize
        /\ client.timeout = p.timeout \/ round > 1
      BY <1>5, <1>7, <1>9
  <2> QED BY <1>2, <1>3, <1>5, <1>6, <1>7, <1>8, <1>9, <2>1, ServerGoesOn
<1>10. CASE /\ p.phase = "done" /\ p.status = "Successful" /\ client.last
            /\ p.file.type # "null" => p.file.content = Original
  <2>1. server' = p /\ wire' = [to |-> "client", cells |-> p.packet] /\ UNCHANGED <<setup, round, client>>
      BY <1>2 DEF ServerSends
  <2>2. TypeOK'   BY <1>1, <1>6, <1>7, <1>10, <2>1, ServerTyped
  <2>3. /\ (Reading' <=> Reading) /\ Original' = Original /\ Sink' = p /\ Source' = client
        /\ (Announced(server))' <=> Announced(p)
        /\ (Supplied(client))' <=> Supplied(client)
      BY <1>3, <2>1, Later
  <2>4. ClientsTurn'
    <3>1. OnWire("client", server)' /\ IsAck(server)'
        BY <1>6, <2>1 DEF OnWire, IsAck
    <3>2. (Supplied(client))'   BY <1>3, <2>3
    <3>3. (IsOver(client, server))'
      <4>1. server'.phase = "done" /\ server'.status = "Successful" /\ client'.last   BY <1>10, <2>1
      <4>2. client'.phase = "transfer" /\ client'.status = "none"   BY <1>5, <2>1 DEF InTransfer
      <4> QED BY <3>1, <3>2, <4>1, <4>2 DEF IsOver
    <3>4. client'.phase = "transfer" /\ client'.status = "none" /\ round' > 0
        BY <1>3, <1>5, <2>1 DEF InTransfer
    <3> QED BY <1>3, <2>3, <3>1, <3>3, <3>4 DEF ClientsTurn
  <2>5. Results'
    <3>1. (Announced(Sink))'   BY <1>8, <2>3 DEF Announced
    <3>2. client.status # "Successful"   BY <1>5 DEF InTransfer
    <3> QED BY <1>10, <2>3, <3>1, <3>2 DEF Results
  <2>6. Understood'
    <3>1. server'.phase # "idle" /\ server'.decoded = server.decoded /\ RequestType' = RequestType
        BY <1>7, <1>10, <2>1, Later
    <3> QED BY <1>1, <2>1, <3>1 DEF Understood, AsSent, InvalidPacket
  <2> QED BY <2>2, <2>4, <2>5, <2>6 DEF Inv, Conversation
<1> QED BY <1>6, <1>9, <1>10

(* invalidPacket() of the server *)
LEMMA ServerInvalidKeeps == ASSUME Inv, ServerInvalid PROVE Inv'
<1> DEFINE p == Refused(server, "IllegalTftpOperation", "TransferError")
<1>1. TypeOK /\ Conversation /\ Results /\ Understood   BY DEF Inv
<1>2. wire.to = "server" /\ server.phase = "transfer" /\ ServerSends(p)
    BY DEF ServerInvalid, ServerReceives
<1>3. /\ DOMAIN server = ServerFields /\ IsOperation(server) /\ OperationOK(server, setup.server.file)
    BY <1>1, FilesOf
<1>4. /\ Changes(server, p, {"phase", "status", "file", "packet"})
      /\ p.phase = "done" /\ p.status = "TransferError" /\ p.file.content = server.file.content
      /\ p.packet = EncodeError("IllegalTftpOperation") /\ "IllegalTftpOperation" \in ErrorCodes
      /\ OperationOK(p, setup.server.file)
  <2>1. "IllegalTftpOperation" \in ErrorCodes   BY DEF ErrorCodes
  <2> QED BY <1>3, <2>1, RefusedOf
<1> HIDE DEF p
<1>5. DOMAIN p = ServerFields /\ p.extra = server.extra /\ p.decoded = server.decoded
    BY <1>3, <1>4 DEF Changes, ServerFields, OperationFields
<1>6. server' = p /\ wire' = [to |-> "client", cells |-> p.packet] /\ UNCHANGED <<setup, round, client>>
    BY <1>2 DEF ServerSends
<1>7. TypeOK'   BY <1>1, <1>4, <1>5, <1>6, ServerTyped
<1>8. round > 0 /\ client.phase \in {"transfer", "done"}   BY <1>1, <1>2, ServerHears
<1>9. client.phase = "transfer" => client.status = "none"
    BY <1>1, <1>2 DEF Conversation, Idle, Asking, Answered, ClientsTurn, ClientsEnd, ServersTurn,
                      ServersEnd, Transferring, HasRefused, IsOver, OnWire, Nothing
<1>10. Conversation'
  <2>1. CASE client.phase = "done"
    <3>1. ClientsEnd'   BY <1>4, <1>6, <1>8, <2>1 DEF ClientsEnd
    <3> QED BY <3>1 DEF Conversation
  <2>2. CASE client.phase = "transfer"
    <3>1. HasRefused(server)'
      <4>1. server'.phase = "done" /\ server'.status # "Successful"   BY <1>4, <1>6
      <4>2. \E code \in ErrorCodes : server'.packet = EncodeError(code)   BY <1>4, <1>6
      <4> QED BY <4>1, <4>2 DEF HasRefused
    <3>2. OnWire("client", server)'   BY <1>6 DEF OnWire
    <3>3. ClientsTurn'   BY <1>6, <1>8, <1>9, <2>2, <3>1, <3>2 DEF ClientsTurn
    <3> QED BY <3>3 DEF Conversation
  <2> QED BY <1>8, <2>1, <2>2
<1>11. Results'
  <2>1. server'.status # "Successful"   BY <1>4, <1>6
  <2> QED BY <1>1, <1>6, <2>1, Later DEF Results, Source, Sink, Announced
<1>12. Understood'
  <2>1. server'.phase # "idle" /\ server'.decoded = server.decoded /\ RequestType' = RequestType
      BY <1>4, <1>5, <1>6, Later
  <2> QED BY <1>1, <1>6, <2>1 DEF Understood, AsSent, InvalidPacket
<1> QED BY <1>7, <1>10, <1>11, <1>12 DEF Inv

-----------------------------------------------------------------------------
(* The initial states, and all steps *)

(* The operations of a setup, before the first request *)
LEMMA InitHolds == ASSUME Init PROVE Inv /\ Consults
<1>1. setup \in Setups /\ round = 0 /\ client = NewClient(setup) /\ server = NewServer(setup.server) /\ wire = Nothing
    BY DEF Init
<1>2. /\ setup.client.configurations \in Seq(Configuration)
      /\ setup.server.configurations \in Seq(Configuration)
      /\ setup.server.extra \in {"none", "remaining", "unasked"}
      /\ setup.client.file \in File(Cells) /\ setup.server.file \in File(Cells)
    BY <1>1, SetupFacts
<1>3. /\ DOMAIN client = ClientFields /\ IsUnused(client) /\ OperationOK(client, setup.client.file)
      /\ client.oackReceived = FALSE /\ client.asked = FALSE /\ client.requested = NoOptions
    BY <1>1, <1>2, NewClientOf
<1>4. /\ DOMAIN server = ServerFields /\ IsUnused(server) /\ OperationOK(server, setup.server.file)
      /\ server.extra = setup.server.extra /\ server.decoded = InvalidPacket
    BY <1>1, <1>2, NewServerOf
<1>5. IsOptions(NoOptions)   BY DEF IsOptions, NoOptions
<1>6. client.phase = "idle" /\ server.phase = "idle" /\ client.status = "none" /\ server.status = "none"
    BY <1>3, <1>4 DEF IsUnused
<1>7. TypeOK   BY <1>1, <1>2, <1>3, <1>4, <1>5, <1>6 DEF TypeOK
<1>8. Conversation   BY <1>1, <1>3, <1>4, <1>6 DEF Conversation, Idle
<1>9. Results   BY <1>6 DEF Results, Sink, Source
<1>10. Understood   BY <1>4 DEF Understood
<1>11. Consults   BY <1>3, <1>6 DEF Consults
<1> QED BY <1>7, <1>8, <1>9, <1>10, <1>11 DEF Inv

(* Every step keeps what holds. *)
LEMMA NextKeeps == ASSUME Inv, [Next]_vars PROVE Inv'
<1>1. CASE UNCHANGED vars
  <2>1. UNCHANGED <<setup, round, client, server, wire>>   BY <1>1 DEF vars
  <2>2. TypeOK'
    <3>1. (OperationOK(client, setup.client.file))' <=> OperationOK(client, setup.client.file)
        BY <2>1 DEF OperationOK, SameFile, Holds
    <3>2. (OperationOK(server, setup.server.file))' <=> OperationOK(server, setup.server.file)
        BY <2>1 DEF OperationOK, SameFile, Holds
    <3> QED BY <2>1, <3>1, <3>2 DEF Inv, TypeOK, Nothing
  <2>3. Conversation'
    <3>1. (Idle' <=> Idle) /\ (ClientsEnd' <=> ClientsEnd)
        BY <2>1 DEF Idle, IsUnused, ClientsEnd, Nothing
    <3>2. /\ IsRequest' <=> IsRequest
          /\ (IsUnused(server))' <=> IsUnused(server)
        BY <2>1 DEF IsRequest, IsUnused, Reading, ClientRequest, RequestType
    <3>3. Asking' <=> Asking   BY <2>1, <3>2 DEF Asking, OnWire, Nothing
    <3>4. /\ (Reading' <=> Reading) /\ Original' = Original
          /\ Sink' = Sink /\ Source' = Source
        BY <2>1, Later DEF Sink, Source
    <3>5. /\ (HasRefused(server))' <=> HasRefused(server)
          /\ (HasRefused(client))' <=> HasRefused(client)
        BY <2>1 DEF HasRefused
    <3>6. /\ (InFlight(server, client))' <=> InFlight(server, client)
          /\ (InFlight(client, server))' <=> InFlight(client, server)
        BY <2>1, <3>4 DEF InFlight
    <3>13. /\ (Supplied(server))' <=> Supplied(server)
           /\ (Supplied(client))' <=> Supplied(client)
        BY <2>1, <3>4 DEF Supplied
    <3>14. /\ (Ready(server, client))' <=> Ready(server, client)
           /\ (Ready(client, server))' <=> Ready(client, server)
        BY <2>1, <3>4, <3>13 DEF Ready
    <3>7. /\ HasStarted' <=> HasStarted
          /\ \A options : HasAnswered(options)' <=> HasAnswered(options)
      <4>1. HasStarted' <=> HasStarted   BY <2>1, <3>4, <3>6, <3>13 DEF HasStarted
      <4>2. \A options : HasAnswered(options)' <=> HasAnswered(options)
          BY <2>1, <3>4 DEF HasAnswered
      <4> QED BY <4>1, <4>2
    <3>8. /\ (OnWire("client", server))' <=> OnWire("client", server)
          /\ (OnWire("server", client))' <=> OnWire("server", client)
          /\ (IsAck(client))' <=> IsAck(client)
          /\ (IsAck(server))' <=> IsAck(server)
        BY <2>1 DEF OnWire, IsAck
    <3>9. Transferring' <=> Transferring
      <4>1. (Announced(Sink))' <=> Announced(Sink)   BY <3>4 DEF Announced
      <4> QED BY <2>1, <4>1 DEF Transferring
    <3>10. /\ (IsOver(server, client))' <=> IsOver(server, client)
           /\ (IsOver(client, server))' <=> IsOver(client, server)
        BY <2>1, <3>8, <3>13 DEF IsOver
    <3>11. Answered' <=> Answered
        BY <2>1, <3>2, <3>5, <3>7, <3>8 DEF Answered
    <3>12. /\ ServersTurn' <=> ServersTurn
           /\ ClientsTurn' <=> ClientsTurn
           /\ ServersEnd' <=> ServersEnd
        BY <2>1, <3>4, <3>5, <3>6, <3>8, <3>9, <3>10, <3>13, <3>14 DEF ServersTurn, ClientsTurn, ServersEnd
    <3> QED BY <3>1, <3>3, <3>11, <3>12 DEF Inv, Conversation
  <2>4. Results'   BY <2>1 DEF Inv, Results, Source, Sink, Reading, Announced, Original
  <2>5. Understood'   BY <2>1 DEF Inv, Understood, AsSent, RequestType, Reading, InvalidPacket
  <2> QED BY <2>2, <2>3, <2>4, <2>5 DEF Inv
<1>2. CASE Next
  <2>1. CASE Request          BY <2>1, RequestKeeps
  <2>2. CASE RefuseOack       BY <2>2, RefuseOackKeeps
  <2>3. CASE AcceptOack       BY <2>3, AcceptOackKeeps
  <2>4. CASE RefusePlain      BY <2>4, RefusePlainKeeps
  <2>5. CASE ClientStores     BY <2>5, ClientStoresKeeps
  <2>6. CASE ClientSupplies   BY <2>6, ClientSuppliesKeeps
  <2>7. CASE ClientSucceeds   BY <2>7, ClientSucceedsKeeps
  <2>8. CASE ClientError      BY <2>8, ClientErrorKeeps
  <2>9. CASE ClientInvalid    BY <2>9, ClientInvalidKeeps
  <2>10. CASE ClientTimesOut  BY <2>10, ClientTimesOutKeeps
  <2>11. CASE IgnoredRequest  BY <2>11, IgnoredRequestKeeps
  <2>12. CASE StartRead       BY <2>12, StartReadKeeps
  <2>13. CASE StartWrite      BY <2>13, StartWriteKeeps
  <2>14. CASE ServerStores    BY <2>14, ServerStoresKeeps
  <2>15. CASE ServerSupplies  BY <2>15, ServerSuppliesKeeps
  <2>16. CASE ServerSucceeds  BY <2>16, ServerSucceedsKeeps
  <2>17. CASE ServerError     BY <2>17, ServerErrorKeeps
  <2>18. CASE ServerInvalid   BY <2>18, ServerInvalidKeeps
  <2> QED BY <1>2, <2>1, <2>2, <2>3, <2>4, <2>5, <2>6, <2>7, <2>8, <2>9, <2>10, <2>11, <2>12,
             <2>13, <2>14, <2>15, <2>16, <2>17, <2>18 DEF Next
<1> QED BY <1>1, <1>2

(* Configuration, request, negotiation, blocks and files fit one another in every state. *)
THEOREM Invariant == Spec => []Inv
<1>1. Init => Inv   BY InitHolds
<1>2. Inv /\ [Next]_vars => Inv'   BY NextKeeps
<1> QED BY <1>1, <1>2, PTL DEF Spec

-----------------------------------------------------------------------------
(* What follows from it *)

(* optionsAcknowledgementPacket(), start(): the sizes and timeouts of both sides agree while *)
(* data is transferred, for every range, configuration and additional option.                *)
THEOREM SidesAgree == Spec => []BothSidesAgree
<1>1. Inv => BothSidesAgree
  <2>1. SUFFICES ASSUME Inv, client.phase = "transfer", server.phase = "transfer"
                 PROVE  client.dataSize = server.dataSize /\ (client.timeout = server.timeout \/ round > 1)
      BY DEF BothSidesAgree
  <2>2. ServersTurn \/ ClientsTurn \/ ServersEnd
      BY <2>1 DEF Inv, Conversation, Idle, Asking, Answered, IsRequest, ClientsEnd
  <2>3. Transferring
      BY <2>1, <2>2 DEF ServersTurn, ClientsTurn, ServersEnd, HasRefused, IsOver
  <2> QED BY <2>3 DEF Transferring
<1> QED BY <1>1, Invariant, PTL

(* receivedData(), sendData(): a success of the receiver means that it has the file, for every *)
(* file and every size of a block.                                                             *)
THEOREM FilesAreDelivered == Spec => []Delivered
<1>1. Inv => Delivered
  <2>1. Inv => Source.file.content = Original   BY FilesOf DEF Inv
  <2> QED BY <2>1 DEF Inv, Results, Delivered
<1> QED BY <1>1, Invariant, PTL

(* sendData(): the number of the last block is that of the first one that is not full, counted *)
(* around the largest number, for files of every length.                                       *)
THEOREM LastBlockIsShort == Spec => []EndsWithShortBlock
<1>1. Inv => EndsWithShortBlock
  <2>1. Inv => Source.file.content = Original   BY FilesOf DEF Inv
  <2> QED BY <2>1 DEF Inv, Results, EndsWithShortBlock
<1> QED BY <1>1, Invariant, PTL

(* finished(): when the wire is silent and the client has ended, so has the server. *)
THEOREM NobodyWaits == Spec => []NobodyIsLeftWaiting
<1>1. Inv => NobodyIsLeftWaiting
  <2>1. SUFFICES ASSUME Inv, round > 0, wire = Nothing, client.phase = "done"
                 PROVE  server.phase # "transfer"
      BY DEF NobodyIsLeftWaiting, Settled
  <2>2. ClientsEnd
      BY <2>1 DEF Inv, Conversation, Idle, Asking, Answered, ServersTurn, ClientsTurn, ServersEnd,
                  IsRequest, OnWire, Nothing
  <2> QED BY <2>2 DEF ClientsEnd
<1> QED BY <1>1, Invariant, PTL

(* ReadWriteRequestPacket::decodeBody(): whatever is cut of a request, what is understood of it *)
(* is what has been asked, for every name and every set of options.                             *)
THEOREM RequestsAreUnderstood == Spec => []RequestUnderstood
<1>1. Inv => RequestUnderstood
  <2>1. SUFFICES ASSUME Inv, server.decoded.type # "INVALID"
                 PROVE  /\ server.decoded.name = setup.client.name /\ server.decoded.mode = setup.client.mode
                        /\ DOMAIN server.decoded.options \subseteq DOMAIN client.requested
                        /\ \A name \in DOMAIN server.decoded.options :
                               server.decoded.options[name] = client.requested[name]
      BY DEF RequestUnderstood
  <2>2. AsSent(server.decoded, RequestType, setup.client.name, setup.client.mode, client.requested)
      BY <2>1 DEF Inv, Understood, InvalidPacket
  <2>3. server.decoded.name = setup.client.name /\ server.decoded.mode = setup.client.mode
      BY <2>2 DEF AsSent
  <2> QED BY <2>2, <2>3 DEF AsSent
<1> QED BY <1>1, Invariant, PTL

(* receivedTransferSize(): the size that has been announced is the one that is received. *)
THEOREM AnnouncedSizeIsReceived == Spec => []AnnouncedIsReceived
<1>1. Inv => AnnouncedIsReceived
    BY DEF Inv, Results, Announced, AnnouncedIsReceived
<1> QED BY <1>1, Invariant, PTL

-----------------------------------------------------------------------------
(* The handler of the negotiation *)

(* Nothing that matters to the handler changes. *)
LEMMA ConsultsStands ==
    ASSUME Consults, UNCHANGED <<setup, round>>, client.phase # "idle",
           client'.oackReceived = client.oackReceived, client.asked => client'.asked,
           Reading => client'.lastReceived = client.lastReceived,
           ~Reading => client'.lastTransmitted = client.lastTransmitted
    PROVE  Consults'
<1>1. (Reading' <=> Reading) /\ (HasHandler' <=> HasHandler)   BY DEF Reading, HasHandler
<1> QED BY <1>1 DEF Consults

(* The client gives up. *)
LEMMA RefusedConsults ==
    ASSUME Inv, Consults, client.phase # "idle", NEW o, NEW fields,
           fields \subseteq {"dataSize", "timeout", "announced", "asked"}, Changes(client, o, fields),
           OperationOK(o, setup.client.file), client.asked => o.asked,
           NEW code \in ErrorCodes, NEW status, ClientSends(Refused(o, code, status), "server")
    PROVE  Consults'
<1> DEFINE p == Refused(o, code, status)
<1>1. client' = p /\ UNCHANGED <<setup, round>>   BY DEF ClientSends
<1>2. DOMAIN client = ClientFields   BY DEF Inv, TypeOK
<1>3. DOMAIN o = ClientFields /\ IsOperation(o)   BY <1>2 DEF Changes, IsOperation, ClientFields
<1>4. Changes(o, p, {"phase", "status", "file", "packet"})   BY <1>3, RefusedOf
<1> HIDE DEF p
<1>5. /\ o.oackReceived = client.oackReceived /\ o.lastReceived = client.lastReceived
      /\ o.lastTransmitted = client.lastTransmitted
    BY <1>2 DEF Changes, ClientFields, OperationFields
<1>6. /\ p.oackReceived = o.oackReceived /\ p.lastReceived = o.lastReceived
      /\ p.lastTransmitted = o.lastTransmitted /\ p.asked = o.asked
    BY <1>3, <1>4 DEF Changes, ClientFields, OperationFields
<1> QED BY <1>1, <1>5, <1>6, ConsultsStands

(* The client ends without a packet. *)
LEMMA EndedConsults ==
    ASSUME Inv, Consults, client.phase # "idle",
           NEW o, Changes(client, o, {"lastReceived"}), OperationOK(o, setup.client.file),
           Reading => o.lastReceived = client.lastReceived,
           NEW status, ClientEnds(o, status)
    PROVE  Consults'
<1> DEFINE p == Finish(o, status)
<1>1. client' = p /\ UNCHANGED <<setup, round>>   BY DEF ClientEnds
<1>2. DOMAIN client = ClientFields   BY DEF Inv, TypeOK
<1>3. DOMAIN o = ClientFields /\ IsOperation(o) /\ o.file \in File(Cells)
    BY <1>2 DEF Changes, IsOperation, ClientFields, OperationOK
<1>4. Changes(o, p, {"phase", "status", "file"})   BY <1>3, FinishOf
<1> HIDE DEF p
<1>5. /\ o.oackReceived = client.oackReceived /\ o.lastTransmitted = client.lastTransmitted
      /\ o.asked = client.asked
    BY <1>2 DEF Changes, ClientFields, OperationFields
<1>6. /\ p.oackReceived = o.oackReceived /\ p.lastReceived = o.lastReceived
      /\ p.lastTransmitted = o.lastTransmitted /\ p.asked = o.asked
    BY <1>3, <1>4 DEF Changes, ClientFields, OperationFields
<1> QED BY <1>1, <1>5, <1>6, ConsultsStands

(* request(): the handler has not been asked. *)
LEMMA RequestConsults == ASSUME Inv, Consults, Request PROVE Consults'
<1> DEFINE f == Fresh(client)
           size    == IF Reading THEN 0 ELSE RequestedTransferSize(client.file)
           options == RequestOptions(client.config, setup.client.additional, size)
           packet  == EncodeRequest(IF Reading THEN "RRQ" ELSE "WRQ",
                                    setup.client.name, setup.client.mode, options)
           told    == IF client.config.transferSize THEN size ELSE f.transferSize
           p       == [f EXCEPT !.packet = packet, !.requested = options, !.transferSize = told]
<1>1. client' = p /\ round' = round + 1 /\ UNCHANGED setup   BY DEF Request
<1>2. /\ Changes(client, f, {"phase", "status", "file", "dataSize", "lastTransmitted", "last",
                             "lastReceived", "asked", "announced"})
      /\ f.lastTransmitted = 0 /\ f.lastReceived = (IF Reading THEN 0 ELSE MaxBlock)
    BY FreshOf DEF Inv
<1>3. round \in Nat /\ DOMAIN client = ClientFields /\ DOMAIN f = ClientFields
    BY <1>2 DEF Inv, TypeOK, Changes
<1>4. f.oackReceived = client.oackReceived
    BY <1>2, <1>3 DEF Changes, ClientFields, OperationFields
<1> HIDE DEF f, size, options, packet, told
<1>5. /\ p.oackReceived = f.oackReceived /\ p.lastReceived = f.lastReceived
      /\ p.lastTransmitted = f.lastTransmitted
    BY <1>3 DEF ClientFields, OperationFields
<1> HIDE DEF p
<1>6. (Reading' <=> Reading) /\ (HasHandler' <=> HasHandler)   BY <1>1 DEF Reading, HasHandler
<1>7. round' # 0 /\ (round' <= 1 => round = 0)   BY <1>1, <1>3
<1>8. round' <= 1 => ~client'.oackReceived   BY <1>1, <1>4, <1>5, <1>7 DEF Consults
<1> QED BY <1>1, <1>2, <1>5, <1>6, <1>7, <1>8 DEF Consults

(* optionsAcknowledgementPacket(): the handler is asked of every OACK that is accepted. *)
LEMMA AcceptOackConsults == ASSUME Inv, Consults, AcceptOack PROVE Consults'
<1> DEFINE a == Adopted
<1>1. TypeOK /\ Conversation   BY DEF Inv
<1>2. /\ wire.to = "client" /\ client.phase \in {"requested", "transfer"}
      /\ ~RefusedOack
      /\ IF Reading THEN ClientSends([Acknowledge(a, 0) EXCEPT !.oackReceived = TRUE], "server")
         ELSE ClientSends(SendData(a), "server")
    BY DEF AcceptOack, ClientReceives
<1>3. round > 0   BY <1>1, <1>2, ClientHears
<1>4. /\ Changes(client, a, {"dataSize", "timeout", "announced", "asked"})
      /\ OperationOK(a, setup.client.file)
      /\ HasHandler => a.asked
    BY <1>1, <1>2, AdoptedOf
<1> HIDE DEF a
<1>5. DOMAIN a = ClientFields /\ IsOperation(a)
    BY <1>1, <1>4 DEF TypeOK, Changes, IsOperation, ClientFields
<1>6. client'.asked = a.asked /\ UNCHANGED <<setup, round>>
  <2>1. CASE Reading
    <3> DEFINE q == Acknowledge(a, 0)  p == [q EXCEPT !.oackReceived = TRUE]
    <3>1. client' = p /\ UNCHANGED <<setup, round>>   BY <1>2, <2>1 DEF ClientSends
    <3>2. 0 \in BlockNumbers   BY MaxBlockAssumption DEF BlockNumbers
    <3>3. Changes(a, q, {"phase", "lastReceived", "packet"})   BY <1>4, <1>5, <3>2, AcknowledgeOf
    <3> HIDE DEF q
    <3>4. q.asked = a.asked /\ DOMAIN q = ClientFields
        BY <1>5, <3>3 DEF Changes, ClientFields, OperationFields
    <3>5. p.asked = q.asked   BY <3>4 DEF ClientFields
    <3> QED BY <3>1, <3>4, <3>5
  <2>2. CASE ~Reading
    <3> DEFINE p == SendData(a)
    <3>1. client' = p /\ UNCHANGED <<setup, round>>   BY <1>2, <2>2 DEF ClientSends
    <3>2. p.asked = a.asked   BY <1>5 DEF SendData, ClientFields, OperationFields
    <3> QED BY <3>1, <3>2
  <2> QED BY <2>1, <2>2
<1>7. HasHandler' <=> HasHandler   BY <1>6 DEF HasHandler
<1> QED BY <1>3, <1>4, <1>6, <1>7 DEF Consults

(* What Asked is *)
LEMMA AskedFields ==
    ASSUME TypeOK
    PROVE  /\ Asked.asked = (client.asked \/ (Asks /\ HasHandler))
           /\ DOMAIN Asked = ClientFields
           /\ Asked.oackReceived = client.oackReceived
           /\ Asked.lastReceived = client.lastReceived
           /\ Asked.lastTransmitted = client.lastTransmitted
<1> DEFINE asks == client.asked \/ (Asks /\ HasHandler)
<1>1. Asked = [client EXCEPT !.asked = asks]   BY DEF Asked
<1>2. DOMAIN client = ClientFields   BY DEF TypeOK
<1> HIDE DEF asks
<1>3. /\ Asked.asked = asks /\ DOMAIN Asked = ClientFields
      /\ Asked.oackReceived = client.oackReceived
      /\ Asked.lastReceived = client.lastReceived
      /\ Asked.lastTransmitted = client.lastTransmitted
    BY <1>1, <1>2 DEF ClientFields, OperationFields
<1> QED BY <1>3 DEF asks

(* The handler has been asked before the first block, or is asked now. *)
LEMMA ClientStoresConsults == ASSUME Inv, Consults, ClientStores PROVE Consults'
<1> DEFINE k == Asked  p == Store(k, ClientPacket)
<1>1. TypeOK /\ Conversation   BY DEF Inv
<1>2. /\ wire.to = "client" /\ client.phase \in {"requested", "transfer"}
      /\ ClientPacket.type = "DATA" /\ ClientSends(p, "server")
      /\ ClientPacket.block = NextBlock(client.lastReceived)
    BY DEF ClientStores, ClientReceives, ClientPacket
<1>3. round > 0 /\ DataHeard
  <2>1. ClientPacket # InvalidPacket /\ ~OackHeard /\ ~AckHeard
      BY <1>2 DEF InvalidPacket, OackHeard, AckHeard
  <2> QED BY <1>1, <1>2, <2>1, ClientHears
<1>4. Reading   BY <1>3 DEF DataHeard
<1>5. /\ k.asked = (client.asked \/ (Asks /\ HasHandler)) /\ DOMAIN k = ClientFields
      /\ k.oackReceived = client.oackReceived
    BY <1>1, AskedFields
<1> HIDE DEF k
<1>6. p.asked = k.asked /\ p.oackReceived = k.oackReceived
  <2> DEFINE a == Acknowledge(k, ClientPacket.block)
             s == [a EXCEPT !.file = Received(@, ClientPacket.data)]
             r == [k EXCEPT !.packet = EncodeError("IllegalTftpOperation")]
  <2>1. \/ p = Finish(r, "TransferError")
        \/ p = Finish(s, "Successful")
        \/ p = s
      BY DEF Store, Refused
  <2>2. DOMAIN a = ClientFields /\ a.asked = k.asked /\ a.oackReceived = k.oackReceived
      BY <1>5 DEF Acknowledge, ClientFields, OperationFields
  <2>3. DOMAIN r = ClientFields /\ r.asked = k.asked /\ r.oackReceived = k.oackReceived
      BY <1>5 DEF ClientFields, OperationFields
  <2> HIDE DEF a, r, p
  <2>4. DOMAIN s = ClientFields /\ s.asked = k.asked /\ s.oackReceived = k.oackReceived
      BY <2>2 DEF ClientFields, OperationFields
  <2> HIDE DEF s
  <2>5. \A status : /\ Finish(r, status).asked = k.asked /\ Finish(r, status).oackReceived = k.oackReceived
                    /\ Finish(s, status).asked = k.asked /\ Finish(s, status).oackReceived = k.oackReceived
      BY <2>3, <2>4 DEF Finish, ClientFields, OperationFields
  <2> QED BY <2>1, <2>4, <2>5
<1> HIDE DEF p
<1>7. client' = p /\ UNCHANGED <<setup, round>>   BY <1>2 DEF ClientSends
<1>8. HasHandler /\ ~client.oackReceived => p.asked
  <2>1. CASE client.lastReceived # 0   BY <1>2, <1>4, <1>5, <1>6, <2>1 DEF Consults
  <2>2. CASE client.lastReceived = 0
    <3>1. ClientPacket.block = 1   BY <1>2, <2>2, MaxBlockAssumption DEF NextBlock
    <3> QED BY <1>4, <1>5, <1>6, <3>1 DEF Asks
  <2> QED BY <2>1, <2>2
<1>9. HasHandler /\ round <= 1 /\ client.oackReceived => p.asked
    BY <1>2, <1>5, <1>6 DEF Consults
<1>10. (Reading' <=> Reading) /\ (HasHandler' <=> HasHandler)   BY <1>7 DEF Reading, HasHandler
<1> QED BY <1>3, <1>4, <1>5, <1>6, <1>7, <1>8, <1>9, <1>10 DEF Consults

(* The handler is asked when the request is acknowledged, if it has not been before. *)
LEMMA ClientSuppliesConsults == ASSUME Inv, Consults, ClientSupplies PROVE Consults'
<1> DEFINE k == Asked  a == Acknowledged(k, ClientPacket)  p == SendData(a)
<1>1. TypeOK /\ Conversation   BY DEF Inv
<1>2. /\ wire.to = "client" /\ client.phase \in {"requested", "transfer"}
      /\ ClientPacket.type = "ACK" /\ ClientSends(p, "server")
      /\ ClientPacket.block = client.lastTransmitted
    BY DEF ClientSupplies, ClientReceives, ClientPacket
<1>3. round > 0 /\ ~Reading
  <2>1. ClientPacket # InvalidPacket /\ ~OackHeard /\ ~DataHeard
      BY <1>2 DEF InvalidPacket, OackHeard, DataHeard, Hears
  <2> QED BY <1>1, <1>2, <2>1, ClientHears DEF AckHeard
<1>4. /\ k.asked = (client.asked \/ (Asks /\ HasHandler)) /\ DOMAIN k = ClientFields
      /\ k.oackReceived = client.oackReceived
    BY <1>1, AskedFields
<1> HIDE DEF k
<1>5. DOMAIN a = ClientFields /\ a.asked = k.asked /\ a.oackReceived = k.oackReceived
    BY <1>4 DEF Acknowledged, ClientFields, OperationFields
<1> HIDE DEF a
<1>6. p.asked = a.asked /\ p.oackReceived = a.oackReceived
    BY <1>5 DEF SendData, ClientFields, OperationFields
<1> HIDE DEF p
<1>7. client' = p /\ UNCHANGED <<setup, round>>   BY <1>2 DEF ClientSends
<1>8. HasHandler => p.asked
  <2>1. CASE client.lastTransmitted # 0   BY <1>2, <1>3, <1>4, <1>5, <1>6, <2>1 DEF Consults
  <2>2. CASE client.lastTransmitted = 0   BY <1>2, <1>3, <1>4, <1>5, <1>6, <2>2 DEF Asks
  <2> QED BY <2>1, <2>2
<1>9. (Reading' <=> Reading) /\ (HasHandler' <=> HasHandler)   BY <1>7 DEF Reading, HasHandler
<1> QED BY <1>3, <1>7, <1>8, <1>9 DEF Consults

(* An OACK that is refused counts for nothing. *)
LEMMA RefusedOackConsults == ASSUME Inv, Consults, RefuseOack PROVE Consults'
<1>1. TypeOK /\ Conversation   BY DEF Inv
<1>2. /\ wire.to = "client" /\ client.phase \in {"requested", "transfer"}
      /\ ClientPacket.type = "OACK"
      /\ ClientSends(Refused(Adopted, OackError, "OptionNegotiationError"), "server")
    BY DEF RefuseOack, ClientReceives, ClientPacket
<1>3. ~client.asked
  <2>1. ClientPacket # InvalidPacket /\ ~DataHeard /\ ~AckHeard
      BY <1>2 DEF InvalidPacket, AckHeard, DataHeard, Hears
  <2>2. OackHeard   BY <1>1, <1>2, <2>1, ClientHears
  <2> QED BY <2>2 DEF OackHeard, IsRequest
<1>4. /\ Changes(client, Adopted, {"dataSize", "timeout", "announced", "asked"})
      /\ OperationOK(Adopted, setup.client.file)
    BY <1>1, AdoptedOf
<1>5. OackError \in ErrorCodes   BY DEF OackError, ErrorCodes
<1> HIDE DEF Adopted, OackError
<1> QED BY <1>2, <1>3, <1>4, <1>5, RefusedConsults

(* Neither does what the handler refuses. *)
LEMMA RefusedPlainConsults == ASSUME Inv, Consults, RefusePlain PROVE Consults'
<1>1. TypeOK   BY DEF Inv
<1>2. /\ client.phase \in {"requested", "transfer"}
      /\ ClientSends(Refused(Asked, "TftpOptionRefused", "TransferError"), "server")
    BY DEF RefusePlain, ClientReceives
<1>3. /\ Changes(client, Asked, {"asked"}) /\ OperationOK(Asked, setup.client.file)
      /\ client.asked => Asked.asked
    BY <1>1, AskedOf, AskedFields
<1>4. "TftpOptionRefused" \in ErrorCodes /\ {"asked"} \subseteq {"dataSize", "timeout", "announced", "asked"}
    BY DEF ErrorCodes
<1> HIDE DEF Asked
<1> QED BY <1>2, <1>3, <1>4, RefusedConsults

(* Neither does an invalid packet. *)
LEMMA InvalidConsults == ASSUME Inv, Consults, ClientInvalid PROVE Consults'
<1>1. TypeOK   BY DEF Inv
<1>2. /\ client.phase \in {"requested", "transfer"}
      /\ ClientSends(Refused(client, "IllegalTftpOperation", "TransferError"), "server")
    BY DEF ClientInvalid, ClientReceives
<1>3. Changes(client, client, {}) /\ OperationOK(client, setup.client.file)
    BY <1>1 DEF TypeOK, Changes
<1>4. "IllegalTftpOperation" \in ErrorCodes /\ {} \subseteq {"dataSize", "timeout", "announced", "asked"}
    BY DEF ErrorCodes
<1> QED BY <1>2, <1>3, <1>4, RefusedConsults

(* The last acknowledgement changes no block number of a write. *)
LEMMA SucceededConsults == ASSUME Inv, Consults, ClientSucceeds PROVE Consults'
<1> DEFINE o == Acknowledged(client, ClientPacket)
<1>1. TypeOK /\ Conversation   BY DEF Inv
<1>2. /\ wire.to = "client" /\ client.phase \in {"requested", "transfer"}
      /\ ClientPacket.type = "ACK" /\ ClientEnds(o, "Successful")
    BY DEF ClientSucceeds, ClientReceives, ClientPacket
<1>3. ~Reading /\ \E block \in BlockNumbers : ClientPacket = [type |-> "ACK", block |-> block]
  <2>1. ClientPacket # InvalidPacket /\ ~OackHeard /\ ~DataHeard
      BY <1>2 DEF InvalidPacket, OackHeard, DataHeard, Hears
  <2> QED BY <1>1, <1>2, <2>1, ClientHears DEF AckHeard
<1>4. ClientPacket.block \in BlockNumbers   BY <1>3
<1>5. Changes(client, o, {"lastReceived"}) /\ OperationOK(o, setup.client.file)
    BY <1>1, <1>4, FilesOf, AcknowledgedOf
<1> HIDE DEF o
<1> QED BY <1>2, <1>3, <1>5, EndedConsults

(* Neither does an error or a timeout. *)
LEMMA LeftConsults == ASSUME Inv, Consults, ClientError \/ ClientTimesOut PROVE Consults'
<1>1. client.phase # "idle" /\ \E status : ClientEnds(client, status)
    BY DEF ClientError, ClientTimesOut, ClientReceives
<1>2. Changes(client, client, {"lastReceived"}) /\ OperationOK(client, setup.client.file)
    BY DEF Inv, TypeOK, Changes
<1> QED BY <1>1, <1>2, EndedConsults

(* Every step keeps what the handler has been asked. *)
LEMMA NextConsults == ASSUME Inv, Consults, [Next]_vars PROVE Consults'
<1>1. CASE UNCHANGED <<setup, round, client>>
    BY <1>1 DEF Consults, HasHandler, Reading
<1>2. CASE /\ ~UNCHANGED <<setup, round, client>>
           /\ Next
  <2>1. ~IgnoredRequest /\ ~StartRead /\ ~StartWrite /\ ~ServerStores /\ ~ServerSupplies
        /\ ~ServerSucceeds /\ ~ServerError /\ ~ServerInvalid
      BY <1>2 DEF IgnoredRequest, StartRead, StartWrite, ServerStores, ServerSupplies,
                  ServerSucceeds, ServerError, ServerInvalid, ServerSends, ServerEnds
  <2>2. CASE Request                        BY <2>2, RequestConsults
  <2>3. CASE RefuseOack                     BY <2>3, RefusedOackConsults
  <2>4. CASE AcceptOack                     BY <2>4, AcceptOackConsults
  <2>5. CASE RefusePlain                    BY <2>5, RefusedPlainConsults
  <2>6. CASE ClientStores                   BY <2>6, ClientStoresConsults
  <2>7. CASE ClientSupplies                 BY <2>7, ClientSuppliesConsults
  <2>8. CASE ClientSucceeds                 BY <2>8, SucceededConsults
  <2>9. CASE ClientError \/ ClientTimesOut  BY <2>9, LeftConsults
  <2>10. CASE ClientInvalid                 BY <2>10, InvalidConsults
  <2> QED BY <1>2, <2>1, <2>2, <2>3, <2>4, <2>5, <2>6, <2>7, <2>8, <2>9, <2>10 DEF Next
<1> QED BY <1>1, <1>2 DEF vars

(* optionNegotiationHandler(): no data is stored or sent before the handler is asked, for every *)
(* configuration and every file.                                                                *)
THEOREM HandlersAreConsulted == Spec => []HandlerIsConsulted
<1>1. Init => Inv /\ Consults   BY InitHolds
<1>2. (Inv /\ Consults) /\ [Next]_vars => (Inv /\ Consults)'
    BY NextKeeps, NextConsults
<1>3. Inv /\ Consults => HandlerIsConsulted
  <2>1. SUFFICES ASSUME Inv, Consults, HasHandler, ~(Reading /\ round > 1 /\ client.oackReceived),
                        (IF Reading THEN client.lastReceived ELSE client.lastTransmitted) > 0,
                        client.phase # "idle"
                 PROVE  client.asked
      BY DEF HandlerIsConsulted
  <2>2. round \in Nat /\ client.lastReceived \in Nat /\ client.lastTransmitted \in Nat
    <3>1. round \in Nat /\ client.lastReceived \in BlockNumbers /\ client.lastTransmitted \in BlockNumbers
        BY <2>1 DEF Inv, TypeOK, OperationOK
    <3> QED BY <3>1, NextIsBlock
  <2>3. CASE ~Reading   BY <2>1, <2>2, <2>3 DEF Consults
  <2>4. CASE Reading /\ ~client.oackReceived   BY <2>1, <2>2, <2>4 DEF Consults
  <2>5. CASE Reading /\ client.oackReceived
    <3>1. round <= 1   BY <2>1, <2>2, <2>5
    <3> QED BY <2>1, <2>5, <3>1 DEF Consults
  <2> QED BY <2>3, <2>4, <2>5
<1> QED BY <1>1, <1>2, <1>3, PTL DEF Spec

-----------------------------------------------------------------------------
(* What an OACK that fits a packet of the default size adds *)

(* The OACK of a server fits the buffer of a client, unless that has wrapped. *)
OackFits == PacketType(server.packet) = "OACK" => Len(server.packet) <= HeaderSize + DefaultDataSize

(* Packets of a known size *)
LEMMA PacketSizes ==
    /\ \A code \in ErrorCodes : Len(EncodeError(code)) <= 4
    /\ \A block \in Nat : Len(EncodeAck(block)) = 2
    /\ \A block \in Nat : \A data \in Cells : Len(EncodeData(block, data)) = 2 + Len(data)
<1>1. \A type \in Types : Opcodes[type] \in Nat   BY OpcodesAreCells
<1>2. "DATA" \in Types /\ "ACK" \in Types /\ "ERROR" \in Types   BY DEF Types
<1>3. \A code \in ErrorCodes : CodeCells[code] \in Nat   BY DEF CodeCells, ErrorCodes
<1>4. ASSUME NEW block \in Nat, NEW data \in Cells PROVE Len(EncodeData(block, data)) = 2 + Len(data)
  <2>1. Opcodes["DATA"] \in Nat   BY <1>1, <1>2
  <2> DEFINE code == Opcodes["DATA"]
  <2> HIDE DEF code
  <2> QED BY <2>1 DEF EncodeData, Cells, code
<1> QED BY <1>1, <1>2, <1>3, <1>4 DEF EncodeError, EncodeAck

(* A packet fits the buffer of an operation, or that has wrapped, and the packet is invalid. *)
HasRoom(o, cells) ==
    /\ o.buffer <= 1 => Decode(Cut(cells, o.buffer)) = InvalidPacket
    /\ o.buffer > 1 => Len(cells) \in Nat /\ Len(cells) <= o.buffer

(* Buffers have room for packets of the default size, if they have not wrapped. *)
LEMMA RoomForDefault ==
    ASSUME NEW o, NEW given, OperationOK(o, given)
    PROVE  /\ o.buffer \in Nat /\ (o.buffer <= 1 \/ o.buffer >= HeaderSize + DefaultDataSize)
           /\ HeaderSize + DefaultDataSize \in Nat /\ HeaderSize + DefaultDataSize >= 13
BY OptionAssumption, PacketAssumption DEF OperationOK, Holds

(* Errors, acknowledgements and OACKs fit. *)
LEMMA RoomForOthers ==
    ASSUME NEW o, NEW given, OperationOK(o, given), NEW p
    PROVE  /\ HasRefused(p) => HasRoom(o, p.packet)
           /\ IsAck(p) => HasRoom(o, p.packet)
           /\ \A options : /\ IsOptions(options) /\ p.packet = EncodeOack(options)
                            /\ Len(p.packet) <= HeaderSize + DefaultDataSize
                            => HasRoom(o, p.packet)
<1> DEFINE room == HeaderSize + DefaultDataSize
<1>1. /\ o.buffer \in Nat /\ (o.buffer <= 1 \/ o.buffer >= room)
      /\ room \in Nat /\ room >= 13
    BY RoomForDefault
<1> HIDE DEF room
<1>2. ASSUME HasRefused(p) PROVE HasRoom(o, p.packet)
  <2>1. PICK code \in ErrorCodes : p.packet = EncodeError(code)   BY <1>2 DEF HasRefused
  <2>2. Len(p.packet) <= 4   BY <2>1, PacketSizes
  <2>3. o.buffer <= 1 \/ o.buffer >= 4   BY <1>1
  <2>4. EncodeError(code) \in Cells /\ (o.buffer <= 1 => Decode(Cut(p.packet, o.buffer)) = InvalidPacket)
      BY <1>1, <2>1, <2>3, ErrorIsDecoded
  <2>5. Len(p.packet) \in Nat   BY <2>1, <2>4 DEF Cells
  <2>6. o.buffer > 1 => Len(p.packet) <= o.buffer   BY <1>1, <2>2, <2>3, <2>5
  <2> QED BY <2>4, <2>5, <2>6 DEF HasRoom
<1>3. ASSUME IsAck(p) PROVE HasRoom(o, p.packet)
  <2>1. PICK block \in BlockNumbers : p.packet = EncodeAck(block)   BY <1>3 DEF IsAck
  <2>2. block \in Nat   BY NextIsBlock
  <2>3. Len(p.packet) = 2   BY <2>1, <2>2, PacketSizes
  <2>4. o.buffer <= 1 => Decode(Cut(p.packet, o.buffer)) = InvalidPacket
      BY <1>1, <2>1, <2>2, AckIsDecoded
  <2>5. o.buffer > 1 => Len(p.packet) \in Nat /\ Len(p.packet) <= o.buffer   BY <1>1, <2>3
  <2> QED BY <2>4, <2>5 DEF HasRoom
<1>4. ASSUME NEW options, IsOptions(options), p.packet = EncodeOack(options), Len(p.packet) <= room
      PROVE  HasRoom(o, p.packet)
  <2> DEFINE packet == Decode(Cut(EncodeOack(options), o.buffer))
  <2>1. o.buffer <= 1 \/ o.buffer >= 13   BY <1>1
  <2>2. /\ EncodeOack(options) \in Cells
        /\ packet = InvalidPacket \/ packet = [type |-> "OACK", options |-> packet.options]
        /\ packet.type = "OACK" => o.buffer > 1
      BY <1>1, <1>4, <2>1, OackIsDecoded
  <2> HIDE DEF packet
  <2>3. ASSUME o.buffer <= 1 PROVE packet = InvalidPacket
    <3>1. packet.type # "OACK"   BY <1>1, <2>2, <2>3
    <3> QED BY <2>2, <3>1
  <2>4. Len(p.packet) \in Nat   BY <1>4, <2>2 DEF Cells
  <2>5. o.buffer > 1 => Len(p.packet) <= o.buffer   BY <1>1, <1>4, <2>4
  <2> QED BY <1>4, <2>3, <2>4, <2>5 DEF HasRoom, packet
<1> QED BY <1>2, <1>3, <1>4 DEF room

(* A block fits the buffer of the sink. *)
LEMMA RoomForBlock ==
    ASSUME TypeOK, Supplied(Source), InFlight(Source, Sink), Source.dataSize = Sink.dataSize
    PROVE  HasRoom(Sink, Source.packet)
<1> DEFINE upTo == Source.file.position
<1>1. PICK p \in 0 .. upTo :
        /\ Source.packet = EncodeData(Source.lastTransmitted, SubSeq(Original, p + 1, upTo))
        /\ upTo - p <= Source.dataSize
    BY DEF InFlight
<1> DEFINE data == SubSeq(Original, p + 1, upTo)
<1>2. /\ Original \in Cells /\ upTo \in Nat /\ Sink.file.operation = "Receive"
      /\ \E given : OperationOK(Source, given)
      /\ \E given : OperationOK(Sink, given)
    BY FilesOf DEF Source, Sink
<1>3. /\ Source.lastTransmitted \in Nat /\ Source.dataSize \in Nat
      /\ Sink.buffer \in Nat /\ (Sink.buffer <= 1 \/ Sink.buffer >= 2 + Sink.dataSize)
    BY <1>2, NextIsBlock, PacketAssumption DEF OperationOK, Holds
<1>4. upTo <= Len(Original)   BY DEF Supplied
<1>5. data \in Cells /\ Len(data) = upTo - p
  <2>1. p \in Nat /\ p <= upTo   BY <1>2
  <2> HIDE DEF upTo
  <2> QED BY <1>2, <1>4, <2>1, PartIsData
<1> HIDE DEF data, upTo
<1>6. Len(data) \in Nat /\ Len(data) <= Sink.dataSize /\ Sink.dataSize \in Nat
    BY <1>1, <1>2, <1>3, <1>5
<1>7. Len(Source.packet) = 2 + Len(data)   BY <1>1, <1>3, <1>5, PacketSizes DEF data
<1>8. Sink.buffer <= 1 \/ Sink.buffer >= 2 + Len(data)   BY <1>3, <1>6
<1>9. Sink.buffer <= 1 => Decode(Cut(Source.packet, Sink.buffer)) = InvalidPacket
    BY <1>1, <1>3, <1>5, <1>8, DataIsDecoded DEF data
<1>10. Sink.buffer > 1 => Len(Source.packet) \in Nat /\ Len(Source.packet) <= Sink.buffer   BY <1>3, <1>6, <1>7, <1>8
<1> QED BY <1>9, <1>10 DEF HasRoom

(* What is sent to the client fits its buffer, or is invalid. *)
LEMMA ClientHasRoom ==
    ASSUME TypeOK, Conversation, OackFits, wire.to = "client", client.phase \in {"requested", "transfer"}
    PROVE  HasRoom(client, wire.cells)
<1>1. Answered \/ ClientsTurn
    BY DEF Conversation, Idle, Asking, ServersTurn, ServersEnd, ClientsEnd, OnWire, Nothing
<1>2. wire.cells = server.packet   BY <1>1 DEF Answered, ClientsTurn, OnWire
<1>3. OperationOK(client, setup.client.file)   BY FilesOf
<1>4. HasRefused(server) \/ IsAck(server) => HasRoom(client, server.packet)   BY <1>3, RoomForOthers
<1>5. ASSUME Reading, InFlight(server, client), Supplied(server), server.dataSize = client.dataSize
      PROVE  HasRoom(client, server.packet)
  <2>1. Source = server /\ Sink = client   BY <1>5 DEF Source, Sink
  <2> QED BY <1>5, <2>1, RoomForBlock
<1>6. ASSUME NEW options, HasAnswered(options) PROVE HasRoom(client, server.packet)
  <2>1. IsOptions(options) /\ server.packet = EncodeOack(options)   BY <1>6 DEF HasAnswered
  <2>2. PacketType(server.packet) = "OACK"
    <3>1. 0 \in Nat /\ 0 <= 1   OBVIOUS
    <3> QED BY <2>1, <3>1, OackIsDecoded
  <2> QED BY <1>3, <2>1, <2>2, RoomForOthers DEF OackFits
<1>7. CASE Answered
  <2>1. ASSUME HasStarted PROVE HasRoom(client, server.packet)
    <3>1. server.dataSize = client.dataSize   BY <1>7, <2>1 DEF Answered, HasStarted, IsRequest
    <3>2. CASE Reading   BY <1>5, <2>1, <3>1, <3>2 DEF HasStarted
    <3>3. CASE ~Reading
      <4>1. 0 \in BlockNumbers   BY MaxBlockAssumption DEF BlockNumbers
      <4> QED BY <1>4, <2>1, <3>3, <4>1 DEF HasStarted, IsAck
    <3> QED BY <3>2, <3>3
  <2> QED BY <1>2, <1>4, <1>6, <1>7, <2>1 DEF Answered
<1>8. CASE ClientsTurn
  <2>1. CASE HasRefused(server)   BY <1>2, <1>4, <2>1
  <2>2. CASE Transferring /\ IF Reading THEN InFlight(server, client) /\ Supplied(server)
                             ELSE Ready(client, server) /\ IsAck(server)
      BY <1>2, <1>4, <1>5, <2>2 DEF Transferring
  <2>3. CASE IsOver(client, server)   BY <1>2, <1>4, <2>3 DEF IsOver
  <2> QED BY <1>8, <2>1, <2>2, <2>3 DEF ClientsTurn
<1> QED BY <1>1, <1>7, <1>8

(* ... and to the server *)
LEMMA ServerHasRoom ==
    ASSUME TypeOK, Conversation, wire.to = "server", server.phase = "transfer"
    PROVE  HasRoom(server, wire.cells)
<1>1. ServersTurn \/ ServersEnd
    BY DEF Conversation, Idle, Asking, Answered, ClientsTurn, ClientsEnd, OnWire, Nothing
<1>2. wire.cells = client.packet   BY <1>1 DEF ServersTurn, ServersEnd, OnWire
<1>3. OperationOK(server, setup.server.file)   BY FilesOf
<1>4. HasRefused(client) \/ IsAck(client) => HasRoom(server, client.packet)   BY <1>3, RoomForOthers
<1>5. ASSUME ~Reading, InFlight(client, server), Supplied(client), Transferring
      PROVE  HasRoom(server, client.packet)
  <2>1. Source = client /\ Sink = server /\ client.dataSize = server.dataSize
      BY <1>5 DEF Source, Sink, Transferring
  <2> QED BY <1>5, <2>1, RoomForBlock
<1> QED BY <1>1, <1>2, <1>4, <1>5 DEF ServersTurn, ServersEnd, IsOver

(* What does not fit ends the operation. *)
LEMMA CutEndsOperation ==
    ASSUME Inv, OackFits, Next
    PROVE  /\ wire.to = "client" /\ Len(wire.cells) > client.buffer => client'.status = "TransferError"
           /\ wire.to = "server" /\ Len(wire.cells) > server.buffer => server'.status = "TransferError"
<1>1. TypeOK /\ Conversation   BY DEF Inv
<1>2. /\ IsOperation(client) /\ OperationOK(client, setup.client.file) /\ client.buffer \in Nat
      /\ IsOperation(server) /\ OperationOK(server, setup.server.file) /\ server.buffer \in Nat
    BY <1>1, FilesOf, RoomForDefault
<1>3. "IllegalTftpOperation" \in ErrorCodes   BY DEF ErrorCodes
<1>4. Nothing.to # "client" /\ Nothing.to # "server"   BY DEF Nothing
<1>5. ASSUME wire.to = "client", Len(wire.cells) > client.buffer PROVE client'.status = "TransferError"
  <2>1. /\ ~Request /\ ~ClientTimesOut /\ ~IgnoredRequest /\ ~StartRead /\ ~StartWrite
        /\ ~ServerStores /\ ~ServerSupplies /\ ~ServerSucceeds /\ ~ServerError /\ ~ServerInvalid
      BY <1>4, <1>5 DEF Request, ClientTimesOut, IgnoredRequest, StartRead, StartWrite, ServerStores,
                        ServerSupplies, ServerSucceeds, ServerError, ServerInvalid, ServerReceives
  <2>2. client.phase \in {"requested", "transfer"}
      BY <2>1 DEF Next, RefuseOack, AcceptOack, RefusePlain, ClientStores, ClientSupplies,
                  ClientSucceeds, ClientError, ClientInvalid, ClientReceives
  <2>3. ClientPacket = InvalidPacket
    <3>1. HasRoom(client, wire.cells)   BY <1>1, <1>5, <2>2, ClientHasRoom
    <3>2. client.buffer <= 1   BY <1>2, <1>5, <3>1 DEF HasRoom
    <3> QED BY <3>1, <3>2 DEF HasRoom, ClientPacket
  <2>4. ~ClientReceives("OACK") /\ ~ClientReceives("DATA") /\ ~ClientReceives("ACK") /\ ~ClientReceives("ERROR")
      BY <2>3 DEF ClientReceives, ClientPacket, InvalidPacket
  <2>5. ClientInvalid
      BY <2>1, <2>4 DEF Next, RefuseOack, AcceptOack, RefusePlain, ClientStores, ClientSupplies,
                        ClientSucceeds, ClientError
  <2>6. client' = Refused(client, "IllegalTftpOperation", "TransferError")
      BY <2>5 DEF ClientInvalid, ClientSends
  <2> QED BY <1>2, <1>3, <2>6, RefusedOf
<1>6. ASSUME wire.to = "server", Len(wire.cells) > server.buffer PROVE server'.status = "TransferError"
  <2>1. /\ ~Request /\ ~ClientTimesOut /\ ~IgnoredRequest /\ ~StartRead /\ ~StartWrite
        /\ ~RefuseOack /\ ~AcceptOack /\ ~RefusePlain /\ ~ClientStores /\ ~ClientSupplies
        /\ ~ClientSucceeds /\ ~ClientError /\ ~ClientInvalid
      BY <1>4, <1>6 DEF Request, ClientTimesOut, IgnoredRequest, StartRead, StartWrite, RefuseOack,
                        AcceptOack, RefusePlain, ClientStores, ClientSupplies, ClientSucceeds,
                        ClientError, ClientInvalid, ClientReceives
  <2>2. server.phase = "transfer"
      BY <2>1 DEF Next, ServerStores, ServerSupplies, ServerSucceeds, ServerError, ServerInvalid, ServerReceives
  <2>3. ServerPacket = InvalidPacket
    <3>1. HasRoom(server, wire.cells)   BY <1>1, <1>6, <2>2, ServerHasRoom
    <3>2. server.buffer <= 1   BY <1>2, <1>6, <3>1 DEF HasRoom
    <3> QED BY <3>1, <3>2 DEF HasRoom, ServerPacket
  <2>4. ~ServerReceives("DATA") /\ ~ServerReceives("ACK") /\ ~ServerReceives("ERROR")
      BY <2>3 DEF ServerReceives, InvalidPacket
  <2>5. ServerInvalid
      BY <2>1, <2>4 DEF Next, ServerStores, ServerSupplies, ServerSucceeds, ServerError
  <2>6. server' = Refused(server, "IllegalTftpOperation", "TransferError")
      BY <2>5 DEF ServerInvalid, ServerSends
  <2> QED BY <1>2, <1>3, <2>6, RefusedOf
<1> QED BY <1>5, <1>6

(* maxReceivePacketSize(): a packet that does not fit the buffer of an operation ends it, if the *)
(* OACKs of the servers fit a packet of the default size, whatever the sizes, files and options. *)
THEOREM CutPacketsAreRejected == Spec /\ []OackFits => CutPacketIsRejected
<1> DEFINE Rejected ==
        /\ wire.to = "client" /\ Len(wire.cells) > client.buffer => client'.status = "TransferError"
        /\ wire.to = "server" /\ Len(wire.cells) > server.buffer => server'.status = "TransferError"
<1>1. Inv /\ OackFits /\ [Next]_vars => [Rejected]_vars
    BY CutEndsOperation
<1>2. CutPacketIsRejected <=> [][Rejected]_vars
    BY DEF CutPacketIsRejected
<1> HIDE DEF Rejected
<1> QED BY <1>1, <1>2, Invariant, PTL DEF Spec

-----------------------------------------------------------------------------
(* Client and server come to terms *)

(* What LegalTransferSucceeds assumes of both sides *)
Legal ==
    /\ InRange(client.config) /\ InRange(server.config)
    /\ DOMAIN setup.client.additional \cap KnownOptions = {}
    /\ setup.client.handler # "refuses"
    /\ (server.extra = "none" \/ setup.client.handler = "handles")
    /\ Len(EncodeRequest("RRQ", setup.client.name, setup.client.mode, client.requested))
         <= HeaderSize + DefaultDataSize
    /\ Fits(Len(Source.file.content))

(* The client has no reason to refuse these options. *)
Acceptable(options) ==
    /\ ~RefusesBlockSize(client.config, BlockSizeOption(options))
    /\ ~RefusesTimeout(client.config, TimeoutOption(options))
    /\ ~RefusesTransferSize(client.config, TransferSizeOption(options),
                            AcceptableSize(TransferSizeOption(options).value))
    /\ ~RefusesRemaining(setup.client.handler, Remaining(options))

(* Nobody refuses or gives up: a request is answered as it should be, and who has ended has succeeded. *)
Smooth ==
    /\ client.phase = "requested" =>
          /\ wire # Nothing
          /\ client.requested = RequestOptions(client.config, setup.client.additional,
                                    IF Reading THEN 0 ELSE RequestedTransferSize(client.file))
          /\ PacketType(server.packet) = "OACK" =>
                \E options : /\ IsOptions(options) /\ DOMAIN options # {}
                             /\ server.packet = EncodeOack(options) /\ Acceptable(options)
    /\ client.phase = "done" => client.status = "Successful" /\ server.phase # "idle"
    /\ server.phase = "done" => server.status = "Successful"

(* The buffers of a legal configuration do not wrap. *)
Unwrapped(o) == InRange(o.config) => o.buffer > 1

Succeeds == Unwrapped(client) /\ Unwrapped(server) /\ (Legal => Smooth)

(* What has been configured of an operation *)
Kept(o, p) == p.config = o.config /\ p.buffer = o.buffer

(* The steps that are no requests change nothing of the configuration. *)
Configurations ==
    /\ setup' = setup /\ Kept(client, client') /\ Kept(server, server')
    /\ client'.requested = client.requested /\ server'.extra = server.extra

(* A file that is sent has its content, and others their type and limit. *)
LEMMA LegalBefore ==
    ASSUME TypeOK, TypeOK', Configurations, Legal'
    PROVE  Legal
<1>1. /\ Source.file.content = Original /\ (Source.file.content)' = Original'
      /\ Original' = Original /\ (Reading' <=> Reading)
  <2>1. Source.file.content = Original   BY FilesOf
  <2>2. Original' = Original /\ (Reading' <=> Reading)   BY Later DEF Configurations
  <2>3. Source' = IF Reading THEN server' ELSE client'   BY <2>2 DEF Source
  <2>5. IF Reading THEN setup.server.file.operation = "Transmit" ELSE setup.client.file.operation = "Transmit"
      BY SetupFacts DEF TypeOK, SourceFile
  <2>6. /\ setup.client.file.operation = "Transmit" => client'.file.content = setup.client.file.content
        /\ setup.server.file.operation = "Transmit" => server'.file.content = setup.server.file.content
      BY DEF TypeOK, OperationOK, SameFile, Configurations
  <2>7. Source'.file.content = Original   BY <2>3, <2>5, <2>6 DEF Original
  <2> QED BY <2>1, <2>2, <2>7
<1>2. Sink'.file.type = Sink.file.type /\ Sink'.file.size = Sink.file.size
  <2>1. /\ SameFile(client.file, setup.client.file) /\ SameFile(server.file, setup.server.file)
      BY DEF TypeOK, OperationOK
  <2>2. /\ SameFile(client.file, setup.client.file)' /\ SameFile(server.file, setup.server.file)'
      BY DEF TypeOK, OperationOK
  <2>3. /\ client'.file.type = client.file.type /\ client'.file.size = client.file.size
        /\ server'.file.type = server.file.type /\ server'.file.size = server.file.size
      BY <2>1, <2>2 DEF SameFile, Configurations
  <2>4. Sink' = IF Reading THEN client' ELSE server'   BY <1>1 DEF Sink
  <2> QED BY <2>3, <2>4 DEF Sink
<1>3. Fits(Len(Source.file.content))
  <2>1. (Fits(Len(Source.file.content)))'   BY DEF Legal
  <2> QED BY <1>1, <1>2, <2>1 DEF Fits
<1>4. InRange(client.config) /\ InRange(server.config)
    BY DEF Legal, InRange, Configurations, Kept
<1> QED BY <1>3, <1>4 DEF Legal, Configurations

(* What stays legal stays smooth, if the step does. *)
LEMMA SucceedsStays ==
    ASSUME Inv, Inv', Succeeds, Configurations, Legal => Smooth'
    PROVE  Succeeds'
<1>1. Unwrapped(client)' /\ Unwrapped(server)'
    BY DEF Succeeds, Unwrapped, InRange, Configurations, Kept
<1>2. Legal' => Legal   BY LegalBefore DEF Inv
<1> QED BY <1>1, <1>2 DEF Succeeds

(* Fields that only a request changes *)
Keeps(o, p) ==
    DOMAIN p = DOMAIN o /\ \A f \in DOMAIN o \cap {"config", "buffer", "requested", "extra"} : p[f] = o[f]

(* None of the member functions reconfigures an operation. *)
LEMMA MembersKeep ==
    ASSUME NEW o
    PROVE  /\ \A status : Keeps(o, Finish(o, status))
           /\ \A code, status : Keeps(o, Refused(o, code, status))
           /\ \A block : Keeps(o, Acknowledge(o, block))
           /\ \A packet : Keeps(o, Acknowledged(o, packet)) /\ Keeps(o, Store(o, packet))
           /\ Keeps(o, SendData(o))
<1>1. ASSUME NEW s, NEW status PROVE Keeps(s, Finish(s, status))
    BY DEF Keeps, Finish
<1>2. ASSUME NEW code, NEW status PROVE Keeps(o, Refused(o, code, status))
  <2> DEFINE e == [o EXCEPT !.packet = EncodeError(code)]
  <2>1. Keeps(o, e)   BY DEF Keeps
  <2>2. Keeps(e, Finish(e, status))   BY <1>1
  <2> HIDE DEF e
  <2>3. Keeps(o, Finish(e, status))   BY <2>1, <2>2 DEF Keeps
  <2> QED BY <2>3 DEF Refused, e
<1>3. ASSUME NEW block PROVE Keeps(o, Acknowledge(o, block))
    BY DEF Keeps, Acknowledge
<1>4. ASSUME NEW packet PROVE Keeps(o, Acknowledged(o, packet))
    BY DEF Keeps, Acknowledged
<1>5. ASSUME NEW packet PROVE Keeps(o, Store(o, packet))
  <2> DEFINE a == Acknowledge(o, packet.block)
             s == [a EXCEPT !.file = Received(@, packet.data)]
  <2>1. Keeps(o, a)   BY <1>3
  <2> HIDE DEF a
  <2>2. Keeps(a, s)   BY DEF Keeps
  <2>3. Keeps(s, Finish(s, "Successful"))   BY <1>1
  <2> HIDE DEF s
  <2>4. Keeps(o, s) /\ Keeps(o, Finish(s, "Successful"))   BY <2>1, <2>2, <2>3 DEF Keeps
  <2>5. Keeps(o, Refused(o, "IllegalTftpOperation", "TransferError"))   BY <1>2
  <2>6. Store(o, packet) = IF Len(packet.data) > o.dataSize
                           THEN Refused(o, "IllegalTftpOperation", "TransferError")
                           ELSE IF Len(packet.data) < o.dataSize THEN Finish(s, "Successful") ELSE s
      BY DEF Store, s, a
  <2> QED BY <2>4, <2>5, <2>6
<1>6. Keeps(o, SendData(o))
  <2> DEFINE block == NextBlock(o.lastTransmitted)
             file  == Sent(o.file, o.dataSize)
             last  == o.last \/ Len(DataToSend(o.file, o.dataSize)) < o.dataSize
             packet == EncodeData(block, DataToSend(o.file, o.dataSize))
  <2>1. SendData(o) = [o EXCEPT !.phase = "transfer", !.lastTransmitted = block, !.file = Sent(@, o.dataSize),
                                !.last = @ \/ Len(DataToSend(o.file, o.dataSize)) < o.dataSize, !.packet = packet]
      BY DEF SendData
  <2> HIDE DEF block, packet
  <2> QED BY <2>1 DEF Keeps
<1> QED BY <1>1, <1>2, <1>3, <1>4, <1>5, <1>6

(* The steps of the client *)
LEMMA ClientKeeps ==
    ASSUME TypeOK,
           \/ RefuseOack \/ AcceptOack \/ RefusePlain \/ ClientStores \/ ClientSupplies
           \/ ClientSucceeds \/ ClientError \/ ClientInvalid \/ ClientTimesOut
    PROVE  Configurations
<1>1. DOMAIN client = ClientFields   BY FilesOf
<1>2. Keeps(client, Adopted)
  <2>1. Changes(client, Adopted, {"dataSize", "timeout", "announced", "asked"})   BY AdoptedOf
  <2> QED BY <2>1 DEF Changes, Keeps
<1>3. Keeps(client, Asked)
  <2>1. Changes(client, Asked, {"asked"})   BY AskedOf
  <2> QED BY <2>1 DEF Changes, Keeps
<1>4. \A o, p, q : Keeps(o, p) /\ Keeps(p, q) => Keeps(o, q)   BY DEF Keeps
<1>5. UNCHANGED <<setup, server>>
    BY DEF RefuseOack, AcceptOack, RefusePlain, ClientStores, ClientSupplies, ClientSucceeds,
           ClientError, ClientInvalid, ClientTimesOut, ClientSends, ClientEnds
<1>6. Keeps(client, client')
  <2>1. CASE RefuseOack
    <3>1. client' = Refused(Adopted, OackError, "OptionNegotiationError")
        BY <2>1 DEF RefuseOack, ClientSends
    <3> HIDE DEF Adopted
    <3> QED BY <1>2, <1>4, <3>1, MembersKeep
  <2>2. CASE AcceptOack
    <3>1. client' = IF Reading THEN [Acknowledge(Adopted, 0) EXCEPT !.oackReceived = TRUE]
                    ELSE SendData(Adopted)
        BY <2>2 DEF AcceptOack, ClientSends
    <3> DEFINE a == Acknowledge(Adopted, 0)  b == [a EXCEPT !.oackReceived = TRUE]
    <3>2. Keeps(client, a)   BY <1>2, <1>4, MembersKeep
    <3>3. Keeps(client, SendData(Adopted))   BY <1>2, <1>4, MembersKeep
    <3> HIDE DEF a
    <3>4. Keeps(a, b)   BY DEF Keeps
    <3>5. client' = b \/ client' = SendData(Adopted)   BY <3>1 DEF a
    <3> HIDE DEF b
    <3>6. Keeps(client, b)   BY <1>4, <3>2, <3>4
    <3> QED BY <3>3, <3>5, <3>6
  <2>3. CASE RefusePlain
    <3>1. client' = Refused(Asked, "TftpOptionRefused", "TransferError")
        BY <2>3 DEF RefusePlain, ClientSends
    <3> QED BY <1>3, <1>4, <3>1, MembersKeep
  <2>4. CASE ClientStores
    <3>1. client' = Store(Asked, ClientPacket)   BY <2>4 DEF ClientStores, ClientSends
    <3> QED BY <1>3, <1>4, <3>1, MembersKeep
  <2>5. CASE ClientSupplies
    <3>1. client' = SendData(Acknowledged(Asked, ClientPacket))   BY <2>5 DEF ClientSupplies, ClientSends
    <3>2. Keeps(client, Acknowledged(Asked, ClientPacket))   BY <1>3, <1>4, MembersKeep
    <3> QED BY <1>4, <3>1, <3>2, MembersKeep
  <2>6. CASE ClientSucceeds
    <3>1. client' = Finish(Acknowledged(client, ClientPacket), "Successful")
        BY <2>6 DEF ClientSucceeds, ClientEnds
    <3>2. Keeps(client, Acknowledged(client, ClientPacket))   BY MembersKeep
    <3> QED BY <1>4, <3>1, <3>2, MembersKeep
  <2>7. CASE ClientError
    <3>1. \E status : client' = Finish(client, status)   BY <2>7 DEF ClientError, ClientEnds
    <3> QED BY <3>1, MembersKeep
  <2>8. CASE ClientInvalid
    <3>1. client' = Refused(client, "IllegalTftpOperation", "TransferError")   BY <2>8 DEF ClientInvalid, ClientSends
    <3> QED BY <3>1, MembersKeep
  <2>9. CASE ClientTimesOut
    <3>1. client' = Finish(client, "CommunicationError")   BY <2>9 DEF ClientTimesOut, ClientEnds
    <3> QED BY <3>1, MembersKeep
  <2> QED BY <2>1, <2>2, <2>3, <2>4, <2>5, <2>6, <2>7, <2>8, <2>9
<1>7. Kept(client, client') /\ client'.requested = client.requested
    BY <1>1, <1>6 DEF Keeps, Kept, ClientFields, OperationFields
<1> QED BY <1>5, <1>7 DEF Configurations, Kept

(* The steps of the dispatcher and of the server *)
LEMMA ServerKeeps ==
    ASSUME Inv,
           \/ IgnoredRequest \/ StartRead \/ StartWrite \/ ServerStores \/ ServerSupplies
           \/ ServerSucceeds \/ ServerError \/ ServerInvalid
    PROVE  Configurations
<1>0. TypeOK   BY DEF Inv
<1>1. DOMAIN server = ServerFields   BY <1>0, FilesOf
<1>2. \A o, p, q : Keeps(o, p) /\ Keeps(p, q) => Keeps(o, q)   BY DEF Keeps
<1>3. UNCHANGED <<setup, client>>
    BY DEF IgnoredRequest, StartRead, StartWrite, ServerStores, ServerSupplies, ServerSucceeds,
           ServerError, ServerInvalid, ServerSends, ServerEnds
<1>4. wire.to = "dispatcher" /\ RequestPacket.type # "INVALID" => Keeps(server, Answering)
  <2>1. SUFFICES ASSUME wire.to = "dispatcher", RequestPacket.type # "INVALID" PROVE Keeps(server, Answering)
      OBVIOUS
  <2>2. IsUnused(server)   BY <2>1, AnsweringStands DEF Asking
  <2>3. Changes(server, Answering, {"phase", "file", "decoded", "dataSize", "timeout"})
      BY <1>0, <2>2, AnsweringOf
  <2> QED BY <2>3 DEF Changes, Keeps
<1>5. Keeps(server, server')
  <2>1. CASE IgnoredRequest   BY <2>1 DEF IgnoredRequest, Keeps
  <2>2. CASE StartRead
    <3> DEFINE options == ServerOptions(server.config, ClientOptions, AdditionalOptions,
                                        RequestedTransferSize(server.file))
               oack == [Answering EXCEPT !.lastReceived = MaxBlock, !.packet = EncodeOack(options)]
    <3>1. Keeps(server, Answering)
        BY <1>4, <2>2 DEF StartRead
    <3>2. \/ server' = Refused(Answering, "TftpOptionRefused", "TransferError")
          \/ server' = SendData(Answering)
          \/ server' = oack
        BY <2>2 DEF StartRead, ServerSends
    <3> HIDE DEF options
    <3>3. \A a : Keeps(a, [a EXCEPT !.lastReceived = MaxBlock, !.packet = EncodeOack(options)])
        BY DEF Keeps
    <3> HIDE DEF Answering
    <3>4. Keeps(Answering, oack)   BY <3>3
    <3> HIDE DEF oack
    <3>5. /\ Keeps(Answering, Refused(Answering, "TftpOptionRefused", "TransferError"))
          /\ Keeps(Answering, SendData(Answering))
        BY MembersKeep
    <3>6. Keeps(Answering, server')   BY <3>2, <3>4, <3>5
    <3> QED BY <1>2, <3>1, <3>6
  <2>3. CASE StartWrite
    <3> DEFINE size    == ClientOptions.transferSize
               options == ServerOptions(server.config, ClientOptions, AdditionalOptions, size)
               announced == IF SizeIsHandled THEN size ELSE Answering.announced
               o == [Answering EXCEPT !.announced = IF SizeIsHandled THEN size ELSE @]
    <3>1. Keeps(server, Answering)
        BY <1>4, <2>3 DEF StartWrite
    <3>2. \/ server' = Refused(Answering, "DiskFullOrAllocationExceeds", "TransferError")
          \/ server' = [o EXCEPT !.packet = EncodeAck(0)]
          \/ server' = [o EXCEPT !.packet = EncodeOack(options)]
        BY <2>3 DEF StartWrite, ServerSends
    <3> HIDE DEF options, size
    <3>3. \A a : Keeps(a, [a EXCEPT !.announced = IF SizeIsHandled THEN size ELSE @])
        BY DEF Keeps
    <3>4. \A a : /\ Keeps(a, [a EXCEPT !.packet = EncodeAck(0)])
                 /\ Keeps(a, [a EXCEPT !.packet = EncodeOack(options)])
        BY DEF Keeps
    <3>5. Keeps(Answering, o)   BY <3>3
    <3> HIDE DEF o
    <3>6. Keeps(server, o)   BY <1>2, <3>1, <3>5
    <3> QED BY <1>2, <3>1, <3>2, <3>4, <3>6, MembersKeep
  <2>4. CASE ServerStores
    <3>1. server' = Store(server, ServerPacket)   BY <2>4 DEF ServerStores, ServerSends
    <3> QED BY <3>1, MembersKeep
  <2>5. CASE ServerSupplies
    <3>1. server' = SendData(Acknowledged(server, ServerPacket))   BY <2>5 DEF ServerSupplies, ServerSends
    <3>2. Keeps(server, Acknowledged(server, ServerPacket))   BY MembersKeep
    <3> QED BY <1>2, <3>1, <3>2, MembersKeep
  <2>6. CASE ServerSucceeds
    <3>1. server' = Finish(Acknowledged(server, ServerPacket), "Successful")
        BY <2>6 DEF ServerSucceeds, ServerEnds
    <3>2. Keeps(server, Acknowledged(server, ServerPacket))   BY MembersKeep
    <3> QED BY <1>2, <3>1, <3>2, MembersKeep
  <2>7. CASE ServerError
    <3>1. \E status : server' = Finish(server, status)   BY <2>7 DEF ServerError, ServerEnds
    <3> QED BY <3>1, MembersKeep
  <2>8. CASE ServerInvalid
    <3>1. server' = Refused(server, "IllegalTftpOperation", "TransferError")   BY <2>8 DEF ServerInvalid, ServerSends
    <3> QED BY <3>1, MembersKeep
  <2> QED BY <2>1, <2>2, <2>3, <2>4, <2>5, <2>6, <2>7, <2>8
<1>6. Kept(server, server') /\ server'.extra = server.extra
    BY <1>1, <1>5 DEF Keeps, Kept, ServerFields, OperationFields
<1> QED BY <1>3, <1>6 DEF Configurations, Kept

-----------------------------------------------------------------------------
(* A legal request is answered, and the answer is accepted. *)

(* RRQ and WRQ are of the same length. *)
LEMMA RequestLength ==
    ASSUME NEW name \in Seq({Letter}), NEW mode \in Modes, NEW options, IsOptions(options)
    PROVE  Len(EncodeRequest("RRQ", name, mode, options)) = Len(EncodeRequest("WRQ", name, mode, options))
<1> DEFINE body == name \o <<NUL, ModeCells[mode], NUL>> \o RawOptions(options)
<1>1. /\ body \in Cells
      /\ EncodeRequest("RRQ", name, mode, options) = <<Opcodes["RRQ"]>> \o body
      /\ EncodeRequest("WRQ", name, mode, options) = <<Opcodes["WRQ"]>> \o body
    BY RequestIsCells
<1> HIDE DEF body
<1>2. Opcodes["RRQ"] \in Nat /\ Opcodes["WRQ"] \in Nat   BY OpcodesAreCells DEF Types
<1>3. ASSUME NEW code \in Nat PROVE Len(<<code>> \o body) = 1 + Len(body)
    BY <1>1 DEF Cells
<1> QED BY <1>1, <1>2, <1>3

(* A packet has all of a request. *)
HasAll(packet, type, options) == packet.type = type /\ packet.options = options

(* A request that is not cut is decoded as it has been sent. *)
LEMMA WholeRequest ==
    ASSUME NEW type \in {"RRQ", "WRQ"}, NEW name \in Seq({Letter}), NEW mode \in Modes, NEW options, IsOptions(options),
           NEW size \in Nat, size # 0, Len(EncodeRequest(type, name, mode, options)) <= size
    PROVE  HasAll(Decode(Cut(EncodeRequest(type, name, mode, options), size)), type, options)
<1> DEFINE cells == EncodeRequest(type, name, mode, options)  decoded == Decode(Cut(cells, size))
<1>1. PICK packet : packet = Decode(Cut(EncodeRequest(type, name, mode, options), size))   OBVIOUS
<1>2. Len(cells) <= size => decoded.type = type /\ decoded.options = options   BY <1>1, RequestIsDecodedAsSent
<1> QED BY <1>2 DEF HasAll

(* The dispatcher decodes all of the request. *)
LEMMA LegalRequest ==
    ASSUME Inv, Legal, Smooth, wire.to = "dispatcher"
    PROVE  /\ RequestPacket.type = RequestType /\ RequestPacket.options = client.requested
           /\ client.phase = "requested"
           /\ client.requested = RequestOptions(client.config, setup.client.additional,
                                     IF Reading THEN 0 ELSE RequestedTransferSize(client.file))
<1>1. Asking /\ TypeOK
    BY DEF Inv, Conversation, Idle, Answered, ServersTurn, ClientsTurn, ServersEnd, ClientsEnd, OnWire, Nothing
<1>2. wire.cells = ClientRequest /\ client.phase = "requested"   BY <1>1 DEF Asking, OnWire, Nothing, IsRequest
<1> DEFINE name == setup.client.name  mode == setup.client.mode  options == client.requested
           type == RequestType  size == HeaderSize + DefaultDataSize  packet == RequestPacket
<1>3. name \in Seq({Letter}) /\ mode \in Modes   BY <1>1, SetupFacts DEF TypeOK
<1>4. IsOptions(options) /\ type \in {"RRQ", "WRQ"}   BY <1>1 DEF TypeOK, RequestType
<1>5. size \in Nat /\ size # 0   BY OptionAssumption, PacketAssumption
<1>6. packet = Decode(Cut(EncodeRequest(type, name, mode, options), size))
    BY <1>2 DEF RequestPacket, ClientRequest
<1>7. Len(EncodeRequest("RRQ", name, mode, options)) <= size   BY DEF Legal
<1> HIDE DEF name, mode, options, type, size, packet
<1>8. Len(EncodeRequest(type, name, mode, options)) <= size
    BY <1>3, <1>4, <1>7, RequestLength
<1>9. HasAll(packet, type, options)
    BY <1>3, <1>4, <1>5, <1>6, <1>8, WholeRequest
<1> QED BY <1>2, <1>9 DEF Smooth, HasAll, type, options, packet

(* Without additional options of the server nothing is left for the handler of the client. *)
LEMMA NothingRemains ==
    ASSUME NEW blockSize, NEW timeout, NEW size
    PROVE  DOMAIN Remaining(WithOptions(NoOptions, blockSize, timeout, size)) = {}
<1>1. \A options, name, value : DOMAIN WithOption(options, name, value) \subseteq DOMAIN options \cup {name}
    BY DEF WithOption
<1>2. DOMAIN NoOptions = {}   BY DEF NoOptions
<1>3. DOMAIN WithOptions(NoOptions, blockSize, timeout, size) \subseteq {"blksize", "timeout", "tsize"}
  <2> DEFINE one == WithOption(NoOptions, "blksize", blockSize)
             two == WithOption(one, "timeout", timeout)
             all == WithOption(two, "tsize", size)
  <2>1. /\ DOMAIN one \subseteq DOMAIN NoOptions \cup {"blksize"}
        /\ DOMAIN two \subseteq DOMAIN one \cup {"timeout"}
        /\ DOMAIN all \subseteq DOMAIN two \cup {"tsize"}
      BY <1>1
  <2> HIDE DEF one, two, all
  <2>2. DOMAIN all \subseteq {"blksize", "timeout", "tsize"}   BY <1>2, <2>1
  <2> QED BY <2>2 DEF WithOptions, one, two, all
<1> QED BY <1>3 DEF Remaining, KnownOptions

(* start(), optionsAcknowledgementPacket(): the server takes the transfer size, the client what it answers. *)
LEMMA LegalAnswer ==
    ASSUME Inv, Legal, Smooth, wire.to = "dispatcher",
           NEW size, size = IF Reading THEN RequestedTransferSize(server.file) ELSE ClientOptions.transferSize
    PROVE  /\ Acceptable(ServerOptions(server.config, ClientOptions, AdditionalOptions, size))
           /\ SizeIsHandled /\ Reading => ClientOptions.transferSize = 0
           /\ SizeIsHandled /\ ~Reading => ReceivedTransferSize(server.file, size)
<1> DEFINE asked   == IF Reading THEN 0 ELSE RequestedTransferSize(client.file)
           request == RequestOptions(client.config, setup.client.additional, asked)
           answer  == ServerOptions(server.config, ClientOptions, AdditionalOptions, size)
           told    == ClientOptions.transferSize
<1>1. /\ Asking /\ TypeOK
    BY DEF Inv, Conversation, Idle, Answered, ServersTurn, ClientsTurn, ServersEnd, ClientsEnd, OnWire, Nothing
<1>2. RequestPacket.type = RequestType /\ RequestPacket.options = request /\ client.requested = request
    BY LegalRequest
<1>3. /\ IsOptions(RequestPacket.options) /\ IsOptions(client.requested) /\ IsUnused(server) /\ IsRequest
    BY <1>1, <1>2 DEF TypeOK, Asking
<1>4. /\ client.config \in Configuration /\ server.config \in Configuration
      /\ client.file \in File(Cells) /\ server.file \in File(Cells)
      /\ IsOptions(setup.client.additional) /\ setup.client.handler \in Handlers
    BY <1>1, FilesOf, SetupFacts DEF OperationOK, TypeOK
<1>5. LeavesKnown(setup.client.additional) /\ LeavesKnown(AdditionalOptions)
    BY <1>1, <1>3, <1>4, AdditionalLeavesKnown DEF LeavesKnown, Legal
<1>6. IsInRange(client.config) /\ IsInRange(server.config)   BY <1>4 DEF IsInRange, Legal
<1>7. asked \in Nat \cup {None} /\ (~Reading => asked \in {None, Len(Original)})
    BY <1>1, FilesOf DEF Source
<1>8. told = IF client.config.transferSize THEN asked ELSE None
  <2> DEFINE wanted == IF client.config.transferSize THEN asked ELSE None
  <2> HIDE DEF asked
  <2>1. /\ "tsize" \in DOMAIN request <=> wanted # None
        /\ wanted # None => request["tsize"] = wanted
      BY <1>5, WithOptionsAdds DEF RequestOptions
  <2>2. wanted \in Nat \cup {None}   BY <1>7
  <2>3. told = TransferSizeOption(request).value   BY <1>2 DEF ClientOptions, TftpOptions
  <2> HIDE DEF wanted, request, told
  <2>4. TransferSizeOption(request) = [valid |-> TRUE, value |-> wanted]
      BY <2>1, <2>2 DEF TransferSizeOption, GetOption
  <2> QED BY <2>3, <2>4 DEF wanted
<1>9. size \in Nat \cup {None} /\ (Reading => size \in {None, Len(Original)})
  <2>1. CASE Reading   BY <1>1, <2>1, FilesOf DEF Source
  <2>2. CASE ~Reading   BY <1>7, <1>8, <2>2
  <2> QED BY <2>1, <2>2
<1> DEFINE sent == IF SizeIsHandled THEN size ELSE None
<1>10. IsOptions(answer) /\ Value(answer, "tsize", None) = sent
    BY <1>1, <1>3, <1>9, ServerOptionsOf
<1>11. ~RefusesBlockSize(client.config, BlockSizeOption(answer)) /\ ~RefusesTimeout(client.config, TimeoutOption(answer))
  <2>1. ClientOptions = TftpOptions(request)   BY <1>2 DEF ClientOptions
  <2> DEFINE extra == AdditionalOptions  additional == setup.client.additional
  <2>2. asked \in Sizes   BY <1>7 DEF Sizes
  <2>3. LeavesKnown(extra) /\ LeavesKnown(additional)   BY <1>5
  <2>4. /\ request = RequestOptions(client.config, additional, asked)
        /\ answer = ServerOptions(server.config, TftpOptions(request), extra, size)
      BY <2>1
  <2> HIDE DEF request, answer, asked, extra, additional
  <2> QED BY <1>6, <2>2, <2>3, <2>4, NegotiationSucceeds
<1>12. sent # None => client.config.transferSize /\ told # None /\ sent = size
    BY <1>8 DEF SizeIsHandled
<1>13. SizeIsHandled /\ Reading => told = 0
    BY <1>8 DEF SizeIsHandled
<1>14. Fits(Len(Original)) /\ Len(Original) \in Nat   BY <1>1, FilesOf DEF Legal
<1>15. SizeIsHandled /\ ~Reading => size = Len(Original)
    BY <1>7, <1>8 DEF SizeIsHandled
<1>16. SizeIsHandled /\ ~Reading => ReceivedTransferSize(server.file, size)
    BY <1>14, <1>15 DEF Fits, Sink, ReceivedTransferSize
<1>17. sent # None => AcceptableSize(sent)
  <2>1. CASE Reading
    <3>1. sent # None => sent = Len(Original)   BY <1>9, <2>1
    <3> QED BY <1>14, <2>1, <3>1 DEF AcceptableSize, Fits, Sink, ReceivedTransferSize
  <2>2. CASE ~Reading
    <3>1. sent # None => sent = RequestedTransferSize(client.file)   BY <1>8, <1>12, <2>2
    <3>2. client.config.transferSize => client.transferSize = RequestedTransferSize(client.file)
        BY <1>3, <2>2 DEF IsRequest
    <3> QED BY <1>12, <2>2, <3>1, <3>2 DEF AcceptableSize
  <2> QED BY <2>1, <2>2
<1>18. ~RefusesTransferSize(client.config, TransferSizeOption(answer),
                            AcceptableSize(TransferSizeOption(answer).value))
  <2>1. sent \in Nat \cup {None}   BY <1>9
  <2> HIDE DEF answer, sent
  <2>2. "tsize" \in DOMAIN answer => answer["tsize"] \in Values   BY <1>10 DEF IsOptions
  <2>3. "tsize" \in DOMAIN answer => answer["tsize"] = sent /\ sent \in Nat
      BY <1>10, <2>1, <2>2 DEF Value, Values, None, Empty, Text
  <2>4. "tsize" \notin DOMAIN answer => sent = None   BY <1>10 DEF Value
  <2>5. TransferSizeOption(answer) = [valid |-> TRUE, value |-> sent]
      BY <2>3, <2>4 DEF TransferSizeOption, GetOption
  <2>6. TransferSizeOption(answer).valid /\ TransferSizeOption(answer).value = sent   BY <2>5
  <2> QED BY <1>12, <1>17, <2>6 DEF RefusesTransferSize
<1>19. ~RefusesRemaining(setup.client.handler, Remaining(answer))
  <2>1. setup.client.handler \in {"none", "application", "handles", "forgets"}
      BY <1>4 DEF Legal, Handlers
  <2>2. CASE setup.client.handler = "handles"
      BY <2>2 DEF RefusesRemaining, HandlerAccepts
  <2>3. CASE server.extra = "none"
    <3>1. AdditionalOptions = NoOptions   BY <2>3 DEF AdditionalOptions
    <3>2. DOMAIN Remaining(answer) = {}   BY <3>1, NothingRemains DEF ServerOptions
    <3> HIDE DEF answer
    <3> QED BY <2>1, <3>2 DEF RefusesRemaining, HandlerAccepts
  <2> QED BY <2>2, <2>3 DEF Legal
<1>20. Acceptable(answer)   BY <1>11, <1>18, <1>19 DEF Acceptable
<1> QED BY <1>13, <1>16, <1>20

-----------------------------------------------------------------------------
(* Nobody has a reason to give up. *)

(* What the client of a legal transfer receives is whole, and accepted. *)
LEMMA ClientUnderstands ==
    ASSUME Inv, OackFits, Succeeds, Legal, wire.to = "client", client.phase \in {"requested", "transfer"}
    PROVE  /\ ClientPacket.type \in {"DATA", "ACK", "OACK"}
           /\ ClientPacket.type = "OACK" => ~RefusedOack
<1>1. TypeOK /\ Conversation /\ Smooth /\ wire # Nothing
    BY DEF Inv, Succeeds, Nothing
<1>2. (Answered \/ ClientsTurn) /\ wire.cells = server.packet
    BY <1>1 DEF Conversation, Idle, Asking, Answered, ClientsTurn, ServersTurn, ServersEnd, ClientsEnd,
                OnWire, Nothing
<1>3. ~HasRefused(server)   BY <1>1 DEF Smooth, HasRefused
<1>4. /\ client.buffer \in Nat /\ client.buffer > 1 /\ client.buffer >= HeaderSize + DefaultDataSize
      /\ HeaderSize + DefaultDataSize \in Nat /\ HeaderSize + DefaultDataSize >= 13
  <2>1. OperationOK(client, setup.client.file) /\ client.buffer > 1
      BY <1>1, FilesOf DEF Succeeds, Unwrapped, Legal
  <2>2. /\ client.buffer \in Nat /\ (client.buffer <= 1 \/ client.buffer >= HeaderSize + DefaultDataSize)
        /\ HeaderSize + DefaultDataSize \in Nat /\ HeaderSize + DefaultDataSize >= 13
      BY <2>1, RoomForDefault
  <2> QED BY <2>1, <2>2
<1>5. ClientPacket = Decode(Cut(server.packet, client.buffer))   BY <1>2 DEF ClientPacket
<1>6. ASSUME IsAck(server) PROVE ClientPacket.type = "ACK"
  <2>1. PICK block \in BlockNumbers : server.packet = EncodeAck(block)   BY <1>6 DEF IsAck
  <2>2. block \in Nat   BY NextIsBlock
  <2>3. ClientPacket = [type |-> "ACK", block |-> block]   BY <1>4, <1>5, <2>1, <2>2, AckIsDecoded
  <2> QED BY <2>3
<1>7. ASSUME Reading, InFlight(server, client), Supplied(server), server.dataSize = client.dataSize
      PROVE  ClientPacket.type = "DATA"
  <2>1. Source = server /\ Sink = client   BY <1>7 DEF Source, Sink
  <2>2. Hears(server, client, ClientPacket)   BY <1>1, <1>4, <1>5, <1>7, <2>1, BlockIsHeard
  <2> QED BY <2>2 DEF Hears
<1>8. ASSUME Answered, NEW options, HasAnswered(options) PROVE ClientPacket.type = "OACK" /\ ~RefusedOack
  <2>1. PacketType(server.packet) = "OACK" /\ client.phase = "requested"
    <3>1. IsOptions(options) /\ server.packet = EncodeOack(options)   BY <1>8 DEF HasAnswered
    <3>2. 0 \in Nat /\ 0 <= 1   OBVIOUS
    <3>3. PacketType(server.packet) = "OACK"   BY <3>1, <3>2, OackIsDecoded
    <3> QED BY <1>8, <3>3 DEF Answered, IsRequest
  <2>2. PICK told : /\ IsOptions(told) /\ DOMAIN told # {}
                    /\ server.packet = EncodeOack(told) /\ Acceptable(told)
      BY <1>1, <2>1 DEF Smooth
  <2>3. EncodeOack(told) \in Cells /\ Len(EncodeOack(told)) <= HeaderSize + DefaultDataSize
    <3>1. 0 \in Nat /\ 0 <= 1   OBVIOUS
    <3>2. EncodeOack(told) \in Cells   BY <2>2, <3>1, OackIsDecoded
    <3> QED BY <2>1, <2>2, <3>2 DEF OackFits
  <2>4. Len(EncodeOack(told)) <= client.buffer
    <3> DEFINE room == HeaderSize + DefaultDataSize  length == Len(EncodeOack(told))
    <3>1. length \in Nat   BY <2>3 DEF Cells
    <3>2. room \in Nat /\ length <= room /\ room <= client.buffer /\ client.buffer \in Nat   BY <1>4, <2>3
    <3> HIDE DEF room, length
    <3>3. length <= client.buffer   BY <3>1, <3>2
    <3> QED BY <3>3 DEF length
  <2>5. client.buffer <= 1 \/ client.buffer >= 13
    <3> DEFINE room == HeaderSize + DefaultDataSize
    <3> HIDE DEF room
    <3> QED BY <1>4 DEF room
  <2>6. ClientPacket.type = "OACK" /\ ClientPacket.options = told
    <3> DEFINE packet == Decode(Cut(EncodeOack(told), client.buffer))
    <3>1. packet.type = "OACK" /\ packet.options = told   BY <1>4, <2>2, <2>4, <2>5, OackIsDecoded
    <3> QED BY <1>5, <2>2, <3>1
  <2>7. ~RefusedBlockSize /\ ~RefusedTimeout /\ ~RefusedTransferSize
      BY <2>2, <2>6 DEF Acceptable, RefusedBlockSize, RefusedTimeout, RefusedTransferSize
  <2>8. ~RefusedOack
      BY <2>2, <2>6, <2>7 DEF Acceptable, RefusedOack, Consulted
  <2> QED BY <2>6, <2>8
<1>9. CASE Answered
  <2>1. CASE HasStarted
    <3>1. server.dataSize = client.dataSize   BY <1>9, <2>1 DEF Answered, HasStarted, IsRequest
    <3>2. CASE Reading
      <4>1. ClientPacket.type = "DATA"   BY <1>7, <2>1, <3>1, <3>2 DEF HasStarted
      <4> QED BY <4>1
    <3>3. CASE ~Reading
      <4>1. 0 \in BlockNumbers   BY MaxBlockAssumption DEF BlockNumbers
      <4>2. ClientPacket.type = "ACK"   BY <1>6, <2>1, <3>3, <4>1 DEF HasStarted, IsAck
      <4> QED BY <4>2
    <3> QED BY <3>2, <3>3
  <2>2. CASE \E options : HasAnswered(options)   BY <1>8, <1>9, <2>2
  <2> QED BY <1>3, <1>9, <2>1, <2>2 DEF Answered
<1>10. CASE ClientsTurn
  <2>1. CASE Transferring /\ IF Reading THEN InFlight(server, client) /\ Supplied(server)
                             ELSE Ready(client, server) /\ IsAck(server)
    <3>1. ClientPacket.type \in {"DATA", "ACK"}   BY <1>6, <1>7, <2>1 DEF Transferring
    <3> QED BY <3>1
  <2>2. CASE IsOver(client, server)
    <3>1. ClientPacket.type = "ACK"   BY <1>6, <2>2 DEF IsOver
    <3> QED BY <3>1
  <2> QED BY <1>3, <1>10, <2>1, <2>2 DEF ClientsTurn
<1> QED BY <1>2, <1>9, <1>10

(* ... and what the server receives is whole. *)
LEMMA ServerUnderstands ==
    ASSUME Inv, Succeeds, Legal, wire.to = "server", server.phase = "transfer"
    PROVE  ServerPacket.type \in {"DATA", "ACK"}
<1>1. TypeOK /\ Conversation /\ Smooth
    BY DEF Inv, Succeeds
<1>2. (ServersTurn \/ ServersEnd) /\ wire.cells = client.packet
    BY <1>1 DEF Conversation, Idle, Asking, Answered, ClientsTurn, ServersTurn, ServersEnd, ClientsEnd,
                OnWire, Nothing
<1>3. ~HasRefused(client)   BY <1>1 DEF Smooth, HasRefused
<1>4. server.buffer \in Nat /\ server.buffer > 1
    BY <1>1, FilesOf DEF OperationOK, Succeeds, Unwrapped, Legal
<1>5. ServerPacket = Decode(Cut(client.packet, server.buffer))   BY <1>2 DEF ServerPacket
<1>6. ASSUME IsAck(client) PROVE ServerPacket.type = "ACK"
  <2>1. PICK block \in BlockNumbers : client.packet = EncodeAck(block)   BY <1>6 DEF IsAck
  <2>2. block \in Nat   BY NextIsBlock
  <2>3. ServerPacket = [type |-> "ACK", block |-> block]   BY <1>4, <1>5, <2>1, <2>2, AckIsDecoded
  <2> QED BY <2>3
<1>7. ASSUME ~Reading, InFlight(client, server), Supplied(client), Transferring
      PROVE  ServerPacket.type = "DATA"
  <2>1. Source = client /\ Sink = server /\ client.dataSize = server.dataSize
      BY <1>7 DEF Source, Sink, Transferring
  <2>2. Hears(client, server, ServerPacket)   BY <1>1, <1>4, <1>5, <1>7, <2>1, BlockIsHeard
  <2> QED BY <2>2 DEF Hears
<1>8. ServerPacket.type = "DATA" \/ ServerPacket.type = "ACK"
    BY <1>2, <1>3, <1>6, <1>7 DEF ServersTurn, ServersEnd, IsOver
<1> QED BY <1>8

(* None of the steps that end a transfer is taken. *)
LEMMA Excluded ==
    ASSUME Inv, OackFits, Succeeds, Legal
    PROVE  /\ ~RefuseOack /\ ~RefusePlain /\ ~ClientInvalid /\ ~ClientError /\ ~ClientTimesOut
           /\ ~IgnoredRequest /\ ~ServerInvalid /\ ~ServerError
<1>1. TypeOK /\ Smooth   BY DEF Inv, Succeeds
<1>2. ~RefuseOack /\ ~ClientInvalid /\ ~ClientError
  <2>1. ASSUME NEW type, ClientReceives(type)
        PROVE  type \in {"DATA", "ACK", "OACK"} /\ (type = "OACK" => ~RefusedOack)
      BY <2>1, ClientUnderstands DEF ClientReceives, ClientPacket
  <2> QED BY <2>1 DEF RefuseOack, ClientInvalid, ClientError
<1>3. ~RefusePlain
  <2>1. setup.client.handler \in Handlers /\ setup.client.handler # "refuses"
      BY <1>1, SetupFacts DEF TypeOK, Legal
  <2>2. HandlerAccepts(setup.client.handler, NoOptions)
      BY <2>1 DEF HandlerAccepts, Handlers, NoOptions
  <2> QED BY <2>2 DEF RefusePlain, RefusesPlain
<1>4. ~ClientTimesOut   BY <1>1 DEF ClientTimesOut, Smooth
<1>5. ~IgnoredRequest
  <2>1. wire.to = "dispatcher" => RequestPacket.type = RequestType   BY <1>1, LegalRequest
  <2> QED BY <2>1 DEF IgnoredRequest, RequestType
<1>6. ~ServerInvalid /\ ~ServerError
  <2>1. ASSUME NEW type, ServerReceives(type) PROVE type \in {"DATA", "ACK"}
      BY <2>1, ServerUnderstands DEF ServerReceives
  <2> QED BY <2>1 DEF ServerInvalid, ServerError
<1> QED BY <1>2, <1>3, <1>4, <1>5, <1>6

-----------------------------------------------------------------------------
(* The steps of a legal transfer *)

(* What is sent and what ends, of the phases of an operation *)
LEMMA PhasesOf ==
    ASSUME NEW o, IsOperation(o)
    PROVE  /\ SendData(o).phase = "transfer"
           /\ \A packet : IsOperation(Acknowledged(o, packet))
           /\ \A status : Finish(o, status).phase = "done" /\ Finish(o, status).status = status
<1>1. "phase" \in DOMAIN o /\ "status" \in DOMAIN o   BY DEF IsOperation, OperationFields
<1>2. SendData(o).phase = "transfer"
  <2> DEFINE block == NextBlock(o.lastTransmitted)
             packet == EncodeData(block, DataToSend(o.file, o.dataSize))
  <2>1. SendData(o) = [o EXCEPT !.phase = "transfer", !.lastTransmitted = block, !.file = Sent(@, o.dataSize),
                                !.last = @ \/ Len(DataToSend(o.file, o.dataSize)) < o.dataSize, !.packet = packet]
      BY DEF SendData
  <2> HIDE DEF block, packet
  <2> QED BY <1>1, <2>1
<1>3. ASSUME NEW status PROVE Finish(o, status).phase = "done" /\ Finish(o, status).status = status
    BY <1>1 DEF Finish
<1>4. ASSUME NEW packet PROVE IsOperation(Acknowledged(o, packet))
    BY DEF IsOperation, Acknowledged
<1> QED BY <1>2, <1>3, <1>4

(* A client that receives a block goes on, or has the file. *)
LEMMA ClientHasStored ==
    ASSUME Inv, ClientStores
    PROVE  /\ server.phase = "transfer"
           /\ client'.phase = "transfer" \/ (client'.phase = "done" /\ client'.status = "Successful")
<1> DEFINE k == Asked  p == Store(k, ClientPacket)
<1>1. TypeOK /\ Conversation   BY DEF Inv
<1>2. /\ wire.to = "client" /\ client.phase \in {"requested", "transfer"}
      /\ ClientPacket.type = "DATA" /\ client' = p
    BY DEF ClientStores, ClientReceives, ClientPacket, ClientSends
<1>3. Reading /\ InTransfer(server) /\ Agreed /\ Supplied(server) /\ Hears(server, client, ClientPacket)
  <2>1. ClientPacket # InvalidPacket /\ ~OackHeard /\ ~AckHeard
      BY <1>2 DEF InvalidPacket, OackHeard, AckHeard
  <2>2. DataHeard   BY <1>1, <1>2, <2>1, ClientHears
  <2> QED BY <2>2 DEF DataHeard
<1>4. /\ IsOperation(server) /\ OperationOK(server, setup.server.file) /\ DOMAIN client = ClientFields
      /\ server.file.content = Original /\ setup.client.file.operation = "Receive"
  <2>1. setup.client.file.operation = "Receive"   BY <1>1, <1>3, SetupFacts DEF TypeOK, SinkFile
  <2> QED BY <1>1, <1>3, <2>1, FilesOf DEF Source
<1>5. Changes(client, k, {"asked"}) /\ OperationOK(k, setup.client.file)   BY <1>1, AskedOf
<1> HIDE DEF k
<1>6. IsOperation(k) /\ k.file = client.file /\ k.dataSize = client.dataSize
    BY <1>4, <1>5 DEF Changes, IsOperation, ClientFields, OperationFields
<1>7. Hears(server, k, ClientPacket) /\ server.dataSize = k.dataSize   BY <1>3, <1>6 DEF Hears, Agreed
<1>8. (p.phase = "done" /\ p.status = "Successful") \/ p.phase = "transfer"
    BY <1>3, <1>4, <1>5, <1>6, <1>7, StoresNext
<1> QED BY <1>2, <1>3, <1>8 DEF InTransfer

(* ... and so does a server. *)
LEMMA ServerHasStored ==
    ASSUME Inv, ServerStores
    PROVE  server'.phase = "transfer" \/ (server'.phase = "done" /\ server'.status = "Successful")
<1> DEFINE p == Store(server, ServerPacket)
<1>1. TypeOK /\ Conversation   BY DEF Inv
<1>2. /\ wire.to = "server" /\ server.phase = "transfer" /\ ServerPacket.type = "DATA" /\ server' = p
    BY DEF ServerStores, ServerReceives, ServerSends
<1>3. ~Reading /\ Transferring /\ Supplied(client) /\ Hears(client, server, ServerPacket)
  <2>1. /\ ServerPacket # InvalidPacket /\ ServerPacket.type # "ERROR"
        /\ ~\E block \in BlockNumbers : ServerPacket = [type |-> "ACK", block |-> block]
      BY <1>2 DEF InvalidPacket
  <2> QED BY <1>1, <1>2, <2>1, ServerHears
<1>4. /\ IsOperation(server) /\ OperationOK(server, setup.server.file)
      /\ IsOperation(client) /\ OperationOK(client, setup.client.file)
      /\ client.file.content = Original /\ setup.server.file.operation = "Receive"
      /\ client.dataSize = server.dataSize
  <2>1. setup.server.file.operation = "Receive"   BY <1>1, <1>3, SetupFacts DEF TypeOK, SinkFile
  <2> QED BY <1>1, <1>3, <2>1, FilesOf DEF Source, Transferring
<1>5. (p.phase = "done" /\ p.status = "Successful") \/ p.phase = "transfer"
    BY <1>3, <1>4, StoresNext
<1> QED BY <1>2, <1>5

(* The client goes on, or has succeeded. *)
LEMMA ClientSmooth ==
    ASSUME Inv, Succeeds, Legal, AcceptOack \/ ClientStores \/ ClientSupplies \/ ClientSucceeds
    PROVE  Smooth'
<1>1. TypeOK /\ Conversation /\ Smooth   BY DEF Inv, Succeeds
<1>2. UNCHANGED server
    BY DEF AcceptOack, ClientStores, ClientSupplies, ClientSucceeds, ClientSends, ClientEnds
<1>3. IsOperation(client) /\ IsOperation(Asked) /\ IsOperation(Adopted)
  <2>1. Changes(client, Adopted, {"dataSize", "timeout", "announced", "asked"})   BY <1>1, AdoptedOf
  <2>2. Changes(client, Asked, {"asked"})   BY <1>1, AskedOf
  <2>3. IsOperation(client)   BY <1>1, FilesOf
  <2> HIDE DEF Adopted, Asked
  <2> QED BY <2>1, <2>2, <2>3 DEF Changes, IsOperation
<1>4. ASSUME AcceptOack PROVE client'.phase = "transfer"
  <2>1. client' = (IF Reading THEN [Acknowledge(Adopted, 0) EXCEPT !.oackReceived = TRUE] ELSE SendData(Adopted))
      BY <1>4 DEF AcceptOack, ClientSends
  <2> DEFINE q == Acknowledge(Adopted, 0)
  <2>2. "phase" \in DOMAIN q /\ q.phase = "transfer"
      BY <1>3 DEF Acknowledge, IsOperation, OperationFields
  <2>3. SendData(Adopted).phase = "transfer"   BY <1>3, PhasesOf
  <2>4. [q EXCEPT !.oackReceived = TRUE].phase = "transfer"
    <3> HIDE DEF q
    <3> QED BY <2>2
  <2> HIDE DEF q
  <2>5. client' = [q EXCEPT !.oackReceived = TRUE] \/ client' = SendData(Adopted)   BY <2>1 DEF q
  <2> QED BY <2>3, <2>4, <2>5
<1>5. ASSUME ClientSupplies PROVE client'.phase = "transfer"
  <2>1. client' = SendData(Acknowledged(Asked, ClientPacket))   BY <1>5 DEF ClientSupplies, ClientSends
  <2>2. IsOperation(Acknowledged(Asked, ClientPacket))   BY <1>3, PhasesOf
  <2> QED BY <2>1, <2>2, PhasesOf
<1>6. ASSUME ClientSucceeds PROVE client'.phase = "done" /\ client'.status = "Successful" /\ server.phase # "idle"
  <2>1. client' = Finish(Acknowledged(client, ClientPacket), "Successful")
      BY <1>6 DEF ClientSucceeds, ClientEnds
  <2>2. IsOperation(Acknowledged(client, ClientPacket))   BY <1>3, PhasesOf
  <2>3. client'.phase = "done" /\ client'.status = "Successful"   BY <2>1, <2>2, PhasesOf
  <2>4. wire.to = "client" /\ client.phase \in {"requested", "transfer"}   BY <1>6 DEF ClientSucceeds, ClientReceives
  <2>5. server.phase \in {"transfer", "done"}   BY <1>1, <2>4, ClientHears
  <2> QED BY <2>3, <2>5
<1>7. client'.phase = "transfer" \/ (client'.phase = "done" /\ client'.status = "Successful" /\ server.phase # "idle")
    BY <1>4, <1>5, <1>6, ClientHasStored
<1> QED BY <1>1, <1>2, <1>7 DEF Smooth

(* The server goes on, or has succeeded. *)
LEMMA ServerSmooth ==
    ASSUME Inv, Succeeds, Legal, ServerStores \/ ServerSupplies \/ ServerSucceeds
    PROVE  Smooth'
<1>1. TypeOK /\ Conversation /\ Smooth   BY DEF Inv, Succeeds
<1>2. UNCHANGED client
    BY DEF ServerStores, ServerSupplies, ServerSucceeds, ServerSends, ServerEnds
<1>3. IsOperation(server)   BY <1>1, FilesOf
<1>4. wire.to = "server" /\ server.phase = "transfer"
    BY DEF ServerStores, ServerSupplies, ServerSucceeds, ServerReceives
<1>5. client.phase \in {"transfer", "done"}   BY <1>1, <1>4, ServerHears
<1>6. IsOperation(Acknowledged(server, ServerPacket))   BY <1>3, PhasesOf
<1>7. ASSUME ServerSupplies PROVE server'.phase = "transfer"
  <2>1. server' = SendData(Acknowledged(server, ServerPacket))   BY <1>7 DEF ServerSupplies, ServerSends
  <2> QED BY <1>6, <2>1, PhasesOf
<1>8. ASSUME ServerSucceeds PROVE server'.phase = "done" /\ server'.status = "Successful"
  <2>1. server' = Finish(Acknowledged(server, ServerPacket), "Successful")
      BY <1>8 DEF ServerSucceeds, ServerEnds
  <2> QED BY <1>6, <2>1, PhasesOf
<1>9. server'.phase = "transfer" \/ (server'.phase = "done" /\ server'.status = "Successful")
    BY <1>7, <1>8, ServerHasStored
<1> QED BY <1>1, <1>2, <1>5, <1>9 DEF Smooth

-----------------------------------------------------------------------------
(* The answer and the request of a legal transfer *)

(* What a server sends as data is a DATA packet. *)
LEMMA SendsData ==
    ASSUME NEW o, NEW given, IsOperation(o), OperationOK(o, given),
           o.file.position <= Len(o.file.content)
    PROVE  PacketType(SendData(o).packet) = "DATA"
<1> DEFINE p == SendData(o)  from == o.file.position
           upTo == Minimum(from + o.dataSize, Len(o.file.content))
<1>1. o.file.content \in Cells /\ o.dataSize \in Nat /\ Len(o.file.content) \in Nat /\ from \in Nat
    BY DEF OperationOK, File, Cells
<1>2. upTo \in Nat /\ from <= upTo /\ upTo <= Len(o.file.content)   BY <1>1 DEF Minimum
<1>3. /\ p.packet = EncodeData(p.lastTransmitted, SubSeq(o.file.content, from + 1, upTo))
      /\ OperationOK(p, given)
    BY SendDataOf
<1> HIDE DEF p, upTo, from
<1> DEFINE data == SubSeq(o.file.content, from + 1, upTo)
<1>4. data \in Cells   BY <1>1, <1>2, PartIsData
<1>5. p.lastTransmitted \in Nat   BY <1>3, NextIsBlock DEF OperationOK
<1>6. p.packet = EncodeData(p.lastTransmitted, data)   BY <1>3
<1> HIDE DEF data
<1>7. 0 \in Nat /\ 0 <= 1   OBVIOUS
<1>8. PacketType(p.packet) = "DATA"   BY <1>4, <1>5, <1>6, <1>7, DataIsDecoded
<1> QED BY <1>8 DEF p

(* An answer that the client accepts *)
LEMMA AnswerIsSmooth ==
    ASSUME Inv, Succeeds, Legal, wire.to = "dispatcher", NEW p, ServerSends(p), p.phase = "transfer",
           NEW options, IsOptions(options), Acceptable(options),
           \/ PacketType(p.packet) # "OACK"
           \/ p.packet = EncodeOack(options) /\ DOMAIN options # {}
    PROVE  Smooth'
<1>1. /\ server' = p /\ wire' = [to |-> "client", cells |-> p.packet]
      /\ UNCHANGED <<setup, round, client>>
    BY DEF ServerSends
<1>2. Smooth /\ client.phase = "requested"   BY LegalRequest DEF Succeeds
<1>3. wire' # Nothing'
  <2>1. wire'.to = "client" /\ Nothing'.to = "nobody"   BY <1>1 DEF Nothing
  <2> QED BY <2>1
<1>4. client'.phase = "requested" /\ server'.phase = "transfer"   BY <1>1, <1>2
<1>5. (client.requested = RequestOptions(client.config, setup.client.additional,
                                    IF Reading THEN 0 ELSE RequestedTransferSize(client.file)))'
    BY <1>1, <1>2 DEF Smooth, Reading
<1>6. (Acceptable(options))'
    BY <1>1 DEF Acceptable, AcceptableSize, Reading
<1>7. (PacketType(server.packet) = "OACK" =>
          \E o : IsOptions(o) /\ DOMAIN o # {} /\ server.packet = EncodeOack(o) /\ Acceptable(o))'
    BY <1>1, <1>6
<1> QED BY <1>3, <1>4, <1>5, <1>7 DEF Smooth

(* start() of a server that sends *)
LEMMA StartReadSmooth == ASSUME Inv, Succeeds, Legal, StartRead PROVE Smooth'
<1> DEFINE a == Answering
           size    == RequestedTransferSize(server.file)
           options == ServerOptions(server.config, ClientOptions, AdditionalOptions, size)
           refuses == SizeIsHandled /\ ClientOptions.transferSize # 0
           oack    == [a EXCEPT !.lastReceived = MaxBlock, !.packet = EncodeOack(options)]
           data    == SendData(a)
<1>1. /\ wire.to = "dispatcher" /\ RequestPacket.type = "RRQ"
      /\ IF refuses THEN ServerSends(Refused(a, "TftpOptionRefused", "TransferError"))
         ELSE IF DOMAIN options = {} THEN ServerSends(data) ELSE ServerSends(oack)
    BY DEF StartRead
<1>2. /\ Asking /\ TypeOK /\ Reading /\ IsOptions(RequestPacket.options)
      /\ DOMAIN a = ServerFields /\ IsOperation(a) /\ OperationOK(a, setup.server.file)
      /\ a.phase = "transfer" /\ a.file.position = 0
  <2>1. RequestPacket.type = RequestType   BY <1>1, AnsweringStands
  <2>2. Reading   BY <1>1, <2>1 DEF RequestType
  <2> QED BY <1>1, <2>2, AnsweringStands
<1>3. size \in Nat \cup {None}   BY <1>2, FilesOf DEF Source
<1>4. IsOptions(options)   BY <1>2, <1>3, ServerOptionsOf DEF Asking
<1>5. Acceptable(options) /\ ~refuses
    BY <1>1, <1>2, LegalAnswer DEF Succeeds
<1> HIDE DEF a, options, refuses
<1>6. CASE DOMAIN options = {}
  <2>1. ServerSends(data)   BY <1>1, <1>5, <1>6
  <2>2. a.file.position <= Len(a.file.content)   BY <1>2 DEF OperationOK, File, Cells
  <2>3. data.phase = "transfer" /\ PacketType(data.packet) # "OACK"   BY <1>2, <2>2, PhasesOf, SendsData
  <2> HIDE DEF data
  <2> QED BY <1>1, <1>4, <1>5, <2>1, <2>3, AnswerIsSmooth
<1>7. CASE DOMAIN options # {}
  <2>1. ServerSends(oack)   BY <1>1, <1>5, <1>7
  <2>2. oack.phase = "transfer" /\ oack.packet = EncodeOack(options)
      BY <1>2 DEF IsOperation, OperationFields
  <2> HIDE DEF oack
  <2> QED BY <1>1, <1>4, <1>5, <1>7, <2>1, <2>2, AnswerIsSmooth
<1> QED BY <1>6, <1>7

(* start() of a server that receives *)
LEMMA StartWriteSmooth == ASSUME Inv, Succeeds, Legal, StartWrite PROVE Smooth'
<1> DEFINE a == Answering
           size    == ClientOptions.transferSize
           options == ServerOptions(server.config, ClientOptions, AdditionalOptions, size)
           refuses == SizeIsHandled /\ ~ReceivedTransferSize(server.file, size)
           told    == IF SizeIsHandled THEN size ELSE a.announced
           o       == [a EXCEPT !.announced = told]
           answer  == IF DOMAIN options = {} THEN EncodeAck(0) ELSE EncodeOack(options)
           p       == [o EXCEPT !.packet = answer]
<1>1. /\ wire.to = "dispatcher" /\ RequestPacket.type = "WRQ"
      /\ IF refuses THEN ServerSends(Refused(a, "DiskFullOrAllocationExceeds", "TransferError"))
         ELSE ServerSends(p)
    BY DEF StartWrite
<1>2. /\ Asking /\ TypeOK /\ ~Reading /\ IsOptions(RequestPacket.options)
      /\ DOMAIN a = ServerFields /\ IsOperation(a) /\ a.phase = "transfer"
  <2>1. RequestPacket.type = RequestType   BY <1>1, AnsweringStands
  <2>2. ~Reading   BY <1>1, <2>1 DEF RequestType
  <2> QED BY <1>1, <2>2, AnsweringStands
<1>3. size \in Nat \cup {None}   BY OptionsRead DEF ClientOptions, TftpOptions
<1>4. IsOptions(options)   BY <1>2, <1>3, ServerOptionsOf DEF Asking
<1>5. Acceptable(options) /\ ~refuses
    BY <1>1, <1>2, LegalAnswer DEF Succeeds
<1> HIDE DEF a, options, refuses, told
<1>6. ServerSends(p)   BY <1>1, <1>5
<1>7. DOMAIN options = {} => PacketType(answer) # "OACK"
  <2>1. 0 \in Nat   OBVIOUS
  <2>2. PacketType(EncodeAck(0)) = "ACK"   BY <2>1, AckIsDecoded
  <2> QED BY <2>2
<1>8. DOMAIN options # {} => answer = EncodeOack(options)   OBVIOUS
<1> HIDE DEF answer
<1>9. p.phase = "transfer" /\ p.packet = answer
    BY <1>2 DEF IsOperation, OperationFields
<1> HIDE DEF p
<1> QED BY <1>1, <1>4, <1>5, <1>6, <1>7, <1>8, <1>9, AnswerIsSmooth

(* The buffers of a new operation are those of its configuration. *)
LEMMA NewUnwrapped ==
    ASSUME NEW configurations \in Seq(Configuration), NEW file, NEW more,
           DOMAIN more \cap OperationFields = {}
    PROVE  Unwrapped(With(Configured(configurations, file), more))
<1> DEFINE n == NewOperation(file)  o == Configured(configurations, file)
<1>1. /\ DOMAIN n = OperationFields /\ n.buffer = HeaderSize + DefaultDataSize
    BY DEF NewOperation, OperationFields
<1>2. HeaderSize + DefaultDataSize > 1   BY OptionAssumption, PacketAssumption
<1>3. "buffer" \in DOMAIN o /\ "config" \in DOMAIN o /\ Unwrapped(o)
  <2>1. CASE configurations = <<>>
    <3>1. o = n   BY <2>1 DEF Configured
    <3> HIDE DEF n, o
    <3> QED BY <1>1, <1>2, <3>1 DEF Unwrapped, OperationFields
  <2>2. CASE configurations # <<>>
    <3> DEFINE c == Last(configurations)
    <3>1. c \in Configuration
      <4>1. Len(configurations) \in 1 .. Len(configurations)   BY <2>2, EmptySeq
      <4> QED BY <4>1, ElementOfSeq DEF Last
    <3>2. o = OptionsConfiguration(n, c)   BY <2>2 DEF Configured
    <3> HIDE DEF n, c, o
    <3>3. /\ "buffer" \in DOMAIN o /\ "config" \in DOMAIN o /\ o.config = c
          /\ o.buffer = BufferSize(c) \/ o.buffer = n.buffer
        BY <1>1, <3>2 DEF OptionsConfiguration, OperationFields
    <3>4. InRange(c) => BufferSize(c) > 1
      <4>1. ASSUME InRange(c) PROVE HeaderSize + DataSize(None) <= BufferSize(c)
        <5>1. IsInRange(c) /\ None \in Nat \cup {None}   BY <3>1, <4>1 DEF IsInRange
        <5> QED BY <5>1, BufferHoldsBlock
      <4>2. BufferSize(c) \in Nat   BY <3>1, BufferWrapsOrHolds
      <4>3. DataSize(None) = DefaultDataSize   BY DEF DataSize
      <4>4. HeaderSize = 2 /\ DefaultDataSize \in Nat   BY OptionAssumption, PacketAssumption
      <4> QED BY <4>1, <4>2, <4>3, <4>4
    <3> QED BY <1>1, <1>2, <3>3, <3>4 DEF Unwrapped
  <2> QED BY <2>1, <2>2
<1> HIDE DEF o
<1>4. With(o, more).buffer = o.buffer /\ With(o, more).config = o.config   BY <1>3 DEF With
<1> QED BY <1>3, <1>4 DEF Unwrapped, o

(* ... so that they have room for a packet of the default size. *)
LEMMA NewOperationsUnwrapped ==
    /\ \A s \in ServerSetup : \A file : Unwrapped(NewServer([s EXCEPT !.file = file]))
    /\ setup \in Setups => Unwrapped(NewClient(setup)) /\ Unwrapped(NewServer(setup.server))
<1>1. ASSUME NEW s, s.configurations \in Seq(Configuration) PROVE Unwrapped(NewServer(s))
  <2> DEFINE e == [extra |-> s.extra, decoded |-> InvalidPacket]
  <2>1. DOMAIN e = {"extra", "decoded"}   OBVIOUS
  <2>2. DOMAIN e \cap OperationFields = {}   BY <2>1 DEF OperationFields
  <2> HIDE DEF e
  <2>3. Unwrapped(With(Configured(s.configurations, s.file), e))   BY <1>1, <2>2, NewUnwrapped
  <2> QED BY <2>3 DEF NewServer, e
<1>2. ASSUME NEW s, s.client.configurations \in Seq(Configuration) PROVE Unwrapped(NewClient(s))
  <2> DEFINE e == [oackReceived |-> FALSE, transferSize |-> None, asked |-> FALSE, requested |-> NoOptions]
  <2>1. DOMAIN e = {"oackReceived", "transferSize", "asked", "requested"}   OBVIOUS
  <2>2. DOMAIN e \cap OperationFields = {}   BY <2>1 DEF OperationFields
  <2> HIDE DEF e
  <2>3. Unwrapped(With(Configured(s.client.configurations, s.client.file), e))   BY <1>2, <2>2, NewUnwrapped
  <2> QED BY <2>3 DEF NewClient, e
<1>3. ASSUME NEW s \in ServerSetup, NEW file PROVE Unwrapped(NewServer([s EXCEPT !.file = file]))
  <2> DEFINE t == [s EXCEPT !.file = file]
  <2>1. t.configurations \in Seq(Configuration)   BY DEF ServerSetup
  <2> HIDE DEF t
  <2>2. Unwrapped(NewServer(t))   BY <1>1, <2>1
  <2> QED BY <2>2 DEF t
<1>4. ASSUME setup \in Setups PROVE Unwrapped(NewClient(setup)) /\ Unwrapped(NewServer(setup.server))
    BY <1>1, <1>2, <1>4, SetupFacts
<1> QED BY <1>3, <1>4

-----------------------------------------------------------------------------
(* Legal transfers succeed. *)

(* request(): what is asked for is what is configured, of a server that has not answered. *)
LEMMA RequestSucceeds == ASSUME Inv, Inv', Succeeds, Request PROVE Succeeds'
<1> DEFINE size    == IF Reading THEN 0 ELSE RequestedTransferSize(client.file)
           options == RequestOptions(client.config, setup.client.additional, size)
           packet  == EncodeRequest(IF Reading THEN "RRQ" ELSE "WRQ", setup.client.name, setup.client.mode, options)
           f       == Fresh(client)
           told    == IF client.config.transferSize THEN size ELSE f.transferSize
           p       == [f EXCEPT !.packet = packet, !.requested = options, !.transferSize = told]
<1>1. TypeOK /\ Conversation   BY DEF Inv
<1>2. /\ wire = Nothing /\ client.phase \in {"idle", "done"}
      /\ client' = p /\ wire' = [to |-> "dispatcher", cells |-> packet]
      /\ UNCHANGED setup
      /\ \/ round = 0 /\ server' = server
         \/ round > 0 /\ \E s \in SecondServers :
                server' = NewServer([s EXCEPT !.file = setup.server.file])
    BY DEF Request
<1>3. /\ Changes(client, f, {"phase", "status", "file", "dataSize", "lastTransmitted", "last",
                             "lastReceived", "asked", "announced"})
      /\ f.phase = "requested" /\ f.file = Started(client.file) /\ DOMAIN client = ClientFields
    BY <1>1, FreshOf DEF TypeOK
<1>4. client.file \in File(Cells) /\ (~Reading => client.file.operation = "Transmit")
  <2>1. OperationOK(client, setup.client.file)   BY <1>1 DEF TypeOK
  <2>2. ~Reading => setup.client.file.operation = "Transmit"   BY <1>1, SetupFacts DEF TypeOK, SourceFile
  <2> QED BY <2>1, <2>2 DEF OperationOK, SameFile
<1> HIDE DEF f, told, packet
<1>5. options = RequestOptions(client.config, setup.client.additional, size)   OBVIOUS
<1> HIDE DEF options
<1>6. /\ DOMAIN p = ClientFields /\ p.requested = options
      /\ \A n \in ClientFields \ {"packet", "requested", "transferSize"} : p[n] = f[n]
  <2>1. DOMAIN f = ClientFields   BY <1>3 DEF Changes
  <2> QED BY <2>1 DEF ClientFields, OperationFields
<1> HIDE DEF p
<1>7. /\ p.config = client.config /\ p.buffer = client.buffer /\ p.phase = "requested"
      /\ p.file = Started(client.file)
    BY <1>3, <1>6 DEF Changes, ClientFields, OperationFields
<1>8. wire' # Nothing'
  <2>1. wire'.to = "dispatcher" /\ Nothing'.to = "nobody"   BY <1>2 DEF Nothing
  <2> QED BY <2>1
<1>9. client'.phase = "requested"   BY <1>2, <1>7
<1>10. Reading' <=> Reading   BY <1>2 DEF Reading
<1>11. ~Reading => RequestedTransferSize(Started(client.file)) = RequestedTransferSize(client.file)
  <2>1. PICK file : file = client.file   OBVIOUS
  <2>2. file \in File(Cells) /\ (~Reading => file.operation = "Transmit")   BY <1>4, <2>1
  <2>3. ~Reading => RequestedTransferSize(Started(file)) = RequestedTransferSize(file)
      BY <2>2 DEF Started, RequestedTransferSize, File
  <2> QED BY <2>1, <2>3
<1>12. client'.requested = RequestOptions(client'.config, setup'.client.additional,
                               IF Reading' THEN 0 ELSE RequestedTransferSize(client'.file))
    BY <1>2, <1>5, <1>6, <1>7, <1>10, <1>11
<1>13. server'.phase = "idle" /\ PacketType(server'.packet) = "INVALID"
  <2>1. Asking'
      BY <1>2, <1>9 DEF Inv, Conversation, Idle, Answered, ServersTurn, ClientsTurn, ServersEnd, ClientsEnd,
                        OnWire, IsUnused
  <2>2. server'.phase = "idle" /\ server'.packet = <<>>   BY <2>1 DEF Asking, IsUnused
  <2> QED BY <2>2, NoType
<1>14. Smooth'
    BY <1>8, <1>9, <1>12, <1>13 DEF Smooth
<1>15. Unwrapped(client)' /\ Unwrapped(server)'
  <2>1. Unwrapped(client')   BY <1>2, <1>7 DEF Succeeds, Unwrapped, InRange
  <2>2. Unwrapped(server')
    <3>1. CASE server' = server   BY <3>1 DEF Succeeds, Unwrapped, InRange
    <3>2. CASE \E s \in SecondServers : server' = NewServer([s EXCEPT !.file = setup.server.file])
      <4>1. PICK s \in SecondServers : server' = NewServer([s EXCEPT !.file = setup.server.file])   BY <3>2
      <4>2. s \in ServerSetup   BY DataPathAssumption
      <4> QED BY <4>1, <4>2, NewOperationsUnwrapped
    <3> QED BY <1>2, <3>1, <3>2
  <2> QED BY <2>1, <2>2 DEF Unwrapped, InRange
<1> QED BY <1>14, <1>15 DEF Succeeds

(* Every step leaves it so that legal transfers succeed. *)
LEMMA NextSucceeds ==
    ASSUME Inv, Inv', OackFits, Succeeds, [Next]_vars
    PROVE  Succeeds'
<1>1. CASE UNCHANGED vars
  <2>1. UNCHANGED <<setup, round, client, server, wire>>   BY <1>1 DEF vars
  <2>2. /\ (Unwrapped(client))' <=> Unwrapped(client)
        /\ (Unwrapped(server))' <=> Unwrapped(server)
      BY <2>1 DEF Unwrapped, InRange
  <2>3. Legal' <=> Legal   BY <2>1 DEF Legal, Fits, Source, Sink, Reading, InRange
  <2>4. Smooth' <=> Smooth   BY <2>1 DEF Smooth, Acceptable, AcceptableSize, Reading, Nothing
  <2> QED BY <2>2, <2>3, <2>4 DEF Succeeds
<1>2. CASE Request   BY <1>2, RequestSucceeds
<1>3. CASE \/ RefuseOack \/ AcceptOack \/ RefusePlain \/ ClientStores \/ ClientSupplies
           \/ ClientSucceeds \/ ClientError \/ ClientInvalid \/ ClientTimesOut
  <2>1. Configurations   BY <1>3, ClientKeeps DEF Inv
  <2>2. Legal => AcceptOack \/ ClientStores \/ ClientSupplies \/ ClientSucceeds   BY <1>3, Excluded
  <2>3. Legal => Smooth'   BY <2>2, ClientSmooth
  <2> QED BY <2>1, <2>3, SucceedsStays
<1>4. CASE \/ IgnoredRequest \/ StartRead \/ StartWrite \/ ServerStores \/ ServerSupplies
           \/ ServerSucceeds \/ ServerError \/ ServerInvalid
  <2>1. Configurations   BY <1>4, ServerKeeps
  <2>2. Legal => StartRead \/ StartWrite \/ ServerStores \/ ServerSupplies \/ ServerSucceeds   BY <1>4, Excluded
  <2>3. Legal => Smooth'   BY <2>2, StartReadSmooth, StartWriteSmooth, ServerSmooth
  <2> QED BY <2>1, <2>3, SucceedsStays
<1> QED BY <1>1, <1>2, <1>3, <1>4 DEF Next

(* Nothing has been asked for. *)
LEMMA InitSucceeds == ASSUME Init PROVE Succeeds
<1>1. /\ setup \in Setups /\ client = NewClient(setup) /\ server = NewServer(setup.server)
      /\ Idle
  <2>1. Inv   BY InitHolds
  <2>2. round = 0 /\ client = NewClient(setup) /\ server = NewServer(setup.server) /\ setup \in Setups
      BY DEF Init
  <2>3. ~(0 > 0)   OBVIOUS
  <2> QED BY <2>1, <2>2, <2>3 DEF Inv, Conversation, Asking, Answered, ServersTurn, ClientsTurn, ServersEnd, ClientsEnd
<1>2. client.phase = "idle" /\ server.phase = "idle"   BY <1>1 DEF Idle, IsUnused
<1>3. Smooth   BY <1>2 DEF Smooth
<1> QED BY <1>1, <1>3, NewOperationsUnwrapped DEF Succeeds

(* request() of the client, start() of the server: two sides of this library that are configured *)
(* within the ranges of the RFCs complete a transfer, whatever else they are configured to, if    *)
(* what the server answers fits a packet of the default size.                                      *)
THEOREM LegalTransfersSucceed == Spec /\ []OackFits => []LegalTransferSucceeds
<1>1. Inv /\ Succeeds => LegalTransferSucceeds
  <2>1. SUFFICES ASSUME Inv, Succeeds, Settled, Legal
                 PROVE  client.status = "Successful" /\ server.status = "Successful"
      BY DEF LegalTransferSucceeds, Legal
  <2>2. Smooth   BY <2>1 DEF Succeeds
  <2>3. wire = Nothing /\ client.phase = "done"   BY <2>1 DEF Settled
  <2>4. ClientsEnd
      BY <2>1, <2>3 DEF Inv, Conversation, Idle, Asking, Answered, ServersTurn, ClientsTurn, ServersEnd,
                        IsRequest, OnWire, Nothing, Transferring
  <2> QED BY <2>2, <2>3, <2>4 DEF Smooth, ClientsEnd
<1>2. Init => Succeeds   BY InitSucceeds
<1>3. Inv /\ Inv' /\ OackFits /\ Succeeds /\ [Next]_vars => Succeeds'   BY NextSucceeds
<1> QED BY <1>1, <1>2, <1>3, Invariant, PTL DEF Spec

-----------------------------------------------------------------------------
(* A server that adds no options *)

(* The OACK of a server that adds nothing of its own fits. *)
OackFitsUnlessAdded == server.extra = "none" => OackFits

(* The options of the library fit. *)
LEMMA LibraryOptionsFit ==
    ASSUME NEW options, IsOptions(options), DOMAIN options \subseteq KnownOptions
    PROVE  Len(EncodeOack(options)) <= HeaderSize + DefaultDataSize
<1> DEFINE body == RawOptions(options)  code == Opcodes["OACK"]
<1>1. Encodes(body, options, Len(OrderedNames)) /\ Len(body) <= 12   BY RawEncodes
<1>2. body \in Cells /\ Len(body) \in Nat   BY <1>1 DEF Encodes, Cells
<1>3. code \in Nat   BY OpcodesAreCells DEF Types
<1>4. EncodeOack(options) = <<code>> \o body   BY DEF EncodeOack
<1> HIDE DEF body, code
<1>5. Len(EncodeOack(options)) = 1 + Len(body)   BY <1>2, <1>3, <1>4, PacketOf
<1> QED BY <1>1, <1>2, <1>5, PacketAssumption, OptionAssumption

(* Of a server that adds nothing, the answer has the options of the library. *)
LEMMA NothingAdded ==
    ASSUME server.extra = "none", NEW size
    PROVE  DOMAIN ServerOptions(server.config, ClientOptions, AdditionalOptions, size) \subseteq KnownOptions
<1>1. AdditionalOptions = NoOptions   BY DEF AdditionalOptions
<1>2. DOMAIN NoOptions = {}   BY DEF NoOptions
<1>3. \A options, name, value : DOMAIN WithOption(options, name, value) \subseteq DOMAIN options \cup {name}
    BY DEF WithOption
<1>4. \A options, a, b, c :
        DOMAIN WithOptions(options, a, b, c) \subseteq DOMAIN options \cup {"blksize", "timeout", "tsize"}
  <2> TAKE options, a, b, c
  <2> DEFINE x == WithOption(options, "blksize", a)  y == WithOption(x, "timeout", b)
  <2>1. DOMAIN x \subseteq DOMAIN options \cup {"blksize"}   BY <1>3
  <2>2. DOMAIN y \subseteq DOMAIN x \cup {"timeout"}   BY <1>3
  <2>3. DOMAIN WithOption(y, "tsize", c) \subseteq DOMAIN y \cup {"tsize"}   BY <1>3
  <2>4. WithOptions(options, a, b, c) = WithOption(y, "tsize", c)   BY DEF WithOptions
  <2> HIDE DEF x, y
  <2> QED BY <2>1, <2>2, <2>3, <2>4
<1> QED BY <1>1, <1>2, <1>4 DEF ServerOptions, KnownOptions

(* Errors and acknowledgements are no OACKs. *)
LEMMA NoOacks ==
    /\ \A code \in ErrorCodes : PacketType(EncodeError(code)) = "ERROR"
    /\ \A block \in Nat : PacketType(EncodeAck(block)) = "ACK"
<1>1. 0 \in Nat /\ 0 <= 1   OBVIOUS
<1> QED BY <1>1, ErrorIsDecoded, AckIsDecoded

(* start() of a server that sends *)
LEMMA StartReadFits == ASSUME Inv, server.extra = "none", StartRead PROVE OackFits'
<1> DEFINE a == Answering
           size    == RequestedTransferSize(server.file)
           options == ServerOptions(server.config, ClientOptions, AdditionalOptions, size)
           oack    == [a EXCEPT !.lastReceived = MaxBlock, !.packet = EncodeOack(options)]
           data    == SendData(a)
           error   == Refused(a, "TftpOptionRefused", "TransferError")
<1>1. /\ wire.to = "dispatcher" /\ RequestPacket.type = "RRQ"
      /\ server' = error \/ server' = data \/ server' = oack
    BY DEF StartRead, ServerSends
<1>2. /\ Asking /\ TypeOK /\ Reading /\ IsOptions(RequestPacket.options)
      /\ DOMAIN a = ServerFields /\ IsOperation(a) /\ OperationOK(a, setup.server.file)
      /\ a.file.position = 0
  <2>1. RequestPacket.type = RequestType   BY <1>1, AnsweringStands
  <2>2. Reading   BY <1>1, <2>1 DEF RequestType
  <2> QED BY <1>1, <2>2, AnsweringStands
<1>3. size \in Nat \cup {None}   BY <1>2, FilesOf DEF Source
<1>4. IsOptions(options)   BY <1>2, <1>3, ServerOptionsOf DEF Asking
<1>5. DOMAIN options \subseteq KnownOptions   BY NothingAdded
<1> HIDE DEF a, options
<1>6. PacketType(error.packet) = "ERROR"
  <2>1. "TftpOptionRefused" \in ErrorCodes   BY DEF ErrorCodes
  <2>2. error.packet = EncodeError("TftpOptionRefused")   BY <1>2, <2>1, RefusedOf
  <2> QED BY <2>1, <2>2, NoOacks
<1>7. PacketType(data.packet) = "DATA"
  <2>1. a.file.position <= Len(a.file.content)   BY <1>2 DEF OperationOK, File, Cells
  <2> QED BY <1>2, <2>1, SendsData
<1>8. oack.packet = EncodeOack(options)   BY <1>2 DEF IsOperation, OperationFields
<1>9. Len(oack.packet) <= HeaderSize + DefaultDataSize   BY <1>4, <1>5, <1>8, LibraryOptionsFit
<1> HIDE DEF oack, data, error
<1> QED BY <1>1, <1>6, <1>7, <1>9 DEF OackFits

(* start() of a server that receives *)
LEMMA StartWriteFits == ASSUME Inv, server.extra = "none", StartWrite PROVE OackFits'
<1> DEFINE a == Answering
           size    == ClientOptions.transferSize
           options == ServerOptions(server.config, ClientOptions, AdditionalOptions, size)
           told    == IF SizeIsHandled THEN size ELSE a.announced
           o       == [a EXCEPT !.announced = told]
           ack     == [o EXCEPT !.packet = EncodeAck(0)]
           oack    == [o EXCEPT !.packet = EncodeOack(options)]
           error   == Refused(a, "DiskFullOrAllocationExceeds", "TransferError")
<1>1. /\ wire.to = "dispatcher" /\ RequestPacket.type = "WRQ"
      /\ server' = error \/ server' = ack \/ server' = oack
    BY DEF StartWrite, ServerSends
<1>2. /\ Asking /\ TypeOK /\ IsOptions(RequestPacket.options)
      /\ DOMAIN a = ServerFields /\ IsOperation(a) /\ OperationOK(a, setup.server.file)
    BY <1>1, AnsweringStands
<1>3. size \in Nat \cup {None}   BY OptionsRead DEF ClientOptions, TftpOptions
<1>4. IsOptions(options)   BY <1>2, <1>3, ServerOptionsOf DEF Asking
<1>5. DOMAIN options \subseteq KnownOptions   BY NothingAdded
<1> HIDE DEF a, options, told
<1>6. PacketType(error.packet) = "ERROR"
  <2>1. "DiskFullOrAllocationExceeds" \in ErrorCodes   BY DEF ErrorCodes
  <2>2. error.packet = EncodeError("DiskFullOrAllocationExceeds")   BY <1>2, <2>1, RefusedOf
  <2> QED BY <2>1, <2>2, NoOacks
<1>7. ack.packet = EncodeAck(0) /\ oack.packet = EncodeOack(options)
    BY <1>2 DEF IsOperation, OperationFields
<1>8. PacketType(ack.packet) = "ACK"
  <2>1. 0 \in Nat   OBVIOUS
  <2> QED BY <1>7, <2>1, NoOacks
<1>9. Len(oack.packet) <= HeaderSize + DefaultDataSize   BY <1>4, <1>5, <1>7, LibraryOptionsFit
<1> HIDE DEF oack, ack, error
<1> QED BY <1>1, <1>6, <1>8, <1>9 DEF OackFits

(* During the transfer no OACK is sent. *)
LEMMA TransferFits ==
    ASSUME Inv, ServerStores \/ ServerSupplies \/ ServerSucceeds \/ ServerError \/ ServerInvalid
    PROVE  server'.packet = server.packet \/ PacketType(server'.packet) # "OACK"
<1>1. /\ TypeOK /\ Conversation /\ wire.to = "server" /\ server.phase = "transfer"
      /\ IsOperation(server) /\ OperationOK(server, setup.server.file)
  <2>1. TypeOK /\ Conversation   BY DEF Inv
  <2>2. IsOperation(server) /\ OperationOK(server, setup.server.file)   BY <2>1, FilesOf
  <2> QED BY <2>1, <2>2
      DEF ServerStores, ServerSupplies, ServerSucceeds, ServerError, ServerInvalid, ServerReceives
<1>2. ASSUME NEW o, IsOperation(o), o.packet = server.packet, o.file \in File(Cells), NEW status,
             server' = Finish(o, status)
      PROVE  server'.packet = server.packet
    BY <1>2, FinishOf DEF Changes, IsOperation, OperationFields
<1>3. CASE ServerStores
  <2>1. /\ server' = Store(server, ServerPacket) /\ ServerPacket.type = "DATA"
        /\ ServerPacket.block = NextBlock(server.lastReceived)
      BY <1>3 DEF ServerStores, ServerReceives, ServerSends
  <2>2. /\ ~Reading /\ Transferring /\ Supplied(client) /\ Hears(client, server, ServerPacket)
    <3>1. /\ ServerPacket # InvalidPacket /\ ServerPacket.type # "ERROR"
          /\ ~\E block \in BlockNumbers : ServerPacket = [type |-> "ACK", block |-> block]
        BY <2>1 DEF InvalidPacket
    <3> QED BY <1>1, <3>1, ServerHears
  <2>3. /\ IsOperation(client) /\ OperationOK(client, setup.client.file)
        /\ client.file.content = Original /\ setup.server.file.operation = "Receive"
    <3>1. setup.server.file.operation = "Receive"   BY <1>1, <2>2, SetupFacts DEF TypeOK, SinkFile
    <3> QED BY <1>1, <2>2, <3>1, FilesOf DEF Source
  <2>4. IsAck(server')
    <3>1. client.dataSize = server.dataSize   BY <2>2 DEF Transferring
    <3> QED BY <1>1, <2>1, <2>2, <2>3, <3>1, StoresNext
  <2> QED BY <2>4, NextIsBlock, NoOacks DEF IsAck
<1>4. ASSUME ServerPacket.type = "ACK"
      PROVE  LET a == Acknowledged(server, ServerPacket) IN
             /\ IsOperation(a) /\ OperationOK(a, setup.server.file) /\ a.packet = server.packet
             /\ a.file = server.file /\ a.file \in File(Cells)
             /\ ~server.last => server.file.position <= Len(server.file.content)
  <2>1. /\ ServerPacket.block \in BlockNumbers /\ Reading
        /\ Ready(server, client) \/ server.last
      BY <1>1, <1>4, ServerHearsAck DEF IsOver
  <2> DEFINE a == Acknowledged(server, ServerPacket)
  <2>2. Changes(server, a, {"lastReceived"}) /\ OperationOK(a, setup.server.file)
      BY <1>1, <2>1, AcknowledgedOf
  <2> HIDE DEF a
  <2>3. IsOperation(a) /\ a.packet = server.packet /\ a.file = server.file
      BY <1>1, <2>2 DEF Changes, IsOperation, OperationFields
  <2>4. server.file.content = Original   BY <1>1, <2>1, FilesOf DEF Source
  <2>5. ~server.last => server.file.position <= Len(server.file.content)
      BY <2>1, <2>4 DEF Ready, Supplied
  <2> QED BY <2>2, <2>3, <2>5 DEF a, OperationOK
<1>5. CASE ServerSupplies
  <2>1. /\ server' = SendData(Acknowledged(server, ServerPacket)) /\ ServerPacket.type = "ACK" /\ ~server.last
      BY <1>5 DEF ServerSupplies, ServerReceives, ServerSends
  <2> DEFINE a == Acknowledged(server, ServerPacket)
  <2>2. IsOperation(a) /\ OperationOK(a, setup.server.file) /\ a.file.position <= Len(a.file.content)
      BY <1>4, <2>1
  <2> HIDE DEF a
  <2>3. PacketType(SendData(a).packet) = "DATA"   BY <2>2, SendsData
  <2> QED BY <2>1, <2>3 DEF a
<1>6. CASE ServerSucceeds
  <2>1. ServerPacket.type = "ACK" /\ server' = Finish(Acknowledged(server, ServerPacket), "Successful")
      BY <1>6 DEF ServerSucceeds, ServerReceives, ServerEnds
  <2> QED BY <1>2, <1>4, <2>1
<1>7. CASE ServerError
  <2>1. \E status : server' = Finish(server, status)   BY <1>7 DEF ServerError, ServerEnds
  <2>2. server.file \in File(Cells)   BY <1>1 DEF OperationOK
  <2> QED BY <1>1, <1>2, <2>1, <2>2
<1>8. CASE ServerInvalid
  <2>1. server' = Refused(server, "IllegalTftpOperation", "TransferError")   BY <1>8 DEF ServerInvalid, ServerSends
  <2>2. "IllegalTftpOperation" \in ErrorCodes   BY DEF ErrorCodes
  <2>3. server'.packet = EncodeError("IllegalTftpOperation")   BY <1>1, <2>1, <2>2, RefusedOf
  <2> QED BY <2>2, <2>3, NoOacks
<1> QED BY <1>3, <1>5, <1>6, <1>7, <1>8

(* request(): the server of it has not answered yet. *)
LEMMA RequestFits == ASSUME Inv, Inv', Request PROVE OackFits'
<1>1. /\ round' = round + 1 /\ wire'.to = "dispatcher"
    BY DEF Request
<1>2. Asking'
  <2>1. Conversation'   BY DEF Inv
  <2>2. wire' # Nothing'
    <3>1. Nothing'.to = "nobody"   BY DEF Nothing
    <3> QED BY <1>1, <3>1
  <2> QED BY <1>1, <2>1, <2>2
      DEF Conversation, Idle, Answered, ServersTurn, ClientsTurn, ServersEnd, ClientsEnd, OnWire
<1>3. server'.packet = <<>>   BY <1>2 DEF Asking, IsUnused
<1> QED BY <1>3, NoType DEF OackFits

(* Every step leaves it so that the OACK of a server that adds nothing fits. *)
LEMMA NextFits ==
    ASSUME Inv, Inv', OackFitsUnlessAdded, [Next]_vars
    PROVE  OackFitsUnlessAdded'
<1>1. CASE UNCHANGED vars
  <2>1. server' = server   BY <1>1 DEF vars
  <2> QED BY <2>1 DEF OackFitsUnlessAdded, OackFits
<1>2. CASE Request   BY <1>2, RequestFits DEF OackFitsUnlessAdded
<1>3. CASE \/ RefuseOack \/ AcceptOack \/ RefusePlain \/ ClientStores \/ ClientSupplies
           \/ ClientSucceeds \/ ClientError \/ ClientInvalid \/ ClientTimesOut \/ IgnoredRequest
  <2>1. server' = server
      BY <1>3 DEF RefuseOack, AcceptOack, RefusePlain, ClientStores, ClientSupplies, ClientSucceeds,
                  ClientError, ClientInvalid, ClientTimesOut, IgnoredRequest, ClientSends, ClientEnds
  <2> QED BY <2>1 DEF OackFitsUnlessAdded, OackFits
<1>4. CASE StartRead \/ StartWrite
  <2>1. server'.extra = server.extra   BY <1>4, ServerKeeps DEF Configurations
  <2> QED BY <1>4, <2>1, StartReadFits, StartWriteFits DEF OackFitsUnlessAdded
<1>5. CASE ServerStores \/ ServerSupplies \/ ServerSucceeds \/ ServerError \/ ServerInvalid
  <2>1. server'.extra = server.extra   BY <1>5, ServerKeeps DEF Configurations
  <2>2. server'.packet = server.packet \/ PacketType(server'.packet) # "OACK"   BY <1>5, TransferFits
  <2> QED BY <2>1, <2>2 DEF OackFitsUnlessAdded, OackFits
<1> QED BY <1>1, <1>2, <1>3, <1>4, <1>5 DEF Next

(* start() of both operations: the options of the library fit an OACK of the default size, so that *)
(* one is only cut if the user of a server adds options to it.                                      *)
THEOREM LibraryOacksFit == Spec => []OackFitsUnlessAdded
<1>1. Init => OackFitsUnlessAdded
  <2> SUFFICES ASSUME Init PROVE OackFits
      BY DEF OackFitsUnlessAdded
  <2>1. Inv /\ round = 0   BY InitHolds DEF Init
  <2>2. Idle
    <3>1. ~(0 > 0)   OBVIOUS
    <3> QED BY <2>1, <3>1 DEF Inv, Conversation, Asking, Answered, ServersTurn, ClientsTurn, ServersEnd, ClientsEnd
  <2>3. server.packet = <<>>   BY <2>2 DEF Idle, IsUnused
  <2> QED BY <2>3, NoType DEF OackFits
<1>2. Inv /\ Inv' /\ OackFitsUnlessAdded /\ [Next]_vars => OackFitsUnlessAdded'   BY NextFits
<1> QED BY <1>1, <1>2, Invariant, PTL DEF Spec

(* The servers of tftp_server: transmitFile() and receiveFile() add no options. *)
NothingIsAdded ==
    /\ \A s \in Setups : s.server.extra = "none"
    /\ \A s \in SecondServers : s.extra = "none"

(* No server of them adds options. *)
LEMMA NeverAdded == ASSUME NothingIsAdded PROVE Spec => [](server.extra = "none")
<1>1. Init => server.extra = "none"
  <2> SUFFICES ASSUME Init PROVE server.extra = "none"
      OBVIOUS
  <2>1. setup \in Setups /\ server = NewServer(setup.server)   BY DEF Init
  <2>2. setup.server.configurations \in Seq(Configuration) /\ setup.server.file \in File(Cells)
      BY <2>1, SetupFacts
  <2>3. server.extra = setup.server.extra   BY <2>1, <2>2, NewServerOf
  <2> QED BY <2>1, <2>3 DEF NothingIsAdded
<1>2. Inv /\ server.extra = "none" /\ [Next]_vars => (server.extra = "none")'
  <2> SUFFICES ASSUME Inv, server.extra = "none", [Next]_vars PROVE (server.extra = "none")'
      OBVIOUS
  <2>1. CASE UNCHANGED vars   BY <2>1 DEF vars
  <2>2. CASE Request
    <3>1. CASE server' = server   BY <3>1
    <3>2. CASE \E s \in SecondServers : server' = NewServer([s EXCEPT !.file = setup.server.file])
      <4>1. PICK s \in SecondServers : server' = NewServer([s EXCEPT !.file = setup.server.file])   BY <3>2
      <4> DEFINE t == [s EXCEPT !.file = setup.server.file]
      <4>2. setup.server.file \in File(Cells)   BY SetupFacts DEF Inv, TypeOK
      <4>3. s \in ServerSetup /\ s.extra = "none"   BY DataPathAssumption DEF NothingIsAdded
      <4>4. t.configurations \in Seq(Configuration) /\ t.file \in File(Cells) /\ t.extra = "none"
          BY <4>2, <4>3 DEF ServerSetup
      <4> HIDE DEF t
      <4>5. NewServer(t).extra = "none"   BY <4>4, NewServerOf
      <4> QED BY <4>1, <4>5 DEF t
    <3> QED BY <2>2, <3>1, <3>2 DEF Request
  <2>3. CASE \/ RefuseOack \/ AcceptOack \/ RefusePlain \/ ClientStores \/ ClientSupplies
             \/ ClientSucceeds \/ ClientError \/ ClientInvalid \/ ClientTimesOut
      BY <2>3, ClientKeeps DEF Inv, Configurations
  <2>4. CASE \/ IgnoredRequest \/ StartRead \/ StartWrite \/ ServerStores \/ ServerSupplies
             \/ ServerSucceeds \/ ServerError \/ ServerInvalid
      BY <2>4, ServerKeeps DEF Configurations
  <2> QED BY <2>1, <2>2, <2>3, <2>4 DEF Next
<1> QED BY <1>1, <1>2, Invariant, PTL DEF Spec

(* transmitFile(), receiveFile(): with the server of this repository a legal transfer succeeds, and *)
(* a packet that is cut is rejected, whatever the client asks for.                                   *)
THEOREM ApplicationTransfersSucceed ==
    ASSUME NothingIsAdded
    PROVE  Spec => []LegalTransferSucceeds /\ CutPacketIsRejected
<1>1. OackFitsUnlessAdded /\ server.extra = "none" => OackFits   BY DEF OackFitsUnlessAdded
<1> QED BY <1>1, LibraryOacksFit, NeverAdded, LegalTransfersSucceed, CutPacketsAreRejected, PTL

=============================================================================
