--------------------------- MODULE SequenceFacts ----------------------------
(***************************************************************************)
(* What the proofs need of numbers and sequences and the library does not  *)
(* state in a form the provers can instantiate: induction over the         *)
(* naturals, as a fact about a set of them, that functions defined by      *)
(* recursion exist, and what FlattenSeq makes of a sequence of sequences.  *)
(***************************************************************************)
EXTENDS Integers, SequencesExt, SequenceTheorems, WellFoundedInduction, TLAPS

\* A set of naturals that is not empty has a least one.
LEMMA LeastNat ==
  ASSUME NEW T, T \subseteq Nat, T # {}
  PROVE  \E n \in T : \A m \in T : n <= m
<1> DEFINE R == OpToRel(<, Nat)
<1>1. \E x \in T : \A y \in T : ~ (<<y, x>> \in R)
  <2>1. IsWellFoundedOn(R, Nat)
    BY NatLessThanWellFounded
  <2> HIDE DEF R
  <2> QED
    BY <2>1, WFMin, Zenon
<1>2. \A x, y \in Nat : y < x => <<y, x>> \in R
  BY DEF OpToRel
<1> HIDE DEF R
<1>3. PICK x \in T : \A y \in T : ~ (<<y, x>> \in R)
  BY <1>1
<1>4. \A y \in T : ~(y < x)
  BY <1>2, <1>3
<1> QED
  BY <1>4

\* Induction: a set that holds 0 and with each natural the next holds all.
LEMMA Induction ==
  ASSUME NEW S, 0 \in S, \A n \in Nat : n \in S => n + 1 \in S
  PROVE  \A n \in Nat : n \in S
<1> SUFFICES ASSUME Nat \ S # {} PROVE FALSE
  OBVIOUS
<1>1. PICK n \in Nat \ S : \A m \in Nat \ S : n <= m
  BY LeastNat
<1>2. n # 0 /\ n - 1 \in Nat
  BY <1>1
<1>3. n - 1 \in S
  BY <1>1, <1>2
<1> QED
  BY <1>1, <1>2, <1>3

\* A function up to N given by its value at 0 and the step to each next value.
Follows(f, N, v0, step) ==
  /\ f[0] = v0
  /\ \A n \in 0..(N - 1) : f[n + 1] = step[<<n, f[n]>>]

\* There is one, for any first value and any step.
LEMMA Recursion ==
  ASSUME NEW V, NEW v0 \in V, NEW step \in [Nat \X V -> V], NEW M \in Nat
  PROVE  \E f \in [0..M -> V] : Follows(f, M, v0, step)
<1> DEFINE Good(N, f) == Follows(f, N, v0, step)
           S == {N \in Nat : \E f \in [0..N -> V] : Good(N, f)}
<1>1. 0 \in S
  <2>1. [n \in 0..0 |-> v0] \in [0..0 -> V]
    OBVIOUS
  <2>2. Good(0, [n \in 0..0 |-> v0])
    BY DEF Follows
  <2> QED
    BY <2>1, <2>2
<1>2. ASSUME NEW N \in Nat, N \in S PROVE N + 1 \in S
  <2>1. PICK f \in [0..N -> V] : Good(N, f)
    BY <1>2
  <2> DEFINE g == [n \in 0..(N + 1) |-> IF n = N + 1 THEN step[<<N, f[N]>>] ELSE f[n]]
  <2>2. f[N] \in V /\ step[<<N, f[N]>>] \in V
    BY <2>1
  <2>3. g \in [0..(N + 1) -> V]
    BY <2>2
  <2>4. g[0] = v0
    BY <2>1 DEF Follows
  <2>5. ASSUME NEW n \in 0..N PROVE g[n + 1] = step[<<n, g[n]>>]
    <3>1. g[n] = f[n]
      OBVIOUS
    <3>2. CASE n = N
      <4>1. N + 1 \in 0..(N + 1) /\ g[N + 1] = step[<<N, f[N]>>]
        OBVIOUS
      <4> QED
        BY <3>1, <3>2, <4>1
    <3>3. CASE n # N
      <4>1. n \in 0..(N - 1) /\ n + 1 \in 0..N
        BY <3>3
      <4>2. g[n + 1] = f[n + 1]
        BY <4>1
      <4>3. f[n + 1] = step[<<n, f[n]>>]
        BY <2>1, <4>1 DEF Follows
      <4> QED
        BY <3>1, <4>2, <4>3
    <3> QED
      BY <3>2, <3>3
  <2>6. \A n \in 0..((N + 1) - 1) : g[n + 1] = step[<<n, g[n]>>]
    <3>1. (N + 1) - 1 = N
      OBVIOUS
    <3> HIDE DEF g
    <3> QED
      BY <2>5, <3>1, Zenon
  <2>7. N + 1 \in Nat
    OBVIOUS
  <2>8. Good(N + 1, g)
    BY <2>4, <2>6 DEF Follows
  <2> HIDE DEF g, Good
  <2> QED
    BY <2>3, <2>7, <2>8
<1> HIDE DEF S
<1>3. \A N \in Nat : N \in S
  BY <1>1, <1>2, Induction
<1> QED
  BY <1>3 DEF S

-----------------------------------------------------------------------------
(* Sequences, from their end.                                               *)

\* A set that holds the empty sequence and with each sequence all it is
\* continued to holds all sequences.
LEMMA AppendInduction ==
  ASSUME NEW S, NEW T, <<>> \in T,
         \A s \in Seq(S) : s \in T => \A e \in S : Append(s, e) \in T
  PROVE  \A s \in Seq(S) : s \in T
<1> DEFINE Lengths == {n \in Nat : \A s \in Seq(S) : Len(s) = n => s \in T}
<1>1. 0 \in Lengths
  BY EmptySeq
<1>2. ASSUME NEW n \in Nat, n \in Lengths PROVE n + 1 \in Lengths
  <2>1. ASSUME NEW s \in Seq(S), Len(s) = n + 1 PROVE s \in T
    <3> DEFINE f == SubSeq(s, 1, n)
    <3>1. s # <<>>
      BY <2>1
    <3>2. f \in Seq(S) /\ Len(f) = n /\ s[n + 1] \in S
      BY <2>1
    <3>3. s = Append(f, s[n + 1])
      BY <2>1
    <3> HIDE DEF f
    <3> QED
      BY <1>2, <3>2, <3>3
  <2> QED
    BY <2>1
<1> HIDE DEF Lengths
<1>3. \A n \in Nat : n \in Lengths
  BY <1>1, <1>2, Induction
<1> QED
  BY <1>3, LenProperties DEF Lengths

\* Every sequence is empty or continues another one.
LEMMA EmptyOrAppend ==
  ASSUME NEW S, NEW s \in Seq(S), s # <<>>
  PROVE  \E f \in Seq(S), e \in S : s = Append(f, e)
<1> DEFINE f == SubSeq(s, 1, Len(s) - 1)
<1>1. Len(s) \in Nat /\ Len(s) > 0 /\ s[Len(s)] \in S
  OBVIOUS
<1>2. f \in Seq(S) /\ s = Append(f, s[Len(s)])
  BY <1>1
<1> QED
  BY <1>1, <1>2

\* s ends in e.
Ends(e, s) ==
  /\ Len(e) <= Len(s)
  /\ \A i \in 1..Len(e) : s[(Len(s) - Len(e)) + i] = e[i]

LEMMA SuffixIsEnd ==
  ASSUME NEW S, NEW e \in Seq(S), NEW s \in Seq(S)
  PROVE  IsSuffix(e, s) <=> Ends(e, s)
<1> DEFINE re == Reverse(e)
           rs == Reverse(s)
<1>1. Len(e) \in Nat /\ Len(s) \in Nat
  OBVIOUS
<1>2. /\ re \in Seq(S) /\ Len(re) = Len(e) /\ \A i \in 1..Len(e) : re[i] = e[(Len(e) - i) + 1]
      /\ rs \in Seq(S) /\ Len(rs) = Len(s) /\ \A i \in 1..Len(s) : rs[i] = s[(Len(s) - i) + 1]
  BY DEF Reverse
<1>3. IsSuffix(e, s) <=>
        Len(re) <= Len(rs) /\ SubSeq(re, 1, Len(re)) = SubSeq(rs, 1, Len(re))
  BY DEF IsSuffix, IsPrefix
<1> HIDE DEF re, rs
<1>4. ASSUME Len(e) <= Len(s)
      PROVE  SubSeq(re, 1, Len(re)) = SubSeq(rs, 1, Len(re)) <=>
               \A i \in 1..Len(e) : re[i] = rs[i]
  <2>1. SubSeq(re, 1, Len(re)) = re
    BY <1>1, <1>2
  <2>2. /\ SubSeq(rs, 1, Len(re)) \in Seq(S)
        /\ Len(SubSeq(rs, 1, Len(re))) = Len(e)
        /\ \A i \in 1..Len(e) : SubSeq(rs, 1, Len(re))[i] = rs[i]
    BY <1>1, <1>2, <1>4
  <2> QED
    BY <1>2, <2>1, <2>2, SeqEqual
<1>5. ASSUME Len(e) <= Len(s)
      PROVE  (\A i \in 1..Len(e) : re[i] = rs[i]) <=>
             (\A i \in 1..Len(e) : s[(Len(s) - Len(e)) + i] = e[i])
  <2>1. ASSUME NEW i \in 1..Len(e)
        PROVE  /\ (Len(e) - i) + 1 \in 1..Len(e)
               /\ (Len(e) - ((Len(e) - i) + 1)) + 1 = i
               /\ re[(Len(e) - i) + 1] = e[i]
               /\ rs[(Len(e) - i) + 1] = s[(Len(s) - Len(e)) + i]
    <3>1. (Len(e) - i) + 1 \in 1..Len(e) /\ (Len(e) - ((Len(e) - i) + 1)) + 1 = i
      BY <1>1
    <3>2. (Len(e) - i) + 1 \in 1..Len(s)
          /\ (Len(s) - ((Len(e) - i) + 1)) + 1 = (Len(s) - Len(e)) + i
      BY <1>1, <1>5
    <3> QED
      BY <1>2, <3>1, <3>2
  <2> QED
    BY <2>1
<1> QED
  BY <1>2, <1>3, <1>4, <1>5 DEF Ends

\* Two sequences are taken back from their last elements.
LEMMA EndsAppend ==
  ASSUME NEW S, NEW x \in Seq(S), NEW y \in Seq(S), NEW d \in S, NEW e \in S
  PROVE  Ends(Append(x, d), Append(y, e)) <=> d = e /\ Ends(x, y)
<1> DEFINE u == Append(x, d)
           v == Append(y, e)
<1>1. /\ u \in Seq(S) /\ Len(u) = Len(x) + 1 /\ u[Len(x) + 1] = d
      /\ \A i \in 1..Len(x) : u[i] = x[i]
      /\ v \in Seq(S) /\ Len(v) = Len(y) + 1 /\ v[Len(y) + 1] = e
      /\ \A i \in 1..Len(y) : v[i] = y[i]
      /\ Len(x) \in Nat /\ Len(y) \in Nat
  OBVIOUS
<1> HIDE DEF u, v
<1>2. ASSUME Len(x) <= Len(y), NEW i \in 1..Len(x)
      PROVE  (Len(v) - Len(u)) + i \in 1..Len(y)
             /\ v[(Len(v) - Len(u)) + i] = y[(Len(y) - Len(x)) + i]
  <2>1. (Len(v) - Len(u)) + i = (Len(y) - Len(x)) + i /\ (Len(y) - Len(x)) + i \in 1..Len(y)
    <3> DEFINE ly == Len(y)
               lx == Len(x)
    <3>1. lx \in Nat /\ ly \in Nat /\ lx <= ly /\ i \in 1..lx /\ Len(v) = ly + 1 /\ Len(u) = lx + 1
      BY <1>1, <1>2
    <3> HIDE DEF lx, ly
    <3>2. (Len(v) - Len(u)) + i = (ly - lx) + i /\ (ly - lx) + i \in 1..ly
      BY <3>1
    <3> QED
      BY <3>2 DEF lx, ly
  <2> QED
    BY <1>1, <2>1
<1>3. Len(x) <= Len(y) => v[(Len(v) - Len(u)) + (Len(x) + 1)] = e
  BY <1>1
<1>4. ASSUME Ends(u, v) PROVE d = e /\ Ends(x, y)
  <2>1. Len(x) <= Len(y) /\ Len(x) + 1 \in 1..Len(u) /\ \A i \in 1..Len(x) : i \in 1..Len(u)
    BY <1>1, <1>4 DEF Ends
  <2>2. d = e
    BY <1>1, <1>3, <1>4, <2>1 DEF Ends
  <2>3. \A i \in 1..Len(x) : y[(Len(y) - Len(x)) + i] = x[i]
    BY <1>1, <1>2, <1>4, <2>1 DEF Ends
  <2> QED
    BY <2>1, <2>2, <2>3 DEF Ends
<1>5. ASSUME d = e, Ends(x, y) PROVE Ends(u, v)
  <2>1. Len(x) <= Len(y) /\ Len(u) <= Len(v)
    BY <1>1, <1>5 DEF Ends
  <2>2. ASSUME NEW i \in 1..Len(u) PROVE v[(Len(v) - Len(u)) + i] = u[i]
    <3>1. CASE i = Len(x) + 1
      BY <1>1, <1>3, <1>5, <2>1, <3>1
    <3>2. CASE i # Len(x) + 1
      <4>1. i \in 1..Len(x)
        BY <1>1, <3>2
      <4> QED
        BY <1>1, <1>2, <1>5, <2>1, <4>1 DEF Ends
    <3> QED
      BY <3>1, <3>2
  <2> QED
    BY <2>1, <2>2 DEF Ends
<1> QED
  BY <1>4, <1>5 DEF u, v

\* An element that is appended to the last of two sequences is appended to both.
LEMMA ConcatAppend ==
  ASSUME NEW S, NEW s \in Seq(S), NEW t \in Seq(S), NEW e \in S
  PROVE  s \o Append(t, e) = Append(s \o t, e)
<1> DEFINE one == <<e>>
           both == s \o t
<1>1. one \in Seq(S)
  OBVIOUS
<1>2. both \in Seq(S)
  BY ConcatProperties
<1> HIDE DEF one, both
<1>3. Append(t, e) = t \o one /\ Append(both, e) = both \o one
  BY <1>2, AppendIsConcat DEF one
<1>4. (s \o t) \o one = s \o (t \o one)
  BY <1>1, ConcatAssociative
<1> QED
  BY <1>3, <1>4 DEF both

\* What s ends in is what something is put before to make s.
LEMMA EndsIsConcat ==
  ASSUME NEW S, NEW e \in Seq(S), NEW s \in Seq(S)
  PROVE  Ends(e, s) <=> \E p \in Seq(S) : s = p \o e
<1>1. ASSUME Ends(e, s) PROVE \E p \in Seq(S) : s = p \o e
  <2> DEFINE m == Len(s) - Len(e)
             p == SubSeq(s, 1, m)
  <2>1. Len(e) \in Nat /\ Len(s) \in Nat /\ m \in 0..Len(s)
    BY <1>1 DEF Ends
  <2>2. p \in Seq(S) /\ Len(p) = m /\ \A i \in 1..m : p[i] = s[i]
    BY <2>1
  <2> HIDE DEF p
  <2>3. /\ p \o e \in Seq(S) /\ Len(p \o e) = Len(s)
        /\ \A i \in 1..Len(s) : (p \o e)[i] = IF i <= m THEN p[i] ELSE e[i - m]
    BY <2>1, <2>2, ConcatProperties
  <2>4. ASSUME NEW i \in 1..Len(s) PROVE (p \o e)[i] = s[i]
    <3>1. CASE i <= m
      BY <2>1, <2>2, <2>3, <3>1
    <3>2. CASE ~(i <= m)
      <4>1. i - m \in 1..Len(e) /\ m + (i - m) = i
        BY <2>1, <3>2
      <4>2. s[m + (i - m)] = e[i - m]
        BY <1>1, <4>1 DEF Ends
      <4> QED
        BY <2>3, <3>2, <4>1, <4>2
    <3> QED
      BY <3>1, <3>2
  <2>5. p \o e = s
    BY <2>3, <2>4, SeqEqual
  <2> QED
    BY <2>2, <2>5
<1>2. ASSUME NEW p \in Seq(S), s = p \o e PROVE Ends(e, s)
  <2>1. /\ Len(s) = Len(p) + Len(e) /\ Len(p) \in Nat /\ Len(e) \in Nat
        /\ \A i \in 1..Len(s) : s[i] = IF i <= Len(p) THEN p[i] ELSE e[i - Len(p)]
    BY <1>2, ConcatProperties
  <2>2. ASSUME NEW i \in 1..Len(e) PROVE s[(Len(s) - Len(e)) + i] = e[i]
    <3>1. (Len(s) - Len(e)) + i = Len(p) + i /\ Len(p) + i \in 1..Len(s)
          /\ ~(Len(p) + i <= Len(p)) /\ (Len(p) + i) - Len(p) = i
      BY <2>1
    <3> QED
      BY <2>1, <3>1
  <2> QED
    BY <2>1, <2>2 DEF Ends
<1> QED
  BY <1>1, <1>2

-----------------------------------------------------------------------------
(* FlattenSeq.                                                              *)

\* The function FlattenSeq is defined by: what the first parts make together.
Joined(seqs) ==
  CHOOSE f : f = [i \in 1..Len(seqs) |-> IF i = 1 THEN seqs[i] ELSE f[i - 1] \o seqs[i]]

LEMMA FlattenIsJoined ==
  ASSUME NEW seqs, Len(seqs) # 0
  PROVE  FlattenSeq(seqs) = Joined(seqs)[Len(seqs)]
BY DEF FlattenSeq, Joined

LEMMA JoinedByParts ==
  ASSUME NEW S, NEW seqs \in Seq(Seq(S)), Len(seqs) # 0
  PROVE  /\ Joined(seqs)[1] = seqs[1]
         /\ \A i \in 1..(Len(seqs) - 1) : Joined(seqs)[i + 1] = Joined(seqs)[i] \o seqs[i + 1]
<1> DEFINE N == Len(seqs) - 1
           step == [p \in Nat \X Seq(S) |->
                      IF p[1] + 2 \in 1..Len(seqs) THEN p[2] \o seqs[p[1] + 2] ELSE p[2]]
<1>1. N \in Nat /\ Len(seqs) \in Nat /\ seqs[1] \in Seq(S)
  OBVIOUS
<1>2. step \in [Nat \X Seq(S) -> Seq(S)]
  <2>1. ASSUME NEW p \in Nat \X Seq(S)
        PROVE  (IF p[1] + 2 \in 1..Len(seqs) THEN p[2] \o seqs[p[1] + 2] ELSE p[2]) \in Seq(S)
    <3>1. p[2] \in Seq(S)
      OBVIOUS
    <3>2. CASE p[1] + 2 \in 1..Len(seqs)
      <4>1. seqs[p[1] + 2] \in Seq(S)
        BY <3>2
      <4> QED
        BY <3>1, <3>2, <4>1, ConcatProperties
    <3> QED
      BY <3>1, <3>2
  <2> QED
    BY <2>1
<1> HIDE DEF step
<1>3. PICK g \in [0..N -> Seq(S)] : Follows(g, N, seqs[1], step)
  <2> DEFINE V == Seq(S)
             first == seqs[1]
  <2>1. first \in V /\ step \in [Nat \X V -> V]
    BY <1>1, <1>2
  <2> HIDE DEF V, first, N
  <2>2. \E g \in [0..N -> V] : Follows(g, N, first, step)
    BY <1>1, <2>1, Recursion, Zenon
  <2> QED
    BY <2>2 DEF V, first
<1>4. /\ g[0] = seqs[1]
      /\ \A n \in 0..(N - 1) : g[n + 1] = step[<<n, g[n]>>]
  BY <1>3 DEF Follows
<1> DEFINE h == [i \in 1..Len(seqs) |-> g[i - 1]]
           Eq(f) == f = [i \in 1..Len(seqs) |-> IF i = 1 THEN seqs[i] ELSE f[i - 1] \o seqs[i]]
<1>5. Eq(h)
  <2>1. ASSUME NEW i \in 1..Len(seqs)
        PROVE  h[i] = IF i = 1 THEN seqs[i] ELSE h[i - 1] \o seqs[i]
    <3>1. h[i] = g[i - 1]
      OBVIOUS
    <3>2. CASE i = 1
      BY <1>4, <3>1, <3>2
    <3>3. CASE i # 1
      <4>1. i - 2 \in 0..(N - 1) /\ (i - 2) + 1 = i - 1 /\ i - 1 \in 1..Len(seqs) /\ (i - 2) + 2 = i
        BY <1>1, <3>3
      <4>2. g[i - 1] = step[<<i - 2, g[i - 2]>>]
        BY <1>4, <4>1
      <4>3. g[i - 2] \in Seq(S) /\ i - 2 \in Nat
        BY <1>1, <3>3
      <4>4. step[<<i - 2, g[i - 2]>>] = g[i - 2] \o seqs[i]
        BY <4>1, <4>3 DEF step
      <4>5. h[i - 1] = g[i - 2]
        BY <4>1
      <4> QED
        BY <3>1, <3>3, <4>2, <4>4, <4>5
    <3> QED
      BY <3>2, <3>3
  <2> QED
    BY <2>1
<1> HIDE DEF Eq, h
<1>6. Eq(Joined(seqs))
  BY <1>5 DEF Joined, Eq
<1>7. \A i \in 1..Len(seqs) :
        Joined(seqs)[i] = IF i = 1 THEN seqs[i] ELSE Joined(seqs)[i - 1] \o seqs[i]
  BY <1>6 DEF Eq
<1> QED
  <2>1. Joined(seqs)[1] = seqs[1]
    BY <1>1, <1>7
  <2>2. ASSUME NEW i \in 1..(Len(seqs) - 1)
        PROVE  Joined(seqs)[i + 1] = Joined(seqs)[i] \o seqs[i + 1]
    <3>1. i + 1 \in 1..Len(seqs) /\ i + 1 # 1 /\ (i + 1) - 1 = i
      BY <1>1
    <3> QED
      BY <1>7, <3>1
  <2> QED
    BY <2>1, <2>2

\* Where the elements of t come from: at names a part for each, the parts come
\* in order, and none of the first m has an element that is left out.
Origins(at, t, seqs, m) ==
  /\ \A k \in 1..Len(t) : /\ at[k] \in 1..m
                          /\ \E n \in 1..Len(seqs[at[k]]) : t[k] = seqs[at[k]][n]
  /\ \A j, k \in 1..Len(t) : j < k => at[j] <= at[k]
  /\ \A i \in 1..m : \A n \in 1..Len(seqs[i]) : \E k \in 1..Len(t) : t[k] = seqs[i][n]

LEMMA OriginsOfOneMore ==
  ASSUME NEW S, NEW seqs \in Seq(Seq(S)), NEW m \in Nat, m < Len(seqs),
         NEW t \in Seq(S), NEW at, Origins(at, t, seqs, m)
  PROVE  \E more : Origins(more, t \o seqs[m + 1], seqs, m + 1)
<1> DEFINE part == seqs[m + 1]
           long == t \o part
           more == [k \in 1..(Len(t) + Len(part)) |-> IF k <= Len(t) THEN at[k] ELSE m + 1]
<1>1. m + 1 \in 1..Len(seqs) /\ part \in Seq(S)
  OBVIOUS
<1>2. /\ Len(long) = Len(t) + Len(part)
      /\ \A k \in 1..(Len(t) + Len(part)) :
           long[k] = IF k <= Len(t) THEN t[k] ELSE part[k - Len(t)]
  BY <1>1, ConcatProperties
<1>3. Len(t) \in Nat /\ Len(part) \in Nat
  BY <1>1
<1>4. \A k \in 1..(Len(t) + Len(part)) : more[k] = IF k <= Len(t) THEN at[k] ELSE m + 1
  OBVIOUS
<1>5. part = seqs[m + 1]
  OBVIOUS
<1> HIDE DEF part, long, more
<1>6. ASSUME NEW k \in 1..Len(long)
      PROVE  /\ more[k] \in 1..(m + 1)
             /\ \E n \in 1..Len(seqs[more[k]]) : long[k] = seqs[more[k]][n]
  <2>1. CASE k <= Len(t)
    <3>1. k \in 1..Len(t) /\ more[k] = at[k] /\ long[k] = t[k]
      BY <1>2, <1>3, <1>4, <2>1
    <3> QED
      BY <3>1 DEF Origins
  <2>2. CASE ~(k <= Len(t))
    <3>1. more[k] = m + 1 /\ long[k] = part[k - Len(t)] /\ k - Len(t) \in 1..Len(part)
      BY <1>2, <1>3, <1>4, <2>2
    <3> QED
      BY <3>1, <1>5
  <2> QED
    BY <2>1, <2>2
<1>7. ASSUME NEW j \in 1..Len(long), NEW k \in 1..Len(long), j < k
      PROVE  more[j] <= more[k]
  <2>1. CASE k <= Len(t)
    <3>1. j \in 1..Len(t) /\ k \in 1..Len(t) /\ more[k] = at[k] /\ more[j] = at[j]
      BY <1>2, <1>3, <1>4, <1>7, <2>1
    <3> QED
      BY <1>7, <3>1 DEF Origins
  <2>2. CASE ~(k <= Len(t))
    <3>1. more[k] = m + 1 /\ more[j] \in 1..(m + 1)
      BY <1>2, <1>3, <1>4, <1>6, <2>2
    <3> QED
      BY <3>1
  <2> QED
    BY <2>1, <2>2
<1>8. ASSUME NEW i \in 1..(m + 1), NEW n \in 1..Len(seqs[i])
      PROVE  \E k \in 1..Len(long) : long[k] = seqs[i][n]
  <2>1. CASE i = m + 1
    <3>1. n \in 1..Len(part)
      BY <1>5, <2>1
    <3>2. Len(t) + n \in 1..Len(long) /\ ~(Len(t) + n <= Len(t)) /\ (Len(t) + n) - Len(t) = n
      BY <1>2, <1>3, <3>1
    <3>3. long[Len(t) + n] = part[n]
      BY <1>2, <3>2
    <3> QED
      BY <1>5, <2>1, <3>2, <3>3
  <2>2. CASE i # m + 1
    <3>1. i \in 1..m
      BY <2>2
    <3>2. PICK k \in 1..Len(t) : t[k] = seqs[i][n]
      BY <3>1 DEF Origins
    <3>3. k \in 1..Len(long) /\ long[k] = t[k]
      BY <1>2, <1>3
    <3> QED
      BY <3>2, <3>3
  <2> QED
    BY <2>1, <2>2
<1>9. Origins(more, long, seqs, m + 1)
  BY <1>6, <1>7, <1>8 DEF Origins
<1> QED
  BY <1>9 DEF long, part

\* FlattenSeq yields the elements of the parts, in the order of the parts.
LEMMA FlattenProperties ==
  ASSUME NEW S, NEW seqs \in Seq(Seq(S))
  PROVE  /\ FlattenSeq(seqs) \in Seq(S)
         /\ \E at : Origins(at, FlattenSeq(seqs), seqs, Len(seqs))
<1>1. CASE Len(seqs) = 0
  <2>1. FlattenSeq(seqs) = seqs /\ seqs = <<>>
    BY <1>1 DEF FlattenSeq
  <2>2. Origins(<<>>, <<>>, seqs, 0)
    BY DEF Origins
  <2> QED
    BY <1>1, <2>1, <2>2
<1>2. CASE Len(seqs) # 0
  <2> DEFINE f == Joined(seqs)
             Right(m) == f[m] \in Seq(S) /\ \E at : Origins(at, f[m], seqs, m)
             Up == {m \in Nat : m + 1 \in 1..Len(seqs) => Right(m + 1)}
  <2>1. f[1] = seqs[1] /\ \A i \in 1..(Len(seqs) - 1) : f[i + 1] = f[i] \o seqs[i + 1]
    BY <1>2, JoinedByParts
  <2>2. Len(seqs) \in Nat /\ seqs[1] \in Seq(S)
    BY <1>2
  <2> HIDE DEF f
  <2>3. Right(1)
    <3>1. Origins(<<>>, <<>>, seqs, 0)
      BY DEF Origins
    <3>2. <<>> \in Seq(S) /\ <<>> \o seqs[1] = seqs[1]
      BY <2>2
    <3>3. 0 + 1 = 1 /\ 0 < Len(seqs) /\ 0 \in Nat
      BY <1>2, <2>2
    <3>4. \E at : Origins(at, <<>> \o seqs[0 + 1], seqs, 0 + 1)
      BY <3>1, <3>2, <3>3, OriginsOfOneMore
    <3> QED
      BY <2>1, <2>2, <3>2, <3>3, <3>4
  <2>4. 0 \in Up
    BY <2>3
  <2>5. ASSUME NEW m \in Nat, m \in Up PROVE m + 1 \in Up
    <3>1. SUFFICES ASSUME (m + 1) + 1 \in 1..Len(seqs) PROVE Right((m + 1) + 1)
      OBVIOUS
    <3> DEFINE i == m + 1
    <3>2. i \in 1..(Len(seqs) - 1) /\ i \in Nat /\ i < Len(seqs)
      BY <3>1, <2>2
    <3>3. Right(i)
      BY <2>5, <3>2
    <3> HIDE DEF i
    <3>4. f[i + 1] = f[i] \o seqs[i + 1] /\ seqs[i + 1] \in Seq(S)
      <4>1. i + 1 \in 1..Len(seqs)
        BY <2>2, <3>2
      <4>2. seqs[i + 1] \in Seq(S)
        BY <4>1
      <4>3. f[i + 1] = f[i] \o seqs[i + 1]
        BY ONLY <2>1, <3>2, Zenon
      <4> QED
        BY <4>2, <4>3
    <3>5. PICK at : Origins(at, f[i], seqs, i)
      BY <3>3
    <3>6. \E more : Origins(more, f[i] \o seqs[i + 1], seqs, i + 1)
      BY <3>2, <3>3, <3>5, OriginsOfOneMore
    <3>7. f[i + 1] \in Seq(S)
      BY <3>3, <3>4, ConcatProperties
    <3>8. Right(i + 1)
      BY <3>4, <3>6, <3>7
    <3> QED
      BY <3>8 DEF i
  <2> HIDE DEF Up
  <2>6. \A m \in Nat : m \in Up
    BY <2>4, <2>5, Induction
  <2>7. Len(seqs) - 1 \in Up /\ (Len(seqs) - 1) + 1 = Len(seqs) /\ Len(seqs) \in 1..Len(seqs)
    BY <1>2, <2>2, <2>6
  <2>8. Right(Len(seqs))
    BY <2>7 DEF Up
  <2> QED
    BY <1>2, <2>8, FlattenIsJoined DEF f
<1> QED
  BY <1>1, <1>2

\* Each element is tagged with the part it is in.
TaggedBy(tag, seqs) ==
  \A i \in 1..Len(seqs) : \A n \in 1..Len(seqs[i]) : tag[seqs[i][n]] = i

\* All of t is from the parts, in their order, and from every part that is not
\* empty.
Gathers(t, seqs, tag) ==
  /\ \A k \in 1..Len(t) : \E i \in 1..Len(seqs) : \E n \in 1..Len(seqs[i]) : t[k] = seqs[i][n]
  /\ \A j, k \in 1..Len(t) : j < k => tag[t[j]] <= tag[t[k]]
  /\ {tag[t[k]] : k \in 1..Len(t)} = {i \in 1..Len(seqs) : Len(seqs[i]) > 0}

LEMMA TaggedFlatten ==
  ASSUME NEW S, NEW seqs \in Seq(Seq(S)), NEW tag, TaggedBy(tag, seqs)
  PROVE  FlattenSeq(seqs) \in Seq(S) /\ Gathers(FlattenSeq(seqs), seqs, tag)
<1> DEFINE flat == FlattenSeq(seqs)
<1>1. flat \in Seq(S) /\ \E at : Origins(at, flat, seqs, Len(seqs))
  BY FlattenProperties
<1> HIDE DEF flat
<1>2. PICK at : Origins(at, flat, seqs, Len(seqs))
  BY <1>1
<1>3. ASSUME NEW k \in 1..Len(flat)
      PROVE  /\ at[k] \in 1..Len(seqs)
             /\ \E n \in 1..Len(seqs[at[k]]) : flat[k] = seqs[at[k]][n]
             /\ tag[flat[k]] = at[k]
  <2>1. at[k] \in 1..Len(seqs) /\ \E n \in 1..Len(seqs[at[k]]) : flat[k] = seqs[at[k]][n]
    BY <1>2 DEF Origins
  <2> QED
    BY <2>1 DEF TaggedBy
<1>4. ASSUME NEW j \in 1..Len(flat), NEW k \in 1..Len(flat), j < k
      PROVE  tag[flat[j]] <= tag[flat[k]]
  <2>1. at[j] <= at[k]
    BY <1>2, <1>4 DEF Origins
  <2> QED
    BY <1>3, <2>1
<1>5. ASSUME NEW k \in 1..Len(flat)
      PROVE  tag[flat[k]] \in {i \in 1..Len(seqs) : Len(seqs[i]) > 0}
  <2>1. Len(seqs[at[k]]) > 0
    BY <1>3
  <2> QED
    BY <1>3, <2>1
<1>6. ASSUME NEW i \in 1..Len(seqs), Len(seqs[i]) > 0
      PROVE  \E k \in 1..Len(flat) : tag[flat[k]] = i
  <2>1. 1 \in 1..Len(seqs[i])
    BY <1>6
  <2>2. PICK k \in 1..Len(flat) : flat[k] = seqs[i][1]
    BY <1>2, <2>1 DEF Origins
  <2> QED
    BY <2>1, <2>2 DEF TaggedBy
<1>7. {tag[flat[k]] : k \in 1..Len(flat)} = {i \in 1..Len(seqs) : Len(seqs[i]) > 0}
  BY <1>5, <1>6
<1>8. \A k \in 1..Len(flat) : \E i \in 1..Len(seqs) : \E n \in 1..Len(seqs[i]) :
        flat[k] = seqs[i][n]
  BY <1>3
<1>9. Gathers(flat, seqs, tag)
  BY <1>4, <1>7, <1>8 DEF Gathers
<1> QED
  BY <1>1, <1>9 DEF flat
=============================================================================
