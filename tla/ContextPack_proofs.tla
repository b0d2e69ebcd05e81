-------------------------- MODULE ContextPack_proofs --------------------------
(***************************************************************************)
(* Proofs about ContextPack: what a pack holds, for every repository,      *)
(* budget and bound on its blocks.  Induction over the files of a section  *)
(* is done with sets of numbers: NumbersFrom0.                             *)
(***************************************************************************)
EXTENDS ContextPack, FiniteSetTheorems, SequenceTheorems, WellFoundedInduction, TLAPS

\* A set that holds 0 and with every number the next holds them all.
LEMMA NumbersFrom0 ==
    ASSUME NEW T, 0 \in T, \A n \in Nat : n \in T => n + 1 \in T
    PROVE  Nat \subseteq T
  <1> DEFINE rest == Nat \ T
  <1> SUFFICES ASSUME rest # {} PROVE FALSE
    OBVIOUS
  <1>1. PICK m \in rest : \A k \in rest : ~ (<<k, m>> \in OpToRel(<, Nat))
    BY NatLessThanWellFounded, WFMin
  <1>2. \A k \in rest : ~ (k < m)
    BY <1>1 DEF OpToRel
  <1>3. m \in Nat /\ m # 0 /\ m - 1 \in Nat /\ m - 1 \notin rest
    BY <1>2
  <1> QED
    BY <1>3

-----------------------------------------------------------------------------
(* Emitting blocks.                                                        *)

PackType ==
    [kind : {"none", "v1", "v2", "random"}, used : Nat, length : Nat, blocks : Seq(Nat), full : BOOLEAN]

\* What the code may count: the last block may pass the budget by its newline.
Open == IF Budget + 1 > Header THEN Budget + 1 ELSE Header

\* Characters that no block accounts for.
Overhead(p) == p.length - p.used - Len(p.blocks)

\* A block is passed over, ends its section, or is appended.
Emitted(p, f, size, e) ==
    \/ e = p /\ (p.full \/ size = 0)
    \/ e = [p EXCEPT !.full = TRUE] /\ ~p.full
    \/ /\ ~p.full /\ p.used + size <= Budget
       /\ e = Pack(p.kind, p.used + size + 1, p.length + size + 2, Append(p.blocks, f), FALSE)

LEMMA EmitDoes ==
    ASSUME NEW p \in PackType, NEW f \in Nat, NEW size \in Nat
    PROVE  Emitted(p, f, size, Emit(p, f, size))
  <1>1. p.used \in Nat /\ Budget \in Nat /\ p.full \in BOOLEAN
    BY PackAssumption DEF PackType
  <1>2. CASE p.full \/ size = 0
    BY <1>2 DEF Emit, Emitted
  <1>3. CASE ~(p.full \/ size = 0) /\ p.used + size > Budget
    <2>1. Emit(p, f, size) = [p EXCEPT !.full = TRUE]
      BY <1>3 DEF Emit
    <2> QED
      BY <1>3, <2>1 DEF Emitted
  <1>4. CASE ~(p.full \/ size = 0) /\ ~(p.used + size > Budget)
    <2>1. Emit(p, f, size) = Pack(p.kind, p.used + size + 1, p.length + size + 2,
                                  Append(p.blocks, f), FALSE)
      BY <1>4 DEF Emit
    <2>2. p.used + size <= Budget
      BY <1>1, <1>4
    <2> QED
      BY <1>4, <2>1, <2>2 DEF Emitted
  <1> QED
    BY <1>2, <1>3, <1>4

LEMMA EmitKeeps ==
    ASSUME NEW p \in PackType, NEW f \in Nat, NEW size \in Nat,
           NEW e, Emitted(p, f, size, e)
    PROVE  /\ e \in PackType /\ e.kind = p.kind /\ Overhead(e) = Overhead(p)
           /\ p.used <= Open => e.used <= Open
           /\ \/ e.blocks = p.blocks /\ (e.full \/ size = 0) /\ (p.full => e.full)
              \/ e.blocks = Append(p.blocks, f) /\ ~p.full
  <1>1. /\ p.used \in Nat /\ p.length \in Nat /\ p.blocks \in Seq(Nat)
        /\ p.kind \in {"none", "v1", "v2", "random"} /\ p.full \in BOOLEAN
    BY DEF PackType
  <1>2. CASE e = p /\ (p.full \/ size = 0)
    BY <1>2
  <1>3. CASE e = [p EXCEPT !.full = TRUE] /\ ~p.full
    <2>1. e \in PackType
      BY <1>3 DEF PackType
    <2>2. /\ e.kind = p.kind /\ e.used = p.used /\ e.length = p.length
          /\ e.blocks = p.blocks /\ e.full = TRUE
      BY <1>3 DEF PackType
    <2>3. Overhead(e) = Overhead(p)
      BY <2>2 DEF Overhead
    <2> QED
      BY <1>3, <2>1, <2>2, <2>3
  <1>4. CASE /\ ~p.full /\ p.used + size <= Budget
             /\ e = Pack(p.kind, p.used + size + 1, p.length + size + 2,
                         Append(p.blocks, f), FALSE)
    <2>1. /\ e.kind = p.kind /\ e.used = p.used + size + 1 /\ e.length = p.length + size + 2
          /\ e.blocks = Append(p.blocks, f) /\ e.full = FALSE
      BY <1>4 DEF Pack
    <2>2. Append(p.blocks, f) \in Seq(Nat) /\ Len(Append(p.blocks, f)) = Len(p.blocks) + 1
          /\ Len(p.blocks) \in Nat
      BY <1>1, AppendProperties, LenProperties
    <2>3. p.used + size + 1 \in Nat /\ p.length + size + 2 \in Nat
      BY <1>1
    <2>4. e \in PackType
      BY <1>1, <1>4, <2>2, <2>3 DEF PackType, Pack
    <2>5. Overhead(e) = Overhead(p)
      <3>1. Overhead(e) = (p.length + size + 2) - (p.used + size + 1) - (Len(p.blocks) + 1)
        BY <2>1, <2>2, Zenon DEF Overhead
      <3>2. \A l, u, n \in Nat : (l + size + 2) - (u + size + 1) - (n + 1) = l - u - n
        OBVIOUS
      <3>3. (p.length + size + 2) - (p.used + size + 1) - (Len(p.blocks) + 1)
               = p.length - p.used - Len(p.blocks)
        BY <1>1, <2>2, <3>2, Zenon
      <3> QED
        BY <3>1, <3>3, Zenon DEF Overhead
    <2>6. e.used <= Open
      <3>1. Budget \in Nat /\ Header \in Nat
        BY PackAssumption
      <3>2. p.used + size + 1 <= Open
        BY <1>1, <1>4, <3>1 DEF Open
      <3> QED
        BY <2>1, <3>2, Zenon
    <2> QED
      BY <1>4, <2>1, <2>4, <2>5, <2>6
  <1> QED
    BY <1>2, <1>3, <1>4 DEF Emitted

\* A block more.
LEMMA AppendedIsThere ==
    ASSUME NEW b \in Seq(Nat), NEW f \in Nat
    PROVE  /\ ToSet(Append(b, f)) = ToSet(b) \cup {f}
           /\ IsInjective(b) /\ f \notin ToSet(b) => IsInjective(Append(b, f))
  <1>1. Len(b) \in Nat /\ DOMAIN b = 1 .. Len(b)
    BY LenProperties
  <1>2. /\ Append(b, f) \in Seq(Nat) /\ Len(Append(b, f)) = Len(b) + 1
        /\ \A i \in 1 .. Len(b) : Append(b, f)[i] = b[i]
        /\ Append(b, f)[Len(b) + 1] = f
    BY AppendProperties
  <1>3. DOMAIN Append(b, f) = 1 .. Len(b) + 1
    BY <1>2, LenProperties
  <1>4. 1 .. Len(b) + 1 = (1 .. Len(b)) \cup {Len(b) + 1}
    BY <1>1
  <1> HIDE DEF ToSet
  <1>5. ToSet(Append(b, f)) = ToSet(b) \cup {f}
    BY <1>1, <1>2, <1>3, <1>4 DEF ToSet
  <1>6. IsInjective(b) /\ f \notin ToSet(b) => IsInjective(Append(b, f))
    BY <1>1, <1>2, <1>3, <1>4 DEF ToSet, IsInjective
  <1> QED
    BY <1>5, <1>6

-----------------------------------------------------------------------------
(* The blocks of a section.                                                *)

\* g[n] is the pack after the first n files.
EmitsUpTo(g, m, files, p, s) ==
    g = [n \in 0 .. m |-> IF n = 0 THEN p ELSE Emit(g[n - 1], s[n], files[s[n]].size)]

\* EmitAll's function exists for every number of files.
LEMMA EmittingExists ==
    ASSUME NEW files, NEW p, NEW s, NEW m \in Nat
    PROVE  \E g : EmitsUpTo(g, m, files, p, s)
  <1> DEFINE T == {k \in Nat : \E g : EmitsUpTo(g, k, files, p, s)}
  <1>1. 0 \in T
    <2> DEFINE g == [n \in 0 .. 0 |-> p]
    <2>1. g = [n \in 0 .. 0 |-> IF n = 0 THEN p ELSE Emit(g[n - 1], s[n], files[s[n]].size)]
      OBVIOUS
    <2> QED
      BY <2>1 DEF EmitsUpTo
  <1>2. \A k \in Nat : k \in T => k + 1 \in T
    <2> SUFFICES ASSUME NEW k \in Nat, k \in T PROVE k + 1 \in T
      OBVIOUS
    <2>1. PICK g : EmitsUpTo(g, k, files, p, s)
      OBVIOUS
    <2> DEFINE next == Emit(g[k], s[k + 1], files[s[k + 1]].size)
               h == [n \in 0 .. k + 1 |-> IF n = k + 1 THEN next ELSE g[n]]
               rhs(n) == IF n = 0 THEN p ELSE Emit(h[n - 1], s[n], files[s[n]].size)
    <2>2. \A n \in 0 .. k + 1 : h[n] = rhs(n)
      <3> SUFFICES ASSUME NEW n \in 0 .. k + 1 PROVE h[n] = rhs(n)
        OBVIOUS
      <3>1. CASE n = k + 1
        <4>1. h[n] = next /\ n # 0 /\ n - 1 = k /\ h[k] = g[k]
          BY <3>1
        <4>2. rhs(n) = Emit(h[n - 1], s[n], files[s[n]].size)
          BY <4>1
        <4> HIDE DEF h, rhs
        <4> QED
          BY <3>1, <4>1, <4>2
      <3>2. CASE n = 0
        <4>1. h[n] = g[n] /\ g[n] = p
          BY <2>1, <3>2 DEF EmitsUpTo
        <4> QED
          BY <3>2, <4>1
      <3>3. CASE n \in 1 .. k
        <4>1. h[n] = g[n] /\ n # 0 /\ h[n - 1] = g[n - 1] /\ n \in 0 .. k
          BY <3>3
        <4>2. g[n] = Emit(g[n - 1], s[n], files[s[n]].size)
          BY <2>1, <4>1 DEF EmitsUpTo
        <4>3. rhs(n) = Emit(h[n - 1], s[n], files[s[n]].size)
          BY <4>1
        <4> HIDE DEF h, rhs
        <4> QED
          BY <4>1, <4>2, <4>3
      <3> QED
        BY <3>1, <3>2, <3>3
    <2>3. h = [n \in 0 .. k + 1 |-> h[n]]
      OBVIOUS
    <2>4. h = [n \in 0 .. k + 1 |-> rhs(n)]
      <3> HIDE DEF h, rhs
      <3> QED
        BY <2>2, <2>3
    <2>5. EmitsUpTo(h, k + 1, files, p, s)
      <3> HIDE DEF h
      <3> QED
        BY <2>4 DEF EmitsUpTo
    <2> HIDE DEF h
    <2> QED
      BY <2>5
  <1>3. Nat \subseteq T
    <2> HIDE DEF T
    <2> QED
      BY <1>1, <1>2, NumbersFrom0
  <1> QED
    BY <1>3

\* EmitAll is the last value of such a function.
LEMMA EmitAllIsLast ==
    ASSUME NEW files, NEW p, NEW s \in Seq(Nat)
    PROVE  \E g : /\ EmitsUpTo(g, Len(s), files, p, s)
                  /\ EmitAll(files, p, s) = g[Len(s)]
  <1>1. \E g : EmitsUpTo(g, Len(s), files, p, s)
    BY EmittingExists, LenProperties
  <1> DEFINE g == CHOOSE g : EmitsUpTo(g, Len(s), files, p, s)
  <1>2. EmitsUpTo(g, Len(s), files, p, s)
    BY <1>1
  <1>3. EmitAll(files, p, s) = g[Len(s)]
    BY DEF EmitAll, EmitsUpTo
  <1> QED
    BY <1>2, <1>3

\* The first n of s.
FirstOnes(s, n) == {s[i] : i \in 1 .. n}

\* What a section starts from: files that the pack does not hold.
SectionStart(files, p, s) ==
    /\ p \in PackType /\ p.used <= Open /\ IsInjective(p.blocks)
    /\ s \in Seq(Nat) /\ IsInjective(s)
    /\ \A i \in 1 .. Len(s) : s[i] \notin ToSet(p.blocks) /\ files[s[i]].size \in Nat

\* What the pack q is after n files of the section that p started.
SectionSound(p, s, q, n) ==
    /\ q \in PackType /\ q.kind = p.kind /\ Overhead(q) = Overhead(p) /\ q.used <= Open
    /\ IsInjective(q.blocks)
    /\ ToSet(p.blocks) \subseteq ToSet(q.blocks)
    /\ ToSet(q.blocks) \subseteq ToSet(p.blocks) \cup FirstOnes(s, n)

\* The files taken are the first ones, all of them until the section is full.
SectionDense(s, q, n) ==
    /\ \A i, j \in 1 .. n : i < j /\ s[j] \in ToSet(q.blocks) => s[i] \in ToSet(q.blocks)
    /\ ~q.full => \A i \in 1 .. n : s[i] \in ToSet(q.blocks)

LEMMA SectionStaysSound ==
    ASSUME NEW files, NEW p, NEW s, SectionStart(files, p, s),
           NEW n \in Nat, n + 1 \in 1 .. Len(s),
           NEW q, SectionSound(p, s, q, n),
           NEW e, Emitted(q, s[n + 1], files[s[n + 1]].size, e)
    PROVE  SectionSound(p, s, e, n + 1)
  <1> DEFINE f == s[n + 1]
  <1>1. /\ q \in PackType /\ q.kind = p.kind /\ Overhead(q) = Overhead(p)
        /\ q.used <= Open /\ IsInjective(q.blocks)
    BY DEF SectionSound
  <1>2. /\ ToSet(p.blocks) \subseteq ToSet(q.blocks)
        /\ ToSet(q.blocks) \subseteq ToSet(p.blocks) \cup FirstOnes(s, n)
    BY DEF SectionSound
  <1>3. f \in Nat /\ files[f].size \in Nat /\ f \notin ToSet(p.blocks)
    BY ElementOfSeq DEF SectionStart
  <1>4. f \notin FirstOnes(s, n)
    <2>1. s \in Seq(Nat) /\ Len(s) \in Nat /\ DOMAIN s = 1 .. Len(s) /\ IsInjective(s)
      BY LenProperties DEF SectionStart
    <2>2. \A i \in 1 .. n : i \in DOMAIN s /\ n + 1 \in DOMAIN s /\ i # n + 1
      BY <2>1
    <2> QED
      BY <2>1, <2>2 DEF IsInjective, FirstOnes
  <1>5. f \notin ToSet(q.blocks)
    BY <1>2, <1>3, <1>4
  <1>6. q.blocks \in Seq(Nat)
    BY <1>1 DEF PackType
  <1> HIDE DEF f
  <1>7. Emitted(q, f, files[f].size, e)
    BY DEF f
  <1>8. /\ e \in PackType /\ e.kind = q.kind /\ Overhead(e) = Overhead(q)
        /\ e.used <= Open
    BY <1>1, <1>3, <1>7, EmitKeeps
  <1>9. e.blocks = q.blocks \/ e.blocks = Append(q.blocks, f)
    BY <1>1, <1>3, <1>7, EmitKeeps
  <1>10. /\ ToSet(Append(q.blocks, f)) = ToSet(q.blocks) \cup {f}
         /\ IsInjective(Append(q.blocks, f))
    BY <1>1, <1>3, <1>5, <1>6, AppendedIsThere
  <1>11. FirstOnes(s, n + 1) = FirstOnes(s, n) \cup {f}
    BY DEF FirstOnes, f
  <1> HIDE DEF Overhead
  <1>12. /\ IsInjective(e.blocks)
         /\ ToSet(p.blocks) \subseteq ToSet(e.blocks)
         /\ ToSet(e.blocks) \subseteq ToSet(p.blocks) \cup FirstOnes(s, n + 1)
    <2>1. CASE e.blocks = q.blocks
      <3>1. ToSet(e.blocks) = ToSet(q.blocks) /\ IsInjective(e.blocks)
        BY <1>1, <2>1
      <3> QED
        BY <1>2, <1>11, <3>1
    <2>2. CASE e.blocks = Append(q.blocks, f)
      <3>1. ToSet(e.blocks) = ToSet(q.blocks) \cup {f} /\ IsInjective(e.blocks)
        BY <1>10, <2>2
      <3> QED
        BY <1>2, <1>11, <3>1
    <2> QED
      BY <1>9, <2>1, <2>2
  <1> QED
    BY <1>1, <1>8, <1>12 DEF SectionSound

LEMMA SectionStaysDense ==
    ASSUME NEW files, NEW p, NEW s, SectionStart(files, p, s),
           NEW n \in Nat, n + 1 \in 1 .. Len(s), files[s[n + 1]].size > 0,
           NEW q, SectionSound(p, s, q, n), SectionDense(s, q, n),
           NEW e, Emitted(q, s[n + 1], files[s[n + 1]].size, e)
    PROVE  SectionDense(s, e, n + 1)
  <1> DEFINE f == s[n + 1]
  <1>1. f \in Nat /\ files[f].size \in Nat /\ files[f].size # 0
    BY ElementOfSeq DEF SectionStart
  <1>2. q \in PackType /\ q.blocks \in Seq(Nat)
    BY DEF SectionSound, PackType
  <1>3. f \notin ToSet(q.blocks)
    <2>1. s \in Seq(Nat) /\ Len(s) \in Nat /\ DOMAIN s = 1 .. Len(s) /\ IsInjective(s)
      BY LenProperties DEF SectionStart
    <2>2. \A i \in 1 .. n : i \in DOMAIN s /\ n + 1 \in DOMAIN s /\ i # n + 1
      BY <2>1
    <2>3. f \notin FirstOnes(s, n)
      BY <2>1, <2>2 DEF IsInjective, FirstOnes
    <2>4. f \notin ToSet(p.blocks)
      BY DEF SectionStart
    <2> QED
      BY <2>3, <2>4 DEF SectionSound
  <1>4. s[n + 1] = f
    OBVIOUS
  <1> HIDE DEF f
  <1>5. Emitted(q, f, files[f].size, e)
    BY <1>4
  <1>6. \/ e.blocks = q.blocks /\ e.full
        \/ e.blocks = Append(q.blocks, f) /\ ~q.full
    BY <1>1, <1>2, <1>5, EmitKeeps
  <1>7. \A i \in 1 .. n + 1 : i \in 1 .. n \/ i = n + 1
    OBVIOUS
  <1>8. CASE e.blocks = q.blocks /\ e.full
    <2>1. ToSet(e.blocks) = ToSet(q.blocks)
      BY <1>8
    <2>2. \A i, j \in 1 .. n + 1 :
              i < j /\ s[j] \in ToSet(e.blocks) => s[i] \in ToSet(e.blocks)
      BY <1>3, <1>4, <1>7, <2>1 DEF SectionDense
    <2> QED
      BY <1>8, <2>2 DEF SectionDense
  <1>9. CASE e.blocks = Append(q.blocks, f) /\ ~q.full
    <2>1. ToSet(e.blocks) = ToSet(q.blocks) \cup {f}
      BY <1>1, <1>2, <1>9, AppendedIsThere
    <2>2. \A i \in 1 .. n : s[i] \in ToSet(q.blocks)
      BY <1>9 DEF SectionDense
    <2>3. \A i \in 1 .. n + 1 : s[i] \in ToSet(e.blocks)
      BY <1>4, <1>7, <2>1, <2>2
    <2> QED
      BY <2>3 DEF SectionDense
  <1> QED
    BY <1>6, <1>8, <1>9

\* What EmitAll makes of a section.
LEMMA EmitAllDoes ==
    ASSUME NEW files, NEW p, NEW s, SectionStart(files, p, s)
    PROVE  /\ SectionSound(p, s, EmitAll(files, p, s), Len(s))
           /\ ~p.full /\ (\A i \in 1 .. Len(s) : files[s[i]].size > 0)
                  => SectionDense(s, EmitAll(files, p, s), Len(s))
  <1>1. /\ s \in Seq(Nat) /\ Len(s) \in Nat /\ p \in PackType
        /\ \A i \in 1 .. Len(s) : s[i] \in Nat /\ files[s[i]].size \in Nat
    BY LenProperties, ElementOfSeq DEF SectionStart
  <1>2. PICK g : EmitsUpTo(g, Len(s), files, p, s) /\ EmitAll(files, p, s) = g[Len(s)]
    BY <1>1, EmitAllIsLast
  <1>3. g[0] = p
    BY <1>1, <1>2 DEF EmitsUpTo
  <1>4. \A n \in Nat : n + 1 <= Len(s) =>
            g[n + 1] = Emit(g[n], s[n + 1], files[s[n + 1]].size)
    <2> SUFFICES ASSUME NEW n \in Nat, n + 1 <= Len(s)
                 PROVE  g[n + 1] = Emit(g[n], s[n + 1], files[s[n + 1]].size)
      OBVIOUS
    <2>1. n + 1 \in 0 .. Len(s) /\ n + 1 # 0 /\ (n + 1) - 1 = n
      BY <1>1
    <2>2. g[n + 1] = Emit(g[(n + 1) - 1], s[n + 1], files[s[n + 1]].size)
      BY <1>2, <2>1 DEF EmitsUpTo
    <2> QED
      BY <2>1, <2>2
  <1> DEFINE Dense == ~p.full /\ \A i \in 1 .. Len(s) : files[s[i]].size > 0
             T == {n \in Nat : n <= Len(s) =>
                       /\ SectionSound(p, s, g[n], n)
                       /\ Dense => SectionDense(s, g[n], n)}
  <1>5. 0 \in T
    <2>1. SectionSound(p, s, p, 0)
      BY DEF SectionStart, SectionSound
    <2>2. Dense => SectionDense(s, p, 0)
      BY DEF SectionDense
    <2> QED
      BY <1>3, <2>1, <2>2
  <1>6. \A n \in Nat : n \in T => n + 1 \in T
    <2> SUFFICES ASSUME NEW n \in Nat, n \in T, n + 1 <= Len(s)
                 PROVE  /\ SectionSound(p, s, g[n + 1], n + 1)
                        /\ Dense => SectionDense(s, g[n + 1], n + 1)
      OBVIOUS
    <2>1. n + 1 \in 1 .. Len(s) /\ n <= Len(s)
      BY <1>1
    <2>2. SectionSound(p, s, g[n], n) /\ (Dense => SectionDense(s, g[n], n))
      BY <2>1
    <2>3. g[n] \in PackType
      BY <2>2 DEF SectionSound
    <2>4. Emitted(g[n], s[n + 1], files[s[n + 1]].size, g[n + 1])
      BY <1>1, <1>4, <2>1, <2>3, EmitDoes
    <2>5. SectionSound(p, s, g[n + 1], n + 1)
      BY <2>1, <2>2, <2>4, SectionStaysSound
    <2>6. ASSUME Dense PROVE SectionDense(s, g[n + 1], n + 1)
      <3>1. files[s[n + 1]].size > 0 /\ SectionDense(s, g[n], n)
        BY <2>1, <2>2, <2>6
      <3> QED
        BY <2>1, <2>2, <2>4, <3>1, SectionStaysDense
    <2> QED
      BY <2>5, <2>6
  <1>7. Nat \subseteq T
    <2> HIDE DEF T
    <2> QED
      BY <1>5, <1>6, NumbersFrom0
  <1>8. Len(s) \in T /\ Len(s) <= Len(s)
    BY <1>1, <1>7
  <1> QED
    BY <1>2, <1>8

-----------------------------------------------------------------------------
(* Ranking files.                                                          *)

Ranked(files, S) ==
    /\ S \subseteq Nat /\ IsFiniteSet(S)
    /\ \A f \in S : Score(files[f]) \in Int

LEMMA PlaceIsNumber ==
    ASSUME NEW files, NEW S, Ranked(files, S), NEW f \in S
    PROVE  Place(files, S, f) \in Nat /\ Place(files, S, f) < Cardinality(S)
  <1> DEFINE before == {g \in S : Before(files, g, f)}
  <1>1. ~ Before(files, f, f)
    BY DEF Before, Ranked
  <1>2. before \subseteq S /\ before # S
    BY <1>1
  <1>3. IsFiniteSet(S) /\ Cardinality(S) \in Nat
    BY FS_CardinalityType DEF Ranked
  <1> HIDE DEF before
  <1>4. IsFiniteSet(before) /\ Cardinality(before) <= Cardinality(S)
        /\ Cardinality(before) # Cardinality(S)
    BY <1>2, <1>3, FS_Subset
  <1>5. Cardinality(before) \in Nat
    BY <1>4, FS_CardinalityType
  <1>6. Cardinality(before) < Cardinality(S)
    BY <1>3, <1>4, <1>5
  <1> QED
    BY <1>5, <1>6 DEF Place, before

\* Of two files one comes before the other, and has the smaller place.
LEMMA PlaceGrows ==
    ASSUME NEW files, NEW S, Ranked(files, S), NEW f \in S, NEW g \in S,
           Before(files, f, g)
    PROVE  Place(files, S, f) < Place(files, S, g)
  <1> DEFINE A == {h \in S : Before(files, h, f)}
             B == {h \in S : Before(files, h, g)}
  <1>1. \A h \in S : Before(files, h, f) => Before(files, h, g)
    BY DEF Before, Ranked
  <1>2. A \subseteq B /\ f \in B /\ f \notin A
    <2>1. ~ Before(files, f, f)
      BY DEF Before, Ranked
    <2> QED
      BY <1>1, <2>1
  <1>3. IsFiniteSet(B)
    BY FS_Subset DEF Ranked
  <1>4. IsFiniteSet(A) /\ Cardinality(A) <= Cardinality(B)
        /\ (Cardinality(B) = Cardinality(A) => B = A)
    <2> HIDE DEF A, B
    <2> QED
      BY <1>2, <1>3, FS_Subset
  <1>5. Cardinality(A) \in Nat /\ Cardinality(B) \in Nat
    <2> HIDE DEF A, B
    <2> QED
      BY <1>3, <1>4, FS_CardinalityType
  <1>6. Cardinality(A) < Cardinality(B)
    <2> HIDE DEF A, B
    <2> QED
      BY <1>2, <1>4, <1>5
  <1> QED
    BY <1>6 DEF Place

LEMMA OneIsBefore ==
    ASSUME NEW files, NEW S, Ranked(files, S), NEW f \in S, NEW g \in S, f # g
    PROVE  Before(files, f, g) \/ Before(files, g, f)
  BY DEF Before, Ranked

\* A smaller place, no smaller score.
LEMMA PlaceIsScore ==
    ASSUME NEW files, NEW S, Ranked(files, S), NEW f \in S, NEW g \in S,
           Place(files, S, f) < Place(files, S, g)
    PROVE  Score(files[f]) >= Score(files[g])
  <1>1. Place(files, S, f) \in Nat /\ Place(files, S, g) \in Nat
    BY PlaceIsNumber
  <1>2. f # g
    BY <1>1
  <1>3. ~ Before(files, g, f)
    BY <1>1, PlaceGrows
  <1>4. Before(files, f, g)
    BY <1>2, <1>3, OneIsBefore
  <1> QED
    BY <1>4 DEF Before, Ranked

\* Every place is taken by one file.
LEMMA PlacesAreTaken ==
    ASSUME NEW files, NEW S, Ranked(files, S)
    PROVE  /\ \A f, g \in S : Place(files, S, f) = Place(files, S, g) => f = g
           /\ \A k \in 0 .. Cardinality(S) - 1 : \E f \in S : Place(files, S, f) = k
  <1> DEFINE c == Cardinality(S)
             P == [f \in S |-> Place(files, S, f)]
  <1>1. \A f, g \in S : Place(files, S, f) = Place(files, S, g) => f = g
    <2> SUFFICES ASSUME NEW f \in S, NEW g \in S, f # g
                 PROVE  Place(files, S, f) # Place(files, S, g)
      OBVIOUS
    <2>1. Place(files, S, f) \in Nat /\ Place(files, S, g) \in Nat
      BY PlaceIsNumber
    <2>2. CASE Before(files, f, g)
      BY <2>1, <2>2, PlaceGrows
    <2>3. CASE Before(files, g, f)
      BY <2>1, <2>3, PlaceGrows
    <2> QED
      BY <2>2, <2>3, OneIsBefore
  <1>2. c \in Nat /\ IsFiniteSet(S)
    BY FS_CardinalityType DEF Ranked
  <1>3. \A f \in S : Place(files, S, f) \in 0 .. c - 1
    <2> TAKE f \in S
    <2>1. Place(files, S, f) \in Nat /\ Place(files, S, f) < c
      BY PlaceIsNumber
    <2> QED
      BY <1>2, <2>1
  <1>4. P \in Injection(S, 0 .. c - 1)
    BY <1>1, <1>3 DEF Injection, IsInjective
  <1>5. IsFiniteSet(0 .. c - 1) /\ Cardinality(0 .. c - 1) = c
    BY <1>2, FS_Interval
  <1>6. P \in Surjection(S, 0 .. c - 1)
    <2> HIDE DEF P
    <2> QED
      BY <1>4, <1>5, FS_Injection
  <1>7. \A k \in 0 .. c - 1 : \E f \in S : P[f] = k
    BY <1>6 DEF Surjection
  <1> QED
    BY <1>1, <1>7

LEMMA BestAre ==
    ASSUME NEW files, NEW S, Ranked(files, S), NEW n \in Nat
    PROVE  LET s == Best(files, S, n)
           IN  /\ s \in Seq(Nat) /\ IsInjective(s) /\ Len(s) <= n
               /\ \A i \in 1 .. Len(s) : s[i] \in S /\ Place(files, S, s[i]) = i - 1
               /\ \A f \in S : f \notin ToSet(s) => Place(files, S, f) >= Len(s)
  <1> DEFINE c == Cardinality(S)
             m == IF c < n THEN c ELSE n
             s == [i \in 1 .. m |-> CHOOSE f \in S : Place(files, S, f) = i - 1]
  <1>1. c \in Nat
    BY FS_CardinalityType DEF Ranked
  <1>2. m \in Nat /\ m <= n /\ m <= c
    BY <1>1
  <1>3. s = Best(files, S, n)
    BY DEF Best
  <1> HIDE DEF m, c
  <1>4. \A i \in 1 .. m : s[i] \in S /\ Place(files, S, s[i]) = i - 1
    <2> TAKE i \in 1 .. m
    <2>1. i - 1 \in 0 .. Cardinality(S) - 1
      BY <1>1, <1>2 DEF c
    <2>2. \E f \in S : Place(files, S, f) = i - 1
      BY <2>1, PlacesAreTaken
    <2> QED
      BY <2>2
  <1>5. DOMAIN s = 1 .. m
    OBVIOUS
  <1>6. s \in Seq(Nat) /\ Len(s) = m
    <2>1. s \in [1 .. m -> Nat]
      <3>1. \A i \in 1 .. m : s[i] \in Nat
        BY <1>4 DEF Ranked
      <3> QED
        BY <3>1
    <2> HIDE DEF s
    <2> QED
      BY <1>2, <2>1, IsASeq, LenProperties, <1>5
  <1> HIDE DEF s
  <1>7. IsInjective(s)
    <2> SUFFICES ASSUME NEW i \in 1 .. m, NEW j \in 1 .. m, s[i] = s[j] PROVE i = j
      BY <1>5 DEF IsInjective
    <2>1. i - 1 = j - 1
      BY <1>4
    <2> QED
      BY <1>2, <2>1
  <1>8. \A f \in S : f \notin ToSet(s) => Place(files, S, f) >= m
    <2> SUFFICES ASSUME NEW f \in S, f \notin ToSet(s), ~ (Place(files, S, f) >= m)
                 PROVE  FALSE
      OBVIOUS
    <2>1. Place(files, S, f) \in Nat
      BY PlaceIsNumber
    <2> DEFINE i == Place(files, S, f) + 1
    <2>2. i \in 1 .. m /\ i - 1 = Place(files, S, f)
      BY <1>2, <2>1
    <2> HIDE DEF i
    <2>3. s[i] \in S /\ Place(files, S, s[i]) = Place(files, S, f)
      BY <1>4, <2>2
    <2>4. s[i] = f
      BY <2>3, PlacesAreTaken
    <2> QED
      BY <1>5, <2>2, <2>4 DEF ToSet
  <1> QED
    BY <1>2, <1>3, <1>4, <1>6, <1>7, <1>8

\* What a dense section of the best files leaves out is no better.
LEMMA SectionIsRanked ==
    ASSUME NEW files, NEW S, Ranked(files, S), NEW n \in Nat,
           NEW s, s = Best(files, S, n), NEW q, SectionDense(s, q, Len(s)),
           NEW f \in FirstOnes(s, Len(s)), f \in ToSet(q.blocks),
           NEW g \in S, g \notin ToSet(q.blocks)
    PROVE  Score(files[f]) >= Score(files[g])
  <1>1. /\ s \in Seq(Nat) /\ Len(s) \in Nat /\ DOMAIN s = 1 .. Len(s)
        /\ \A i \in 1 .. Len(s) : s[i] \in S /\ Place(files, S, s[i]) = i - 1
        /\ \A h \in S : h \notin ToSet(s) => Place(files, S, h) >= Len(s)
    BY BestAre, LenProperties
  <1>2. PICK i \in 1 .. Len(s) : f = s[i]
    BY DEF FirstOnes
  <1>3. f \in S /\ Place(files, S, f) = i - 1
    BY <1>1, <1>2
  <1>4. Place(files, S, g) > i - 1
    <2>1. CASE g \notin ToSet(s)
      <3>1. Place(files, S, g) >= Len(s) /\ Place(files, S, g) \in Nat
        BY <1>1, <2>1, PlaceIsNumber
      <3> QED
        BY <1>1, <3>1
    <2>2. CASE g \in ToSet(s)
      <3>1. PICK j \in 1 .. Len(s) : g = s[j]
        BY <1>1, <2>2 DEF ToSet
      <3>2. j # i /\ ~ (j < i)
        BY <1>2, <3>1 DEF SectionDense
      <3>3. Place(files, S, g) = j - 1
        BY <1>1, <3>1
      <3> QED
        BY <1>1, <3>2, <3>3
    <2> QED
      BY <2>1, <2>2
  <1>5. Place(files, S, f) < Place(files, S, g)
    BY <1>3, <1>4
  <1> QED
    BY <1>3, <1>5, PlaceIsScore

\* No more blocks than files.
LEMMA FirstOnesAreFew ==
    ASSUME NEW s \in Seq(Nat), NEW T, T \subseteq FirstOnes(s, Len(s))
    PROVE  IsFiniteSet(T) /\ Cardinality(T) <= Len(s)
  <1>1. Len(s) \in Nat /\ s \in [1 .. Len(s) -> Nat]
    BY LenProperties
  <1>2. s \in Surjection(1 .. Len(s), FirstOnes(s, Len(s)))
    BY <1>1 DEF Surjection, FirstOnes
  <1>3. IsFiniteSet(1 .. Len(s)) /\ Cardinality(1 .. Len(s)) = Len(s)
    <2> DEFINE m == Len(s)
    <2>1. m \in Nat
      BY <1>1
    <2> HIDE DEF m
    <2>2. IsFiniteSet(1 .. m) /\ Cardinality(1 .. m) = m
      BY <2>1, FS_Interval
    <2> QED
      BY <2>2 DEF m
  <1>4. IsFiniteSet(FirstOnes(s, Len(s))) /\ Cardinality(FirstOnes(s, Len(s))) <= Len(s)
    BY <1>2, <1>3, FS_Surjection
  <1>5. IsFiniteSet(T) /\ Cardinality(T) <= Cardinality(FirstOnes(s, Len(s)))
    BY <1>4, FS_Subset
  <1>6. Cardinality(T) \in Nat /\ Cardinality(FirstOnes(s, Len(s))) \in Nat
    BY <1>4, <1>5, FS_CardinalityType
  <1> QED
    BY <1>1, <1>4, <1>5, <1>6

-----------------------------------------------------------------------------
(* The packs that are built.                                               *)

LEMMA FilesAre ==
    ASSUME NEW files \in Seq(File)
    PROVE  /\ DOMAIN files = 1 .. Len(files) /\ Len(files) \in Nat
           /\ IsFiniteSet(DOMAIN files)
           /\ \A f \in DOMAIN files :
                  /\ f \in Nat /\ files[f].size \in Nat /\ files[f].test \in BOOLEAN
                  /\ Score(files[f]) \in Int
  <1>1. DOMAIN files = 1 .. Len(files) /\ Len(files) \in Nat
    BY LenProperties
  <1>2. IsFiniteSet(DOMAIN files)
    BY <1>1, FS_Interval
  <1>3. \A f \in DOMAIN files : f \in Nat /\ files[f] \in File
    BY <1>1, ElementOfSeq
  <1>4. \A x \in File : x.size \in Nat /\ x.test \in BOOLEAN /\ x.hits \in Nat
    BY DEF File
  <1>5. \A x \in File : Score(x) \in Int
    <2> SUFFICES ASSUME NEW x \in File PROVE Score(x) \in Int
      OBVIOUS
    <2>1. x.hits \in Nat /\ x.hits \div 2 \in Int
      BY <1>4
    <2> QED
      BY <2>1 DEF Score
  <1> QED
    BY <1>1, <1>2, <1>3, <1>4, <1>5

LEMMA PartsAreRanked ==
    ASSUME NEW files \in Seq(File), NEW S, S \subseteq DOMAIN files
    PROVE  Ranked(files, S)
  <1>1. IsFiniteSet(S)
    BY FilesAre, FS_Subset
  <1> QED
    BY <1>1, FilesAre DEF Ranked

\* A pack at its start, and at a heading.
LEMMA StartIs ==
    ASSUME NEW kind \in {"v2", "random"}
    PROVE  /\ Start(kind) \in PackType /\ Start(kind).kind = kind
           /\ Start(kind).used <= Open /\ Start(kind).blocks = <<>>
           /\ Overhead(Start(kind)) = 1
  <1> DEFINE p == Start(kind)
  <1>1. Header \in Nat /\ Budget \in Nat /\ Header + 1 \in Nat
    BY PackAssumption
  <1>2. p.kind = kind /\ p.used = Header /\ p.length = Header + 1 /\ p.blocks = <<>>
    BY DEF Start, Pack
  <1>3. p \in PackType
    BY <1>1, EmptySeq DEF Start, Pack, PackType
  <1>4. Header <= Open /\ (Header + 1) - Header - 0 = 1
    BY <1>1 DEF Open
  <1>5. Len(p.blocks) = 0
    BY <1>2, EmptySeq
  <1> HIDE DEF p
  <1>6. Overhead(p) = 1 /\ p.used <= Open
    BY <1>2, <1>4, <1>5, Zenon DEF Overhead
  <1> QED
    BY <1>2, <1>3, <1>6 DEF p

LEMMA HeadingIs ==
    ASSUME NEW p \in PackType
    PROVE  /\ WithHeading(p) \in PackType /\ WithHeading(p).kind = p.kind
           /\ WithHeading(p).used = p.used /\ WithHeading(p).blocks = p.blocks
           /\ WithHeading(p).full = FALSE
           /\ Overhead(WithHeading(p)) = Overhead(p) + Heading + 1
  <1> DEFINE q == WithHeading(p)
  <1>1. Heading \in Nat
    BY PackAssumption
  <1>2. p.used \in Nat /\ p.length \in Nat /\ Len(p.blocks) \in Nat
    BY LenProperties DEF PackType
  <1>3. /\ q.kind = p.kind /\ q.used = p.used /\ q.blocks = p.blocks /\ q.full = FALSE
        /\ q.length = p.length + Heading + 1
    BY DEF WithHeading, PackType
  <1>4. p.length + Heading + 1 \in Nat
    BY <1>1, <1>2
  <1>5. q \in PackType
    BY <1>4 DEF WithHeading, PackType
  <1>6. \A l, u, n \in Nat : (l + Heading + 1) - u - n = (l - u - n) + Heading + 1
    BY <1>1
  <1>7. (p.length + Heading + 1) - p.used - Len(p.blocks)
           = (p.length - p.used - Len(p.blocks)) + Heading + 1
    BY <1>2, <1>6, Zenon
  <1> HIDE DEF q
  <1>8. Overhead(q) = Overhead(p) + Heading + 1
    BY <1>3, <1>7, Zenon DEF Overhead
  <1> QED
    BY <1>3, <1>5, <1>8 DEF q

\* What the budget leaves of a pack's length.
LEMMA LengthIs ==
    ASSUME NEW q \in PackType, q.used <= Open, NEW c \in Int, Overhead(q) <= 1 + c
    PROVE  q.length <= Open + 1 + Len(q.blocks) + c
  <1>1. q.used \in Nat /\ q.length \in Nat /\ Len(q.blocks) \in Nat
    BY LenProperties DEF PackType
  <1>2. Budget \in Nat /\ Header \in Nat
    BY PackAssumption
  <1>3. Open \in Int
    BY <1>2 DEF Open
  <1>4. q.length - q.used - Len(q.blocks) <= 1 + c
    BY DEF Overhead
  <1>5. \A l, u, n \in Nat, o \in Int : l - u - n <= 1 + c /\ u <= o => l <= o + 1 + n + c
    OBVIOUS
  <1> QED
    BY <1>1, <1>3, <1>4, <1>5, Zenon

\* The random control: every order of the files.
LEMMA RandomPackIs ==
    ASSUME NEW files \in Seq(File), NEW o \in SetToSeqs(DOMAIN files),
           NEW q, q = BuildRandomContextPack(files, o)
    PROVE  /\ q.kind = "random" /\ IsInjective(q.blocks)
           /\ q.length <= Open + 1 + Len(q.blocks) + 0
  <1> DEFINE p == Start("random")
  <1>1. /\ p \in PackType /\ p.kind = "random" /\ p.used <= Open /\ p.blocks = <<>>
        /\ Overhead(p) = 1
    <2>1. "random" \in {"v2", "random"}
      OBVIOUS
    <2> QED
      BY <2>1, StartIs, Zenon
  <1>2. o \in Seq(Nat) /\ IsInjective(o) /\ \A i \in 1 .. Len(o) : o[i] \in DOMAIN files
    <2> DEFINE n == Cardinality(DOMAIN files)
    <2>1. n \in Nat
      BY FilesAre, FS_CardinalityType
    <2>2. /\ o \in [1 .. n -> DOMAIN files]
          /\ \A i, j \in 1 .. n : i # j => o[i] # o[j]
      BY DEF SetToSeqs
    <2> HIDE DEF n
    <2>3. DOMAIN files \subseteq Nat
      BY FilesAre
    <2>4. o \in [1 .. n -> Nat]
      BY <2>2, <2>3
    <2>5. o \in Seq(Nat)
      BY <2>1, <2>4, SeqDef
    <2>6. DOMAIN o = 1 .. n /\ DOMAIN o = 1 .. Len(o)
      BY <2>2, <2>5, LenProperties
    <2> QED
      BY <2>2, <2>5, <2>6 DEF IsInjective
  <1> HIDE DEF p
  <1>3. SectionStart(files, p, o)
    <2>1. IsInjective(p.blocks) /\ ToSet(p.blocks) = {}
      BY <1>1, EmptySeq DEF IsInjective, ToSet
    <2> QED
      BY <1>1, <1>2, <2>1, FilesAre DEF SectionStart
  <1>4. q = EmitAll(files, p, o)
    BY DEF BuildRandomContextPack, p
  <1>5. SectionSound(p, o, q, Len(o))
    BY <1>3, <1>4, EmitAllDoes
  <1>6. /\ q \in PackType /\ q.kind = "random" /\ q.used <= Open /\ IsInjective(q.blocks)
        /\ Overhead(q) = 1
    BY <1>1, <1>5 DEF SectionSound
  <1>7. Overhead(q) <= 1 + 0 /\ 0 \in Int
    BY <1>6
  <1> QED
    BY <1>6, <1>7, LengthIs, Zenon

\* What BuildContextPackV2 asks of a section: files that fit no other.
MaySection(files, S, p) ==
    /\ S \subseteq DOMAIN files /\ \A f \in S : files[f].size > 0
    /\ p \in PackType /\ p.used <= Open /\ IsInjective(p.blocks)
    /\ ToSet(p.blocks) \cap S = {}

\* What the section of s, the best n of S, makes of p.
SectionOf(S, n, p, s, q) ==
    /\ SectionDense(s, q, Len(s))
    /\ q \in PackType /\ q.used <= Open /\ IsInjective(q.blocks) /\ q.kind = p.kind
    /\ Overhead(q) = Overhead(p) + Heading + 1
    /\ ToSet(p.blocks) \subseteq ToSet(q.blocks)
    /\ ToSet(q.blocks) \subseteq ToSet(p.blocks) \cup FirstOnes(s, Len(s))
    /\ s \in Seq(Nat) /\ Len(s) <= n /\ FirstOnes(s, Len(s)) \subseteq S

LEMMA BestSectionIs ==
    ASSUME NEW files \in Seq(File), NEW S, NEW n \in Nat, NEW p, MaySection(files, S, p)
    PROVE  SectionOf(S, n, p, Best(files, S, n),
                     EmitAll(files, WithHeading(p), Best(files, S, n)))
  <1> DEFINE s == Best(files, S, n)
             h == WithHeading(p)
             q == EmitAll(files, h, s)
  <1>0. /\ S \subseteq DOMAIN files /\ \A f \in S : files[f].size > 0
        /\ p \in PackType /\ p.used <= Open /\ IsInjective(p.blocks)
        /\ ToSet(p.blocks) \cap S = {}
    BY DEF MaySection
  <1>1. Ranked(files, S)
    BY <1>0, PartsAreRanked
  <1>2. /\ s \in Seq(Nat) /\ IsInjective(s) /\ Len(s) <= n
        /\ \A i \in 1 .. Len(s) : s[i] \in S
    BY <1>1, BestAre
  <1> HIDE DEF s
  <1>3. FirstOnes(s, Len(s)) \subseteq S
    BY <1>2 DEF FirstOnes
  <1>4. /\ h \in PackType /\ h.kind = p.kind /\ h.used = p.used /\ h.blocks = p.blocks
        /\ h.full = FALSE
    BY <1>0, HeadingIs
  <1>5. Overhead(h) = Overhead(p) + Heading + 1
    BY <1>0, HeadingIs
  <1>6. ToSet(h.blocks) = ToSet(p.blocks) /\ IsInjective(h.blocks)
    BY <1>0, <1>4
  <1>7. SectionStart(files, h, s)
    BY <1>0, <1>2, <1>4, <1>6, FilesAre DEF SectionStart
  <1> HIDE DEF h
  <1>8. SectionSound(h, s, q, Len(s))
    BY <1>7, EmitAllDoes
  <1> HIDE DEF q
  <1>9. SectionDense(s, q, Len(s))
    <2>1. ~h.full /\ \A i \in 1 .. Len(s) : files[s[i]].size > 0
      BY <1>0, <1>2, <1>4
    <2> QED
      BY <1>7, <2>1, EmitAllDoes DEF q
  <1>10. /\ q \in PackType /\ q.used <= Open /\ IsInjective(q.blocks) /\ q.kind = p.kind
         /\ Overhead(q) = Overhead(p) + Heading + 1
    BY <1>0, <1>4, <1>5, <1>8 DEF SectionSound
  <1>11. /\ ToSet(p.blocks) \subseteq ToSet(q.blocks)
         /\ ToSet(q.blocks) \subseteq ToSet(p.blocks) \cup FirstOnes(s, Len(s))
    BY <1>6, <1>8 DEF SectionSound
  <1> QED
    BY <1>2, <1>3, <1>9, <1>10, <1>11 DEF SectionOf, s, h, q

\* A v2 pack has one section or two: the source files, and the tests if any
\* test holds a term.  Each is bounded and takes the best of its kind.
LEMMA V2PackIs ==
    ASSUME NEW files \in Seq(File), NEW q, q = BuildContextPackV2(files, TRUE)
    PROVE  /\ q.kind = "v2" /\ IsInjective(q.blocks)
           /\ q.length <= Open + 1 + Len(q.blocks) + 2 * (Heading + 1)
           /\ Cardinality({f \in ToSet(q.blocks) : ~files[f].test}) <= TopK
           /\ Cardinality({f \in ToSet(q.blocks) : files[f].test}) <= TopTests
           /\ \A f \in ToSet(q.blocks) :
              \A g \in {x \in CandidateFiles(files) : files[x].size > 0} \ ToSet(q.blocks) :
                  files[f].test = files[g].test => Score(files[f]) >= Score(files[g])
  <1> DEFINE scored == {f \in CandidateFiles(files) : files[f].size > 0}
             tests  == {f \in scored : files[f].test}
             source == scored \ tests
             start  == Start("v2")
             src    == Best(files, source, TopK)
             top    == EmitAll(files, WithHeading(start), src)
             tst    == Best(files, tests, TopTests)
             all    == EmitAll(files, WithHeading(top), tst)
  <1>1. TopK \in Nat /\ TopTests \in Nat /\ Heading \in Nat
    BY PackAssumption
  <1>2. scored \subseteq DOMAIN files /\ \A f \in scored : files[f].size > 0
    BY DEF CandidateFiles
  <1>3. /\ source \subseteq DOMAIN files /\ tests \subseteq DOMAIN files
        /\ \A f \in source : files[f].size > 0 /\ ~files[f].test
        /\ \A f \in tests : files[f].size > 0 /\ files[f].test
        /\ scored = source \cup tests /\ source \cap tests = {}
    BY <1>2
  <1>4. IF tests = {} THEN q = top ELSE q = all
    BY DEF BuildContextPackV2
  <1>5. /\ start \in PackType /\ start.kind = "v2" /\ start.used <= Open
        /\ start.blocks = <<>> /\ Overhead(start) = 1
    <2>1. "v2" \in {"v2", "random"}
      OBVIOUS
    <2> QED
      BY <2>1, StartIs, Zenon
  <1>6. ToSet(start.blocks) = {} /\ IsInjective(start.blocks)
    BY <1>5 DEF IsInjective, ToSet
  <1> HIDE DEF scored, tests, source, start
  <1>7. src = Best(files, source, TopK) /\ top = EmitAll(files, WithHeading(start), src)
    OBVIOUS
  <1>8. tst = Best(files, tests, TopTests) /\ all = EmitAll(files, WithHeading(top), tst)
    OBVIOUS
  <1> HIDE DEF src, top, tst, all
  <1>9. /\ SectionDense(src, top, Len(src))
        /\ top \in PackType /\ top.used <= Open /\ IsInjective(top.blocks)
        /\ top.kind = "v2" /\ Overhead(top) = 1 + Heading + 1
        /\ ToSet(top.blocks) \subseteq FirstOnes(src, Len(src))
        /\ src \in Seq(Nat) /\ Len(src) <= TopK /\ FirstOnes(src, Len(src)) \subseteq source
    <2>1. ToSet(start.blocks) \cap source = {}
      BY <1>6
    <2>2. MaySection(files, source, start)
      BY <1>3, <1>5, <1>6, <2>1 DEF MaySection
    <2>3. SectionOf(source, TopK, start, src, top)
      BY <1>1, <1>7, <2>2, BestSectionIs, Zenon
    <2> QED
      BY <1>5, <1>6, <2>3 DEF SectionOf
  <1>10. /\ SectionDense(tst, all, Len(tst))
         /\ all \in PackType /\ all.used <= Open /\ IsInjective(all.blocks)
         /\ all.kind = "v2" /\ Overhead(all) = 1 + Heading + 1 + Heading + 1
         /\ ToSet(top.blocks) \subseteq ToSet(all.blocks)
         /\ ToSet(all.blocks) \subseteq ToSet(top.blocks) \cup FirstOnes(tst, Len(tst))
         /\ tst \in Seq(Nat) /\ Len(tst) <= TopTests /\ FirstOnes(tst, Len(tst)) \subseteq tests
    <2>1. ToSet(top.blocks) \cap tests = {}
      BY <1>3, <1>9
    <2>2. MaySection(files, tests, top)
      BY <1>3, <1>9, <2>1 DEF MaySection
    <2>3. SectionOf(tests, TopTests, top, tst, all)
      BY <1>1, <1>8, <2>2, BestSectionIs, Zenon
    <2> QED
      BY <1>9, <2>3 DEF SectionOf
  \* Either way the pack is top, with tests or without.
  <1>11. /\ q \in PackType /\ q.used <= Open /\ IsInjective(q.blocks) /\ q.kind = "v2"
         /\ Overhead(q) = 1 + Heading + 1 \/ Overhead(q) = 1 + Heading + 1 + Heading + 1
         /\ ToSet(top.blocks) \subseteq ToSet(q.blocks)
         /\ ToSet(q.blocks) \subseteq ToSet(top.blocks) \cup FirstOnes(tst, Len(tst))
    BY <1>4, <1>9, <1>10
  <1>12. /\ 2 * (Heading + 1) \in Int
         /\ 1 + Heading + 1 <= 1 + 2 * (Heading + 1)
         /\ 1 + Heading + 1 + Heading + 1 <= 1 + 2 * (Heading + 1)
    BY <1>1
  <1>13. q.length <= Open + 1 + Len(q.blocks) + 2 * (Heading + 1)
    <2>1. Overhead(q) <= 1 + 2 * (Heading + 1)
      BY <1>11, <1>12, Zenon
    <2> QED
      BY <1>11, <1>12, <2>1, LengthIs, Zenon
  <1>14. \A f \in ToSet(q.blocks) :
             IF files[f].test
             THEN f \in FirstOnes(tst, Len(tst)) /\ f \in tests
             ELSE f \in FirstOnes(src, Len(src)) /\ f \in source /\ f \in ToSet(top.blocks)
    BY <1>3, <1>9, <1>10, <1>11
  <1>15. Cardinality({f \in ToSet(q.blocks) : ~files[f].test}) <= TopK
    <2> DEFINE T == {f \in ToSet(q.blocks) : ~files[f].test}
    <2>1. T \subseteq FirstOnes(src, Len(src))
      BY <1>14
    <2> HIDE DEF T
    <2>2. IsFiniteSet(T) /\ Cardinality(T) <= Len(src)
      BY <1>9, <2>1, FirstOnesAreFew
    <2>3. Cardinality(T) \in Nat /\ Len(src) \in Nat
      BY <1>9, <2>2, FS_CardinalityType, LenProperties
    <2>4. Cardinality(T) <= TopK
      BY <1>1, <1>9, <2>2, <2>3
    <2> QED
      BY <2>4 DEF T
  <1>16. Cardinality({f \in ToSet(q.blocks) : files[f].test}) <= TopTests
    <2> DEFINE T == {f \in ToSet(q.blocks) : files[f].test}
    <2>1. T \subseteq FirstOnes(tst, Len(tst))
      BY <1>14
    <2> HIDE DEF T
    <2>2. IsFiniteSet(T) /\ Cardinality(T) <= Len(tst)
      BY <1>10, <2>1, FirstOnesAreFew
    <2>3. Cardinality(T) \in Nat /\ Len(tst) \in Nat
      BY <1>10, <2>2, FS_CardinalityType, LenProperties
    <2>4. Cardinality(T) <= TopTests
      BY <1>1, <1>10, <2>2, <2>3
    <2> QED
      BY <2>4 DEF T
  <1>17. \A f \in ToSet(q.blocks) : \A g \in scored \ ToSet(q.blocks) :
             files[f].test = files[g].test => Score(files[f]) >= Score(files[g])
    <2> SUFFICES ASSUME NEW f \in ToSet(q.blocks),
                        NEW g \in scored, g \notin ToSet(q.blocks),
                        files[f].test = files[g].test
                 PROVE  Score(files[f]) >= Score(files[g])
      OBVIOUS
    <2>1. CASE files[f].test
      <3>1. f \in FirstOnes(tst, Len(tst)) /\ tests # {}
        BY <1>14, <2>1
      <3>2. q = all
        BY <1>4, <3>1
      <3>3. g \in tests
        BY <1>3, <2>1
      <3>4. Ranked(files, tests)
        BY <1>3, PartsAreRanked
      <3> QED
        BY <1>1, <1>8, <1>10, <3>1, <3>2, <3>3, <3>4, SectionIsRanked
    <2>2. CASE ~files[f].test
      <3>1. f \in FirstOnes(src, Len(src)) /\ f \in ToSet(top.blocks)
        BY <1>14, <2>2
      <3>2. g \in source /\ g \notin ToSet(top.blocks)
        BY <1>3, <1>11, <2>2
      <3>3. Ranked(files, source)
        BY <1>3, PartsAreRanked
      <3> QED
        BY <1>1, <1>7, <1>9, <3>1, <3>2, <3>3, SectionIsRanked
    <2> QED
      BY <2>1, <2>2
  <1> QED
    BY <1>11, <1>13, <1>15, <1>16, <1>17 DEF scored
===============================================================================
