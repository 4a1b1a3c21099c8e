------------------------------ MODULE PathsProofs ------------------------------
(***************************************************************************)
(* What holds of names and paths for any labels, settings and mounts.      *)
(*                                                                         *)
(* The functions of the code that go through a text, the volumes or the    *)
(* names of a path are folds in the model.  A fold is a function on the    *)
(* sets of positions, which a set without a least missing element makes    *)
(* exist (FoldExists); read along the intervals 1 .. k it takes the steps  *)
(* of the loop (FoldRises).  So each fold gets a lemma of its steps, and   *)
(* what the loop keeps is carried along them (RiseTo).  The two states of  *)
(* the specification only have to be known by type (LabelsOK, SettingsOK). *)
(***************************************************************************)
EXTENDS Paths, FiniteSetTheorems, SequenceTheorems, TLAPS

-------------------------------------------------------------------------------
(* Induction on numbers, in the form that a set has them all.              *)
LEMMA Rise ==
  ASSUME NEW T, 0 \in T, \A k \in Nat : k \in T => k + 1 \in T
  PROVE  Nat \subseteq T
<1>. DEFINE missing == {k \in Nat : k \notin T}
<1>. SUFFICES ASSUME missing # {} PROVE FALSE
  OBVIOUS
<1>1. PICK m \in missing : \A k \in missing : ~ (<<k, m>> \in OpToRel(<, Nat))
  BY WFMin, NatLessThanWellFounded
<1>2. m # 0 /\ m - 1 \in Nat /\ m - 1 < m
  OBVIOUS
<1>3. <<m - 1, m>> \in OpToRel(<, Nat)
  BY <1>2 DEF OpToRel
<1>4. m - 1 \in T
  BY <1>1, <1>2, <1>3
<1>. QED  BY <1>2, <1>4

(* The same up to a bound.                                                 *)
LEMMA RiseTo ==
  ASSUME NEW n \in Nat, NEW T, 0 \in T, \A k \in 0 .. n - 1 : k \in T => k + 1 \in T
  PROVE  0 .. n \subseteq T
<1>. DEFINE U == {k \in Nat : k <= n => k \in T}
<1>1. 0 \in U /\ \A k \in Nat : k \in U => k + 1 \in U
  OBVIOUS
<1>2. Nat \subseteq U
  <2>. HIDE DEF U
  <2>. QED  BY <1>1, Rise
<1>. QED  BY <1>2

(* Numbers up to n have a least and a greatest among them.                 *)
LEMMA MinOf ==
  ASSUME NEW n \in Nat, NEW S \in SUBSET (1 .. n), S # {}
  PROVE  Min(S) \in S /\ \A k \in S : Min(S) <= k
<1>. DEFINE T == {k \in Nat : \A i \in S : k <= i}
<1>1. PICK m \in S : \A k \in S : m <= k
  <2>. SUFFICES ASSUME \A m \in S : \E k \in S : k < m
                PROVE  FALSE
    OBVIOUS
  <2>1. 0 \in T /\ \A k \in Nat : k \in T => k + 1 \in T
    OBVIOUS
  <2>2. Nat \subseteq T
    <3>. HIDE DEF T
    <3>. QED  BY <2>1, Rise
  <2>3. n + 1 \in T
    BY <2>2
  <2>4. PICK i \in S : TRUE
    OBVIOUS
  <2>5. n + 1 <= i /\ i \in 1 .. n
    BY <2>3
  <2>. QED  BY <2>5
<1>. QED  BY <1>1 DEF Min

LEMMA MaxOf ==
  ASSUME NEW n \in Nat, NEW S \in SUBSET (1 .. n), S # {}
  PROVE  Max(S) \in S /\ \A k \in S : k <= Max(S)
<1>. DEFINE T == {k \in Nat : \A i \in S : i <= n - k}
<1>1. PICK m \in S : \A k \in S : m >= k
  <2>. SUFFICES ASSUME \A m \in S : \E k \in S : k > m
                PROVE  FALSE
    OBVIOUS
  <2>1. 0 \in T /\ \A k \in Nat : k \in T => k + 1 \in T
    OBVIOUS
  <2>2. Nat \subseteq T
    <3>. HIDE DEF T
    <3>. QED  BY <2>1, Rise
  <2>3. n \in T
    BY <2>2
  <2>4. PICK i \in S : TRUE
    OBVIOUS
  <2>5. i <= n - n /\ i \in 1 .. n
    BY <2>3
  <2>. QED  BY <2>5
<1>. QED  BY <1>1 DEF Max

(* The first m of a sequence.                                              *)
LEMMA FrontOf ==
  ASSUME NEW C, NEW s \in Seq(C), NEW m \in 0 .. Len(s)
  PROVE  /\ SubSeq(s, 1, m) \in Seq(C) /\ Len(SubSeq(s, 1, m)) = m
         /\ \A i \in 1 .. m : SubSeq(s, 1, m)[i] = s[i] /\ i \in 1 .. Len(s)
<1>1. Len(s) \in Nat /\ m \in Nat /\ m <= Len(s) /\ \A i \in 1 .. m : i \in 1 .. Len(s)
  OBVIOUS
<1>2. SubSeq(s, 1, m) \in Seq(C)
  BY <1>1
<1>3. Len(SubSeq(s, 1, m)) = m
  BY <1>1
<1>4. \A i \in 1 .. m : SubSeq(s, 1, m)[i] = s[i]
  BY <1>1
<1>. QED  BY <1>1, <1>2, <1>3, <1>4

(* it has taken the steps g of any set of positions, the last one last.    *)
Folded(it, n, base, g) ==
  /\ it[{}] = base
  /\ \A t \in SUBSET (1 .. n) : t # {} => it[t] = g[<<Max(t), it[t \ {Max(t)}]>>]

(* So it has where it was in A before the last one.                        *)
Rises(it, n, A, base, g) ==
  /\ it[{}] = base
  /\ \A t \in SUBSET (1 .. n) :
       t # {} /\ it[t \ {Max(t)}] \in A => it[t] = g[<<Max(t), it[t \ {Max(t)}]>>]

(* h has taken them one by one, and come to the end.                       *)
Stepped(h, n, base, g, end) ==
  /\ h[0] = base /\ h[n] = end
  /\ \A k \in 1 .. n : h[k] = g[<<k, h[k - 1]>>]

(* What a fold recurs on exists: for every step g there is a function that *)
(* has taken the steps of any set of positions, the last of them last.     *)
LEMMA FoldExists ==
  ASSUME NEW n \in Nat, NEW A, NEW base \in A, NEW g \in [(1 .. n) \X A -> A]
  PROVE  \E it \in [SUBSET (1 .. n) -> A] : Folded(it, n, base, g)
<1>. DEFINE Folds(it, k) ==
       \A t \in SUBSET (1 .. k) : it[t] = IF t = {} THEN base ELSE g[<<Max(t), it[t \ {Max(t)}]>>]
<1>. DEFINE T == {k \in 0 .. n : \E it \in [SUBSET (1 .. k) -> A] : Folds(it, k)}
<1>1. 0 \in T
  <2>. DEFINE it == [t \in SUBSET (1 .. 0) |-> base]
  <2>1. it \in [SUBSET (1 .. 0) -> A] /\ \A t \in SUBSET (1 .. 0) : t = {}
    OBVIOUS
  <2>2. Folds(it, 0)
    BY <2>1
  <2>3. 0 \in 0 .. n
    OBVIOUS
  <2>. HIDE DEF it, Folds
  <2>. QED  BY <2>1, <2>2, <2>3, Zenon
<1>2. ASSUME NEW k \in 0 .. n - 1, k \in T
      PROVE  k + 1 \in T
  <2>1. PICK it \in [SUBSET (1 .. k) -> A] : Folds(it, k)
    BY <1>2
  <2>. DEFINE D == SUBSET (1 .. k + 1)
              next == [t \in D |-> IF k + 1 \in t THEN g[<<k + 1, it[t \ {k + 1}]>>] ELSE it[t]]
  <2>2. \A t \in D : /\ k + 1 \in t => t \ {k + 1} \in SUBSET (1 .. k)
                     /\ k + 1 \notin t => t \in SUBSET (1 .. k)
    OBVIOUS
  <2>3. next \in [D -> A]
    BY <2>2
  <2>4. ASSUME NEW t \in D, t # {}
        PROVE  next[t] = g[<<Max(t), next[t \ {Max(t)}]>>]
    <3>1. Max(t) \in t /\ \A i \in t : i <= Max(t)
      <4>1. k + 1 \in Nat /\ t \in SUBSET (1 .. k + 1)
        OBVIOUS
      <4>. QED  BY <2>4, <4>1, MaxOf
    <3>2. CASE k + 1 \in t
      <4>1. Max(t) = k + 1
        <5>1. Max(t) \in 1 .. k + 1 /\ k + 1 <= Max(t)
          BY <3>1, <3>2
        <5>. HIDE DEF D, next
        <5>. QED  BY <5>1
      <4>2. t \ {k + 1} \in D /\ next[t \ {k + 1}] = it[t \ {k + 1}]
        OBVIOUS
      <4>3. next[t] = g[<<k + 1, it[t \ {k + 1}]>>]
        BY <3>2
      <4>. HIDE DEF next
      <4>. QED  BY <4>1, <4>2, <4>3
    <3>3. CASE k + 1 \notin t
      <4>1. t \in SUBSET (1 .. k) /\ t \ {Max(t)} \in SUBSET (1 .. k)
        BY <3>3, <2>2
      <4>2. t \ {Max(t)} \in D /\ next[t \ {Max(t)}] = it[t \ {Max(t)}] /\ next[t] = it[t]
        BY <3>3, <4>1
      <4>. QED  BY <2>1, <2>4, <4>1, <4>2
    <3>. QED  BY <3>2, <3>3
  <2>5. next[{}] = base
    BY <2>1
  <2>6. Folds(next, k + 1)
    <3>. HIDE DEF next
    <3>. QED  BY <2>4, <2>5
  <2>. QED
    <3>. HIDE DEF next, Folds
    <3>. QED  BY <2>3, <2>6
<1>3. 0 .. n \subseteq T
  <2>. HIDE DEF T
  <2>. QED  BY <1>1, <1>2, RiseTo
<1>4. PICK it \in [SUBSET (1 .. n) -> A] : Folds(it, n)
  <2>1. n \in T
    <3>. HIDE DEF T
    <3>. QED  BY <1>3
  <2>. HIDE DEF Folds
  <2>. QED  BY <2>1, Zenon
<1>5. Folded(it, n, base, g)
  BY <1>4 DEF Folded
<1>. QED  BY <1>5

(* Such a function has taken the steps of 1, 1 and 2, and so on in turn.   *)
LEMMA FoldRises ==
  ASSUME NEW n \in Nat, NEW A, NEW base \in A, NEW g \in [(1 .. n) \X A -> A], NEW it,
         Rises(it, n, A, base, g)
  PROVE  \E h \in [0 .. n -> A] : Stepped(h, n, base, g, it[1 .. n])
<1>. DEFINE T == {k \in 0 .. n : it[1 .. k] \in A}
<1>1. 0 \in T
  <2>1. 1 .. 0 = {} /\ 0 \in 0 .. n
    OBVIOUS
  <2>. QED  BY <2>1 DEF Rises
<1>2. ASSUME NEW k \in 0 .. n - 1, it[1 .. k] \in A
      PROVE  it[1 .. k + 1] = g[<<k + 1, it[1 .. k]>>]
  <2>. DEFINE t == 1 .. k + 1
  <2>1. t \in SUBSET (1 .. n) /\ t # {} /\ k + 1 \in t
    OBVIOUS
  <2>2. Max(t) \in t /\ k + 1 <= Max(t)
    <3>. HIDE DEF t
    <3>. QED  BY <2>1, MaxOf
  <2>3. Max(t) = k + 1
    <3>1. Max(t) \in 1 .. k + 1
      BY <2>2
    <3>. QED  BY <2>2, <3>1
  <2>4. t \ {k + 1} = 1 .. k
    OBVIOUS
  <2>5. it[t] = g[<<Max(t), it[t \ {Max(t)}]>>]
    <3>. HIDE DEF t
    <3>. QED  BY <1>2, <2>1, <2>3, <2>4 DEF Rises
  <2>. QED  BY <2>3, <2>4, <2>5
<1>3. ASSUME NEW k \in 0 .. n - 1, k \in T
      PROVE  k + 1 \in T
  <2>1. it[1 .. k + 1] = g[<<k + 1, it[1 .. k]>>] /\ it[1 .. k] \in A /\ k + 1 \in 1 .. n
    BY <1>2, <1>3
  <2>2. g[<<k + 1, it[1 .. k]>>] \in A
    BY <2>1
  <2>. QED  BY <2>1, <2>2
<1>4. \A k \in 0 .. n : it[1 .. k] \in A
  <2>1. 0 .. n \subseteq T
    <3>. HIDE DEF T
    <3>. QED  BY <1>1, <1>3, RiseTo
  <2>. QED  BY <2>1
<1>. DEFINE h == [k \in 0 .. n |-> it[1 .. k]]
<1>5. h \in [0 .. n -> A]
  BY <1>4
<1>6. h[0] = base
  <2>1. 1 .. 0 = {} /\ 0 \in 0 .. n
    OBVIOUS
  <2>. QED  BY <2>1 DEF Rises
<1>7. ASSUME NEW k \in 1 .. n
      PROVE  h[k] = g[<<k, h[k - 1]>>]
  <2>1. k - 1 \in 0 .. n - 1 /\ (k - 1) + 1 = k /\ k - 1 \in 0 .. n /\ k \in 0 .. n
    OBVIOUS
  <2>2. it[1 .. (k - 1) + 1] = g[<<(k - 1) + 1, it[1 .. k - 1]>>]
    BY <2>1, <1>2, <1>4
  <2>. QED  BY <2>1, <2>2
<1>8. h[n] = it[1 .. n]
  OBVIOUS
<1>. HIDE DEF h
<1>. QED  BY <1>5, <1>6, <1>7, <1>8 DEF Stepped

-------------------------------------------------------------------------------
(* sanitizePathName.                                                       *)

Safe == Letter \union {".", "_", "-"}

(* Without a dot or a dash at its edges.                                   *)
Edged(s) == s = <<>> \/ (s[1] \notin {".", "-"} /\ s[Len(s)] \notin {".", "-"})

(* Trimming leaves no character of the cutset at the edges, and a sequence *)
(* that has none there as it is.                                           *)
LEMMA TrimOf ==
  ASSUME NEW C, NEW s \in Seq(C), NEW cut
  PROVE  /\ TrimRunes(s, cut) \in Seq(C)
         /\ \/ TrimRunes(s, cut) = <<>>
            \/ TrimRunes(s, cut)[1] \notin cut /\ TrimRunes(s, cut)[Len(TrimRunes(s, cut))] \notin cut
         /\ s = <<>> \/ (s[1] \notin cut /\ s[Len(s)] \notin cut) => TrimRunes(s, cut) = s
<1>. DEFINE kept == {i \in DOMAIN s : s[i] \notin cut}
<1>1. Len(s) \in Nat /\ DOMAIN s = 1 .. Len(s) /\ kept \in SUBSET (1 .. Len(s))
  OBVIOUS
<1>2. CASE kept = {}
  <2>1. TrimRunes(s, cut) = <<>>
    BY <1>2 DEF TrimRunes
  <2>2. s # <<>> => 1 \in DOMAIN s
    BY <1>1
  <2>. QED  BY <1>2, <2>1, <2>2
<1>3. CASE kept # {}
  <2>. DEFINE low == Min(kept)
              high == Max(kept)
  <2>1. low \in kept /\ high \in kept /\ \A i \in kept : low <= i /\ i <= high
    BY <1>1, <1>3, MinOf, MaxOf
  <2>2. TrimRunes(s, cut) = SubSeq(s, low, high)
    BY <1>3 DEF TrimRunes
  <2>3. low \in 1 .. Len(s) /\ high \in 1 .. Len(s) /\ low <= high /\ s[low] \notin cut /\ s[high] \notin cut
    BY <2>1, <1>1
  <2>. HIDE DEF kept, low, high
  <2>4. SubSeq(s, low, high) \in Seq(C) /\ Len(SubSeq(s, low, high)) = high - low + 1
    BY <1>1, <2>3
  <2>5. SubSeq(s, low, high)[1] = s[low] /\ SubSeq(s, low, high)[high - low + 1] = s[high]
    BY <1>1, <2>3
  <2>6. ASSUME s[1] \notin cut, s[Len(s)] \notin cut
        PROVE  SubSeq(s, low, high) = s
    <3>1. 1 \in kept /\ Len(s) \in kept
      BY <1>1, <2>3, <2>6 DEF kept
    <3>2. low <= 1 /\ Len(s) <= high
      BY <2>1, <3>1
    <3>3. Len(s) \in Nat /\ low \in 1 .. Len(s) /\ high \in 1 .. Len(s)
      BY <1>1, <2>3
    <3>4. low = 1
      BY <3>2, <3>3
    <3>5. high = Len(s)
      BY <3>2, <3>3
    <3>. QED  BY <3>4, <3>5
  <2>7. s # <<>>
    BY <1>1, <2>3
  <2>. QED  BY <2>2, <2>3, <2>4, <2>5, <2>6, <2>7
<1>. QED  BY <1>2, <1>3

Buffer == [out : Seq(Safe), lastDash : BOOLEAN]

NoRunes == [out |-> <<>>, lastDash |-> FALSE]

(* What is written is safe.                                                *)
LEMMA WriteType ==
  ASSUME NEW b \in Buffer, NEW r
  PROVE  WriteRune(b, r) \in Buffer
<1>1. "-" \in Safe
  BY DEF Safe
<1>2. SafeRune(r) => r \in Safe
  BY DEF Safe, SafeRune
<1>. QED  BY <1>1, <1>2 DEF WriteRune, Buffer

(* The buffer after each of the characters.                                *)
LEMMA DashedSteps ==
  ASSUME NEW C, NEW s \in Seq(C)
  PROVE  \E h \in [0 .. Len(s) -> Buffer] :
           /\ h[0] = NoRunes
           /\ \A k \in 1 .. Len(s) : h[k] = WriteRune(h[k - 1], s[k])
           /\ Dashed(s) = h[Len(s)].out
<1>. DEFINE n == Len(s)
            g == [x \in (1 .. n) \X Buffer |-> WriteRune(x[2], s[x[1]])]
<1>1. n \in Nat /\ DOMAIN s = 1 .. n /\ NoRunes \in Buffer
  BY DEF Buffer, NoRunes
<1>2. g \in [(1 .. n) \X Buffer -> Buffer]
  <2>1. \A x \in (1 .. n) \X Buffer : x[1] \in 1 .. n /\ x[2] \in Buffer
    OBVIOUS
  <2>. HIDE DEF n
  <2>. QED  BY <2>1, WriteType
<1>3. PICK it \in [SUBSET (1 .. n) -> Buffer] :
        Folded(it, n, NoRunes, g)
  <2>. HIDE DEF g, n
  <2>. QED  BY <1>1, <1>2, FoldExists, Zenon
<1>. DEFINE next(f, t) == IF t = {} THEN NoRunes ELSE WriteRune(f[t \ {Max(t)}], s[Max(t)])
            iter == CHOOSE f : f = [t \in SUBSET DOMAIN s |-> next(f, t)]
<1>4. ASSUME NEW f, NEW t \in SUBSET (1 .. n), t # {}, f[t \ {Max(t)}] \in Buffer
      PROVE  next(f, t) = g[<<Max(t), f[t \ {Max(t)}]>>]
  <2>1. Max(t) \in 1 .. n
    BY <1>1, <1>4, MaxOf
  <2>. QED  BY <1>4, <2>1
<1>5. it = [t \in SUBSET DOMAIN s |-> next(it, t)]
  <2>1. ASSUME NEW t \in SUBSET (1 .. n)
        PROVE  it[t] = next(it, t)
    <3>1. t # {} => it[t \ {Max(t)}] \in Buffer
      OBVIOUS
    <3>. HIDE DEF g, n
    <3>. QED  BY <1>3, <1>4, <3>1 DEF Folded
  <2>. HIDE DEF next, n
  <2>. QED  BY <2>1, <1>1
<1>6. iter = [t \in SUBSET DOMAIN s |-> next(iter, t)]
  <2>. HIDE DEF next
  <2>. QED  BY <1>5
<1>7. Dashed(s) = iter[1 .. n].out
  <2>1. Dashed(s) = iter[DOMAIN s].out
    BY DEF Dashed, FoldLeft, MapThenFoldSet, NoRunes
  <2>. HIDE DEF iter, n
  <2>. QED  BY <1>1, <2>1
<1>8. Rises(iter, n, Buffer, NoRunes, g)
  <2>1. \A t \in SUBSET (1 .. n) : iter[t] = next(iter, t)
    <3>. HIDE DEF iter, next, n
    <3>. QED  BY <1>1, <1>6
  <2>2. iter[{}] = NoRunes
    <3>. HIDE DEF iter, n
    <3>. QED  BY <2>1
  <2>. HIDE DEF iter, g, n
  <2>. QED  BY <2>1, <2>2, <1>4 DEF Rises
<1>9. PICK h \in [0 .. n -> Buffer] :
        Stepped(h, n, NoRunes, g, iter[1 .. n])
  <2>. HIDE DEF iter, g, n
  <2>. QED  BY <1>1, <1>2, <1>8, FoldRises, Zenon
<1>10. ASSUME NEW k \in 1 .. n
       PROVE  h[k] = WriteRune(h[k - 1], s[k])
  <2>1. h[k - 1] \in Buffer
    BY <1>1
  <2>. QED  BY <2>1, <1>9 DEF Stepped
<1>. HIDE DEF iter, g
<1>. QED  BY <1>7, <1>9, <1>10 DEF Stepped

(* Only safe characters are left.                                          *)
LEMMA DashedType ==
  ASSUME NEW C, NEW s \in Seq(C)
  PROVE  Dashed(s) \in Seq(Safe)
<1>1. PICK h \in [0 .. Len(s) -> Buffer] : Dashed(s) = h[Len(s)].out
  BY DashedSteps
<1>2. h[Len(s)] \in Buffer
  <2>1. Len(s) \in 0 .. Len(s)
    OBVIOUS
  <2>. QED  BY <2>1
<1>. QED  BY <1>1, <1>2 DEF Buffer

(* And those stay.                                                         *)
LEMMA DashedStays ==
  ASSUME NEW s \in Seq(Safe)
  PROVE  Dashed(s) = s
<1>1. PICK h \in [0 .. Len(s) -> Buffer] :
        /\ h[0] = NoRunes
        /\ \A k \in 1 .. Len(s) : h[k] = WriteRune(h[k - 1], s[k])
        /\ Dashed(s) = h[Len(s)].out
  BY DashedSteps
<1>2. Len(s) \in Nat /\ \A k \in 1 .. Len(s) : SafeRune(s[k])
  <2>1. \A k \in 1 .. Len(s) : s[k] \in Safe
    OBVIOUS
  <2>2. \A r \in Safe : SafeRune(r)
    BY DEF Safe, SafeRune
  <2>. QED  BY <2>1, <2>2
<1>. DEFINE T == {k \in 0 .. Len(s) : h[k].out = SubSeq(s, 1, k)}
<1>3. 0 \in T
  <2>1. h[0].out = <<>> /\ SubSeq(s, 1, 0) = <<>> /\ 0 \in 0 .. Len(s)
    BY <1>1, <1>2 DEF NoRunes
  <2>. QED  BY <2>1
<1>4. ASSUME NEW k \in 0 .. Len(s) - 1, k \in T
      PROVE  k + 1 \in T
  <2>1. k + 1 \in 1 .. Len(s) /\ (k + 1) - 1 = k /\ k \in 0 .. Len(s) /\ h[k] \in Buffer
    BY <1>2
  <2>2. h[k + 1] = WriteRune(h[k], s[k + 1]) /\ SafeRune(s[k + 1])
    BY <1>1, <1>2, <2>1
  <2>3. h[k + 1].out = Append(h[k].out, s[k + 1])
    BY <2>2 DEF WriteRune
  <2>4. Append(SubSeq(s, 1, k), s[k + 1]) = SubSeq(s, 1, k + 1)
    BY <2>1
  <2>5. h[k].out = SubSeq(s, 1, k) /\ k + 1 \in 0 .. Len(s)
    BY <1>4, <2>1
  <2>. QED  BY <2>3, <2>4, <2>5
<1>5. Len(s) \in T
  <2>1. 0 .. Len(s) \subseteq T
    <3>. HIDE DEF T
    <3>. QED  BY <1>2, <1>3, <1>4, RiseTo
  <2>2. Len(s) \in 0 .. Len(s)
    BY <1>2
  <2>. HIDE DEF T
  <2>. QED  BY <2>1, <2>2
<1>6. SubSeq(s, 1, Len(s)) = s
  OBVIOUS
<1>7. h[Len(s)].out = SubSeq(s, 1, Len(s))
  BY <1>5
<1>. QED  BY <1>1, <1>6, <1>7

(* A sanitized name is safe and has no dot or dash at its edges.           *)
LEMMA SanitizeType ==
  ASSUME NEW C, NEW raw \in Seq(C)
  PROVE  SanitizePathName(raw) \in Seq(Safe) /\ Edged(SanitizePathName(raw))
<1>1. TrimRunes(raw, {" "}) \in Seq(C)
  BY TrimOf
<1>2. Dashed(TrimRunes(raw, {" "})) \in Seq(Safe)
  BY <1>1, DashedType
<1>. QED  BY <1>2, TrimOf DEF SanitizePathName, Edged

(* Such a name is left as it is.                                           *)
LEMMA SanitizeStays ==
  ASSUME NEW s \in Seq(Safe), Edged(s)
  PROVE  SanitizePathName(s) = s
<1>1. s = <<>> \/ (s[1] \notin {" "} /\ s[Len(s)] \notin {" "})
  <2>1. s # <<>> => s[1] \in Safe /\ s[Len(s)] \in Safe
    OBVIOUS
  <2>2. " " \notin Safe
    BY LettersAssumption DEF Safe
  <2>. QED  BY <2>1, <2>2
<1>2. TrimRunes(s, {" "}) = s
  BY <1>1, TrimOf
<1>3. Dashed(s) = s
  BY DashedStays
<1>4. TrimRunes(s, {".", "-"}) = s
  BY TrimOf DEF Edged
<1>. QED  BY <1>2, <1>3, <1>4 DEF SanitizePathName

(* A first character that is a letter stays the first one.                 *)
LEMMA FirstStays ==
  ASSUME NEW C, NEW raw \in Seq(C), raw # <<>>, raw[1] \in Letter
  PROVE  SanitizePathName(raw) # <<>> /\ SanitizePathName(raw)[1] \in Letter
<1>1. ASSUME NEW D, NEW s \in Seq(D), NEW cut, s # <<>>, s[1] \notin cut
      PROVE  TrimRunes(s, cut) # <<>> /\ TrimRunes(s, cut)[1] = s[1]
  <2>. DEFINE kept == {i \in DOMAIN s : s[i] \notin cut}
  <2>1. Len(s) \in Nat /\ DOMAIN s = 1 .. Len(s) /\ kept \in SUBSET (1 .. Len(s)) /\ 1 \in kept
    BY <1>1
  <2>2. /\ Min(kept) \in kept /\ \A i \in kept : Min(kept) <= i
        /\ Max(kept) \in kept /\ \A i \in kept : i <= Max(kept)
    <3>. HIDE DEF kept
    <3>. QED  BY <2>1, MinOf, MaxOf
  <2>3. TrimRunes(s, cut) = SubSeq(s, Min(kept), Max(kept))
    BY <2>1 DEF TrimRunes
  <2>. HIDE DEF kept
  <2>4. Min(kept) \in 1 .. Len(s) /\ Max(kept) \in 1 .. Len(s) /\ Min(kept) <= 1
    BY <2>1, <2>2
  <2>5. Min(kept) = 1
    BY <2>4
  <2>6. SubSeq(s, 1, Max(kept)) # <<>> /\ SubSeq(s, 1, Max(kept))[1] = s[1]
    BY <2>1, <2>4
  <2>. QED  BY <2>3, <2>5, <2>6
<1>2. ASSUME NEW s \in Seq(C), s # <<>>, s[1] \in Letter
      PROVE  Dashed(s) # <<>> /\ Dashed(s)[1] = s[1]
  <2>1. PICK h \in [0 .. Len(s) -> Buffer] :
          /\ h[0] = NoRunes
          /\ \A k \in 1 .. Len(s) : h[k] = WriteRune(h[k - 1], s[k])
          /\ Dashed(s) = h[Len(s)].out
    BY DashedSteps
  <2>2. Len(s) \in Nat /\ 1 <= Len(s)
    BY <1>2
  <2>. DEFINE T == {k \in 0 .. Len(s) : k = 0 \/ (h[k].out # <<>> /\ h[k].out[1] = s[1])}
  <2>3. 0 \in T
    OBVIOUS
  <2>4. ASSUME NEW k \in 0 .. Len(s) - 1, k \in T
        PROVE  k + 1 \in T
    <3>1. /\ k + 1 \in 1 .. Len(s) /\ (k + 1) - 1 = k /\ k + 1 \in 0 .. Len(s)
          /\ k \in 0 .. Len(s) /\ h[k].out \in Seq(Safe)
      <4>1. k \in 0 .. Len(s) /\ h[k] \in Buffer
        BY <2>2
      <4>. QED  BY <2>2, <4>1 DEF Buffer
    <3>2. h[k + 1] = WriteRune(h[k], s[k + 1])
      BY <2>1, <3>1
    <3>3. CASE k = 0
      <4>1. SafeRune(s[1])
        BY <1>2 DEF SafeRune
      <4>2. h[1].out = Append(<<>>, s[1])
        BY <2>1, <3>2, <3>3, <4>1 DEF WriteRune, NoRunes
      <4>. QED  BY <3>1, <3>3, <4>2
    <3>4. CASE k # 0
      <4>1. h[k].out # <<>> /\ h[k].out[1] = s[1]
        BY <2>4, <3>4
      <4>2. \/ h[k + 1].out = h[k].out
            \/ h[k + 1].out = Append(h[k].out, s[k + 1])
            \/ h[k + 1].out = Append(h[k].out, "-")
        <5>1. \A b, r : WriteRune(b, r).out \in {b.out, Append(b.out, r), Append(b.out, "-")}
          BY DEF WriteRune
        <5>. QED  BY <3>2, <5>1
      <4>3. \A u \in Seq(Safe) : \A x : u # <<>> => Append(u, x) # <<>> /\ Append(u, x)[1] = u[1]
        OBVIOUS
      <4>4. h[k + 1].out # <<>> /\ h[k + 1].out[1] = s[1]
        <5>. DEFINE u == h[k].out
                    w == h[k + 1].out
        <5>1. u \in Seq(Safe) /\ u # <<>> /\ u[1] = s[1]
          BY <3>1, <4>1
        <5>2. /\ Append(u, s[k + 1]) # <<>> /\ Append(u, s[k + 1])[1] = s[1]
              /\ Append(u, "-") # <<>> /\ Append(u, "-")[1] = s[1]
          BY <4>3, <5>1
        <5>3. w = u \/ w = Append(u, s[k + 1]) \/ w = Append(u, "-")
          BY <4>2
        <5>. HIDE DEF u, w
        <5>4. w # <<>> /\ w[1] = s[1]
          BY <5>1, <5>2, <5>3
        <5>. QED  BY <5>4 DEF w
      <4>. QED  BY <3>1, <4>4
    <3>. QED  BY <3>3, <3>4
  <2>5. Len(s) \in T
    <3>1. 0 .. Len(s) \subseteq T
      <4>. HIDE DEF T
      <4>. QED  BY <2>2, <2>3, <2>4, RiseTo
    <3>. QED  BY <2>2, <3>1
  <2>. QED  BY <2>1, <2>2, <2>5
<1>. DEFINE t == TrimRunes(raw, {" "})
            d == Dashed(t)
<1>3. raw[1] \notin {" ", ".", "-"}
  BY LettersAssumption
<1>4. t \in Seq(C) /\ t # <<>> /\ t[1] = raw[1]
  <2>1. t # <<>> /\ t[1] = raw[1]
    BY <1>1, <1>3
  <2>. QED  BY <2>1, TrimOf
<1>5. d \in Seq(Safe) /\ d # <<>> /\ d[1] = raw[1]
  <2>. HIDE DEF t
  <2>. QED  BY <1>2, <1>4, DashedType
<1>6. TrimRunes(d, {".", "-"}) # <<>> /\ TrimRunes(d, {".", "-"})[1] = raw[1]
  <2>. HIDE DEF d
  <2>. QED  BY <1>1, <1>3, <1>5
<1>. QED  BY <1>6 DEF SanitizePathName

-------------------------------------------------------------------------------
(* The names of the volumes.                                               *)

(* Volumes carry labels of any characters.                                 *)
LabelsOK == enabled \in SUBSET Volume /\ label \in [Volume -> Seq(STRING)]

(* They do in every state.                                                 *)
LEMMA LabelsKept == PathsSpec => []LabelsOK
<1>1. PathsInit => LabelsOK
  BY NamesAssumption DEF PathsInit, Init, LabelsOK, NoName
<1>2. LabelsOK /\ [PathsNext]_<<vars, pathVars>> => LabelsOK'
  <2>. SUFFICES ASSUME LabelsOK, [PathsNext]_<<vars, pathVars>> PROVE LabelsOK'
    OBVIOUS
  <2>1. CASE Next
    <3>1. ASSUME NEW v \in Volume, NEW l \in Labels[v], CreateVolume(v, l)
          PROVE  LabelsOK'
      BY <3>1, NamesAssumption DEF CreateVolume, LabelsOK
    <3>2. ASSUME NEW v \in Volume, RemoveVolume(v)
          PROVE  LabelsOK'
      BY <3>2, NamesAssumption DEF RemoveVolume, LabelsOK, NoName
    <3>. QED  BY <2>1, <3>1, <3>2 DEF Next
  <2>2. CASE UNCHANGED vars
    BY <2>2 DEF vars, LabelsOK
  <2>3. Next \/ UNCHANGED vars
    BY DEF PathsNext, UserStep, Configure, Move, SetRuntime, ShareBridge, SetEnv, SetFlag
  <2>. QED  BY <2>1, <2>2, <2>3
<1>. QED  BY <1>1, <1>2, PTL DEF PathsSpec

(* Volumes are numbers, and their names are safe.                          *)
LEMMA VolumesType ==
  ASSUME LabelsOK
  PROVE  /\ Len(VolumeName) \in Nat /\ Volume = 1 .. Len(VolumeName)
         /\ \A v \in Volume : /\ FriendlyNameForVolume(v) \in Seq(Safe)
                              /\ Edged(FriendlyNameForVolume(v))
<1>1. Len(VolumeName) \in Nat /\ Volume = 1 .. Len(VolumeName)
  BY NamesAssumption DEF Volume
<1>2. ASSUME NEW v \in Volume
      PROVE  label[v] \in Seq(STRING) /\ VolumeName[v] \in Seq(STRING)
  BY NamesAssumption DEF Volume, LabelsOK
<1>. QED  BY <1>1, <1>2, SanitizeType DEF FriendlyNameForVolume

(* A session that restore made up is accepted when it is passed back,      *)
(* whatever target was named.                                              *)
THEOREM SessionComesBack == PathsSpec => []SessionAccepted
<1>1. LabelsOK => SessionAccepted
  <2>. SUFFICES ASSUME LabelsOK, NEW v \in enabled
                PROVE  LET session == DefaultRestoreSessionID(VolumeName[v], label[v])
                       IN  SanitizePathName(session) = session
    BY DEF SessionAccepted
  <2>. DEFINE source == SanitizePathName(VolumeName[v])
              target == SanitizePathName(label[v])
              session == source \o <<"-", "t", "o", "-">> \o target \o <<"-">> \o Stamp
  <2>1. v \in Volume /\ VolumeName[v] \in Seq(STRING) /\ label[v] \in Seq(STRING)
    BY NamesAssumption DEF LabelsOK, Volume
  <2>2. /\ source \in Seq(Safe) /\ source # <<>> /\ source[1] \in Letter
        /\ target \in Seq(Safe)
    BY <2>1, NamesAssumption, SanitizeType, FirstStays
  <2>3. Stamp \in Seq(Safe) /\ Stamp # <<>> /\ Stamp[Len(Stamp)] \in Letter
    <3>1. Letter \union {"-"} \subseteq Safe
      BY DEF Safe
    <3>. QED  BY <3>1, StampAssumption
  <2>4. <<"-", "t", "o", "-">> \in Seq(Safe) /\ <<"-">> \in Seq(Safe)
    <3>1. "-" \in Safe /\ "t" \in Safe /\ "o" \in Safe
      BY LettersAssumption DEF Safe
    <3>. QED  BY <3>1
  <2>5. session = DefaultRestoreSessionID(VolumeName[v], label[v])
    BY DEF DefaultRestoreSessionID
  <2>. HIDE DEF source, target
  <2>6. session \in Seq(Safe)
    BY <2>2, <2>3, <2>4
  <2>7. session # <<>> /\ session[1] = source[1] /\ session[Len(session)] = Stamp[Len(Stamp)]
    BY <2>2, <2>3, <2>4
  <2>8. Edged(session)
    BY <2>2, <2>3, <2>7, LettersAssumption DEF Edged
  <2>. HIDE DEF session
  <2>. QED  BY <2>5, <2>6, <2>8, SanitizeStays
<1>. QED  BY <1>1, LabelsKept, PTL

-------------------------------------------------------------------------------
(* buildVolumeSpecs.                                                       *)

(* States of buildVolumeSpecs, and its step.                               *)
SpecsMade == [specs : Seq(Volume), used : SUBSET Seq(Safe), failed : SUBSET Volume]

NoSpecs == [specs |-> <<>>, used |-> {}, failed |-> {}]

AddEnabled(acc, v) == IF v \in enabled THEN AddSpec(acc, v) ELSE acc

(* One volume more.                                                        *)
LEMMA AddType ==
  ASSUME LabelsOK, NEW acc \in SpecsMade, NEW v \in Volume
  PROVE  AddEnabled(acc, v) \in SpecsMade
<1>. DEFINE f == FriendlyNameForVolume(v)
<1>1. f \in Seq(Safe)
  BY VolumesType
<1>. HIDE DEF f
<1>2. /\ [acc EXCEPT !.failed = @ \union {v}] \in SpecsMade
      /\ [acc EXCEPT !.specs = Append(@, v), !.used = @ \union {f}] \in SpecsMade
  <2>1. /\ acc.specs \in Seq(Volume) /\ acc.used \in SUBSET Seq(Safe) /\ acc.failed \in SUBSET Volume
        /\ acc = [specs |-> acc.specs, used |-> acc.used, failed |-> acc.failed]
    BY DEF SpecsMade
  <2>2. /\ Append(acc.specs, v) \in Seq(Volume) /\ acc.used \union {f} \in SUBSET Seq(Safe)
        /\ acc.failed \union {v} \in SUBSET Volume
    BY <1>1, <2>1
  <2>. QED  BY <2>1, <2>2 DEF SpecsMade
<1>. QED  BY <1>2 DEF AddEnabled, AddSpec, f

(* What is made after each of the volumes.                                 *)
LEMMA SpecsSteps ==
  ASSUME LabelsOK
  PROVE  \E h \in [0 .. Len(VolumeName) -> SpecsMade] :
           /\ h[0] = NoSpecs
           /\ \A k \in 1 .. Len(VolumeName) : h[k] = AddEnabled(h[k - 1], k)
           /\ BuildVolumeSpecs = h[Len(VolumeName)]
<1>. DEFINE n == Len(VolumeName)
            g == [x \in (1 .. n) \X SpecsMade |-> AddEnabled(x[2], x[1])]
            order == [i \in DOMAIN VolumeName |-> i]
<1>1. n \in Nat /\ DOMAIN VolumeName = 1 .. n /\ NoSpecs \in SpecsMade /\ Volume = 1 .. n
  BY VolumesType DEF Volume, SpecsMade, NoSpecs
<1>2. g \in [(1 .. n) \X SpecsMade -> SpecsMade]
  <2>1. \A x \in (1 .. n) \X SpecsMade : x[1] \in Volume /\ x[2] \in SpecsMade
    BY <1>1
  <2>. HIDE DEF n
  <2>. QED  BY <2>1, AddType
<1>3. PICK it \in [SUBSET (1 .. n) -> SpecsMade] : Folded(it, n, NoSpecs, g)
  <2>. HIDE DEF g, n
  <2>. QED  BY <1>1, <1>2, FoldExists, Zenon
<1>. DEFINE next(f, t) == IF t = {} THEN NoSpecs ELSE AddEnabled(f[t \ {Max(t)}], order[Max(t)])
            iter == CHOOSE f : f = [t \in SUBSET DOMAIN order |-> next(f, t)]
<1>4. ASSUME NEW f, NEW t \in SUBSET (1 .. n), t # {}, f[t \ {Max(t)}] \in SpecsMade
      PROVE  next(f, t) = g[<<Max(t), f[t \ {Max(t)}]>>]
  <2>1. Max(t) \in 1 .. n
    BY <1>1, <1>4, MaxOf
  <2>2. order[Max(t)] = Max(t)
    BY <1>1, <2>1
  <2>. HIDE DEF order
  <2>. QED  BY <1>4, <2>1, <2>2
<1>5. it = [t \in SUBSET DOMAIN order |-> next(it, t)]
  <2>1. ASSUME NEW t \in SUBSET (1 .. n)
        PROVE  it[t] = next(it, t)
    <3>1. t # {} => it[t \ {Max(t)}] \in SpecsMade
      OBVIOUS
    <3>. HIDE DEF g, n, order
    <3>. QED  BY <1>3, <1>4, <3>1 DEF Folded
  <2>2. DOMAIN order = 1 .. n
    BY <1>1
  <2>. HIDE DEF next, n, order
  <2>. QED  BY <2>1, <2>2
<1>6. iter = [t \in SUBSET DOMAIN order |-> next(iter, t)]
  <2>. HIDE DEF next, order
  <2>. QED  BY <1>5
<1>7. BuildVolumeSpecs = iter[1 .. n]
  <2>1. BuildVolumeSpecs = iter[DOMAIN order]
    BY DEF BuildVolumeSpecs, FoldLeftDomain, FoldLeft, MapThenFoldSet, NoSpecs, AddEnabled
  <2>2. DOMAIN order = 1 .. n
    BY <1>1
  <2>. HIDE DEF iter, n, order
  <2>. QED  BY <2>1, <2>2
<1>8. Rises(iter, n, SpecsMade, NoSpecs, g)
  <2>1. \A t \in SUBSET (1 .. n) : iter[t] = next(iter, t)
    <3>1. DOMAIN order = 1 .. n
      BY <1>1
    <3>. HIDE DEF iter, next, n, order
    <3>. QED  BY <3>1, <1>6
  <2>2. iter[{}] = NoSpecs
    <3>. HIDE DEF iter, n
    <3>. QED  BY <2>1
  <2>. HIDE DEF iter, g, n
  <2>. QED  BY <2>1, <2>2, <1>4 DEF Rises
<1>9. PICK h \in [0 .. n -> SpecsMade] : Stepped(h, n, NoSpecs, g, iter[1 .. n])
  <2>. HIDE DEF iter, g, n
  <2>. QED  BY <1>1, <1>2, <1>8, FoldRises, Zenon
<1>10. ASSUME NEW k \in 1 .. n
       PROVE  h[k] = AddEnabled(h[k - 1], k)
  <2>1. h[k - 1] \in SpecsMade
    BY <1>1
  <2>. QED  BY <2>1, <1>9 DEF Stepped
<1>. HIDE DEF iter, g
<1>. QED  BY <1>7, <1>9, <1>10 DEF Stepped

First(v) ==
  /\ FriendlyNameForVolume(v) # NoName
  /\ \A w \in enabled : w < v => FriendlyNameForVolume(w) # FriendlyNameForVolume(v)

Listed(acc) == {acc.specs[i] : i \in DOMAIN acc.specs}

(* What is listed after one more.                                          *)
LEMMA ListedAppend ==
  ASSUME NEW acc, NEW next, NEW x, acc.specs \in Seq(Volume), next.specs = Append(acc.specs, x)
  PROVE  Listed(next) = Listed(acc) \union {x}
<1>. DEFINE s == acc.specs
<1>1. /\ DOMAIN s = 1 .. Len(s) /\ DOMAIN Append(s, x) = 1 .. Len(s) + 1 /\ Len(s) \in Nat
      /\ \A i \in 1 .. Len(s) : Append(s, x)[i] = s[i]
      /\ Append(s, x)[Len(s) + 1] = x
  OBVIOUS
<1>2. \A i \in 1 .. Len(s) + 1 : i \in 1 .. Len(s) \/ i = Len(s) + 1
  BY <1>1
<1>3. Len(s) + 1 \in 1 .. Len(s) + 1 /\ \A i \in 1 .. Len(s) : i \in 1 .. Len(s) + 1
  BY <1>1
<1>4. next.specs = Append(s, x)
  OBVIOUS
<1>. HIDE DEF s
<1>. DEFINE t == Append(s, x)
<1>. HIDE DEF t
<1>5. {t[i] : i \in DOMAIN t} = {s[i] : i \in DOMAIN s} \union {x}
  BY <1>1, <1>2, <1>3 DEF t
<1>. QED  BY <1>4, <1>5 DEF Listed, s, t

(* What is known of the volumes up to k.                                   *)
SpecsUpTo(acc, k) ==
  /\ Listed(acc) = {v \in enabled : v <= k /\ First(v)}
  /\ acc.failed = {v \in enabled : v <= k /\ ~First(v)}
  /\ \A f : f \in acc.used <=> f # NoName /\ \E v \in enabled : v <= k /\ FriendlyNameForVolume(v) = f

(* The specs after all volumes.                                            *)
LEMMA SpecsKnown ==
  ASSUME LabelsOK
  PROVE  SpecsUpTo(BuildVolumeSpecs, Len(VolumeName)) /\ BuildVolumeSpecs \in SpecsMade
<1>. DEFINE n == Len(VolumeName)
<1>1. PICK h \in [0 .. n -> SpecsMade] :
        /\ h[0] = NoSpecs
        /\ \A k \in 1 .. n : h[k] = AddEnabled(h[k - 1], k)
        /\ BuildVolumeSpecs = h[n]
  BY SpecsSteps
<1>2. n \in Nat /\ Volume = 1 .. n /\ enabled \subseteq 1 .. n
  BY VolumesType DEF LabelsOK
<1>. DEFINE T == {k \in 0 .. n : SpecsUpTo(h[k], k)}
<1>. HIDE DEF n
<1>3. 0 \in T
  <2>1. \A v \in enabled : ~(v <= 0)
    BY <1>2
  <2>2. Listed(h[0]) = {} /\ h[0].failed = {} /\ h[0].used = {}
    BY <1>1 DEF NoSpecs, Listed
  <2>3. SpecsUpTo(h[0], 0)
    BY <2>1, <2>2 DEF SpecsUpTo
  <2>. QED  BY <1>2, <2>3
<1>4. ASSUME NEW k \in 0 .. n - 1, k \in T
      PROVE  k + 1 \in T
  <2>. DEFINE f == FriendlyNameForVolume(k + 1)
  <2>1. /\ k \in 0 .. n /\ k + 1 \in 1 .. n /\ k + 1 \in 0 .. n /\ (k + 1) - 1 = k
        /\ h[k] \in SpecsMade /\ SpecsUpTo(h[k], k)
    BY <1>2, <1>4
  <2>2. h[k + 1] = AddEnabled(h[k], k + 1)
    BY <1>1, <2>1
  <2>3. \A v \in enabled : v <= k + 1 <=> v <= k \/ v = k + 1
    BY <1>2, <2>1
  <2>4. CASE k + 1 \notin enabled
    <3>1. h[k + 1] = h[k] /\ \A v \in enabled : v <= k + 1 <=> v <= k
      BY <2>2, <2>3, <2>4 DEF AddEnabled
    <3>. QED  BY <2>1, <3>1 DEF SpecsUpTo
  <2>5. CASE k + 1 \in enabled
    <3>1. First(k + 1) <=> f # NoName /\ f \notin h[k].used
      <4>1. \A v \in enabled : v < k + 1 <=> v <= k
        BY <1>2, <2>1
      <4>. QED  BY <4>1, <2>1 DEF First, SpecsUpTo
    <3>2. CASE First(k + 1)
      <4>1. /\ h[k + 1].specs = Append(h[k].specs, k + 1)
            /\ h[k + 1].used = h[k].used \union {f} /\ h[k + 1].failed = h[k].failed
        BY <2>1, <2>2, <2>5, <3>1, <3>2 DEF AddEnabled, AddSpec, SpecsMade
      <4>2. Listed(h[k + 1]) = Listed(h[k]) \union {k + 1}
        <5>1. h[k].specs \in Seq(Volume)
          BY <2>1 DEF SpecsMade
        <5>. DEFINE acc == h[k]
                    next == h[k + 1]
                    last == k + 1
        <5>2. acc.specs \in Seq(Volume) /\ next.specs = Append(acc.specs, last)
          BY <4>1, <5>1
        <5>. HIDE DEF acc, next, last
        <5>3. Listed(next) = Listed(acc) \union {last}
          BY <5>2, ListedAppend
        <5>. QED  BY <5>3 DEF acc, next, last
      <4>3. f # NoName
        BY <3>1, <3>2
      <4>4. Listed(h[k + 1]) = {v \in enabled : v <= k + 1 /\ First(v)}
        BY <2>1, <2>3, <2>5, <3>2, <4>2 DEF SpecsUpTo
      <4>5. h[k + 1].failed = {v \in enabled : v <= k + 1 /\ ~First(v)}
        BY <2>1, <2>3, <2>5, <3>2, <4>1 DEF SpecsUpTo
      <4>6. \A e : e \in h[k + 1].used <=>
                     e # NoName /\ \E v \in enabled : v <= k + 1 /\ FriendlyNameForVolume(v) = e
        BY <2>1, <2>3, <2>5, <4>1, <4>3 DEF SpecsUpTo
      <4>. QED  BY <2>1, <4>4, <4>5, <4>6 DEF SpecsUpTo
    <3>3. CASE ~First(k + 1)
      <4>1. /\ h[k + 1].specs = h[k].specs /\ h[k + 1].used = h[k].used
            /\ h[k + 1].failed = h[k].failed \union {k + 1}
        BY <2>1, <2>2, <2>5, <3>1, <3>3 DEF AddEnabled, AddSpec, SpecsMade
      <4>2. Listed(h[k + 1]) = {v \in enabled : v <= k + 1 /\ First(v)}
        BY <2>1, <2>3, <3>3, <4>1 DEF SpecsUpTo, Listed
      <4>3. h[k + 1].failed = {v \in enabled : v <= k + 1 /\ ~First(v)}
        BY <2>1, <2>3, <2>5, <3>3, <4>1 DEF SpecsUpTo
      <4>4. \A e : e \in h[k + 1].used <=>
                     e # NoName /\ \E v \in enabled : v <= k + 1 /\ FriendlyNameForVolume(v) = e
        BY <2>1, <2>3, <2>5, <3>1, <3>3, <4>1 DEF SpecsUpTo
      <4>. QED  BY <2>1, <4>2, <4>3, <4>4 DEF SpecsUpTo
    <3>. QED  BY <3>2, <3>3
  <2>. QED  BY <2>4, <2>5
<1>5. n \in T
  <2>1. 0 .. n \subseteq T
    <3>. HIDE DEF T
    <3>. QED  BY <1>2, <1>3, <1>4, RiseTo
  <2>. QED  BY <1>2, <2>1
<1>. QED  BY <1>1, <1>2, <1>5 DEF n

(* buildVolumeSpecs exposes each path once, to the first volume that asks  *)
(* for it, and reports every other volume.                                 *)
THEOREM FirstAreServed == PathsSpec => []SpecsAreFirst
<1>1. LabelsOK => SpecsAreFirst
  <2>. SUFFICES ASSUME LabelsOK PROVE SpecsAreFirst
    OBVIOUS
  <2>1. SpecsUpTo(BuildVolumeSpecs, Len(VolumeName)) /\ \A v \in enabled : v <= Len(VolumeName)
    BY SpecsKnown, VolumesType DEF LabelsOK
  <2>2. /\ Listed(BuildVolumeSpecs) = {v \in enabled : First(v)}
        /\ BuildVolumeSpecs.failed = {v \in enabled : ~First(v)}
    BY <2>1 DEF SpecsUpTo
  <2>. QED  BY <2>2 DEF SpecsAreFirst, Specs, Listed, First
<1>. QED  BY <1>1, LabelsKept, PTL

(* A listed volume is an enabled one with a name that is safe, not empty,  *)
(* without a dot or a dash at its edges.                                   *)
LEMMA SpecsName ==
  ASSUME LabelsOK, NEW i \in DOMAIN Specs
  PROVE  /\ Specs[i] \in enabled /\ FriendlyNameForVolume(Specs[i]) # NoName
         /\ FriendlyNameForVolume(Specs[i]) \in Seq(Safe)
         /\ Edged(FriendlyNameForVolume(Specs[i]))
<1>1. Specs[i] \in Listed(BuildVolumeSpecs)
  BY DEF Listed, Specs
<1>2. Specs[i] \in enabled /\ First(Specs[i])
  BY <1>1, SpecsKnown DEF SpecsUpTo
<1>. QED  BY <1>2, VolumesType DEF First, LabelsOK

(* No slash is safe.                                                       *)
LEMMA NoSlash ==
  ASSUME NEW f \in Seq(Safe)
  PROVE  "/" \notin {f[i] : i \in DOMAIN f}
<1>1. "/" \notin Safe
  BY LettersAssumption DEF Safe
<1>2. \A i \in DOMAIN f : f[i] \in Safe
  OBVIOUS
<1>. QED  BY <1>1, <1>2

(* Of every name prepare accepts cleanup reclaims the mount, unless it     *)
(* contains "..".                                                          *)
THEOREM CleanupTakesWhatPrepareMakes == PathsSpec => []CleanupTakesNames
<1>1. LabelsOK => CleanupTakesNames
  <2>. SUFFICES ASSUME LabelsOK, NEW i \in DOMAIN Specs
                PROVE  LET f == FriendlyNameForVolume(Specs[i])
                       IN  ValidCleanupName(f) \/ HasDoubleDot(f)
    BY DEF CleanupTakesNames
  <2>. DEFINE f == FriendlyNameForVolume(Specs[i])
  <2>1. f # NoName /\ f \in Seq(Safe) /\ Edged(f)
    BY SpecsName
  <2>. HIDE DEF f
  <2>2. SanitizePathName(f) = f /\ "/" \notin {f[k] : k \in DOMAIN f}
    BY <2>1, SanitizeStays, NoSlash
  <2>3. ValidCleanupName(f) \/ HasDoubleDot(f)
    BY <2>1, <2>2 DEF ValidCleanupName
  <2>. QED  BY <2>3 DEF f
<1>. QED  BY <1>1, LabelsKept, PTL

(* A source path that names one prepared volume, by its friendly or its    *)
(* own name, is answered with that volume's path.                          *)
THEOREM SourceIsFound == PathsSpec => []UniqueSourceFound
<1>1. LabelsOK => UniqueSourceFound
  <2>. DEFINE Calls(j) == {FriendlyNameForVolume(Specs[j]), SanitizePathName(VolumeName[Specs[j]])}
  <2>. SUFFICES ASSUME LabelsOK, NEW i \in DOMAIN Specs, NEW source \in Calls(i),
                       \A j \in DOMAIN Specs : source \in Calls(j) => j = i
                PROVE  KopiaSnapshotPathForSource(source) = FriendlyNameForVolume(Specs[i])
    BY DEF UniqueSourceFound
  <2>. DEFINE hits == {j \in DOMAIN Specs : Answers(Specs[j], source)}
  <2>1. \A j \in DOMAIN Specs : Answers(Specs[j], source) <=> source \in Calls(j)
    BY DEF Answers
  <2>2. hits = {i}
    BY <2>1
  <2>3. DOMAIN Specs \subseteq Nat
    <3>1. Specs \in Seq(Volume)
      BY SpecsKnown DEF SpecsMade, Specs
    <3>. QED  BY <3>1
  <2>4. Min({i}) = i
    BY <2>3 DEF Min
  <2>. QED  BY <2>2, <2>4 DEF KopiaSnapshotPathForSource
<1>. QED  BY <1>1, LabelsKept, PTL

(* The characters of a trimmed label that come into its name: the safe     *)
(* ones, and the first of each run of others.                              *)
Kept(s) == {i \in DOMAIN s : SafeRune(s[i]) \/ i = 1 \/ SafeRune(s[i - 1])}

Place(s, i) == Cardinality({j \in Kept(s) : j <= i})

Rune(s, i) == IF SafeRune(s[i]) THEN s[i] ELSE "-"

(* What is known of the buffer after k characters.                         *)
BufferKnown(s, b, k) ==
  /\ b.lastDash <=> k # 0 /\ ~SafeRune(s[k])
  /\ Len(b.out) = Place(s, k)
  /\ \A i \in Kept(s) : i <= k => Place(s, i) \in 1 .. Len(b.out) /\ b.out[Place(s, i)] = Rune(s, i)
  /\ \A m \in 1 .. Len(b.out) : \E i \in Kept(s) : i <= k /\ Place(s, i) = m

(* The places are counted up where a character is kept.                    *)
LEMMA Places ==
  ASSUME NEW C, NEW s \in Seq(C)
  PROVE  /\ Place(s, 0) = 0 /\ \A k \in 0 .. Len(s) : Place(s, k) \in Nat
         /\ \A k \in 0 .. Len(s) - 1 :
              Place(s, k + 1) = IF k + 1 \in Kept(s) THEN Place(s, k) + 1 ELSE Place(s, k)
         /\ Place(s, Len(s)) = Cardinality(Kept(s))
<1>. DEFINE Upto(k) == {j \in Kept(s) : j <= k}
<1>1. Len(s) \in Nat /\ Kept(s) \subseteq 1 .. Len(s)
  BY DEF Kept
<1>2. \A k \in 0 .. Len(s) : IsFiniteSet(Upto(k)) /\ Cardinality(Upto(k)) \in Nat
  <2>1. IsFiniteSet(1 .. Len(s))
    BY <1>1, FS_Interval
  <2>2. \A k \in 0 .. Len(s) : Upto(k) \subseteq 1 .. Len(s)
    BY <1>1
  <2>. HIDE DEF Upto
  <2>. QED  BY <2>1, <2>2, FS_Subset, FS_CardinalityType
<1>3. Upto(0) = {}
  BY <1>1
<1>4. Upto(Len(s)) = Kept(s)
  BY <1>1
<1>5. ASSUME NEW k \in 0 .. Len(s) - 1
      PROVE  Cardinality(Upto(k + 1)) = IF k + 1 \in Kept(s) THEN Cardinality(Upto(k)) + 1 ELSE Cardinality(Upto(k))
  <2>1. k \in 0 .. Len(s) /\ k + 1 \notin Upto(k)
    BY <1>1
  <2>2. k + 1 \in Kept(s) => Upto(k + 1) = Upto(k) \union {k + 1}
    BY <1>1
  <2>3. k + 1 \notin Kept(s) => Upto(k + 1) = Upto(k)
    BY <1>1
  <2>. HIDE DEF Upto
  <2>. QED  BY <2>1, <2>2, <2>3, <1>2, FS_AddElement
<1>. QED  BY <1>2, <1>3, <1>4, <1>5, FS_EmptySet DEF Place

(* One character more.                                                     *)
LEMMA WriteKnown ==
  ASSUME NEW C, NEW s \in Seq(C), NEW k \in 0 .. Len(s) - 1, NEW b \in Buffer, BufferKnown(s, b, k)
  PROVE  BufferKnown(s, WriteRune(b, s[k + 1]), k + 1)
<1>. DEFINE r == s[k + 1]
            next == WriteRune(b, r)
<1>1. /\ Len(s) \in Nat /\ k + 1 \in DOMAIN s /\ k \in 0 .. Len(s) /\ Place(s, k) \in Nat
      /\ Kept(s) \subseteq 1 .. Len(s) /\ b.out \in Seq(Safe) /\ b.lastDash \in BOOLEAN
  <2>1. Len(s) \in Nat /\ k + 1 \in DOMAIN s /\ k \in 0 .. Len(s)
    OBVIOUS
  <2>2. Kept(s) \subseteq 1 .. Len(s)
    BY DEF Kept
  <2>3. b.out \in Seq(Safe) /\ b.lastDash \in BOOLEAN
    BY DEF Buffer
  <2>. QED  BY <2>1, <2>2, <2>3, Places
<1>2. k + 1 \in Kept(s) <=> SafeRune(r) \/ ~b.lastDash
  <2>1. k + 1 \in Kept(s) <=> SafeRune(r) \/ k = 0 \/ SafeRune(s[k])
    <3>1. k + 1 = 1 <=> k = 0
      BY <1>1
    <3>2. (k + 1) - 1 = k
      BY <1>1
    <3>. QED  BY <1>1, <3>1, <3>2 DEF Kept
  <2>. QED  BY <2>1 DEF BufferKnown
<1>3. Place(s, k + 1) = IF k + 1 \in Kept(s) THEN Place(s, k) + 1 ELSE Place(s, k)
  BY Places
<1>4. next.lastDash <=> ~SafeRune(r)
  BY <1>1 DEF WriteRune
<1>5. \A i \in Kept(s) : i <= k + 1 <=> i <= k \/ i = k + 1
  BY <1>1
<1>6. CASE k + 1 \in Kept(s)
  <2>1. next.out = Append(b.out, Rune(s, k + 1))
    BY <1>2, <1>6 DEF WriteRune, Rune
  <2>2. Len(next.out) = Len(b.out) + 1 /\ Len(b.out) = Place(s, k) /\ Len(next.out) = Place(s, k + 1)
    BY <1>1, <1>3, <1>6, <2>1 DEF BufferKnown
  <2>3. /\ next.out[Place(s, k + 1)] = Rune(s, k + 1)
        /\ \A m \in 1 .. Len(b.out) : next.out[m] = b.out[m]
    BY <1>1, <2>1, <2>2
  <2>. HIDE DEF next
  <2>4. \A i \in Kept(s) : i <= k + 1 =>
           Place(s, i) \in 1 .. Len(next.out) /\ next.out[Place(s, i)] = Rune(s, i)
    <3>. SUFFICES ASSUME NEW i \in Kept(s), i <= k + 1
                  PROVE  Place(s, i) \in 1 .. Len(next.out) /\ next.out[Place(s, i)] = Rune(s, i)
      OBVIOUS
    <3>1. CASE i = k + 1
      BY <1>1, <2>2, <2>3, <3>1
    <3>2. CASE i <= k
      <4>1. Place(s, i) \in 1 .. Len(b.out) /\ b.out[Place(s, i)] = Rune(s, i)
        BY <3>2 DEF BufferKnown
      <4>. QED  BY <1>1, <2>2, <2>3, <4>1
    <3>. QED  BY <1>5, <3>1, <3>2
  <2>5. \A m \in 1 .. Len(next.out) : \E i \in Kept(s) : i <= k + 1 /\ Place(s, i) = m
    <3>. SUFFICES ASSUME NEW m \in 1 .. Len(next.out)
                  PROVE  \E i \in Kept(s) : i <= k + 1 /\ Place(s, i) = m
      OBVIOUS
    <3>1. CASE m \in 1 .. Len(b.out)
      <4>1. PICK i \in Kept(s) : i <= k /\ Place(s, i) = m
        BY <3>1 DEF BufferKnown
      <4>. QED  BY <1>5, <4>1
    <3>2. CASE m = Place(s, k + 1)
      BY <1>1, <1>6, <3>2
    <3>. QED  BY <1>1, <2>2, <3>1, <3>2
  <2>6. k + 1 # 0
    BY <1>1
  <2>. QED  BY <1>4, <2>2, <2>4, <2>5, <2>6 DEF BufferKnown, next
<1>7. CASE k + 1 \notin Kept(s)
  <2>1. next.out = b.out
    BY <1>2, <1>7 DEF WriteRune
  <2>2. Len(next.out) = Place(s, k + 1)
    BY <1>3, <1>7, <2>1 DEF BufferKnown
  <2>3. \A i \in Kept(s) : i <= k + 1 <=> i <= k
    BY <1>5, <1>7
  <2>4. k + 1 # 0
    BY <1>1
  <2>. HIDE DEF next
  <2>. QED  BY <1>4, <2>1, <2>2, <2>3, <2>4 DEF BufferKnown, next
<1>. QED  BY <1>6, <1>7

(* The name of a label is its safe characters in their order, a dash for   *)
(* each run of others, and no space, dot or dash at the edges.             *)
THEOREM NamesAreReadable == PathsSpec => []SanitizeMeans
<1>1. ASSUME NEW C, NEW s \in Seq(C)
      PROVE  Dashed(s) = [k \in 1 .. Cardinality(Kept(s)) |-> Rune(s, CHOOSE i \in Kept(s) : Place(s, i) = k)]
  <2>1. PICK h \in [0 .. Len(s) -> Buffer] :
          /\ h[0] = NoRunes
          /\ \A k \in 1 .. Len(s) : h[k] = WriteRune(h[k - 1], s[k])
          /\ Dashed(s) = h[Len(s)].out
    BY DashedSteps
  <2>2. Len(s) \in Nat
    OBVIOUS
  <2>. DEFINE T == {k \in 0 .. Len(s) : BufferKnown(s, h[k], k)}
  <2>3. 0 \in T
    <3>1. 0 \in 0 .. Len(s) /\ Len(<<>>) = 0 /\ 1 .. 0 = {} /\ \A i \in Kept(s) : ~(i <= 0)
      BY <2>2 DEF Kept
    <3>2. BufferKnown(s, h[0], 0)
      BY <2>1, <3>1, Places DEF NoRunes, BufferKnown
    <3>. QED  BY <3>1, <3>2
  <2>4. ASSUME NEW k \in 0 .. Len(s) - 1, k \in T
        PROVE  k + 1 \in T
    <3>1. k + 1 \in 1 .. Len(s) /\ (k + 1) - 1 = k /\ k + 1 \in 0 .. Len(s) /\ k \in 0 .. Len(s)
      BY <2>2
    <3>2. h[k] \in Buffer /\ BufferKnown(s, h[k], k) /\ h[k + 1] = WriteRune(h[k], s[k + 1])
      BY <2>1, <2>4, <3>1
    <3>. QED  BY <3>1, <3>2, WriteKnown
  <2>5. BufferKnown(s, h[Len(s)], Len(s)) /\ h[Len(s)] \in Buffer
    <3>1. 0 .. Len(s) \subseteq T
      <4>. HIDE DEF T
      <4>. QED  BY <2>2, <2>3, <2>4, RiseTo
    <3>. QED  BY <2>2, <3>1
  <2>. DEFINE d == Dashed(s)
  <2>6. /\ d \in Seq(Safe) /\ Len(d) = Cardinality(Kept(s))
        /\ \A i \in Kept(s) : Place(s, i) \in 1 .. Len(d) /\ d[Place(s, i)] = Rune(s, i)
        /\ \A m \in 1 .. Len(d) : \E i \in Kept(s) : Place(s, i) = m
    <3>1. \A i \in Kept(s) : i <= Len(s)
      BY <2>2 DEF Kept
    <3>. QED  BY <2>1, <2>5, <3>1, Places DEF BufferKnown, Buffer
  <2>. HIDE DEF d
  <2>7. \A m \in 1 .. Len(d) : d[m] = Rune(s, CHOOSE i \in Kept(s) : Place(s, i) = m)
    BY <2>6
  <2>8. d = [m \in 1 .. Len(d) |-> d[m]]
    BY <2>6
  <2>. QED  BY <2>6, <2>7, <2>8 DEF d
<1>2. LabelsOK => SanitizeMeans
  <2>. SUFFICES ASSUME LabelsOK, NEW v \in enabled
                PROVE  LET s == TrimRunes(label[v], {" "})
                           dashed == [k \in 1 .. Cardinality(Kept(s)) |->
                                        Rune(s, CHOOSE i \in Kept(s) : Place(s, i) = k)]
                       IN  SanitizePathName(label[v]) = TrimRunes(dashed, {".", "-"})
    BY DEF SanitizeMeans, Kept, Place, Rune
  <2>1. TrimRunes(label[v], {" "}) \in Seq(STRING)
    BY TrimOf DEF LabelsOK
  <2>. QED  BY <1>1, <2>1 DEF SanitizePathName
<1>. QED  BY <1>2, LabelsKept, PTL

-------------------------------------------------------------------------------
(* filepath.Clean and filepath.Join.                                       *)

(* Names of paths, the fixed ones of revopia among them.                   *)
Char == STRING \union {".", "_", "-", "bridge", "restore", "volumes"}

PathName == {name \in Seq(Char) : \A i \in DOMAIN name : name[i] # "/"}

Path == [abs : BOOLEAN, names : Seq(PathName)]

DotDot == <<".", ".">>

(* The fixed names, names that prepare accepts and the settings' paths.    *)
LEMMA PathNames ==
  /\ <<"bridge">> \in PathName /\ <<"restore">> \in PathName /\ <<"volumes">> \in PathName
  /\ Seq(Safe) \subseteq PathName
  /\ PathType \subseteq Path
<1>1. ASSUME NEW name \in {"bridge", "restore", "volumes"}
      PROVE  <<name>> \in PathName
  <2>1. name \in Char /\ name # "/"
    BY DEF Char
  <2>2. \A i \in DOMAIN <<name>> : <<name>>[i] # "/"
    BY <2>1
  <2>. QED  BY <2>1, <2>2 DEF PathName
<1>2. Seq(Safe) \subseteq PathName
  <2>1. Safe \subseteq Char /\ "/" \notin Safe
    BY LettersAssumption DEF Safe, Char
  <2>2. ASSUME NEW f \in Seq(Safe)
        PROVE  f \in Seq(Char) /\ \A i \in DOMAIN f : f[i] # "/"
    BY <2>1
  <2>. QED  BY <2>2 DEF PathName
<1>3. PathType \subseteq Path
  <2>1. NameType \subseteq PathName
    <3>1. Seq(STRING) \subseteq Seq(Char)
      <4>1. ASSUME NEW A, NEW B, A \subseteq B
            PROVE  Seq(A) \subseteq Seq(B)
        BY <4>1
      <4>2. STRING \subseteq Char
        BY DEF Char
      <4>. QED  BY <4>1, <4>2, Zenon
    <3>. QED  BY <3>1 DEF NameType, PathName
  <2>2. Seq(NameType) \subseteq Seq(PathName)
    BY <2>1
  <2>. QED  BY <2>2 DEF PathType, Path
<1>. QED  BY <1>1, <1>2, <1>3

(* Nothing to clean: only a relative path goes up, and only at its front.  *)
IsClean(p) ==
  \A i \in 1 .. Len(p.names) :
    /\ p.names[i] \notin {<<>>, <<".">>}
    /\ p.names[i] = DotDot => ~p.abs /\ \A j \in 1 .. i : p.names[j] = DotDot

CleanPath(abs) == {p \in Path : p.abs = abs /\ IsClean(p)}

Empty(abs) == [abs |-> abs, names |-> <<>>]

(* Cleaning one name more leaves the path clean.                           *)
LEMMA CleanNameType ==
  ASSUME NEW abs \in BOOLEAN, NEW p \in CleanPath(abs), NEW name \in PathName
  PROVE  CleanName(p, name) \in CleanPath(abs)
<1>. DEFINE n == Len(p.names)
            up == name = DotDot
            climbs == up /\ p.names # <<>> /\ p.names[n] # DotDot
            vanishes == name \in {<<>>, <<".">>} \/ (up /\ p.names = <<>> /\ p.abs)
<1>1. /\ p \in Path /\ p.abs = abs /\ p.names \in Seq(PathName) /\ n \in Nat /\ IsClean(p)
      /\ p = [abs |-> abs, names |-> p.names]
  BY DEF CleanPath, Path
<1>2. CleanName(p, name) = IF climbs THEN [abs |-> abs, names |-> SubSeq(p.names, 1, n - 1)]
                           ELSE IF vanishes THEN p ELSE [abs |-> abs, names |-> Append(p.names, name)]
  <2>1. \A t : [p EXCEPT !.names = t] = [abs |-> abs, names |-> t]
    BY <1>1
  <2>2. CleanName(p, name) = IF climbs THEN [p EXCEPT !.names = SubSeq(p.names, 1, n - 1)]
                             ELSE IF vanishes THEN p ELSE [p EXCEPT !.names = Append(p.names, name)]
    BY DEF CleanName, Front, DotDot
  <2>. HIDE DEF climbs, vanishes, n
  <2>. QED  BY <2>1, <2>2
<1>3. CASE climbs
  <2>. DEFINE q == [abs |-> abs, names |-> SubSeq(p.names, 1, n - 1)]
  <2>1. /\ SubSeq(p.names, 1, n - 1) \in Seq(PathName) /\ Len(SubSeq(p.names, 1, n - 1)) = n - 1
        /\ \A i \in 1 .. n - 1 : SubSeq(p.names, 1, n - 1)[i] = p.names[i] /\ i \in 1 .. n
    <3>1. n >= 1
      BY <1>1, <1>3
    <3>2. n - 1 \in 0 .. n /\ \A i \in 1 .. n - 1 : i \in 1 .. n
      BY <1>1, <3>1
    <3>. QED  BY <1>1, <3>2, FrontOf
  <2>2. q \in Path /\ q.abs = abs
    BY <2>1 DEF Path
  <2>3. IsClean(q)
    BY <1>1, <2>1 DEF IsClean
  <2>. QED  BY <1>2, <1>3, <2>2, <2>3 DEF CleanPath
<1>4. CASE ~climbs /\ vanishes
  BY <1>2, <1>4
<1>5. CASE ~climbs /\ ~vanishes
  <2>. DEFINE q == [abs |-> abs, names |-> Append(p.names, name)]
  <2>1. /\ Append(p.names, name) \in Seq(PathName) /\ Len(Append(p.names, name)) = n + 1
        /\ Append(p.names, name)[n + 1] = name
        /\ \A i \in 1 .. n : Append(p.names, name)[i] = p.names[i]
    BY <1>1
  <2>2. q \in Path /\ q.abs = abs
    BY <2>1 DEF Path
  <2>3. name \notin {<<>>, <<".">>}
    BY <1>5
  <2>4. up => ~abs /\ \A j \in 1 .. n : p.names[j] = DotDot
    <3>1. CASE up /\ p.names = <<>>
      BY <1>1, <1>5, <3>1
    <3>2. CASE up /\ p.names # <<>>
      <4>1. n \in 1 .. n /\ p.names[n] = DotDot
        BY <1>1, <1>5, <3>2
      <4>. QED  BY <1>1, <4>1 DEF IsClean
    <3>. QED  BY <3>1, <3>2
  <2>5. \A i \in 1 .. n + 1 : i \in 1 .. n \/ i = n + 1
    BY <1>1
  <2>6. ASSUME NEW i \in 1 .. n + 1
        PROVE  /\ q.names[i] \notin {<<>>, <<".">>}
               /\ q.names[i] = DotDot => ~q.abs /\ \A j \in 1 .. i : q.names[j] = DotDot
    <3>1. CASE i \in 1 .. n
      <4>1. q.names[i] = p.names[i] /\ \A j \in 1 .. i : j \in 1 .. n /\ q.names[j] = p.names[j]
        BY <1>1, <2>1, <3>1
      <4>. QED  BY <1>1, <2>2, <3>1, <4>1 DEF IsClean
    <3>2. CASE i = n + 1
      <4>1. \A j \in 1 .. n + 1 : j = n + 1 \/ (j \in 1 .. n /\ q.names[j] = p.names[j])
        BY <2>1, <2>5
      <4>. QED  BY <2>1, <2>3, <2>4, <3>2, <4>1
    <3>. QED  BY <2>5, <3>1, <3>2
  <2>7. IsClean(q)
    <3>1. Len(q.names) = n + 1
      BY <2>1
    <3>. HIDE DEF q, n
    <3>. QED  BY <2>6, <3>1 DEF IsClean
  <2>. QED  BY <1>2, <1>5, <2>2, <2>7 DEF CleanPath
<1>. QED  BY <1>3, <1>4, <1>5

(* The path after each of its names.                                       *)
LEMMA CleanSteps ==
  ASSUME NEW p \in Path
  PROVE  \E h \in [0 .. Len(p.names) -> CleanPath(p.abs)] :
           /\ h[0] = Empty(p.abs)
           /\ \A k \in 1 .. Len(p.names) : h[k] = CleanName(h[k - 1], p.names[k])
           /\ Clean(p) = h[Len(p.names)]
<1>. DEFINE s == p.names
            n == Len(s)
            A == CleanPath(p.abs)
            base == Empty(p.abs)
            g == [x \in (1 .. n) \X A |-> CleanName(x[2], s[x[1]])]
<1>1. /\ n \in Nat /\ DOMAIN s = 1 .. n /\ p.abs \in BOOLEAN /\ \A i \in 1 .. n : s[i] \in PathName
      /\ base = [p EXCEPT !.names = <<>>]
  BY DEF Path, Empty
<1>2. base \in A
  BY <1>1 DEF Empty, CleanPath, Path, IsClean
<1>3. g \in [(1 .. n) \X A -> A]
  <2>1. \A x \in (1 .. n) \X A : x[2] \in A /\ s[x[1]] \in PathName
    BY <1>1
  <2>. HIDE DEF n, s
  <2>. QED  BY <1>1, <2>1, CleanNameType
<1>4. PICK it \in [SUBSET (1 .. n) -> A] : Folded(it, n, base, g)
  <2>. HIDE DEF g, n, A, base
  <2>. QED  BY <1>1, <1>2, <1>3, FoldExists, Zenon
<1>. DEFINE next(f, t) == IF t = {} THEN [p EXCEPT !.names = <<>>] ELSE CleanName(f[t \ {Max(t)}], s[Max(t)])
            iter == CHOOSE f : f = [t \in SUBSET DOMAIN s |-> next(f, t)]
<1>5. ASSUME NEW f, NEW t \in SUBSET (1 .. n), t # {}, f[t \ {Max(t)}] \in A
      PROVE  next(f, t) = g[<<Max(t), f[t \ {Max(t)}]>>]
  <2>1. Max(t) \in 1 .. n
    BY <1>1, <1>5, MaxOf
  <2>. HIDE DEF A, n, s
  <2>. QED  BY <1>5, <2>1
<1>6. it = [t \in SUBSET DOMAIN s |-> next(it, t)]
  <2>1. ASSUME NEW t \in SUBSET (1 .. n)
        PROVE  it[t] = next(it, t)
    <3>1. t # {} => it[t \ {Max(t)}] \in A
      OBVIOUS
    <3>. HIDE DEF g, n, A, s
    <3>. QED  BY <1>1, <1>4, <1>5, <3>1 DEF Folded
  <2>. HIDE DEF next, n, s
  <2>. QED  BY <2>1, <1>1
<1>7. iter = [t \in SUBSET DOMAIN s |-> next(iter, t)]
  <2>. HIDE DEF next
  <2>. QED  BY <1>6
<1>8. Clean(p) = iter[1 .. n]
  <2>1. Clean(p) = iter[DOMAIN s]
    BY DEF Clean, FoldLeft, MapThenFoldSet
  <2>. HIDE DEF iter, n, s
  <2>. QED  BY <1>1, <2>1
<1>9. Rises(iter, n, A, base, g)
  <2>1. \A t \in SUBSET (1 .. n) : iter[t] = next(iter, t)
    <3>. HIDE DEF iter, next, n, s
    <3>. QED  BY <1>1, <1>7
  <2>2. iter[{}] = base
    <3>. HIDE DEF iter, n
    <3>. QED  BY <2>1, <1>1
  <2>. HIDE DEF iter, g, n, A, base
  <2>. QED  BY <2>1, <2>2, <1>5 DEF Rises
<1>10. PICK h \in [0 .. n -> A] : Stepped(h, n, base, g, iter[1 .. n])
  <2>. HIDE DEF iter, g, n, A, base
  <2>. QED  BY <1>1, <1>2, <1>3, <1>9, FoldRises, Zenon
<1>11. ASSUME NEW k \in 1 .. n
       PROVE  h[k] = CleanName(h[k - 1], s[k])
  <2>1. h[k - 1] \in A
    BY <1>1
  <2>. HIDE DEF A
  <2>. QED  BY <2>1, <1>10 DEF Stepped
<1>. HIDE DEF iter, g
<1>. QED  BY <1>8, <1>10, <1>11 DEF Stepped

(* A name that is neither empty nor a dot is appended, and so is one that  *)
(* goes up where the path cannot be shortened.                             *)
LEMMA CleanNameAdds ==
  ASSUME NEW abs, NEW t, NEW name, name \notin {<<>>, <<".">>},
         name = DotDot => IF t = <<>> THEN ~abs ELSE t[Len(t)] = DotDot
  PROVE  CleanName([abs |-> abs, names |-> t], name) = [abs |-> abs, names |-> Append(t, name)]
<1>. DEFINE p == [abs |-> abs, names |-> t]
<1>1. [p EXCEPT !.names = Append(@, name)] = [abs |-> abs, names |-> Append(t, name)]
  <2>1. \A u : [p EXCEPT !.names = u] = [abs |-> abs, names |-> u]
    OBVIOUS
  <2>2. p.names = t
    OBVIOUS
  <2>. HIDE DEF p
  <2>. QED  BY <2>1, <2>2
<1>2. p.names = t /\ p.abs = abs
  OBVIOUS
<1>. HIDE DEF p
<1>3. CleanName(p, name) = [p EXCEPT !.names = Append(@, name)]
  BY <1>2 DEF CleanName, DotDot
<1>. QED  BY <1>1, <1>3 DEF p

(* The path of the first k names of one that is clean.                     *)
PathTo(p, k) == [abs |-> p.abs, names |-> SubSeq(p.names, 1, k)]

(* Cleaning leaves a clean path as it is.                                  *)
LEMMA CleanStays ==
  ASSUME NEW abs \in BOOLEAN, NEW p \in CleanPath(abs)
  PROVE  Clean(p) = p
<1>. DEFINE n == Len(p.names)
<1>1. /\ p \in Path /\ p.abs = abs /\ p.names \in Seq(PathName) /\ n \in Nat /\ IsClean(p)
      /\ p = [abs |-> p.abs, names |-> p.names]
  BY DEF CleanPath, Path
<1>2. PICK h \in [0 .. n -> CleanPath(p.abs)] :
        /\ h[0] = Empty(p.abs)
        /\ \A k \in 1 .. n : h[k] = CleanName(h[k - 1], p.names[k])
        /\ Clean(p) = h[n]
  BY <1>1, CleanSteps
<1>. DEFINE T == {k \in 0 .. n : h[k] = PathTo(p, k)}
<1>3. 0 \in T
  <2>1. SubSeq(p.names, 1, 0) = <<>>
    BY <1>1
  <2>2. h[0] = PathTo(p, 0)
    BY <1>2, <2>1 DEF PathTo, Empty
  <2>. QED  BY <1>1, <2>2
<1>4. ASSUME NEW k \in 0 .. n - 1, k \in T
      PROVE  k + 1 \in T
  <2>. DEFINE s == SubSeq(p.names, 1, k)
              name == p.names[k + 1]
  <2>1. k \in 0 .. n /\ k + 1 \in 1 .. n /\ k + 1 \in 0 .. n /\ (k + 1) - 1 = k /\ k \in Nat
    BY <1>1
  <2>2. s \in Seq(PathName) /\ Len(s) = k /\ \A i \in 1 .. k : s[i] = p.names[i] /\ i \in 1 .. n
    BY <1>1, <2>1, FrontOf
  <2>3. Append(s, name) = SubSeq(p.names, 1, k + 1)
    BY <1>1, <2>1
  <2>4. /\ name \notin {<<>>, <<".">>}
        /\ name = DotDot => ~p.abs /\ \A j \in 1 .. k + 1 : p.names[j] = DotDot
    BY <1>1, <2>1 DEF IsClean
  <2>5. s # <<>> /\ name = DotDot => s[Len(s)] = DotDot
    <3>1. s # <<>> => k \in 1 .. k + 1 /\ k \in 1 .. k
      BY <2>1, <2>2
    <3>. HIDE DEF s, name
    <3>. QED  BY <2>2, <2>4, <3>1
  <2>6. name = DotDot => IF s = <<>> THEN ~p.abs ELSE s[Len(s)] = DotDot
    BY <2>4, <2>5
  <2>7. CleanName(PathTo(p, k), name) = PathTo(p, k + 1)
    <3>. HIDE DEF s, name
    <3>1. CleanName([abs |-> p.abs, names |-> s], name) = [abs |-> p.abs, names |-> Append(s, name)]
      BY <2>4, <2>6, CleanNameAdds
    <3>2. PathTo(p, k) = [abs |-> p.abs, names |-> s]
      BY DEF PathTo, s
    <3>. QED  BY <2>3, <3>1, <3>2 DEF PathTo
  <2>8. h[k + 1] = CleanName(h[k], name) /\ h[k] = PathTo(p, k)
    BY <1>2, <1>4, <2>1
  <2>. HIDE DEF s, name
  <2>. QED  BY <2>1, <2>7, <2>8
<1>5. h[n] = PathTo(p, n)
  <2>1. 0 .. n \subseteq T
    <3>. HIDE DEF T, n
    <3>. QED  BY <1>1, <1>3, <1>4, RiseTo
  <2>2. n \in 0 .. n
    BY <1>1
  <2>. QED  BY <2>1, <2>2
<1>6. SubSeq(p.names, 1, n) = p.names
  BY <1>1
<1>. QED  BY <1>1, <1>2, <1>5, <1>6 DEF PathTo

(* What is cleaned is clean.                                               *)
LEMMA CleanType ==
  ASSUME NEW p \in Path
  PROVE  Clean(p) \in CleanPath(p.abs) /\ Clean(p).abs = p.abs /\ Clean(p).names \in Seq(PathName)
<1>1. PICK h \in [0 .. Len(p.names) -> CleanPath(p.abs)] : Clean(p) = h[Len(p.names)]
  BY CleanSteps
<1>2. Len(p.names) \in 0 .. Len(p.names)
  BY DEF Path
<1>3. Clean(p) \in CleanPath(p.abs)
  BY <1>1, <1>2
<1>. QED  BY <1>3 DEF CleanPath, Path

(* A path with one name more is cleaned by cleaning that name last.        *)
LEMMA CleanAppend ==
  ASSUME NEW p \in Path, NEW name \in PathName
  PROVE  Clean([abs |-> p.abs, names |-> Append(p.names, name)]) = CleanName(Clean(p), name)
<1>. DEFINE n == Len(p.names)
            q == [abs |-> p.abs, names |-> Append(p.names, name)]
<1>1. p.names \in Seq(PathName) /\ n \in Nat /\ p.abs \in BOOLEAN
  BY DEF Path
<1>2. /\ Append(p.names, name) \in Seq(PathName) /\ Len(Append(p.names, name)) = n + 1
      /\ Append(p.names, name)[n + 1] = name
      /\ \A k \in 1 .. n : Append(p.names, name)[k] = p.names[k]
  BY <1>1
<1>3. q \in Path /\ q.abs = p.abs /\ q.names = Append(p.names, name)
  BY <1>1, <1>2 DEF Path
<1>. HIDE DEF n, q
<1>4. PICK h \in [0 .. n -> CleanPath(p.abs)] :
        /\ h[0] = Empty(p.abs)
        /\ \A k \in 1 .. n : h[k] = CleanName(h[k - 1], p.names[k])
        /\ Clean(p) = h[n]
  BY CleanSteps DEF n
<1>5. PICK e \in [0 .. n + 1 -> CleanPath(p.abs)] :
        /\ e[0] = Empty(p.abs)
        /\ \A k \in 1 .. n + 1 : e[k] = CleanName(e[k - 1], Append(p.names, name)[k])
        /\ Clean(q) = e[n + 1]
  <2>1. Len(q.names) = n + 1
    BY <1>2, <1>3
  <2>. QED  BY <1>3, <2>1, CleanSteps
<1>. DEFINE T == {k \in 0 .. n : e[k] = h[k]}
<1>6. 0 \in T
  BY <1>1, <1>4, <1>5
<1>7. ASSUME NEW k \in 0 .. n - 1, k \in T
      PROVE  k + 1 \in T
  <2>1. k + 1 \in 1 .. n /\ k + 1 \in 1 .. n + 1 /\ k + 1 \in 0 .. n /\ (k + 1) - 1 = k
    BY <1>1
  <2>2. e[k + 1] = CleanName(e[k], p.names[k + 1]) /\ h[k + 1] = CleanName(h[k], p.names[k + 1])
    BY <1>2, <1>4, <1>5, <2>1
  <2>. QED  BY <1>7, <2>1, <2>2
<1>8. e[n] = h[n]
  <2>1. 0 .. n \subseteq T
    <3>. HIDE DEF T
    <3>. QED  BY <1>1, <1>6, <1>7, RiseTo
  <2>2. n \in 0 .. n
    BY <1>1
  <2>. QED  BY <2>1, <2>2
<1>9. e[n + 1] = CleanName(e[n], name)
  <2>1. n + 1 \in 1 .. n + 1 /\ (n + 1) - 1 = n
    BY <1>1
  <2>. QED  BY <1>2, <1>5, <2>1
<1>10. Clean(q) = CleanName(Clean(p), name)
  BY <1>4, <1>5, <1>8, <1>9
<1>. QED  BY <1>10 DEF q

(* A step of Split.                                                        *)
SplitRune(names, c) ==
  IF c = "/" THEN Append(names, <<>>)
  ELSE Append(Front(names), Append(names[Len(names)], c))

Parts(C) == Seq(Seq(C)) \ {<<>>}

(* One character more leaves a list of names.                              *)
LEMMA SplitType ==
  ASSUME NEW C, NEW names \in Parts(C), NEW c \in C
  PROVE  SplitRune(names, c) \in Parts(C)
<1>. DEFINE m == Len(names)
<1>1. names \in Seq(Seq(C)) /\ m \in Nat /\ m >= 1 /\ names[m] \in Seq(C)
  BY DEF Parts
<1>2. Front(names) \in Seq(Seq(C))
  <2>1. m - 1 \in 0 .. m
    BY <1>1
  <2>2. SubSeq(names, 1, m - 1) \in Seq(Seq(C))
    BY <1>1, <2>1, FrontOf
  <2>. QED  BY <2>2 DEF Front
<1>3. \A u \in Seq(Seq(C)), t \in Seq(C) : Append(u, t) \in Seq(Seq(C)) /\ Append(u, t) # <<>>
  BY AppendProperties
<1>4. Append(names[m], c) \in Seq(C) /\ <<>> \in Seq(C)
  BY <1>1
<1>. QED  BY <1>1, <1>2, <1>3, <1>4 DEF SplitRune, Parts

(* The names after each of the characters.                                 *)
LEMMA SplitSteps ==
  ASSUME NEW C, NEW s \in Seq(C)
  PROVE  \E h \in [0 .. Len(s) -> Parts(C)] :
           /\ h[0] = << <<>> >>
           /\ \A k \in 1 .. Len(s) : h[k] = SplitRune(h[k - 1], s[k])
           /\ Split(s) = h[Len(s)]
<1>. DEFINE n == Len(s)
            A == Parts(C)
            base == << <<>> >>
            g == [x \in (1 .. n) \X A |-> SplitRune(x[2], s[x[1]])]
<1>1. n \in Nat /\ DOMAIN s = 1 .. n /\ \A i \in 1 .. n : s[i] \in C
  OBVIOUS
<1>2. base \in A
  <2>1. <<>> \in Seq(C)
    OBVIOUS
  <2>2. base \in Seq(Seq(C)) /\ base # <<>>
    BY <2>1
  <2>. QED  BY <2>2 DEF Parts
<1>4. g \in [(1 .. n) \X A -> A]
  <2>1. \A x \in (1 .. n) \X A : x[2] \in A /\ s[x[1]] \in C
    BY <1>1
  <2>. HIDE DEF n
  <2>. QED  BY <2>1, SplitType
<1>5. PICK it \in [SUBSET (1 .. n) -> A] : Folded(it, n, base, g)
  <2>. HIDE DEF g, n, A, base
  <2>. QED  BY <1>1, <1>2, <1>4, FoldExists, Zenon
<1>. DEFINE next(f, t) == IF t = {} THEN << <<>> >> ELSE SplitRune(f[t \ {Max(t)}], s[Max(t)])
            iter == CHOOSE f : f = [t \in SUBSET DOMAIN s |-> next(f, t)]
<1>6. ASSUME NEW f, NEW t \in SUBSET (1 .. n), t # {}, f[t \ {Max(t)}] \in A
      PROVE  next(f, t) = g[<<Max(t), f[t \ {Max(t)}]>>]
  <2>1. Max(t) \in 1 .. n
    BY <1>1, <1>6, MaxOf
  <2>. HIDE DEF A, n
  <2>. QED  BY <1>6, <2>1
<1>7. it = [t \in SUBSET DOMAIN s |-> next(it, t)]
  <2>1. ASSUME NEW t \in SUBSET (1 .. n)
        PROVE  it[t] = next(it, t)
    <3>1. t # {} => it[t \ {Max(t)}] \in A
      OBVIOUS
    <3>. HIDE DEF g, n, A
    <3>. QED  BY <1>1, <1>5, <1>6, <3>1 DEF Folded
  <2>. HIDE DEF next, n
  <2>. QED  BY <2>1, <1>1
<1>8. iter = [t \in SUBSET DOMAIN s |-> next(iter, t)]
  <2>. HIDE DEF next
  <2>. QED  BY <1>7
<1>9. Split(s) = iter[1 .. n]
  <2>1. Split(s) = iter[DOMAIN s]
    BY DEF Split, FoldLeft, MapThenFoldSet, SplitRune
  <2>. HIDE DEF iter, n
  <2>. QED  BY <1>1, <2>1
<1>10. Rises(iter, n, A, base, g)
  <2>1. \A t \in SUBSET (1 .. n) : iter[t] = next(iter, t)
    <3>. HIDE DEF iter, next, n
    <3>. QED  BY <1>1, <1>8
  <2>2. iter[{}] = base
    <3>. HIDE DEF iter, n
    <3>. QED  BY <2>1, <1>1
  <2>. HIDE DEF iter, g, n, A, base
  <2>. QED  BY <2>1, <2>2, <1>6 DEF Rises
<1>11. PICK h \in [0 .. n -> A] : Stepped(h, n, base, g, iter[1 .. n])
  <2>. HIDE DEF iter, g, n, A, base
  <2>. QED  BY <1>1, <1>2, <1>4, <1>10, FoldRises, Zenon
<1>12. ASSUME NEW k \in 1 .. n
       PROVE  h[k] = SplitRune(h[k - 1], s[k])
  <2>. HIDE DEF A, iter
  <2>1. h[k - 1] \in A
    BY <1>1
  <2>. QED  BY <2>1, <1>11 DEF Stepped
<1>. HIDE DEF iter, g
<1>. QED  BY <1>9, <1>11, <1>12 DEF Stepped

(* The empty text, and one character more.                                 *)
LEMMA SplitAppend ==
  ASSUME NEW C, NEW s \in Seq(C)
  PROVE  /\ Split(<<>>) = << <<>> >> /\ Split(s) \in Parts(C)
         /\ \A c \in C : Split(Append(s, c)) = SplitRune(Split(s), c)
<1>. DEFINE n == Len(s)
<1>1. n \in Nat
  OBVIOUS
<1>2. Split(<<>>) = << <<>> >>
  <2>1. <<>> \in Seq(C) /\ Len(<<>>) = 0
    OBVIOUS
  <2>2. PICK h : h[0] = << <<>> >> /\ Split(<<>>) = h[0]
    BY <2>1, SplitSteps
  <2>. QED  BY <2>2
<1>3. PICK h \in [0 .. n -> Parts(C)] :
        /\ h[0] = << <<>> >>
        /\ \A k \in 1 .. n : h[k] = SplitRune(h[k - 1], s[k])
        /\ Split(s) = h[n]
  BY SplitSteps
<1>4. Split(s) \in Parts(C)
  BY <1>1, <1>3
<1>5. ASSUME NEW c \in C
      PROVE  Split(Append(s, c)) = SplitRune(Split(s), c)
  <2>1. /\ Append(s, c) \in Seq(C) /\ Len(Append(s, c)) = n + 1 /\ Append(s, c)[n + 1] = c
        /\ \A k \in 1 .. n : Append(s, c)[k] = s[k]
    OBVIOUS
  <2>2. PICK e \in [0 .. n + 1 -> Parts(C)] :
          /\ e[0] = << <<>> >>
          /\ \A k \in 1 .. n + 1 : e[k] = SplitRune(e[k - 1], Append(s, c)[k])
          /\ Split(Append(s, c)) = e[n + 1]
    <3>. DEFINE q == Append(s, c)
    <3>1. q \in Seq(C) /\ Len(q) = n + 1
      BY <2>1
    <3>. HIDE DEF n, q
    <3>2. \E e \in [0 .. Len(q) -> Parts(C)] :
            /\ e[0] = << <<>> >>
            /\ \A k \in 1 .. Len(q) : e[k] = SplitRune(e[k - 1], q[k])
            /\ Split(q) = e[Len(q)]
      BY <3>1, SplitSteps, Zenon
    <3>3. \E e \in [0 .. n + 1 -> Parts(C)] :
            /\ e[0] = << <<>> >>
            /\ \A k \in 1 .. n + 1 : e[k] = SplitRune(e[k - 1], q[k])
            /\ Split(q) = e[n + 1]
      BY <3>1, <3>2, Zenon
    <3>. QED  BY <3>3, Zenon DEF q
  <2>. DEFINE T == {k \in 0 .. n : e[k] = h[k]}
  <2>. HIDE DEF n
  <2>3. 0 \in T
    <3>1. e[0] = h[0] /\ 0 \in 0 .. n
      BY <1>1, <1>3, <2>2
    <3>. QED  BY <3>1
  <2>4. ASSUME NEW k \in 0 .. n - 1, k \in T
        PROVE  k + 1 \in T
    <3>1. k + 1 \in 1 .. n /\ k + 1 \in 1 .. n + 1 /\ k + 1 \in 0 .. n /\ (k + 1) - 1 = k
      BY <1>1
    <3>2. e[k + 1] = SplitRune(e[k], s[k + 1]) /\ h[k + 1] = SplitRune(h[k], s[k + 1])
      BY <1>3, <2>1, <2>2, <3>1
    <3>. QED  BY <2>4, <3>1, <3>2
  <2>5. e[n] = h[n]
    <3>1. 0 .. n \subseteq T
      <4>. HIDE DEF T
      <4>. QED  BY <1>1, <2>3, <2>4, RiseTo
    <3>2. n \in 0 .. n
      BY <1>1
    <3>. QED  BY <3>1, <3>2
  <2>6. n + 1 \in 1 .. n + 1 /\ (n + 1) - 1 = n
    BY <1>1
  <2>. QED  BY <1>3, <2>1, <2>2, <2>5, <2>6
<1>. QED  BY <1>2, <1>4, <1>5

(* Characters none of which is a slash go to the name that is being read.  *)
LEMMA SplitGrows ==
  ASSUME NEW C, NEW s \in Seq(C), NEW names \in Seq(Seq(C)), Split(s) = Append(names, <<>>),
         NEW t \in Seq(C), \A i \in 1 .. Len(t) : t[i] # "/"
  PROVE  Split(s \o t) = Append(names, t)
<1>. DEFINE n == Len(t)
            T == {k \in 0 .. n : Split(s \o SubSeq(t, 1, k)) = Append(names, SubSeq(t, 1, k))}
<1>1. n \in Nat
  OBVIOUS
<1>2. 0 \in T
  <2>1. SubSeq(t, 1, 0) = <<>> /\ s \o <<>> = s
    OBVIOUS
  <2>2. Split(s \o SubSeq(t, 1, 0)) = Append(names, SubSeq(t, 1, 0))
    BY <2>1
  <2>. QED  BY <1>1, <2>2
<1>3. ASSUME NEW k \in 0 .. n - 1, k \in T
      PROVE  k + 1 \in T
  <2>. DEFINE u == SubSeq(t, 1, k)
              c == t[k + 1]
  <2>1. k \in 0 .. n /\ k + 1 \in 1 .. n /\ k + 1 \in 0 .. n /\ k \in Nat
    BY <1>1
  <2>2. u \in Seq(C) /\ c \in C /\ c # "/"
    BY <2>1, FrontOf
  <2>3. SubSeq(t, 1, k + 1) = Append(u, c)
    BY <2>1
  <2>4. Split(s \o u) = Append(names, u)
    BY <1>3
  <2>. HIDE DEF u, c
  <2>5. s \o Append(u, c) = Append(s \o u, c) /\ s \o u \in Seq(C)
    BY <2>2
  <2>6. Split(Append(s \o u, c)) = SplitRune(Append(names, u), c)
    BY <2>2, <2>4, <2>5, SplitAppend
  <2>7. SplitRune(Append(names, u), c) = Append(names, Append(u, c))
    <3>1. Front(Append(names, u)) = names /\ Append(names, u)[Len(Append(names, u))] = u
      <4>1. ASSUME NEW D, NEW q \in Seq(D), NEW x \in D
            PROVE  SubSeq(Append(q, x), 1, Len(Append(q, x)) - 1) = q /\ Append(q, x)[Len(Append(q, x))] = x
        OBVIOUS
      <4>. QED  BY <2>2, <4>1 DEF Front
    <3>. QED  BY <2>2, <3>1 DEF SplitRune
  <2>. QED  BY <2>1, <2>3, <2>5, <2>6, <2>7
<1>4. n \in T
  <2>1. 0 .. n \subseteq T
    <3>. HIDE DEF T, n
    <3>. QED  BY <1>1, <1>2, <1>3, RiseTo
  <2>. QED  BY <1>1, <2>1
<1>5. SubSeq(t, 1, n) = t
  OBVIOUS
<1>. QED  BY <1>4, <1>5

(* A string of characters none of which is a slash is one name.            *)
LEMMA SplitName ==
  ASSUME NEW C, "/" \notin C, NEW s \in Seq(C)
  PROVE  Split(s) = <<s>>
<1>1. <<>> \in Seq(C) /\ <<>> \in Seq(Seq(C)) /\ \A i \in 1 .. Len(s) : s[i] # "/"
  OBVIOUS
<1>2. Split(<<>>) = Append(<<>>, <<>>)
  <2>1. Split(<<>>) = << <<>> >>
    BY SplitAppend
  <2>2. \A x : Append(<<>>, x) = <<x>>
    OBVIOUS
  <2>. QED  BY <2>1, <2>2
<1>3. Split(<<>> \o s) = Append(<<>>, s)
  BY <1>1, <1>2, SplitGrows
<1>4. <<>> \o s = s /\ Append(<<>>, s) = <<s>>
  OBVIOUS
<1>. QED  BY <1>3, <1>4

(* The path of a name below another.                                       *)
Child(p, name) == [abs |-> p.abs, names |-> Append(Clean(p).names, name)]

(* A name that is a single step of a path, and not a dot or two.           *)
IsStep(name) ==
  /\ name \in PathName /\ name \notin {<<>>, <<".">>, DotDot}
  /\ Split(name) = <<name>>

(* The path of such a name below p is that of the clean p.                 *)
LEMMA JoinOne ==
  ASSUME NEW p \in Path, NEW name, IsStep(name)
  PROVE  Join(p, name) = Child(p, name) /\ Child(p, name) \in CleanPath(p.abs)
<1>1. p.names \in Seq(PathName) /\ p.abs \in BOOLEAN /\ p = [abs |-> p.abs, names |-> p.names]
      /\ name \in PathName /\ name \notin {<<>>, <<".">>, DotDot} /\ Split(name) = <<name>>
  BY DEF Path, IsStep
<1>2. [p EXCEPT !.names = @ \o Split(name)] = [abs |-> p.abs, names |-> Append(p.names, name)]
  <2>1. p.names \o Split(name) = Append(p.names, name)
    BY <1>1
  <2>2. \A t : [p EXCEPT !.names = t] = [abs |-> p.abs, names |-> t]
    BY <1>1
  <2>. QED  BY <2>1, <2>2
<1>3. Clean([abs |-> p.abs, names |-> Append(p.names, name)]) = CleanName(Clean(p), name)
  BY <1>1, CleanAppend
<1>4. Clean(p) \in CleanPath(p.abs) /\ Clean(p) = [abs |-> p.abs, names |-> Clean(p).names]
  BY CleanType DEF CleanPath, Path
<1>5. CleanName(Clean(p), name) = Child(p, name)
  <2>1. CleanName([abs |-> p.abs, names |-> Clean(p).names], name) = Child(p, name)
    BY <1>1, CleanNameAdds DEF Child
  <2>. QED  BY <1>4, <2>1
<1>6. CleanName(Clean(p), name) \in CleanPath(p.abs)
  BY <1>1, <1>4, CleanNameType
<1>. QED  BY <1>2, <1>3, <1>5, <1>6 DEF Join

-------------------------------------------------------------------------------
(* The settings of a command.                                              *)

(* What is set are paths.                                                  *)
SettingsOK ==
  /\ place \in {"host", "container"} /\ bridge \in PathType
  /\ env \in [Setting -> PathType \union {NoPath}]
  /\ flag \in [Setting -> PathType \union {NoPath}]

(* They are so in every state.                                             *)
LEMMA SettingsKept == PathsSpec => []SettingsOK
<1>1. PathsInit => SettingsOK
  BY PathsAssumption DEF PathsInit, Initially, Unset, SettingsOK
<1>2. SettingsOK /\ [PathsNext]_<<vars, pathVars>> => SettingsOK'
  <2>. SUFFICES ASSUME SettingsOK, [PathsNext]_<<vars, pathVars>> PROVE SettingsOK'
    OBVIOUS
  <2>1. CASE UserStep \/ UNCHANGED <<vars, pathVars>>
    BY <2>1 DEF UserStep, pathVars, SettingsOK
  <2>2. ASSUME NEW p \in {"host", "container"}, NEW m \in BOOLEAN, NEW c \in BOOLEAN, Move(p, m, c)
        PROVE  SettingsOK'
    BY <2>2 DEF Move, SettingsOK
  <2>3. ASSUME NEW r, SetRuntime(r) PROVE SettingsOK'
    BY <2>3 DEF SetRuntime, SettingsOK
  <2>4. ASSUME NEW b \in Bridges, ShareBridge(b) PROVE SettingsOK'
    BY <2>4, PathsAssumption DEF ShareBridge, SettingsOK
  <2>5. ASSUME NEW o \in Setting, NEW p \in Given[o] \union {NoPath}, SetEnv(o, p) \/ SetFlag(o, p)
        PROVE  SettingsOK'
    <3>1. p \in PathType \union {NoPath}
      BY PathsAssumption
    <3>. QED  BY <2>5, <3>1 DEF SetEnv, SetFlag, SettingsOK
  <2>. QED  BY <2>1, <2>2, <2>3, <2>4, <2>5 DEF PathsNext, Configure
<1>. QED  BY <1>1, <1>2, PTL DEF PathsSpec

(* The fixed names are single steps, and so is a name that cleanup accepts *)
(* or a volume has.                                                        *)
LEMMA FixedSteps ==
  /\ IsStep(<<"restore">>) /\ IsStep(<<"bridge">>)
  /\ \A abs \in BOOLEAN, name \in {<<"bridge">>, <<"restore">>, <<"volumes">>} :
       [abs |-> abs, names |-> <<name>>] \in CleanPath(abs)
<1>1. Split(<<"restore">>) = << <<"restore">> >>
  BY SplitName, "/" \notin {"restore"}, <<"restore">> \in Seq({"restore"})
<1>2. Split(<<"bridge">>) = << <<"bridge">> >>
  BY SplitName, "/" \notin {"bridge"}, <<"bridge">> \in Seq({"bridge"})
<1>3. ASSUME NEW abs \in BOOLEAN, NEW name \in {<<"bridge">>, <<"restore">>, <<"volumes">>}
      PROVE  /\ [abs |-> abs, names |-> <<name>>] \in CleanPath(abs)
             /\ name \in PathName /\ name \notin {<<>>, <<".">>, DotDot}
  <2>1. name \in PathName /\ name \notin {<<>>, <<".">>, DotDot}
    BY PathNames DEF DotDot
  <2>2. <<name>> \in Seq(PathName) /\ Len(<<name>>) = 1 /\ <<name>>[1] = name
    BY <2>1
  <2>. QED  BY <2>1, <2>2 DEF CleanPath, Path, IsClean
<1>. QED  BY <1>1, <1>2, <1>3 DEF IsStep

(* A name that sanitizePathName leaves as it is.                           *)
LEMMA NameSteps ==
  ASSUME NEW f \in Seq(Safe), Edged(f), f # <<>>
  PROVE  IsStep(f)
<1>1. "/" \notin Safe
  BY LettersAssumption DEF Safe
<1>2. Split(f) = <<f>>
  BY <1>1, SplitName
<1>3. f \in PathName
  BY PathNames
<1>4. f[1] # "."
  BY DEF Edged
<1>. QED  BY <1>2, <1>3, <1>4 DEF IsStep, DotDot

(* What the checked path of such a name is.                                *)
LEMMA CheckedOne ==
  ASSUME NEW p \in Path, NEW f, IsStep(f)
  PROVE  CleanupTargetPathChecked(p, f) = Child(p, f)
<1>. DEFINE root == Clean(p)
            target == Clean(Join(root, f))
<1>1. root \in CleanPath(p.abs) /\ root \in Path /\ root.abs = p.abs /\ root.names \in Seq(PathName)
  BY CleanType DEF CleanPath
<1>2. p.abs \in BOOLEAN
  BY DEF Path
<1>3. Clean(root) = root
  BY <1>1, <1>2, CleanStays
<1>4. Join(root, f) = Child(p, f) /\ Child(p, f) \in CleanPath(p.abs)
  BY <1>1, <1>3, JoinOne DEF Child
<1>5. target = Child(p, f)
  BY <1>2, <1>4, CleanStays
<1>6. /\ IsStrictPrefix(root.names, Append(root.names, f))
      /\ Append(root.names, f)[Len(root.names) + 1] = f
  <2>1. Len(Append(root.names, f)) = Len(root.names) + 1 /\ Len(root.names) \in Nat
    BY <1>1
  <2>2. SubSeq(root.names, 1, Len(root.names)) = SubSeq(Append(root.names, f), 1, Len(root.names))
    BY <1>1
  <2>. QED  BY <1>1, <2>1, <2>2 DEF IsStrictPrefix, IsPrefix
<1>7. target.names = Append(root.names, f)
  BY <1>5 DEF Child
<1>8. f # <<".", ".">>
  BY DEF IsStep, DotDot
<1>. HIDE DEF root, target
<1>. QED  BY <1>5, <1>6, <1>7, <1>8 DEF CleanupTargetPathChecked, root, target

(* The paths of the settings, defaults included.                           *)
LEMMA ConfigType ==
  ASSUME SettingsOK
  PROVE  \A o \in Setting : Config[o] \in Path /\ (flag[o] = NoPath => Config[o] = DefaultConfig[o])
<1>1. PathType \subseteq Path
  BY PathNames
<1>2. ContainerVolumes \in Path /\ ContainerRestore \in Path
  BY FixedSteps DEF ContainerVolumes, ContainerRestore, Root, CleanPath
<1>3. \A o \in Setting : /\ env[o] \in PathType \union {NoPath}
                         /\ flag[o] \in PathType \union {NoPath}
  BY DEF SettingsOK
<1>4. DefaultConfig.BridgeSource \in Path
  BY <1>1, <1>3, PathsAssumption DEF DefaultConfig, GetenvDefault, Setting
<1>5. DefaultConfig.VisibleRoot \in Path
  BY <1>1, <1>2, <1>3, PathsAssumption DEF DefaultConfig, GetenvDefault, Setting
<1>6. DefaultConfig.RestoreVisibleRoot \in Path
  <2>1. DefaultConfig.BridgeSource = GetenvDefault("BridgeSource", DefaultBridge)
    BY DEF DefaultConfig
  <2>2. Join(DefaultConfig.BridgeSource, RestoreTargetSubdir) \in Path
    BY <1>4, JoinOne, FixedSteps DEF RestoreTargetSubdir, CleanPath
  <2>. QED  BY <1>1, <1>2, <1>3, <2>1, <2>2 DEF DefaultConfig, GetenvDefault, Setting
<1>7. \A o \in Setting : DefaultConfig[o] \in Path
  BY <1>4, <1>5, <1>6 DEF Setting
<1>8. \A o \in Setting : Config[o] = IF flag[o] # NoPath THEN flag[o] ELSE DefaultConfig[o]
  BY DEF Config
<1>. HIDE DEF Config, DefaultConfig
<1>. QED  BY <1>1, <1>3, <1>7, <1>8

(* The three settings by name.                                             *)
LEMMA ConfigRoots ==
  ASSUME SettingsOK
  PROVE  Config.VisibleRoot \in Path /\ Config.RestoreVisibleRoot \in Path /\ Config.BridgeSource \in Path
BY ConfigType DEF Setting

(* Whatever name a container carries in its label: where cleanup and       *)
(* restore-cleanup do not refuse it, they unmount a direct child of the    *)
(* view's directory, and look at a direct child of the view's root.        *)
THEOREM UmountNeverLeaves == PathsSpec => []UmountStaysInside
<1>1. LabelsOK /\ SettingsOK => UmountStaysInside
  <2>. DEFINE child(p, f) == [Clean(p) EXCEPT !.names = Append(@, f)]
  <2>. SUFFICES ASSUME LabelsOK, SettingsOK, NEW v \in enabled, ValidCleanupName(label[v])
                PROVE  LET f == label[v]
                       IN  /\ CleanupTargetPathChecked(Config.VisibleRoot, f) = child(Config.VisibleRoot, f)
                           /\ CleanupTargetPathChecked(Config.RestoreVisibleRoot, f)
                                = child(Config.RestoreVisibleRoot, f)
                           /\ CleanupUnmountContainerTargetPath(f) = child(HelperTargetRoot, f)
                           /\ RestoreCleanupContainerTargetPath(f)
                                = child(child(HelperTargetRoot, RestoreTargetSubdir), f)
    BY DEF UmountStaysInside
  <2>. DEFINE f == label[v]
  <2>1. f \in Seq(STRING)
    BY DEF LabelsOK
  <2>2. f # <<>> /\ SanitizePathName(f) = f
    BY DEF ValidCleanupName, NoName
  <2>3. IsStep(f)
    <3>1. f \in Seq(Safe) /\ Edged(f)
      BY <2>1, <2>2, SanitizeType
    <3>. QED  BY <2>2, <3>1, NameSteps
  <2>4. ASSUME NEW p \in Path, NEW name
        PROVE  child(p, name) = Child(p, name)
    <3>1. Clean(p) = [abs |-> p.abs, names |-> Clean(p).names]
      BY CleanType DEF CleanPath, Path
    <3>2. \A q : [q EXCEPT !.names = Append(@, name)] = [q EXCEPT !.names = Append(q.names, name)]
      OBVIOUS
    <3>3. \A a, t, u : [[abs |-> a, names |-> t] EXCEPT !.names = u] = [abs |-> a, names |-> u]
      OBVIOUS
    <3>4. child(p, name) = [Clean(p) EXCEPT !.names = Append(Clean(p).names, name)]
      BY <3>2
    <3>. QED  BY <3>1, <3>3, <3>4 DEF Child
  <2>. HIDE DEF f, child
  <2>5. /\ CleanupTargetPathChecked(Config.VisibleRoot, f) = child(Config.VisibleRoot, f)
        /\ CleanupTargetPathChecked(Config.RestoreVisibleRoot, f) = child(Config.RestoreVisibleRoot, f)
    BY <2>3, <2>4, ConfigRoots, CheckedOne
  <2>6. HelperTargetRoot \in Path /\ HelperTargetRoot.abs = TRUE
    BY FixedSteps DEF HelperTargetRoot, Root, CleanPath
  <2>7. Join(HelperTargetRoot, f) = child(HelperTargetRoot, f)
    BY <2>3, <2>4, <2>6, JoinOne
  <2>8. /\ Join(HelperTargetRoot, RestoreTargetSubdir) = child(HelperTargetRoot, RestoreTargetSubdir)
        /\ child(HelperTargetRoot, RestoreTargetSubdir) \in Path
    BY <2>4, <2>6, JoinOne, FixedSteps DEF RestoreTargetSubdir, CleanPath
  <2>9. Join(child(HelperTargetRoot, RestoreTargetSubdir), f)
          = child(child(HelperTargetRoot, RestoreTargetSubdir), f)
    BY <2>3, <2>4, <2>8, JoinOne
  <2>. QED  BY <2>5, <2>7, <2>8, <2>9
         DEF CleanupUnmountContainerTargetPath, RestoreCleanupContainerTargetPath, f
<1>. QED  BY <1>1, LabelsKept, SettingsKept, PTL

(* A tuple with one more.                                                  *)
LEMMA Appended ==
  ASSUME NEW C, NEW a \in C, NEW b \in C, NEW c \in C
  PROVE  Append(<<a>>, b) = <<a, b>> /\ Append(<<a, b>>, c) = <<a, b, c>>
<1>1. Append(<<a>>, b) = <<a, b>>
  <2>. DEFINE s == Append(<<a>>, b)
              t == <<a, b>>
  <2>1. /\ s \in Seq(C) /\ t \in Seq(C) /\ Len(s) = 2 /\ Len(t) = 2
        /\ s[1] = t[1] /\ s[2] = t[2] /\ \A i \in 1 .. 2 : i = 1 \/ i = 2
    OBVIOUS
  <2>. HIDE DEF s, t
  <2>2. s = t
    BY <2>1, SeqEqual
  <2>. QED  BY <2>2 DEF s, t
<1>2. Append(<<a, b>>, c) = <<a, b, c>>
  <2>. DEFINE s == Append(<<a, b>>, c)
              t == <<a, b, c>>
  <2>1. /\ s \in Seq(C) /\ t \in Seq(C) /\ Len(s) = 3 /\ Len(t) = 3
        /\ s[1] = t[1] /\ s[2] = t[2] /\ s[3] = t[3] /\ \A i \in 1 .. 3 : i = 1 \/ i = 2 \/ i = 3
    OBVIOUS
  <2>. HIDE DEF s, t
  <2>2. s = t
    BY <2>1, SeqEqual
  <2>. QED  BY <2>2 DEF s, t
<1>. QED  BY <1>1, <1>2

(* The two views below a root: what is at the paths of names there.        *)
LEMMA Below ==
  ASSUME NEW f, IsStep(f)
  PROVE  /\ Join(HelperTargetRoot, f) = Root(<< <<"bridge">>, f>>)
         /\ Join(Join(HelperTargetRoot, RestoreTargetSubdir), f) = Root(<< <<"bridge">>, <<"restore">>, f>>)
         /\ Join(ContainerVolumes, f) = Root(<< <<"volumes">>, f>>)
         /\ Join(ContainerRestore, f) = Root(<< <<"restore">>, f>>)
<1>1. ASSUME NEW name \in {<<"bridge">>, <<"restore">>, <<"volumes">>}, NEW g, IsStep(g)
      PROVE  Join(Root(<<name>>), g) = Root(<<name, g>>) /\ Root(<<name, g>>) \in CleanPath(TRUE)
  <2>1. Root(<<name>>) \in CleanPath(TRUE) /\ Root(<<name>>) \in Path /\ Root(<<name>>).abs = TRUE
    BY FixedSteps DEF Root, CleanPath
  <2>2. Clean(Root(<<name>>)) = Root(<<name>>)
    BY <2>1, CleanStays
  <2>3. Child(Root(<<name>>), g) = Root(<<name, g>>)
    <3>1. Child(Root(<<name>>), g) = [abs |-> Root(<<name>>).abs, names |-> Append(Root(<<name>>).names, g)]
      BY <2>2 DEF Child
    <3>2. Root(<<name>>).abs = TRUE /\ Root(<<name>>).names = <<name>>
      BY DEF Root
    <3>4. Append(<<name>>, g) = <<name, g>>
      <4>1. name \in PathName /\ g \in PathName
        BY <1>1, PathNames DEF IsStep
      <4>. QED  BY <4>1, Appended
    <3>3. Root(<<name, g>>) = [abs |-> TRUE, names |-> <<name, g>>]
      BY DEF Root
    <3>. QED  BY <3>1, <3>2, <3>3, <3>4
  <2>. QED  BY <1>1, <2>1, <2>3, JoinOne
<1>2. /\ Join(HelperTargetRoot, RestoreTargetSubdir) = Root(<< <<"bridge">>, <<"restore">>>>)
      /\ Root(<< <<"bridge">>, <<"restore">>>>) \in CleanPath(TRUE)
  BY <1>1, FixedSteps DEF HelperTargetRoot, RestoreTargetSubdir
<1>3. Join(Root(<< <<"bridge">>, <<"restore">>>>), f) = Root(<< <<"bridge">>, <<"restore">>, f>>)
  <2>. DEFINE p == Root(<< <<"bridge">>, <<"restore">>>>)
  <2>1. Clean(p) = p /\ p \in Path
    BY <1>2, CleanStays DEF CleanPath
  <2>2. Child(p, f) = Root(<< <<"bridge">>, <<"restore">>, f>>)
    <3>1. p.abs = TRUE /\ p.names = << <<"bridge">>, <<"restore">>>>
      BY DEF Root
    <3>. HIDE DEF p
    <3>2. Child(p, f) = [abs |-> TRUE, names |-> Append(<< <<"bridge">>, <<"restore">>>>, f)]
      BY <2>1, <3>1 DEF Child
    <3>3. Append(<< <<"bridge">>, <<"restore">>>>, f) = << <<"bridge">>, <<"restore">>, f>>
      BY Appended, FixedSteps DEF IsStep
    <3>4. Root(<< <<"bridge">>, <<"restore">>, f>>) = [abs |-> TRUE, names |-> << <<"bridge">>, <<"restore">>, f>>]
      BY DEF Root
    <3>. QED  BY <3>2, <3>3, <3>4
  <2>. HIDE DEF p
  <2>. QED  BY <2>1, <2>2, JoinOne DEF p
<1>. QED  BY <1>1, <1>2, <1>3 DEF HelperTargetRoot, ContainerVolumes, ContainerRestore

(* A path below the directory of one name, where that is mounted from b.   *)
LEMMA Rebased ==
  ASSUME NEW b \in Path, NEW name \in PathName, NEW g, IsStep(g), NEW f, IsStep(f)
  PROVE  /\ Rebase(Root(<<name, f>>), Root(<<name>>), b) = Child(b, f)
         /\ Rebase(Root(<<name, g, f>>), Root(<<name>>), b) = Child(Child(b, g), f)
<1>. DEFINE t == Clean(b).names
<1>1. Clean(b) = [abs |-> b.abs, names |-> t] /\ t \in Seq(PathName) /\ b.abs \in BOOLEAN
  BY CleanType DEF CleanPath, Path
<1>2. g \in PathName /\ f \in PathName
  BY DEF IsStep
<1>3. /\ \A p : Root(p).names = p
      /\ Len(<<name>>) = 1 /\ Len(<<name, f>>) = 2 /\ Len(<<name, g, f>>) = 3
  BY DEF Root
<1>4. \A u : [Clean(b) EXCEPT !.names = @ \o u] = [abs |-> b.abs, names |-> t \o u]
  <2>. HIDE DEF t
  <2>1. ASSUME NEW u
        PROVE  [Clean(b) EXCEPT !.names = @ \o u] = [abs |-> b.abs, names |-> t \o u]
    <3>. DEFINE q == Clean(b)
                a == b.abs
    <3>1. q = [abs |-> a, names |-> t]
      BY <1>1
    <3>. HIDE DEF q, a
    <3>2. q.names = t
      BY <3>1
    <3>3. \A w : [q EXCEPT !.names = w] = [abs |-> a, names |-> w]
      BY <3>1
    <3>4. [q EXCEPT !.names = @ \o u] = [abs |-> a, names |-> t \o u]
      BY <3>2, <3>3
    <3>. QED  BY <3>4 DEF q, a
  <2>. QED  BY <2>1
<1>5. SubSeq(<<name, f>>, 2, 2) = <<f>>
  <2>. DEFINE s == SubSeq(<<name, f>>, 2, 2)
              r == <<f>>
  <2>1. /\ s \in Seq(PathName) /\ r \in Seq(PathName) /\ Len(s) = 1 /\ Len(r) = 1 /\ s[1] = r[1]
        /\ \A i \in 1 .. 1 : i = 1
    BY <1>2
  <2>. HIDE DEF s, r
  <2>2. s = r
    BY <2>1, SeqEqual
  <2>. QED  BY <2>2 DEF s, r
<1>6. SubSeq(<<name, g, f>>, 2, 3) = <<g, f>>
  <2>. DEFINE s == SubSeq(<<name, g, f>>, 2, 3)
              r == <<g, f>>
  <2>1. /\ s \in Seq(PathName) /\ r \in Seq(PathName) /\ Len(s) = 2 /\ Len(r) = 2
        /\ s[1] = r[1] /\ s[2] = r[2] /\ \A i \in 1 .. 2 : i = 1 \/ i = 2
    BY <1>2
  <2>. HIDE DEF s, r
  <2>2. s = r
    BY <2>1, SeqEqual
  <2>. QED  BY <2>2 DEF s, r
<1>. HIDE DEF t
<1>7. t \o <<f>> = Append(t, f) /\ t \o <<g, f>> = Append(Append(t, g), f)
  <2>1. t \o <<f>> = Append(t, f)
    BY <1>1, <1>2
  <2>2. <<g, f>> = Append(<<g>>, f) /\ <<g>> \in Seq(PathName)
    BY <1>2, Appended
  <2>3. t \o Append(<<g>>, f) = Append(t \o <<g>>, f) /\ t \o <<g>> = Append(t, g)
    BY <1>1, <1>2, <2>2
  <2>. QED  BY <2>1, <2>2, <2>3
<1>8. \A p, q : Rebase(Root(p), Root(q), b) = [abs |-> b.abs, names |-> t \o SubSeq(p, Len(q) + 1, Len(p))]
  BY <1>3, <1>4 DEF Rebase
<1>9. /\ Rebase(Root(<<name, f>>), Root(<<name>>), b) = [abs |-> b.abs, names |-> t \o <<f>>]
      /\ Rebase(Root(<<name, g, f>>), Root(<<name>>), b) = [abs |-> b.abs, names |-> t \o <<g, f>>]
  <2>. DEFINE p == <<name, f>>
              r == <<name, g, f>>
              q == <<name>>
  <2>1. Len(q) + 1 = 2 /\ Len(p) = 2 /\ Len(r) = 3 /\ SubSeq(p, 2, 2) = <<f>> /\ SubSeq(r, 2, 3) = <<g, f>>
    BY <1>3, <1>5, <1>6
  <2>. HIDE DEF p, q, r
  <2>2. Rebase(Root(p), Root(q), b) = [abs |-> b.abs, names |-> t \o <<f>>]
    BY <1>8, <2>1
  <2>3. Rebase(Root(r), Root(q), b) = [abs |-> b.abs, names |-> t \o <<g, f>>]
    BY <1>8, <2>1
  <2>. QED  BY <2>2, <2>3 DEF p, q, r
<1>10. Clean(Child(b, g)) = Child(b, g)
  BY <1>1, JoinOne, CleanStays
<1>11. Child(Child(b, g), f) = [abs |-> b.abs, names |-> Append(Append(t, g), f)]
  <2>1. Child(b, g).abs = b.abs /\ Child(b, g).names = Append(t, g)
    BY DEF Child, t
  <2>2. \A p : Clean(p) = p => Child(p, f) = [abs |-> p.abs, names |-> Append(p.names, f)]
    BY DEF Child
  <2>. QED  BY <1>10, <2>1, <2>2
<1>12. Child(b, f) = [abs |-> b.abs, names |-> Append(t, f)]
  BY DEF Child, t
<1>. QED  BY <1>7, <1>9, <1>11, <1>12

(* Where a container's two views lead.                                     *)
LEMMA ViewsOfContainer ==
  ASSUME SettingsOK, place = "container", NEW f, IsStep(f)
  PROVE  /\ HostPath(Root(<< <<"volumes">>, f>>)) = Child(bridge, f)
         /\ HostPath(Root(<< <<"restore">>, f>>)) = Child(Child(bridge, <<"restore">>), f)
<1>1. bridge \in Path
  BY PathNames DEF SettingsOK
<1>2. \A p : Root(p).names = p
  BY DEF Root
<1>3. f \in PathName /\ IsStep(<<"restore">>) /\ <<"volumes">> \in PathName /\ <<"restore">> \in PathName
  BY FixedSteps, PathNames DEF IsStep
<1>4. ASSUME NEW name \in PathName, NEW other \in PathName
      PROVE  IsPrefix(<<name>>, <<other, f>>) <=> name = other
  <2>. DEFINE s == SubSeq(<<name>>, 1, 1)
              t == SubSeq(<<other, f>>, 1, 1)
  <2>1. /\ s \in Seq(PathName) /\ t \in Seq(PathName) /\ Len(s) = 1 /\ Len(t) = 1
        /\ s[1] = name /\ t[1] = other /\ \A i \in 1 .. 1 : i = 1
    BY <1>3
  <2>2. IsPrefix(<<name>>, <<other, f>>) <=> s = t
    BY DEF IsPrefix
  <2>. HIDE DEF s, t
  <2>3. name = other => s = t
    BY <2>1, SeqEqual
  <2>. QED  BY <2>1, <2>2, <2>3
<1>5. HostPath(Root(<< <<"volumes">>, f>>)) = Rebase(Root(<< <<"volumes">>, f>>), Root(<< <<"volumes">> >>), bridge)
  <2>1. IsPrefix(<< <<"volumes">> >>, << <<"volumes">>, f>>)
    BY <1>3, <1>4
  <2>. QED  BY <1>2, <2>1 DEF HostPath, ContainerVolumes
<1>6. HostPath(Root(<< <<"restore">>, f>>))
        = Rebase(Root(<< <<"restore">>, f>>), Root(<< <<"restore">> >>), Join(bridge, <<"restore">>))
  <2>1. IsPrefix(<< <<"restore">> >>, << <<"restore">>, f>>)
    BY <1>3, <1>4
  <2>2. ~IsPrefix(<< <<"volumes">> >>, << <<"restore">>, f>>)
    <3>1. <<"volumes">> # <<"restore">>
      OBVIOUS
    <3>. QED  BY <1>3, <1>4, <3>1
  <2>. QED  BY <1>2, <2>1, <2>2 DEF HostPath, ContainerVolumes, ContainerRestore, RestoreTargetSubdir
<1>7. Join(bridge, <<"restore">>) = Child(bridge, <<"restore">>) /\ Child(bridge, <<"restore">>) \in Path
  BY <1>1, <1>3, JoinOne DEF CleanPath
<1>8. ASSUME NEW b \in Path, NEW name \in PathName
      PROVE  Rebase(Root(<<name, f>>), Root(<<name>>), b) = Child(b, f)
  BY Rebased
<1>9. Rebase(Root(<< <<"volumes">>, f>>), Root(<< <<"volumes">> >>), bridge) = Child(bridge, f)
  BY <1>1, <1>3, <1>8
<1>10. Rebase(Root(<< <<"restore">>, f>>), Root(<< <<"restore">> >>), Child(bridge, <<"restore">>))
         = Child(Child(bridge, <<"restore">>), f)
  <2>. DEFINE b == Child(bridge, <<"restore">>)
              name == <<"restore">>
  <2>1. b \in Path /\ name \in PathName
    BY <1>3, <1>7
  <2>. HIDE DEF b, name
  <2>2. Rebase(Root(<<name, f>>), Root(<<name>>), b) = Child(b, f)
    BY <1>8, <2>1
  <2>. QED  BY <2>2 DEF b, name
<1>. QED  BY <1>5, <1>6, <1>7, <1>9, <1>10

(* The names of the views.                                                 *)
LEMMA FriendlySteps ==
  ASSUME LabelsOK, NEW f \in FriendlyNames
  PROVE  IsStep(f)
<1>1. PICK i \in DOMAIN Specs : f = FriendlyNameForVolume(Specs[i])
  BY DEF FriendlyNames
<1>. QED  BY <1>1, SpecsName, NameSteps DEF NoName

(* Where the roots are left to it, what the command looks below.           *)
LEMMA RootsFollow ==
  ASSUME SettingsOK, LeftToDefaults
  PROVE  /\ Config.BridgeSource = bridge
         /\ place = "host" => /\ Config.VisibleRoot = bridge
                              /\ Config.RestoreVisibleRoot = Join(bridge, RestoreTargetSubdir)
         /\ place = "container" => /\ Config.VisibleRoot = ContainerVolumes
                                   /\ Config.RestoreVisibleRoot = ContainerRestore
<1>1. place \in {"host", "container"}
  BY DEF SettingsOK
<1>2. DefaultRuntime = place
  <2>1. runtime = place \/ (runtime \notin {"host", "container"} /\ (place = "container" <=> marked \/ cgroup))
    BY DEF LeftToDefaults
  <2>2. CASE runtime = place
    BY <1>1, <2>2 DEF DefaultRuntime
  <2>3. CASE runtime \notin {"host", "container"} /\ (place = "container" <=> marked \/ cgroup)
    BY <1>1, <2>3 DEF DefaultRuntime, DetectedInContainer
  <2>. QED  BY <2>1, <2>2, <2>3
<1>3. Config.BridgeSource = bridge
  BY DEF LeftToDefaults
<1>4. /\ env["VisibleRoot"] = NoPath /\ flag["VisibleRoot"] = NoPath
      /\ env["RestoreVisibleRoot"] = NoPath /\ flag["RestoreVisibleRoot"] = NoPath
      /\ place = "container" \/ flag["BridgeSource"] = NoPath
  BY DEF LeftToDefaults, Setting
<1>5. /\ Config.VisibleRoot = DefaultConfig.VisibleRoot
      /\ Config.RestoreVisibleRoot = DefaultConfig.RestoreVisibleRoot
      /\ flag["BridgeSource"] = NoPath => Config.BridgeSource = DefaultConfig.BridgeSource
  BY <1>4, ConfigType DEF Setting
<1>6. /\ DefaultConfig.VisibleRoot
           = IF DefaultRuntime = "container" THEN ContainerVolumes ELSE DefaultConfig.BridgeSource
      /\ DefaultConfig.RestoreVisibleRoot
           = IF DefaultRuntime = "container" THEN ContainerRestore
             ELSE Join(DefaultConfig.BridgeSource, RestoreTargetSubdir)
  BY <1>4 DEF DefaultConfig, GetenvDefault
<1>. HIDE DEF Config, DefaultConfig, DefaultRuntime
<1>. QED  BY <1>1, <1>2, <1>3, <1>4, <1>5, <1>6

(* Whether it runs on the host or in a container, the path a command waits *)
(* at or looks at is the one where the helper mounts the volume and the    *)
(* umount container unmounts, in the backup view and in the restore view:  *)
(* no setting but the shared directory has to be given.                    *)
THEOREM CommandsAlwaysMeet == PathsSpec => []CommandsMeet
<1>1. LabelsOK /\ SettingsOK => CommandsMeet
  <2>. DEFINE behind(target) == Rebase(target, HelperTargetRoot, bridge)
              sub == <<"restore">>
  <2>. SUFFICES ASSUME LabelsOK, SettingsOK, LeftToDefaults, NEW f \in FriendlyNames
                PROVE  /\ HostPath(VisiblePath(Config, f)) = Rebase(HelperTarget(f), HelperTargetRoot, Config.BridgeSource)
                       /\ HostPath(RestoreVisiblePath(Config, f))
                            = Rebase(RestoreHelperTarget(f), HelperTargetRoot, Config.BridgeSource)
                       /\ HostPath(CleanupTargetPathChecked(Config.VisibleRoot, f))
                            = Rebase(CleanupUnmountContainerTargetPath(f), HelperTargetRoot, Config.BridgeSource)
                       /\ HostPath(CleanupTargetPathChecked(Config.RestoreVisibleRoot, f))
                            = Rebase(RestoreCleanupContainerTargetPath(f), HelperTargetRoot, Config.BridgeSource)
    BY DEF CommandsMeet
  <2>1. IsStep(f) /\ IsStep(sub) /\ bridge \in Path /\ place \in {"host", "container"}
    BY FriendlySteps, FixedSteps, PathNames DEF SettingsOK
  <2>2. Config.BridgeSource = bridge
    BY RootsFollow
  <2>3. behind(HelperTarget(f)) = Child(bridge, f) /\ behind(RestoreHelperTarget(f)) = Child(Child(bridge, sub), f)
    <3>1. HelperTarget(f) = Root(<< <<"bridge">>, f>>) /\ RestoreHelperTarget(f) = Root(<< <<"bridge">>, sub, f>>)
      BY <2>1, Below DEF HelperTarget, RestoreHelperTarget
    <3>2. <<"bridge">> \in PathName
      BY PathNames
    <3>. QED  BY <2>1, <3>1, <3>2, Rebased DEF HelperTargetRoot
  <2>4. /\ behind(CleanupUnmountContainerTargetPath(f)) = Child(bridge, f)
        /\ behind(RestoreCleanupContainerTargetPath(f)) = Child(Child(bridge, sub), f)
    BY <2>3 DEF HelperTarget, RestoreHelperTarget, CleanupUnmountContainerTargetPath, RestoreCleanupContainerTargetPath
  <2>5. Config.VisibleRoot \in Path /\ Config.RestoreVisibleRoot \in Path
    BY ConfigRoots
  <2>6. /\ VisiblePath(Config, f) = Child(Config.VisibleRoot, f)
        /\ CleanupTargetPathChecked(Config.VisibleRoot, f) = Child(Config.VisibleRoot, f)
        /\ RestoreVisiblePath(Config, f) = Child(Config.RestoreVisibleRoot, f)
        /\ CleanupTargetPathChecked(Config.RestoreVisibleRoot, f) = Child(Config.RestoreVisibleRoot, f)
    BY <2>1, <2>5, JoinOne, CheckedOne DEF VisiblePath, RestoreVisiblePath
  <2>7. /\ HostPath(Child(Config.VisibleRoot, f)) = Child(bridge, f)
        /\ HostPath(Child(Config.RestoreVisibleRoot, f)) = Child(Child(bridge, sub), f)
    <3>1. CASE place = "host"
      <4>1. Config.VisibleRoot = bridge /\ Config.RestoreVisibleRoot = Child(bridge, sub)
        BY <2>1, <3>1, RootsFollow, JoinOne DEF RestoreTargetSubdir
      <4>2. \A p : HostPath(p) = p
        BY <3>1 DEF HostPath
      <4>. QED  BY <4>1, <4>2
    <3>2. CASE place = "container"
      <4>1. Config.VisibleRoot = ContainerVolumes /\ Config.RestoreVisibleRoot = ContainerRestore
        BY <3>2, RootsFollow
      <4>2. /\ Child(ContainerVolumes, f) = Root(<< <<"volumes">>, f>>)
            /\ Child(ContainerRestore, f) = Root(<< <<"restore">>, f>>)
        BY <2>1, <2>5, <4>1, JoinOne, Below
      <4>. QED  BY <2>1, <3>2, <4>1, <4>2, ViewsOfContainer
    <3>. QED  BY <2>1, <3>1, <3>2
  <2>. QED  BY <2>2, <2>3, <2>4, <2>6, <2>7
<1>. QED  BY <1>1, LabelsKept, SettingsKept, PTL

-------------------------------------------------------------------------------
(* The mount table.                                                        *)

(* e[k] is what the first k of seqs are, one after the other.              *)
Flattened(e, seqs) ==
  /\ e[0] = <<>>
  /\ \A k \in 1 .. Len(seqs) : e[k] = e[k - 1] \o seqs[k]

(* There is such an e.                                                     *)
LEMMA FlattenExists ==
  ASSUME NEW C, NEW seqs \in Seq(Seq(C))
  PROVE  \E e \in [0 .. Len(seqs) -> Seq(C)] : Flattened(e, seqs)
<1>. DEFINE n == Len(seqs)
            Good(e, m) == e[0] = <<>> /\ \A k \in 1 .. m : e[k] = e[k - 1] \o seqs[k]
            T == {m \in 0 .. n : \E e \in [0 .. m -> Seq(C)] : Good(e, m)}
<1>1. n \in Nat /\ \A k \in 1 .. n : seqs[k] \in Seq(C)
  OBVIOUS
<1>2. 0 \in T
  <2>. DEFINE e == [k \in 0 .. 0 |-> <<>>]
  <2>1. e \in [0 .. 0 -> Seq(C)]
    <3>1. <<>> \in Seq(C)
      OBVIOUS
    <3>. QED  BY <3>1
  <2>2. Good(e, 0) /\ 0 \in 0 .. n
    BY <1>1
  <2>. HIDE DEF e, Good, n
  <2>. QED  BY <2>1, <2>2, Zenon
<1>3. ASSUME NEW m \in 0 .. n - 1, m \in T
      PROVE  m + 1 \in T
  <2>1. PICK e \in [0 .. m -> Seq(C)] : Good(e, m)
    BY <1>3
  <2>. DEFINE d == [k \in 0 .. m + 1 |-> IF k = m + 1 THEN e[m] \o seqs[m + 1] ELSE e[k]]
  <2>2. m \in Nat /\ m + 1 \in 1 .. n /\ m + 1 \in 0 .. n /\ m \in 0 .. m
    BY <1>1
  <2>3. d \in [0 .. m + 1 -> Seq(C)]
    <3>1. e[m] \o seqs[m + 1] \in Seq(C)
      <4>1. e[m] \in Seq(C) /\ seqs[m + 1] \in Seq(C)
        BY <1>1, <2>2
      <4>. QED  BY <4>1
    <3>2. \A k \in 0 .. m + 1 : k # m + 1 => k \in 0 .. m
      BY <2>2
    <3>. QED  BY <3>1, <3>2
  <2>4. Good(d, m + 1)
    <3>1. d[0] = e[0]
      BY <2>2
    <3>2. ASSUME NEW k \in 1 .. m + 1
          PROVE  d[k] = d[k - 1] \o seqs[k]
      <4>1. CASE k = m + 1
        <5>1. d[k] = e[m] \o seqs[m + 1] /\ d[k - 1] = e[m]
          BY <2>2, <4>1
        <5>. HIDE DEF d
        <5>. QED  BY <4>1, <5>1
      <4>2. CASE k # m + 1
        <5>1. k \in 1 .. m /\ k - 1 \in 0 .. m /\ k - 1 # m + 1 /\ k \in 0 .. m + 1 /\ k - 1 \in 0 .. m + 1
          BY <2>2, <4>2
        <5>2. d[k] = e[k] /\ d[k - 1] = e[k - 1]
          BY <4>2, <5>1
        <5>. HIDE DEF d
        <5>. QED  BY <2>1, <5>1, <5>2
      <4>. QED  BY <4>1, <4>2
    <3>. HIDE DEF d
    <3>. QED  BY <2>1, <3>1, <3>2
  <2>. HIDE DEF d, Good, n
  <2>. QED  BY <2>2, <2>3, <2>4, Zenon
<1>4. n \in T
  <2>1. 0 .. n \subseteq T
    <3>. HIDE DEF T, n
    <3>. QED  BY <1>1, <1>2, <1>3, RiseTo
  <2>2. n \in 0 .. n
    BY <1>1
  <2>. HIDE DEF T
  <2>. QED  BY <2>1, <2>2
<1>5. PICK e \in [0 .. n -> Seq(C)] : Good(e, n)
  <2>. HIDE DEF Good
  <2>. QED  BY <1>4
<1>. QED  BY <1>5 DEF Flattened

(* The last of it is what FlattenSeq makes.                                *)
LEMMA FlattenSteps ==
  ASSUME NEW C, NEW seqs \in Seq(Seq(C))
  PROVE  \E e \in [0 .. Len(seqs) -> Seq(C)] : Flattened(e, seqs) /\ FlattenSeq(seqs) = e[Len(seqs)]
<1>. DEFINE n == Len(seqs)
<1>1. n \in Nat /\ \A k \in 1 .. n : seqs[k] \in Seq(C)
  OBVIOUS
<1>2. PICK e \in [0 .. n -> Seq(C)] : Flattened(e, seqs)
  BY FlattenExists
<1>3. e[0] = <<>> /\ \A k \in 1 .. n : e[k] = e[k - 1] \o seqs[k]
  BY <1>2 DEF Flattened
<1>4. CASE n = 0
  <2>1. FlattenSeq(seqs) = seqs /\ seqs = <<>>
    BY <1>4 DEF FlattenSeq
  <2>. QED  BY <1>2, <1>3, <1>4, <2>1
<1>5. CASE n # 0
  <2>. DEFINE next(f, i) == IF i = 1 THEN seqs[i] ELSE f[i - 1] \o seqs[i]
              flatten == CHOOSE f : f = [i \in 1 .. n |-> next(f, i)]
              d == [i \in 1 .. n |-> e[i]]
  <2>1. FlattenSeq(seqs) = flatten[n]
    BY <1>5 DEF FlattenSeq
  <2>2. d = [i \in 1 .. n |-> next(d, i)]
    <3>1. ASSUME NEW i \in 1 .. n
          PROVE  d[i] = next(d, i)
      <4>1. CASE i = 1
        <5>1. e[1] = e[0] \o seqs[1] /\ <<>> \o seqs[1] = seqs[1]
          <6>1. e[1] = e[0] \o seqs[1] /\ seqs[1] \in Seq(C)
            <7>1. 1 \in 1 .. n /\ 1 - 1 = 0
              BY <1>1, <1>5
            <7>. QED  BY <1>1, <1>3, <7>1
          <6>. QED  BY <6>1
        <5>. QED  BY <1>3, <4>1, <5>1
      <4>2. CASE i # 1
        <5>1. i - 1 \in 1 .. n
          BY <1>1, <4>2
        <5>2. d[i] = e[i] /\ d[i - 1] = e[i - 1]
          BY <5>1
        <5>. HIDE DEF d
        <5>. QED  BY <1>3, <4>2, <5>2
      <4>. QED  BY <4>1, <4>2
    <3>. HIDE DEF next
    <3>. QED  BY <3>1
  <2>3. flatten = [i \in 1 .. n |-> next(flatten, i)]
    <3>. HIDE DEF next, d
    <3>. QED  BY <2>2
  <2>. HIDE DEF flatten
  <2>. DEFINE T == {k \in 0 .. n : k = 0 \/ flatten[k] = e[k]}
  <2>4. ASSUME NEW k \in 0 .. n - 1, k \in T
        PROVE  k + 1 \in T
    <3>1. k + 1 \in 1 .. n /\ (k + 1) - 1 = k /\ k + 1 \in 0 .. n
      BY <1>1
    <3>2. flatten[k + 1] = IF k + 1 = 1 THEN seqs[k + 1] ELSE flatten[k] \o seqs[k + 1]
      <4>1. flatten[k + 1] = next(flatten, k + 1)
        <5>. HIDE DEF next
        <5>. QED  BY <2>3, <3>1
      <4>. QED  BY <3>1, <4>1
    <3>3. e[k + 1] = e[k] \o seqs[k + 1] /\ seqs[k + 1] \in Seq(C)
      BY <1>1, <1>3, <3>1
    <3>4. <<>> \o seqs[k + 1] = seqs[k + 1]
      BY <3>3
    <3>5. flatten[k + 1] = e[k + 1]
      <4>1. CASE k = 0
        <5>1. flatten[k + 1] = seqs[k + 1]
          BY <3>2, <4>1
        <5>2. e[k] = <<>>
          BY <1>3, <4>1
        <5>. QED  BY <3>3, <3>4, <5>1, <5>2
      <4>2. CASE k # 0
        <5>1. flatten[k] = e[k] /\ k + 1 # 1
          BY <2>4, <4>2
        <5>. QED  BY <3>2, <3>3, <5>1
      <4>. QED  BY <4>1, <4>2
    <3>. QED  BY <3>1, <3>5
  <2>5. n \in T
    <3>1. 0 .. n \subseteq T
      <4>1. 0 \in T
        BY <1>1
      <4>. HIDE DEF T, n
      <4>. QED  BY <1>1, <2>4, <4>1, RiseTo
    <3>. QED  BY <1>1, <3>1
  <2>. QED  BY <1>2, <1>5, <2>1, <2>5
<1>. QED  BY <1>4, <1>5

(* The characters of paths.                                                *)
TextChar == Char \union {"/"}

(* A path is read back from its text.                                      *)
LEMMA TextRead ==
  ASSUME NEW p \in Path, p.abs
  PROVE  Text(p) \in Seq(TextChar) /\ Clean(Root(Split(Text(p)))) = Clean(p)
<1>. DEFINE names == p.names
            n == Len(names)
            seqs == [i \in DOMAIN names |-> <<"/">> \o names[i]]
<1>1. /\ names \in Seq(PathName) /\ n \in Nat /\ DOMAIN names = 1 .. n
      /\ \A i \in 1 .. n : names[i] \in PathName
  BY DEF Path
<1>2. /\ PathName \subseteq Seq(TextChar) /\ \A t \in PathName : \A i \in 1 .. Len(t) : t[i] # "/"
  <2>1. ASSUME NEW A, NEW B, A \subseteq B
        PROVE  Seq(A) \subseteq Seq(B)
    BY <2>1
  <2>2. Char \subseteq TextChar
    BY DEF TextChar
  <2>3. Seq(Char) \subseteq Seq(TextChar)
    BY <2>1, <2>2, Zenon
  <2>4. \A t \in Seq(Char) : DOMAIN t = 1 .. Len(t)
    OBVIOUS
  <2>. QED  BY <2>3, <2>4 DEF PathName
<1>3. "/" \in TextChar /\ <<"/">> \in Seq(TextChar)
  BY DEF TextChar
<1>4. seqs \in Seq(Seq(TextChar)) /\ Len(seqs) = n /\ \A i \in 1 .. n : seqs[i] = <<"/">> \o names[i]
  <2>1. \A i \in 1 .. n : <<"/">> \o names[i] \in Seq(TextChar)
    <3>1. ASSUME NEW u \in Seq(TextChar), NEW t \in Seq(TextChar)
          PROVE  u \o t \in Seq(TextChar)
      OBVIOUS
    <3>. QED  BY <1>1, <1>2, <1>3, <3>1
  <2>. HIDE DEF n, names
  <2>. QED  BY <1>1, <2>1
<1>. HIDE DEF seqs, names, n
<1>5. PICK e \in [0 .. n -> Seq(TextChar)] : Flattened(e, seqs) /\ FlattenSeq(seqs) = e[n]
  <2>1. \E e \in [0 .. Len(seqs) -> Seq(TextChar)] : Flattened(e, seqs) /\ FlattenSeq(seqs) = e[Len(seqs)]
    BY <1>4, FlattenSteps, Zenon
  <2>. QED  BY <1>4, <2>1
<1>6. Text(p) = e[n]
  BY <1>5 DEF Text, seqs, names
<1>7. e[0] = <<>> /\ \A k \in 1 .. n : e[k] = e[k - 1] \o (<<"/">> \o names[k])
  BY <1>4, <1>5 DEF Flattened
<1>. DEFINE Read(k) == /\ Split(e[k]) \in Seq(PathName)
                       /\ Clean(Root(Split(e[k]))) = Clean(Root(SubSeq(names, 1, k)))
            T == {k \in 0 .. n : Read(k)}
<1>8. \A t, name : t \in Seq(PathName) /\ name \in PathName =>
        Clean(Root(Append(t, name))) = CleanName(Clean(Root(t)), name)
  <2>1. ASSUME NEW t \in Seq(PathName), NEW name \in PathName
        PROVE  Clean(Root(Append(t, name))) = CleanName(Clean(Root(t)), name)
    <3>1. Root(t) \in Path /\ Root(t).abs = TRUE /\ Root(t).names = t
      BY DEF Root, Path
    <3>2. Clean([abs |-> Root(t).abs, names |-> Append(Root(t).names, name)]) = CleanName(Clean(Root(t)), name)
      BY <3>1, CleanAppend
    <3>3. [abs |-> Root(t).abs, names |-> Append(Root(t).names, name)] = Root(Append(t, name))
      BY <3>1 DEF Root
    <3>. QED  BY <3>2, <3>3
  <2>. QED  BY <2>1
<1>9. 0 \in T
  <2>1. SubSeq(names, 1, 0) = <<>> /\ <<>> \in PathName /\ <<>> \in Seq(PathName) /\ << <<>> >> \in Seq(PathName)
    <3>1. <<>> \in PathName
      <4>1. <<>> \in Seq(Char) /\ DOMAIN <<>> = {}
        OBVIOUS
      <4>. QED  BY <4>1 DEF PathName
    <3>. QED  BY <1>1, <3>1
  <2>2. Split(e[0]) = << <<>> >>
    <3>1. <<>> \in Seq(TextChar)
      OBVIOUS
    <3>. QED  BY <1>7, <3>1, SplitAppend
  <2>3. Clean(Root(Append(<<>>, <<>>))) = CleanName(Clean(Root(<<>>)), <<>>) /\ Append(<<>>, <<>>) = << <<>> >>
    <3>1. \A x : Append(<<>>, x) = <<x>>
      OBVIOUS
    <3>2. Append(<<>>, <<>>) = << <<>> >>
      BY <3>1
    <3>3. Clean(Root(Append(<<>>, <<>>))) = CleanName(Clean(Root(<<>>)), <<>>)
      BY <1>8, <2>1, Zenon
    <3>. QED  BY <3>2, <3>3
  <2>4. CleanName(Clean(Root(<<>>)), <<>>) = Clean(Root(<<>>))
    <3>1. <<>> # <<".", ".">>
      OBVIOUS
    <3>. QED  BY <3>1 DEF CleanName
  <2>5. Read(0)
    BY <2>1, <2>2, <2>3, <2>4
  <2>. HIDE DEF Read
  <2>. QED  BY <1>1, <2>5
<1>10. ASSUME NEW k \in 0 .. n - 1, k \in T
       PROVE  k + 1 \in T
  <2>. DEFINE name == names[k + 1]
              s == e[k]
              parts == Split(s)
              u == SubSeq(names, 1, k)
  <2>1. k \in 0 .. n /\ k + 1 \in 1 .. n /\ k + 1 \in 0 .. n /\ (k + 1) - 1 = k /\ k \in Nat
    BY <1>1
  <2>2. parts \in Seq(PathName) /\ Clean(Root(parts)) = Clean(Root(u))
    BY <1>10
  <2>3. s \in Seq(TextChar) /\ e[k + 1] = s \o (<<"/">> \o name) /\ name \in PathName
    BY <1>1, <1>5, <1>7, <2>1
  <2>4. Append(u, name) = SubSeq(names, 1, k + 1) /\ u \in Seq(PathName)
    BY <1>1, <2>1, FrontOf
  <2>. HIDE DEF name, s, u
  <2>5. s \o (<<"/">> \o name) = Append(s, "/") \o name /\ Append(s, "/") \in Seq(TextChar)
    <3>1. name \in Seq(TextChar)
      BY <1>2, <2>3
    <3>2. ASSUME NEW C, NEW a \in Seq(C), NEW b \in Seq(C), NEW c \in C
          PROVE  a \o (<<c>> \o b) = Append(a, c) \o b /\ Append(a, c) \in Seq(C)
      <4>1. a \o (<<c>> \o b) = (a \o <<c>>) \o b
        OBVIOUS
      <4>2. a \o <<c>> = Append(a, c)
        OBVIOUS
      <4>. QED  BY <4>1, <4>2
    <3>. QED  BY <1>3, <2>3, <3>1, <3>2
  <2>6. Split(Append(s, "/")) = Append(parts, <<>>)
    BY <1>3, <2>3, SplitAppend DEF SplitRune
  <2>7. Split(e[k + 1]) = Append(parts, name)
    <3>1. name \in Seq(TextChar) /\ \A i \in 1 .. Len(name) : name[i] # "/"
      BY <1>2, <2>3
    <3>2. parts \in Seq(Seq(TextChar))
      <4>1. parts \in Parts(TextChar)
        BY <2>3, SplitAppend
      <4>. QED  BY <4>1 DEF Parts
    <3>. HIDE DEF parts
    <3>3. Split(Append(s, "/") \o name) = Append(parts, name)
      BY <2>5, <2>6, <3>1, <3>2, SplitGrows
    <3>. QED  BY <2>3, <2>5, <3>3
  <2>. HIDE DEF parts
  <2>8. Clean(Root(Append(parts, name))) = Clean(Root(Append(u, name)))
    BY <1>8, <2>2, <2>3, <2>4
  <2>9. Append(parts, name) \in Seq(PathName)
    BY <2>2, <2>3
  <2>10. Read(k + 1)
    BY <2>4, <2>7, <2>8, <2>9
  <2>. HIDE DEF Read
  <2>. QED  BY <2>1, <2>10
<1>11. Read(n)
  <2>. HIDE DEF Read
  <2>1. 0 .. n \subseteq T
    <3>. HIDE DEF T
    <3>. QED  BY <1>1, <1>9, <1>10, RiseTo
  <2>2. n \in 0 .. n
    BY <1>1
  <2>. QED  BY <2>1, <2>2
<1>12. Root(SubSeq(names, 1, n)) = p
  <2>1. SubSeq(names, 1, n) = names
    BY <1>1 DEF n
  <2>2. p = [abs |-> p.abs, names |-> names] /\ p.abs = TRUE
    BY DEF Path, names
  <2>. QED  BY <2>1, <2>2 DEF Root
<1>13. Text(p) \in Seq(TextChar)
  BY <1>1, <1>5, <1>6
<1>. QED  BY <1>6, <1>11, <1>12, <1>13

(* The escape of a character is read back as that character.               *)
LEMMA EscapeRead ==
  /\ \A c \in DOMAIN Byte :
       \E x, y, z \in {Digit[d] : d \in DOMAIN Digit} :
         /\ Escape(c) = <<"\\", x, y, z>> /\ Unescape(<<x, y, z>>) = c
  /\ \A c : c \notin DOMAIN Byte => Escape(c) = <<c>> /\ c # "\\"
<1>1. /\ DOMAIN Byte = {" ", "\t", "\n", "\\"}
      /\ Byte[" "] = 32 /\ Byte["\t"] = 9 /\ Byte["\n"] = 10 /\ Byte["\\"] = 92
  BY DEF Byte
<1>2. /\ DOMAIN Digit = 1 .. 8
      /\ Digit[1] = "0" /\ Digit[2] = "1" /\ Digit[3] = "2" /\ Digit[4] = "3"
      /\ Digit[5] = "4" /\ Digit[6] = "5" /\ Digit[7] = "6" /\ Digit[8] = "7"
  BY DEF Digit
<1>. DEFINE V(x) == CHOOSE n \in 0 .. 7 : Digit[n + 1] = x
<1>3. V("0") = 0 /\ V("1") = 1 /\ V("2") = 2 /\ V("3") = 3 /\ V("4") = 4
  <2>1. ASSUME NEW m \in 0 .. 7, NEW n \in 0 .. 7, Digit[n + 1] = Digit[m + 1]
        PROVE  n = m
    <3>1. \A k \in 0 .. 7 : \/ k = 0 /\ Digit[k + 1] = "0"
                            \/ k = 1 /\ Digit[k + 1] = "1"
                            \/ k = 2 /\ Digit[k + 1] = "2"
                            \/ k = 3 /\ Digit[k + 1] = "3"
                            \/ k = 4 /\ Digit[k + 1] = "4"
                            \/ k = 5 /\ Digit[k + 1] = "5"
                            \/ k = 6 /\ Digit[k + 1] = "6"
                            \/ k = 7 /\ Digit[k + 1] = "7"
      <4>1. \A k \in 0 .. 7 : k = 0 \/ k = 1 \/ k = 2 \/ k = 3 \/ k = 4 \/ k = 5 \/ k = 6 \/ k = 7
        OBVIOUS
      <4>. QED  BY <1>2, <4>1
    <3>. QED  BY <2>1, <3>1
  <2>2. \A m \in 0 .. 7 : V(Digit[m + 1]) = m
    BY <2>1
  <2>. HIDE DEF V
  <2>. QED  BY <1>2, <2>2
<1>4. ASSUME NEW x, NEW y, NEW z, NEW c \in DOMAIN Byte, (64 * V(x) + 8 * V(y) + V(z)) % 256 = Byte[c]
      PROVE  Unescape(<<x, y, z>>) = c
  <2>. DEFINE byte == (64 * V(x) + 8 * V(y) + V(z)) % 256
  <2>1. Unescape(<<x, y, z>>) = IF \E k \in DOMAIN Byte : Byte[k] = byte
                                THEN CHOOSE k \in DOMAIN Byte : Byte[k] = byte ELSE "?"
    BY DEF Unescape
  <2>2. \A k \in DOMAIN Byte : Byte[k] = Byte[c] => k = c
    <3>1. \A k \in DOMAIN Byte : \/ k = " " /\ Byte[k] = 32
                                 \/ k = "\t" /\ Byte[k] = 9
                                 \/ k = "\n" /\ Byte[k] = 10
                                 \/ k = "\\" /\ Byte[k] = 92
      BY <1>1
    <3>2. ASSUME NEW k \in DOMAIN Byte, Byte[k] = Byte[c]
          PROVE  k = c
      <4>1. \/ c = " " /\ Byte[c] = 32
            \/ c = "\t" /\ Byte[c] = 9
            \/ c = "\n" /\ Byte[c] = 10
            \/ c = "\\" /\ Byte[c] = 92
        BY <3>1
      <4>2. \/ k = " " /\ Byte[k] = 32
            \/ k = "\t" /\ Byte[k] = 9
            \/ k = "\n" /\ Byte[k] = 10
            \/ k = "\\" /\ Byte[k] = 92
        BY <3>1
      <4>3. 32 # 9 /\ 32 # 10 /\ 32 # 92 /\ 9 # 10 /\ 9 # 92 /\ 10 # 92
        OBVIOUS
      <4>4. CASE c = " " /\ Byte[c] = 32
        BY <3>2, <4>2, <4>3, <4>4, Zenon
      <4>5. CASE c = "\t" /\ Byte[c] = 9
        BY <3>2, <4>2, <4>3, <4>5, Zenon
      <4>6. CASE c = "\n" /\ Byte[c] = 10
        BY <3>2, <4>2, <4>3, <4>6, Zenon
      <4>7. CASE c = "\\" /\ Byte[c] = 92
        BY <3>2, <4>2, <4>3, <4>7, Zenon
      <4>. QED  BY <4>1, <4>4, <4>5, <4>6, <4>7
    <3>. QED  BY <3>2
  <2>3. byte = Byte[c]
    BY <1>4
  <2>. HIDE DEF byte
  <2>. QED  BY <2>1, <2>2, <2>3
<1>5. \A c \in DOMAIN Byte :
        Escape(c) = <<"\\", Digit[(Byte[c] \div 64) + 1], Digit[((Byte[c] \div 8) % 8) + 1], Digit[(Byte[c] % 8) + 1]>>
  BY DEF Escape
<1>. HIDE DEF V
<1>6. ASSUME NEW c \in DOMAIN Byte
      PROVE  \E x, y, z \in {Digit[i] : i \in DOMAIN Digit} :
               Escape(c) = <<"\\", x, y, z>> /\ Unescape(<<x, y, z>>) = c
  <2>0. {"0", "1", "2", "3", "4"} \subseteq {Digit[i] : i \in DOMAIN Digit}
    BY <1>2
  <2>1. CASE c = " "
    <3>1. 32 \div 64 = 0 /\ (32 \div 8) % 8 = 4 /\ 32 % 8 = 0 /\ (64 * 0 + 8 * 4 + 0) % 256 = 32
      OBVIOUS
    <3>2. Byte[c] = 32
      BY <1>1, <2>1
    <3>3. Escape(c) = <<"\\", "0", "4", "0">>
      <4>1. Escape(c) = <<"\\", Digit[0 + 1], Digit[4 + 1], Digit[0 + 1]>>
        BY <1>5, <3>1, <3>2
      <4>2. Digit[0 + 1] = "0" /\ Digit[4 + 1] = "4" /\ Digit[0 + 1] = "0"
        BY <1>2
      <4>. QED  BY <4>1, <4>2
    <3>4. (64 * V("0") + 8 * V("4") + V("0")) % 256 = Byte[c]
      BY <1>3, <3>1, <3>2
    <3>5. Unescape(<<"0", "4", "0">>) = c
      BY <1>4, <3>4
    <3>. QED  BY <2>0, <3>3, <3>5
  <2>2. CASE c = "\t"
    <3>1. 9 \div 64 = 0 /\ (9 \div 8) % 8 = 1 /\ 9 % 8 = 1 /\ (64 * 0 + 8 * 1 + 1) % 256 = 9
      OBVIOUS
    <3>2. Byte[c] = 9
      BY <1>1, <2>2
    <3>3. Escape(c) = <<"\\", "0", "1", "1">>
      <4>1. Escape(c) = <<"\\", Digit[0 + 1], Digit[1 + 1], Digit[1 + 1]>>
        BY <1>5, <3>1, <3>2
      <4>2. Digit[0 + 1] = "0" /\ Digit[1 + 1] = "1" /\ Digit[1 + 1] = "1"
        BY <1>2
      <4>. QED  BY <4>1, <4>2
    <3>4. (64 * V("0") + 8 * V("1") + V("1")) % 256 = Byte[c]
      BY <1>3, <3>1, <3>2
    <3>5. Unescape(<<"0", "1", "1">>) = c
      BY <1>4, <3>4
    <3>. QED  BY <2>0, <3>3, <3>5
  <2>3. CASE c = "\n"
    <3>1. 10 \div 64 = 0 /\ (10 \div 8) % 8 = 1 /\ 10 % 8 = 2 /\ (64 * 0 + 8 * 1 + 2) % 256 = 10
      OBVIOUS
    <3>2. Byte[c] = 10
      BY <1>1, <2>3
    <3>3. Escape(c) = <<"\\", "0", "1", "2">>
      <4>1. Escape(c) = <<"\\", Digit[0 + 1], Digit[1 + 1], Digit[2 + 1]>>
        BY <1>5, <3>1, <3>2
      <4>2. Digit[0 + 1] = "0" /\ Digit[1 + 1] = "1" /\ Digit[2 + 1] = "2"
        BY <1>2
      <4>. QED  BY <4>1, <4>2
    <3>4. (64 * V("0") + 8 * V("1") + V("2")) % 256 = Byte[c]
      BY <1>3, <3>1, <3>2
    <3>5. Unescape(<<"0", "1", "2">>) = c
      BY <1>4, <3>4
    <3>. QED  BY <2>0, <3>3, <3>5
  <2>4. CASE c = "\\"
    <3>1. 92 \div 64 = 1 /\ (92 \div 8) % 8 = 3 /\ 92 % 8 = 4 /\ (64 * 1 + 8 * 3 + 4) % 256 = 92
      OBVIOUS
    <3>2. Byte[c] = 92
      BY <1>1, <2>4
    <3>3. Escape(c) = <<"\\", "1", "3", "4">>
      <4>1. Escape(c) = <<"\\", Digit[1 + 1], Digit[3 + 1], Digit[4 + 1]>>
        BY <1>5, <3>1, <3>2
      <4>2. Digit[1 + 1] = "1" /\ Digit[3 + 1] = "3" /\ Digit[4 + 1] = "4"
        BY <1>2
      <4>. QED  BY <4>1, <4>2
    <3>4. (64 * V("1") + 8 * V("3") + V("4")) % 256 = Byte[c]
      BY <1>3, <3>1, <3>2
    <3>5. Unescape(<<"1", "3", "4">>) = c
      BY <1>4, <3>4
    <3>. QED  BY <2>0, <3>3, <3>5
  <2>. QED  BY <1>1, <2>1, <2>2, <2>3, <2>4
<1>7. ASSUME NEW c, c \notin DOMAIN Byte
      PROVE  Escape(c) = <<c>> /\ c # "\\"
  BY <1>1, <1>7 DEF Escape
<1>. QED  BY <1>6, <1>7

(* What has been decoded of a text of such characters, and one step of it  *)
(* as DecodeMountInfoPath takes it.                                        *)
Decoded(C) == [out : Seq(C \union DOMAIN Byte \union {"?"}), skip : 0 .. 3, bad : BOOLEAN]

DecodeRune(raw, d, i) ==
  IF d.skip > 0 THEN [d EXCEPT !.skip = @ - 1]
  ELSE IF raw[i] # "\\" THEN [d EXCEPT !.out = Append(@, raw[i])]
  ELSE IF WholeEscape(raw, i)
  THEN [d EXCEPT !.out = Append(@, Unescape(SubSeq(raw, i + 1, i + 3))), !.skip = 3]
  ELSE [d EXCEPT !.bad = TRUE]

DecodedOf(out, skip, bad) == [out |-> out, skip |-> skip, bad |-> bad]

(* One character, with the state taken apart.                              *)
LEMMA DecodedMeans ==
  ASSUME NEW o, NEW m, NEW b, NEW raw, NEW i
  PROVE  DecodeRune(raw, DecodedOf(o, m, b), i) =
           IF m > 0 THEN DecodedOf(o, m - 1, b)
           ELSE IF raw[i] # "\\" THEN DecodedOf(Append(o, raw[i]), m, b)
           ELSE IF WholeEscape(raw, i)
           THEN DecodedOf(Append(o, Unescape(SubSeq(raw, i + 1, i + 3))), 3, b)
           ELSE DecodedOf(o, m, TRUE)
<1>. DEFINE d == DecodedOf(o, m, b)
<1>1. d.out = o /\ d.skip = m /\ d.bad = b
  BY DEF DecodedOf
<1>2. \A t : [d EXCEPT !.out = t] = DecodedOf(t, m, b)
  BY DEF DecodedOf
<1>3. \A t : [d EXCEPT !.skip = t] = DecodedOf(o, t, b)
  BY DEF DecodedOf
<1>4. \A t : [d EXCEPT !.bad = t] = DecodedOf(o, m, t)
  BY DEF DecodedOf
<1>5. \A t : [d EXCEPT !.out = t, !.skip = 3] = DecodedOf(t, 3, b)
  <2>1. \A t, k : [d EXCEPT !.out = t, !.skip = k] = [[d EXCEPT !.out = t] EXCEPT !.skip = k]
    BY DEF DecodedOf
  <2>2. \A t, k : [DecodedOf(t, m, b) EXCEPT !.skip = k] = DecodedOf(t, k, b)
    BY DEF DecodedOf
  <2>. HIDE DEF d
  <2>. QED  BY <1>2, <2>1, <2>2
<1>6. DecodeRune(raw, d, i) =
        IF d.skip > 0 THEN [d EXCEPT !.skip = d.skip - 1]
        ELSE IF raw[i] # "\\" THEN [d EXCEPT !.out = Append(d.out, raw[i])]
        ELSE IF WholeEscape(raw, i)
        THEN [d EXCEPT !.out = Append(d.out, Unescape(SubSeq(raw, i + 1, i + 3))), !.skip = 3]
        ELSE [d EXCEPT !.bad = TRUE]
  BY DEF DecodeRune
<1>. HIDE DEF d
<1>7. DecodeRune(raw, d, i) =
        IF m > 0 THEN DecodedOf(o, m - 1, b)
        ELSE IF raw[i] # "\\" THEN DecodedOf(Append(o, raw[i]), m, b)
        ELSE IF WholeEscape(raw, i)
        THEN DecodedOf(Append(o, Unescape(SubSeq(raw, i + 1, i + 3))), 3, b)
        ELSE DecodedOf(o, m, TRUE)
  BY <1>1, <1>2, <1>3, <1>4, <1>5, <1>6
<1>. QED  BY <1>7 DEF d

(* One character more leaves a state of the decoder.                       *)
LEMMA DecodeType ==
  ASSUME NEW C, NEW raw \in Seq(C), NEW d \in Decoded(C), NEW i \in 1 .. Len(raw)
  PROVE  DecodeRune(raw, d, i) \in Decoded(C)
<1>. DEFINE R == C \union DOMAIN Byte \union {"?"}
<1>1. PICK o \in Seq(R), m \in 0 .. 3, b \in BOOLEAN : d = DecodedOf(o, m, b)
  BY DEF Decoded, DecodedOf
<1>2. raw[i] \in R
  OBVIOUS
<1>3. ASSUME NEW digits
      PROVE  Unescape(digits) \in R
  BY DEF Unescape
<1>. DEFINE u == Unescape(SubSeq(raw, i + 1, i + 3))
<1>4. u \in R
  BY <1>3
<1>. HIDE DEF u
<1>5. ASSUME NEW t \in Seq(R), NEW k \in 0 .. 3, NEW c \in BOOLEAN
      PROVE  DecodedOf(t, k, c) \in Decoded(C)
  BY DEF Decoded, DecodedOf
<1>. HIDE DEF R
<1>6. Append(o, raw[i]) \in Seq(R) /\ Append(o, u) \in Seq(R) /\ (m > 0 => m - 1 \in 0 .. 3) /\ 3 \in 0 .. 3
  BY <1>2, <1>4
<1>7. DecodeRune(raw, d, i) =
        IF m > 0 THEN DecodedOf(o, m - 1, b)
        ELSE IF raw[i] # "\\" THEN DecodedOf(Append(o, raw[i]), m, b)
        ELSE IF WholeEscape(raw, i) THEN DecodedOf(Append(o, u), 3, b) ELSE DecodedOf(o, m, TRUE)
  BY <1>1, DecodedMeans DEF u
<1>. QED  BY <1>5, <1>6, <1>7

(* The decoder's state after each of the characters.                       *)
LEMMA DecodeSteps ==
  ASSUME NEW C, NEW raw \in Seq(C)
  PROVE  \E h \in [0 .. Len(raw) -> Decoded(C)] :
           /\ h[0] = DecodedOf(<<>>, 0, FALSE)
           /\ \A k \in 1 .. Len(raw) : h[k] = DecodeRune(raw, h[k - 1], k)
           /\ DecodeMountInfoPath(raw) = h[Len(raw)]
<1>. DEFINE n == Len(raw)
            A == Decoded(C)
            base == DecodedOf(<<>>, 0, FALSE)
            order == [i \in DOMAIN raw |-> i]
            g == [x \in (1 .. n) \X A |-> DecodeRune(raw, x[2], x[1])]
<1>1. n \in Nat /\ DOMAIN raw = 1 .. n /\ DOMAIN order = 1 .. n /\ \A i \in 1 .. n : order[i] = i
  OBVIOUS
<1>2. base \in A
  <2>1. <<>> \in Seq(C \union DOMAIN Byte \union {"?"}) /\ 0 \in 0 .. 3
    OBVIOUS
  <2>. QED  BY <2>1 DEF Decoded, DecodedOf
<1>4. g \in [(1 .. n) \X A -> A]
  <2>1. \A x \in (1 .. n) \X A : DecodeRune(raw, x[2], x[1]) \in A
    BY DecodeType
  <2>. HIDE DEF n, A
  <2>. QED  BY <2>1
<1>5. PICK it \in [SUBSET (1 .. n) -> A] : Folded(it, n, base, g)
  <2>. HIDE DEF g, n, A, base
  <2>. QED  BY <1>1, <1>2, <1>4, FoldExists, Zenon
<1>. DEFINE next(f, t) == IF t = {} THEN DecodedOf(<<>>, 0, FALSE)
                          ELSE DecodeRune(raw, f[t \ {Max(t)}], order[Max(t)])
            iter == CHOOSE f : f = [t \in SUBSET DOMAIN order |-> next(f, t)]
<1>6. ASSUME NEW f, NEW t \in SUBSET (1 .. n), t # {}, f[t \ {Max(t)}] \in A
      PROVE  next(f, t) = g[<<Max(t), f[t \ {Max(t)}]>>]
  <2>1. Max(t) \in 1 .. n
    BY <1>1, <1>6, MaxOf
  <2>2. order[Max(t)] = Max(t)
    BY <1>1, <2>1
  <2>. HIDE DEF A, n, order
  <2>. QED  BY <1>6, <2>1, <2>2
<1>7. it = [t \in SUBSET DOMAIN order |-> next(it, t)]
  <2>1. ASSUME NEW t \in SUBSET (1 .. n)
        PROVE  it[t] = next(it, t)
    <3>1. t # {} => it[t \ {Max(t)}] \in A
      OBVIOUS
    <3>. HIDE DEF g, n, A, order
    <3>. QED  BY <1>1, <1>5, <1>6, <3>1 DEF Folded
  <2>. HIDE DEF next, n, order
  <2>. QED  BY <2>1, <1>1
<1>8. iter = [t \in SUBSET DOMAIN order |-> next(iter, t)]
  <2>. HIDE DEF next, order
  <2>. QED  BY <1>7
<1>9. DecodeMountInfoPath(raw) = iter[1 .. n]
  <2>1. DecodeMountInfoPath(raw) = iter[DOMAIN order]
    BY DEF DecodeMountInfoPath, FoldLeftDomain, FoldLeft, MapThenFoldSet, DecodeRune, DecodedOf
  <2>. HIDE DEF iter, n, order
  <2>. QED  BY <1>1, <2>1
<1>10. Rises(iter, n, A, base, g)
  <2>1. \A t \in SUBSET (1 .. n) : iter[t] = next(iter, t)
    <3>. HIDE DEF iter, next, n, order
    <3>. QED  BY <1>1, <1>8
  <2>2. iter[{}] = base
    <3>. HIDE DEF iter, n, order
    <3>. QED  BY <2>1, <1>1
  <2>. HIDE DEF iter, g, n, A, base, order
  <2>. QED  BY <2>1, <2>2, <1>6 DEF Rises
<1>11. PICK h \in [0 .. n -> A] : Stepped(h, n, base, g, iter[1 .. n])
  <2>. HIDE DEF iter, g, n, A, base
  <2>. QED  BY <1>1, <1>2, <1>4, <1>10, FoldRises, Zenon
<1>12. ASSUME NEW k \in 1 .. n
       PROVE  h[k] = DecodeRune(raw, h[k - 1], k)
  <2>. HIDE DEF A, iter
  <2>1. h[k - 1] \in A
    BY <1>1
  <2>. QED  BY <2>1, <1>11 DEF Stepped
<1>. HIDE DEF iter, g
<1>. QED  BY <1>9, <1>11, <1>12 DEF Stepped

(* Each e[k] is where the last of e begins.                                *)
Begins(e, n) ==
  \A k \in 0 .. n : /\ Len(e[k]) \in Nat /\ Len(e[k]) <= Len(e[n])
                    /\ \A i \in 1 .. Len(e[k]) : e[n][i] = e[k][i]

(* What has been put together stays as it is.                              *)
LEMMA FlattenKeeps ==
  ASSUME NEW C, NEW seqs \in Seq(Seq(C)), NEW e \in [0 .. Len(seqs) -> Seq(C)], Flattened(e, seqs)
  PROVE  Begins(e, Len(seqs))
<1>. DEFINE n == Len(seqs)
            Keeps(k, m) == Len(e[k]) <= Len(e[m]) /\ \A i \in 1 .. Len(e[k]) : e[m][i] = e[k][i]
            T == {m \in 0 .. n : \A k \in 0 .. m : Keeps(k, m)}
<1>1. n \in Nat /\ \A k \in 1 .. n : e[k] = e[k - 1] \o seqs[k] /\ seqs[k] \in Seq(C)
  BY DEF Flattened
<1>2. \A k \in 0 .. n : e[k] \in Seq(C) /\ Len(e[k]) \in Nat
  OBVIOUS
<1>3. 0 \in T
  BY <1>1, <1>2
<1>4. ASSUME NEW m \in 0 .. n - 1, m \in T
      PROVE  m + 1 \in T
  <2>1. m \in 0 .. n /\ m + 1 \in 1 .. n /\ (m + 1) - 1 = m /\ m + 1 \in 0 .. n
    BY <1>1
  <2>2. Keeps(m, m + 1)
    <3>1. e[m + 1] = e[m] \o seqs[m + 1] /\ e[m] \in Seq(C) /\ seqs[m + 1] \in Seq(C)
      BY <1>1, <1>2, <2>1
    <3>2. ASSUME NEW a \in Seq(C), NEW b \in Seq(C)
          PROVE  Len(a) <= Len(a \o b) /\ \A i \in 1 .. Len(a) : (a \o b)[i] = a[i]
      OBVIOUS
    <3>. QED  BY <3>1, <3>2
  <2>3. ASSUME NEW k \in 0 .. m + 1
        PROVE  Keeps(k, m + 1)
    <3>1. CASE k = m + 1
      BY <1>2, <2>1, <3>1
    <3>2. CASE k # m + 1
      <4>1. k \in 0 .. m /\ k \in 0 .. n
        BY <2>1, <3>2
      <4>2. Keeps(k, m)
        BY <1>4, <4>1
      <4>3. Len(e[k]) \in Nat /\ Len(e[m]) \in Nat /\ Len(e[m + 1]) \in Nat
        BY <1>2, <2>1, <4>1
      <4>. HIDE DEF n, T
      <4>. QED  BY <2>2, <4>2, <4>3
    <3>. QED  BY <3>1, <3>2
  <2>. HIDE DEF Keeps
  <2>. QED  BY <2>1, <2>3
<1>5. n \in T
  <2>1. 0 .. n \subseteq T
    <3>. HIDE DEF T, n
    <3>. QED  BY <1>1, <1>3, <1>4, RiseTo
  <2>2. n \in 0 .. n
    BY <1>1
  <2>. HIDE DEF T
  <2>. QED  BY <2>1, <2>2
<1>. QED  BY <1>2, <1>5 DEF Begins

(* What has been decoded where no escape was cut off.                      *)
Sound(out, skip) == DecodedOf(out, skip, FALSE)

(* One character where nothing was bad so far.                             *)
LEMMA SoundMeans ==
  ASSUME NEW o, NEW m, NEW raw, NEW i
  PROVE  /\ m > 0 => DecodeRune(raw, Sound(o, m), i) = Sound(o, m - 1)
         /\ ~(m > 0) /\ raw[i] # "\\" => DecodeRune(raw, Sound(o, m), i) = Sound(Append(o, raw[i]), m)
         /\ ~(m > 0) /\ raw[i] = "\\" /\ WholeEscape(raw, i) =>
              DecodeRune(raw, Sound(o, m), i) = Sound(Append(o, Unescape(SubSeq(raw, i + 1, i + 3))), 3)
<1>1. ASSUME NEW b
      PROVE  /\ m > 0 => DecodeRune(raw, DecodedOf(o, m, b), i) = DecodedOf(o, m - 1, b)
             /\ ~(m > 0) /\ raw[i] # "\\" =>
                  DecodeRune(raw, DecodedOf(o, m, b), i) = DecodedOf(Append(o, raw[i]), m, b)
             /\ ~(m > 0) /\ raw[i] = "\\" /\ WholeEscape(raw, i) =>
                  DecodeRune(raw, DecodedOf(o, m, b), i)
                    = DecodedOf(Append(o, Unescape(SubSeq(raw, i + 1, i + 3))), 3, b)
  <2>. DEFINE u == Append(o, Unescape(SubSeq(raw, i + 1, i + 3)))
              more == m > 0
              next == DecodeRune(raw, DecodedOf(o, m, b), i)
  <2>1. next = IF more THEN DecodedOf(o, m - 1, b)
               ELSE IF raw[i] # "\\" THEN DecodedOf(Append(o, raw[i]), m, b)
               ELSE IF WholeEscape(raw, i) THEN DecodedOf(u, 3, b) ELSE DecodedOf(o, m, TRUE)
    BY DecodedMeans
  <2>. HIDE DEF u, more, next
  <2>2. /\ more => next = DecodedOf(o, m - 1, b)
        /\ ~more /\ raw[i] # "\\" => next = DecodedOf(Append(o, raw[i]), m, b)
        /\ ~more /\ raw[i] = "\\" /\ WholeEscape(raw, i) => next = DecodedOf(u, 3, b)
    BY <2>1, Zenon
  <2>. QED  BY <2>2, Zenon DEF u, more, next
<1>. QED  BY <1>1, Zenon DEF Sound

(* A text is read back from its escaped form.                              *)
LEMMA TextDecoded ==
  ASSUME NEW C, NEW text \in Seq(C)
  PROVE  DecodeMountInfoPath(FlattenSeq([i \in DOMAIN text |-> Escape(text[i])])) = Sound(text, 0)
<1>. DEFINE n == Len(text)
            Octal == {Digit[d] : d \in DOMAIN Digit}
            E == C \union {"\\"} \union Octal
            seqs == [i \in DOMAIN text |-> Escape(text[i])]
            raw == FlattenSeq(seqs)
<1>1. n \in Nat /\ DOMAIN text = 1 .. n /\ \A i \in 1 .. n : text[i] \in C
  OBVIOUS
<1>2. \A c \in C : Escape(c) \in Seq(E)
  <2>1. ASSUME NEW c \in C, c \in DOMAIN Byte
        PROVE  Escape(c) \in Seq(E)
    <3>0. \E x, y, z \in Octal : Escape(c) = <<"\\", x, y, z>> /\ Unescape(<<x, y, z>>) = c
      <4>. DEFINE S == DOMAIN Byte
      <4>1. c \in S
        BY <2>1
      <4>. QED  BY <4>1, EscapeRead, Zenon
    <3>1. PICK x \in Octal, y \in Octal, z \in Octal : Escape(c) = <<"\\", x, y, z>>
      BY <3>0, Zenon
    <3>2. "\\" \in E /\ x \in E /\ y \in E /\ z \in E
      OBVIOUS
    <3>. HIDE DEF E, Octal
    <3>. QED  BY <3>1, <3>2
  <2>2. ASSUME NEW c \in C, c \notin DOMAIN Byte
        PROVE  Escape(c) \in Seq(E)
    <3>1. Escape(c) = <<c>>
      BY <2>2, EscapeRead
    <3>2. c \in E
      OBVIOUS
    <3>. HIDE DEF E, Octal
    <3>. QED  BY <3>1, <3>2
  <2>. QED  BY <2>1, <2>2
<1>. HIDE DEF E, Octal
<1>3. seqs \in Seq(Seq(E)) /\ Len(seqs) = n /\ \A i \in 1 .. n : seqs[i] = Escape(text[i])
  BY <1>1, <1>2
<1>. HIDE DEF seqs, n, raw
<1>4. PICK e \in [0 .. n -> Seq(E)] : Flattened(e, seqs) /\ raw = e[n]
  <2>1. \E e \in [0 .. Len(seqs) -> Seq(E)] : Flattened(e, seqs) /\ FlattenSeq(seqs) = e[Len(seqs)]
    BY <1>3, FlattenSteps, Zenon
  <2>. QED  BY <1>3, <2>1 DEF raw
<1>5. e[0] = <<>> /\ \A k \in 1 .. n : e[k] = e[k - 1] \o Escape(text[k])
  BY <1>3, <1>4 DEF Flattened
<1>6. /\ raw \in Seq(E) /\ \A k \in 0 .. n : e[k] \in Seq(E) /\ Len(e[k]) \in Nat
      /\ \A k \in 0 .. n : Len(e[k]) <= Len(raw) /\ \A i \in 1 .. Len(e[k]) : raw[i] = e[k][i]
  <2>1. e \in [0 .. Len(seqs) -> Seq(E)] /\ n \in 0 .. n
    BY <1>1, <1>3
  <2>2. Begins(e, Len(seqs))
    <3>1. seqs \in Seq(Seq(E)) /\ Flattened(e, seqs) /\ e \in [0 .. Len(seqs) -> Seq(E)]
      BY <1>3, <1>4, <2>1
    <3>. QED  BY <3>1, FlattenKeeps, Zenon
  <2>. QED  BY <1>3, <1>4, <2>1, <2>2 DEF Begins
<1>7. PICK h \in [0 .. Len(raw) -> Decoded(E)] :
        /\ h[0] = Sound(<<>>, 0)
        /\ \A k \in 1 .. Len(raw) : h[k] = DecodeRune(raw, h[k - 1], k)
        /\ DecodeMountInfoPath(raw) = h[Len(raw)]
  BY <1>6, DecodeSteps DEF Sound
<1>. DEFINE Done(k) == h[Len(e[k])] = Sound(SubSeq(text, 1, k), 0)
            T == {k \in 0 .. n : Done(k)}
<1>8. 0 \in T
  <2>1. SubSeq(text, 1, 0) = <<>> /\ Len(<<>>) = 0
    OBVIOUS
  <2>2. Done(0)
    BY <1>5, <1>7, <2>1
  <2>. HIDE DEF Done
  <2>. QED  BY <1>1, <2>2
<1>9. ASSUME NEW k \in 0 .. n - 1, k \in T
      PROVE  k + 1 \in T
  <2>. DEFINE c == text[k + 1]
              m == Len(e[k])
              t == SubSeq(text, 1, k)
              w == Escape(c)
  <2>1. k \in 0 .. n /\ k + 1 \in 1 .. n /\ k + 1 \in 0 .. n /\ (k + 1) - 1 = k
    BY <1>1
  <2>2. c \in C /\ Append(t, c) = SubSeq(text, 1, k + 1)
    <3>. HIDE DEF t
    <3>1. k \in 0 .. Len(text) - 1
      BY DEF n
    <3>2. Append(SubSeq(text, 1, k), text[k + 1]) = SubSeq(text, 1, k + 1)
      BY <3>1
    <3>. QED  BY <1>1, <2>1, <3>2 DEF t
  <2>3. e[k + 1] = e[k] \o w /\ w \in Seq(E)
    BY <1>2, <1>5, <2>1, <2>2
  <2>4. /\ m \in Nat /\ Len(w) \in Nat /\ m + Len(w) = Len(e[k + 1]) /\ m + Len(w) <= Len(raw)
        /\ \A j \in 1 .. Len(w) : raw[m + j] = w[j]
    <3>1. e[k] \in Seq(E)
      BY <1>6, <2>1
    <3>2. ASSUME NEW a \in Seq(E), NEW b \in Seq(E)
          PROVE  /\ Len(a) \in Nat /\ Len(b) \in Nat /\ Len(a \o b) = Len(a) + Len(b)
                 /\ \A j \in 1 .. Len(b) : (a \o b)[Len(a) + j] = b[j] /\ Len(a) + j \in 1 .. Len(a \o b)
      OBVIOUS
    <3>3. /\ m \in Nat /\ Len(w) \in Nat /\ m + Len(w) = Len(e[k + 1])
          /\ \A j \in 1 .. Len(w) : e[k + 1][m + j] = w[j] /\ m + j \in 1 .. Len(e[k + 1])
      BY <2>3, <3>1, <3>2
    <3>4. Len(e[k + 1]) <= Len(raw) /\ \A i \in 1 .. Len(e[k + 1]) : raw[i] = e[k + 1][i]
      BY <1>6, <2>1
    <3>. HIDE DEF m, w
    <3>. QED  BY <3>3, <3>4
  <2>5. h[m] = Sound(t, 0) /\ Len(raw) \in Nat
    BY <1>6, <1>9
  <2>6. \A i : i \in 1 .. Len(raw) => h[i] = DecodeRune(raw, h[i - 1], i)
    BY <1>7
  <2>. HIDE DEF c, m, t, w
  <2>7. CASE c \notin DOMAIN Byte
    <3>1. w = <<c>> /\ c # "\\"
      BY <2>7, EscapeRead DEF w
    <3>2. Len(w) = 1 /\ w[1] = c
      BY <3>1
    <3>3. raw[m + 1] = c /\ m + 1 \in 1 .. Len(raw) /\ (m + 1) - 1 = m
      BY <2>4, <2>5, <3>2
    <3>4. h[m + 1] = DecodeRune(raw, h[m], m + 1)
      BY <2>6, <3>3
    <3>5. h[m + 1] = Sound(Append(t, c), 0)
      BY <2>5, <3>1, <3>3, <3>4, SoundMeans
    <3>. QED  BY <2>1, <2>2, <2>4, <3>2, <3>5
  <2>8. CASE c \in DOMAIN Byte
    <3>1. PICK x \in Octal, y \in Octal, z \in Octal : w = <<"\\", x, y, z>> /\ Unescape(<<x, y, z>>) = c
      BY <2>8, EscapeRead DEF w, Octal
    <3>2. Len(w) = 4 /\ w[1] = "\\" /\ w[2] = x /\ w[3] = y /\ w[4] = z
      BY <3>1
    <3>3. /\ m \in Nat /\ m + 4 <= Len(raw)
          /\ raw[m + 1] = "\\" /\ raw[m + 2] = x /\ raw[m + 3] = y /\ raw[m + 4] = z
      BY <2>4, <3>2
    <3>4. /\ m + 1 \in 1 .. Len(raw) /\ m + 2 \in 1 .. Len(raw) /\ m + 3 \in 1 .. Len(raw) /\ m + 4 \in 1 .. Len(raw)
          /\ (m + 1) - 1 = m /\ (m + 2) - 1 = m + 1 /\ (m + 3) - 1 = m + 2 /\ (m + 4) - 1 = m + 3
          /\ (m + 1) + 1 = m + 2 /\ (m + 1) + 3 = m + 4
      BY <2>5, <3>3
    <3>5. SubSeq(raw, m + 2, m + 4) = <<x, y, z>>
      <4>. DEFINE s == SubSeq(raw, m + 2, m + 4)
                  r == <<x, y, z>>
      <4>1. x \in E /\ y \in E /\ z \in E
        BY DEF E
      <4>2. r \in Seq(E) /\ Len(r) = 3 /\ r[1] = x /\ r[2] = y /\ r[3] = z
        BY <4>1
      <4>3. /\ s \in Seq(E) /\ Len(s) = (m + 4) - (m + 2) + 1
            /\ \A i \in 1 .. (m + 4) - (m + 2) + 1 : s[i] = raw[(m + 2) + i - 1]
        BY <1>6, <3>3, <3>4
      <4>4. Len(s) = 3 /\ s[1] = x /\ s[2] = y /\ s[3] = z
        <5>. HIDE DEF s
        <5>. QED  BY <3>3, <4>3
      <4>5. \A i \in 1 .. 3 : i = 1 \/ i = 2 \/ i = 3
        OBVIOUS
      <4>. HIDE DEF s, r
      <4>6. s = r
        <5>1. Len(s) = Len(r) /\ \A i \in 1 .. Len(s) : s[i] = r[i]
          BY <4>2, <4>4, <4>5
        <5>. QED  BY <4>2, <4>3, <5>1, SeqEqual
      <4>. QED  BY <4>6 DEF s, r
    <3>6. WholeEscape(raw, m + 1)
      <4>1. IsOctal(<<x, y, z>>)
        <5>1. DOMAIN <<x, y, z>> = 1 .. 3 /\ \A i \in 1 .. 3 : i = 1 \/ i = 2 \/ i = 3
          OBVIOUS
        <5>2. <<x, y, z>>[1] \in Octal /\ <<x, y, z>>[2] \in Octal /\ <<x, y, z>>[3] \in Octal
          OBVIOUS
        <5>3. \A i \in DOMAIN <<x, y, z>> : <<x, y, z>>[i] \in Octal
          BY <5>1, <5>2
        <5>. QED  BY <5>3 DEF IsOctal, Octal
      <4>2. (m + 1) + 3 <= Len(raw) /\ IsOctal(SubSeq(raw, (m + 1) + 1, (m + 1) + 3))
        BY <3>3, <3>4, <3>5, <4>1
      <4>. QED  BY <4>2 DEF WholeEscape
    <3>7. h[m + 1] = Sound(Append(t, c), 3)
      <4>1. h[m + 1] = DecodeRune(raw, Sound(t, 0), m + 1)
        BY <2>5, <2>6, <3>4
      <4>2. DecodeRune(raw, Sound(t, 0), m + 1)
              = Sound(Append(t, Unescape(SubSeq(raw, (m + 1) + 1, (m + 1) + 3))), 3)
        <5>1. ~(0 > 0)
          OBVIOUS
        <5>2. ASSUME NEW o, NEW i, raw[i] = "\\", WholeEscape(raw, i)
              PROVE  DecodeRune(raw, Sound(o, 0), i) = Sound(Append(o, Unescape(SubSeq(raw, i + 1, i + 3))), 3)
          BY <5>1, <5>2, SoundMeans
        <5>. QED  BY <3>3, <3>6, <5>2
      <4>3. Unescape(SubSeq(raw, (m + 1) + 1, (m + 1) + 3)) = c
        BY <3>1, <3>4, <3>5
      <4>. QED  BY <4>1, <4>2, <4>3
    <3>8. \A o, j, i : j \in {1, 2, 3} => DecodeRune(raw, Sound(o, j), i) = Sound(o, j - 1)
      BY SoundMeans
    <3>9. h[m + 2] = Sound(Append(t, c), 2)
      <4>1. h[m + 2] = DecodeRune(raw, h[m + 1], m + 2)
        BY <2>6, <3>4
      <4>. QED  BY <3>7, <3>8, <4>1
    <3>10. h[m + 3] = Sound(Append(t, c), 1)
      <4>1. h[m + 3] = DecodeRune(raw, h[m + 2], m + 3)
        BY <2>6, <3>4
      <4>. QED  BY <3>9, <3>8, <4>1
    <3>11. h[m + 4] = Sound(Append(t, c), 0)
      <4>1. h[m + 4] = DecodeRune(raw, h[m + 3], m + 4)
        BY <2>6, <3>4
      <4>. QED  BY <3>10, <3>8, <4>1
    <3>. QED  BY <2>1, <2>2, <2>4, <3>2, <3>11
  <2>. QED  BY <2>7, <2>8
<1>10. Done(n)
  <2>. HIDE DEF Done
  <2>1. 0 .. n \subseteq T
    <3>. HIDE DEF T
    <3>. QED  BY <1>1, <1>8, <1>9, RiseTo
  <2>2. n \in 0 .. n
    BY <1>1
  <2>. QED  BY <2>1, <2>2
<1>11. SubSeq(text, 1, n) = text
  BY DEF n
<1>12. DecodeMountInfoPath(raw) = Sound(text, 0)
  BY <1>4, <1>7, <1>10, <1>11
<1>. QED  BY <1>12 DEF raw, seqs

(* The field of a mount point is decoded to the text of its path.          *)
LEMMA FieldRead ==
  ASSUME NEW p \in Path, p.abs
  PROVE  /\ DecodeMountInfoPath(MountInfoField(p)).bad = FALSE
         /\ Clean(Root(Split(DecodeMountInfoPath(MountInfoField(p)).out))) = Clean(p)
<1>1. Text(p) \in Seq(TextChar) /\ Clean(Root(Split(Text(p)))) = Clean(p)
  BY TextRead
<1>. DEFINE text == Text(p)
<1>2. DecodeMountInfoPath(FlattenSeq([i \in DOMAIN text |-> Escape(text[i])])) = Sound(text, 0)
  <2>. HIDE DEF text
  <2>1. text \in Seq(TextChar)
    BY <1>1 DEF text
  <2>. QED  BY <2>1, TextDecoded
<1>3. DecodeMountInfoPath(MountInfoField(p)) = Sound(text, 0)
  BY <1>2 DEF MountInfoField
<1>4. Sound(text, 0).bad = FALSE /\ Sound(text, 0).out = text
  BY DEF Sound, DecodedOf
<1>. QED  BY <1>1, <1>3, <1>4

(* Where nothing is to be cleaned, the search finds what is in the table.  *)
LEMMA TableRead ==
  ASSUME NEW table \in Seq(Path),
         \A i \in DOMAIN table : table[i].abs /\ Clean(table[i]) = table[i],
         NEW target, Clean(target) = target
  PROVE  IsMountPoint(table, target) <=> \E i \in DOMAIN table : table[i] = target
<1>. DEFINE line == [i \in DOMAIN table |-> DecodeMountInfoPath(MountInfoField(table[i]))]
            ends == {i \in DOMAIN table : line[i].bad \/ Clean(Root(Split(line[i].out))) = Clean(target)}
            n == Len(table)
<1>1. n \in Nat /\ DOMAIN table = 1 .. n /\ \A i \in DOMAIN table : table[i] \in Path
  OBVIOUS
<1>2. ASSUME NEW i \in DOMAIN table
      PROVE  line[i].bad = FALSE /\ Clean(Root(Split(line[i].out))) = table[i]
  <2>1. line[i] = DecodeMountInfoPath(MountInfoField(table[i]))
    OBVIOUS
  <2>2. table[i] \in Path /\ table[i].abs /\ Clean(table[i]) = table[i]
    BY <1>1
  <2>3. /\ DecodeMountInfoPath(MountInfoField(table[i])).bad = FALSE
        /\ Clean(Root(Split(DecodeMountInfoPath(MountInfoField(table[i])).out))) = Clean(table[i])
    BY <2>2, FieldRead
  <2>. HIDE DEF line
  <2>. QED  BY <2>1, <2>2, <2>3
<1>3. IsMountPoint(table, target) <=> ends # {} /\ ~line[Min(ends)].bad
  BY DEF IsMountPoint
<1>. HIDE DEF line
<1>4. ends = {i \in DOMAIN table : table[i] = target}
  BY <1>2
<1>. HIDE DEF ends
<1>5. ends # {} => ~line[Min(ends)].bad
  <2>1. ends \in SUBSET (1 .. n)
    BY <1>1, <1>4
  <2>2. ends # {} => Min(ends) \in DOMAIN table
    <3>. HIDE DEF n
    <3>. QED  BY <1>1, <2>1, MinOf
  <2>. QED  BY <1>2, <2>2
<1>. QED  BY <1>3, <1>4, <1>5

(* Among mounts of any names, also such as end in an escape, prepare and   *)
(* cleanup find the mount on a volume's path if and only if it is there.   *)
THEOREM MountIsAlwaysFound == PathsSpec => []MountIsFound
<1>1. LabelsOK /\ SettingsOK => MountIsFound
  <2>. DEFINE root == Clean(Config.VisibleRoot)
              others == OtherMounts \o <<root>>
  <2>. SUFFICES ASSUME LabelsOK, SettingsOK, Config.VisibleRoot.abs, NEW f \in FriendlyNames
                PROVE  LET target == VisiblePath(Config, f)
                       IN  /\ IsMountPoint(others, target) <=> \E i \in DOMAIN others : others[i] = target
                           /\ IsMountPoint(Append(others, target), target)
    BY DEF MountIsFound
  <2>. DEFINE target == VisiblePath(Config, f)
              Mounts == {p \in Path : p.abs /\ Clean(p) = p}
  <2>1. Config.VisibleRoot \in Path /\ IsStep(f)
    BY ConfigRoots, FriendlySteps
  <2>2. root \in Mounts
    <3>1. root \in CleanPath(Config.VisibleRoot.abs) /\ root.abs = Config.VisibleRoot.abs
      BY <2>1, CleanType
    <3>2. Config.VisibleRoot.abs \in BOOLEAN
      BY <2>1 DEF Path
    <3>. HIDE DEF root
    <3>. QED  BY <3>1, <3>2, CleanStays DEF CleanPath
  <2>3. target \in Mounts
    <3>1. target \in CleanPath(Config.VisibleRoot.abs)
      BY <2>1, JoinOne DEF VisiblePath
    <3>2. Config.VisibleRoot.abs \in BOOLEAN
      BY <2>1 DEF Path
    <3>. HIDE DEF target
    <3>. QED  BY <3>1, <3>2, CleanStays DEF CleanPath
  <2>4. OtherMounts \in Seq(Mounts)
    <3>1. OtherMounts \in Seq(PathType) /\ \A i \in DOMAIN OtherMounts : OtherMounts[i] \in Mounts
      BY MountsAssumption, PathNames
    <3>. HIDE DEF Mounts
    <3>. QED  BY <3>1
  <2>. HIDE DEF root, target
  <2>5. others \in Seq(Mounts) /\ Append(others, target) \in Seq(Mounts)
    <3>. HIDE DEF Mounts
    <3>. QED  BY <2>2, <2>3, <2>4
  <2>6. \E i \in DOMAIN Append(others, target) : Append(others, target)[i] = target
    <3>. HIDE DEF Mounts, others
    <3>1. Len(others) + 1 \in DOMAIN Append(others, target)
          /\ Append(others, target)[Len(others) + 1] = target
      BY <2>3, <2>5
    <3>. QED  BY <3>1
  <2>7. ASSUME NEW table \in Seq(Mounts)
        PROVE  IsMountPoint(table, target) <=> \E i \in DOMAIN table : table[i] = target
    <3>1. table \in Seq(Path) /\ \A i \in DOMAIN table : table[i] \in Mounts
      <4>1. Mounts \subseteq Path
        OBVIOUS
      <4>. HIDE DEF Mounts
      <4>. QED  BY <4>1
    <3>. QED  BY <2>3, <3>1, TableRead
  <2>. HIDE DEF Mounts, others
  <2>8. /\ IsMountPoint(others, target) <=> \E i \in DOMAIN others : others[i] = target
        /\ IsMountPoint(Append(others, target), target)
    BY <2>5, <2>6, <2>7
  <2>. QED  BY <2>8 DEF target
<1>. QED  BY <1>1, LabelsKept, SettingsKept, PTL

-------------------------------------------------------------------------------
(* The shell that hints are pasted into.                                   *)

(* States of the shell, and its step as ShellWord has it.                  *)
Word(C) == [out : Seq(C), mode : {"plain", "quoted", "literal", "broken"}]

ReadRune(w, c) ==
  CASE w.mode = "quoted" /\ c = "'"    -> [w EXCEPT !.mode = "plain"]
    [] w.mode \in {"quoted", "literal"} /\ (w.mode = "literal" \/ c # "'")
         -> [w EXCEPT !.out = Append(@, c), !.mode = IF @ = "literal" THEN "plain" ELSE @]
    [] w.mode = "plain" /\ c = "'"     -> [w EXCEPT !.mode = "quoted"]
    [] w.mode = "plain" /\ c = "\\"    -> [w EXCEPT !.mode = "literal"]
    [] w.mode = "plain" /\ IsShellSafeRune(c) -> [w EXCEPT !.out = Append(@, c)]
    [] OTHER                           -> [w EXCEPT !.mode = "broken"]

WordOf(out, mode) == [out |-> out, mode |-> mode]

(* Neither quotes nor backslashes are among the safe characters.           *)
LEMMA SafeRunes ==
  ASSUME NEW r, IsShellSafeRune(r)
  PROVE  r # "'" /\ r # "\\"
BY LettersAssumption DEF IsShellSafeRune

(* One character, in each of the modes.                                    *)
LEMMA ReadMeans ==
  ASSUME NEW o, NEW m, NEW c
  PROVE  ReadRune(WordOf(o, m), c) =
           IF m = "quoted" THEN IF c = "'" THEN WordOf(o, "plain") ELSE WordOf(Append(o, c), "quoted")
           ELSE IF m = "literal" THEN WordOf(Append(o, c), "plain")
           ELSE IF m # "plain" THEN WordOf(o, "broken")
           ELSE IF c = "'" THEN WordOf(o, "quoted")
           ELSE IF c = "\\" THEN WordOf(o, "literal")
           ELSE IF IsShellSafeRune(c) THEN WordOf(Append(o, c), "plain") ELSE WordOf(o, "broken")
<1>. DEFINE w == WordOf(o, m)
            next == IF m = "literal" THEN "plain" ELSE m
<1>1. w.out = o /\ w.mode = m
  BY DEF WordOf
<1>2. \A t : [w EXCEPT !.out = t] = WordOf(t, m)
  BY DEF WordOf
<1>3. \A t : [w EXCEPT !.mode = t] = WordOf(o, t)
  BY DEF WordOf
<1>4. \A t, k : [w EXCEPT !.out = t, !.mode = k] = WordOf(t, k)
  <2>1. \A t, k : [w EXCEPT !.out = t, !.mode = k] = [[w EXCEPT !.out = t] EXCEPT !.mode = k]
    BY DEF WordOf
  <2>2. \A t, k : [WordOf(t, m) EXCEPT !.mode = k] = WordOf(t, k)
    BY DEF WordOf
  <2>. HIDE DEF w
  <2>. QED  BY <1>2, <2>1, <2>2
<1>5. ReadRune(w, c) =
        CASE w.mode = "quoted" /\ c = "'"    -> [w EXCEPT !.mode = "plain"]
          [] w.mode \in {"quoted", "literal"} /\ (w.mode = "literal" \/ c # "'")
               -> [w EXCEPT !.out = Append(w.out, c), !.mode = IF w.mode = "literal" THEN "plain" ELSE w.mode]
          [] w.mode = "plain" /\ c = "'"     -> [w EXCEPT !.mode = "quoted"]
          [] w.mode = "plain" /\ c = "\\"    -> [w EXCEPT !.mode = "literal"]
          [] w.mode = "plain" /\ IsShellSafeRune(c) -> [w EXCEPT !.out = Append(w.out, c)]
          [] OTHER                           -> [w EXCEPT !.mode = "broken"]
  BY DEF ReadRune
<1>. HIDE DEF w
<1>6. ReadRune(w, c) =
        CASE m = "quoted" /\ c = "'"    -> WordOf(o, "plain")
          [] m \in {"quoted", "literal"} /\ (m = "literal" \/ c # "'") -> WordOf(Append(o, c), next)
          [] m = "plain" /\ c = "'"     -> WordOf(o, "quoted")
          [] m = "plain" /\ c = "\\"    -> WordOf(o, "literal")
          [] m = "plain" /\ IsShellSafeRune(c) -> WordOf(Append(o, c), m)
          [] OTHER                      -> WordOf(o, "broken")
  BY <1>1, <1>2, <1>3, <1>4, <1>5
<1>7. ReadRune(w, c) =
           IF m = "quoted" THEN IF c = "'" THEN WordOf(o, "plain") ELSE WordOf(Append(o, c), "quoted")
           ELSE IF m = "literal" THEN WordOf(Append(o, c), "plain")
           ELSE IF m # "plain" THEN WordOf(o, "broken")
           ELSE IF c = "'" THEN WordOf(o, "quoted")
           ELSE IF c = "\\" THEN WordOf(o, "literal")
           ELSE IF IsShellSafeRune(c) THEN WordOf(Append(o, c), "plain") ELSE WordOf(o, "broken")
  <2>1. CASE m = "quoted"
    BY <1>6, <2>1
  <2>2. CASE m = "literal"
    BY <1>6, <2>2
  <2>3. CASE m = "plain"
    BY <1>6, <2>3, SafeRunes
  <2>4. CASE m \notin {"quoted", "literal", "plain"}
    BY <1>6, <2>4
  <2>. QED  BY <2>1, <2>2, <2>3, <2>4
<1>. QED  BY <1>7 DEF w

(* One character more leaves a state of the shell.                         *)
LEMMA ReadType ==
  ASSUME NEW C, NEW w \in Word(C), NEW c \in C
  PROVE  ReadRune(w, c) \in Word(C)
<1>1. PICK o \in Seq(C), m \in {"plain", "quoted", "literal", "broken"} : w = WordOf(o, m)
  BY DEF Word, WordOf
<1>2. \A t \in Seq(C), k \in {"plain", "quoted", "literal", "broken"} : WordOf(t, k) \in Word(C)
  BY DEF Word, WordOf
<1>3. Append(o, c) \in Seq(C)
  OBVIOUS
<1>4. ReadRune(w, c) \in {WordOf(o, "plain"), WordOf(o, "quoted"), WordOf(o, "literal"), WordOf(o, "broken"),
                          WordOf(Append(o, c), "plain"), WordOf(Append(o, c), "quoted")}
  BY <1>1, ReadMeans
<1>. QED  BY <1>2, <1>3, <1>4

(* What the shell has after each of the characters.                        *)
LEMMA ReadSteps ==
  ASSUME NEW C, NEW text \in Seq(C)
  PROVE  \E h \in [0 .. Len(text) -> Word(C)] :
           /\ h[0] = WordOf(<<>>, "plain")
           /\ \A k \in 1 .. Len(text) : h[k] = ReadRune(h[k - 1], text[k])
           /\ ShellWord(text) = IF h[Len(text)].mode = "plain" THEN h[Len(text)].out ELSE NoPath
<1>. DEFINE n == Len(text)
            A == Word(C)
            base == WordOf(<<>>, "plain")
            g == [x \in (1 .. n) \X A |-> ReadRune(x[2], text[x[1]])]
<1>1. n \in Nat /\ DOMAIN text = 1 .. n /\ \A i \in 1 .. n : text[i] \in C
  OBVIOUS
<1>2. base \in A
  <2>1. <<>> \in Seq(C)
    OBVIOUS
  <2>. QED  BY <2>1 DEF Word, WordOf
<1>4. g \in [(1 .. n) \X A -> A]
  <2>1. \A x \in (1 .. n) \X A : x[2] \in A /\ text[x[1]] \in C
    BY <1>1
  <2>. HIDE DEF n
  <2>. QED  BY <2>1, ReadType
<1>5. PICK it \in [SUBSET (1 .. n) -> A] : Folded(it, n, base, g)
  <2>. HIDE DEF g, n, A, base
  <2>. QED  BY <1>1, <1>2, <1>4, FoldExists, Zenon
<1>. DEFINE next(f, t) == IF t = {} THEN WordOf(<<>>, "plain")
                          ELSE ReadRune(f[t \ {Max(t)}], text[Max(t)])
            iter == CHOOSE f : f = [t \in SUBSET DOMAIN text |-> next(f, t)]
<1>6. ASSUME NEW f, NEW t \in SUBSET (1 .. n), t # {}, f[t \ {Max(t)}] \in A
      PROVE  next(f, t) = g[<<Max(t), f[t \ {Max(t)}]>>]
  <2>1. Max(t) \in 1 .. n
    BY <1>1, <1>6, MaxOf
  <2>. HIDE DEF A, n
  <2>. QED  BY <1>6, <2>1
<1>7. it = [t \in SUBSET DOMAIN text |-> next(it, t)]
  <2>1. ASSUME NEW t \in SUBSET (1 .. n)
        PROVE  it[t] = next(it, t)
    <3>1. t # {} => it[t \ {Max(t)}] \in A
      OBVIOUS
    <3>. HIDE DEF g, n, A
    <3>. QED  BY <1>1, <1>5, <1>6, <3>1 DEF Folded
  <2>. HIDE DEF next, n
  <2>. QED  BY <2>1, <1>1
<1>8. iter = [t \in SUBSET DOMAIN text |-> next(iter, t)]
  <2>. HIDE DEF next
  <2>. QED  BY <1>7
<1>9. ShellWord(text) = IF iter[1 .. n].mode = "plain" THEN iter[1 .. n].out ELSE NoPath
  <2>1. ShellWord(text) = IF iter[DOMAIN text].mode = "plain" THEN iter[DOMAIN text].out ELSE NoPath
    BY DEF ShellWord, FoldLeft, MapThenFoldSet, ReadRune, WordOf
  <2>. HIDE DEF iter, n
  <2>. QED  BY <1>1, <2>1
<1>10. Rises(iter, n, A, base, g)
  <2>1. \A t \in SUBSET (1 .. n) : iter[t] = next(iter, t)
    <3>. HIDE DEF iter, next, n
    <3>. QED  BY <1>1, <1>8
  <2>2. iter[{}] = base
    <3>. HIDE DEF iter, n
    <3>. QED  BY <2>1, <1>1
  <2>. HIDE DEF iter, g, n, A, base
  <2>. QED  BY <2>1, <2>2, <1>6 DEF Rises
<1>11. PICK h \in [0 .. n -> A] : Stepped(h, n, base, g, iter[1 .. n])
  <2>. HIDE DEF iter, g, n, A, base
  <2>. QED  BY <1>1, <1>2, <1>4, <1>10, FoldRises, Zenon
<1>12. ASSUME NEW k \in 1 .. n
       PROVE  h[k] = ReadRune(h[k - 1], text[k])
  <2>. HIDE DEF A, iter
  <2>1. h[k - 1] \in A
    BY <1>1
  <2>. QED  BY <2>1, <1>11 DEF Stepped
<1>. HIDE DEF iter, g
<1>. QED  BY <1>9, <1>11, <1>12 DEF Stepped

(* A text of safe characters is a word as it stands.                       *)
LEMMA SafeRead ==
  ASSUME NEW C, NEW text \in Seq(C), \A i \in DOMAIN text : IsShellSafeRune(text[i])
  PROVE  ShellWord(text) = text
<1>. DEFINE n == Len(text)
<1>1. n \in Nat /\ DOMAIN text = 1 .. n
  OBVIOUS
<1>2. PICK h \in [0 .. n -> Word(C)] :
        /\ h[0] = WordOf(<<>>, "plain")
        /\ \A k \in 1 .. n : h[k] = ReadRune(h[k - 1], text[k])
        /\ ShellWord(text) = IF h[n].mode = "plain" THEN h[n].out ELSE NoPath
  BY ReadSteps
<1>. DEFINE Done(k) == h[k] = WordOf(SubSeq(text, 1, k), "plain")
            T == {k \in 0 .. n : Done(k)}
<1>3. 0 \in T
  <2>1. SubSeq(text, 1, 0) = <<>>
    OBVIOUS
  <2>2. Done(0)
    BY <1>2, <2>1
  <2>. HIDE DEF Done
  <2>. QED  BY <1>1, <2>2
<1>4. ASSUME NEW k \in 0 .. n - 1, k \in T
      PROVE  k + 1 \in T
  <2>1. k \in 0 .. n /\ k + 1 \in 1 .. n /\ k + 1 \in 0 .. n /\ (k + 1) - 1 = k
    BY <1>1
  <2>2. Append(SubSeq(text, 1, k), text[k + 1]) = SubSeq(text, 1, k + 1)
    BY <2>1
  <2>3. h[k + 1] = ReadRune(h[k], text[k + 1])
    BY <1>2, <2>1
  <2>4. ReadRune(WordOf(SubSeq(text, 1, k), "plain"), text[k + 1])
          = WordOf(Append(SubSeq(text, 1, k), text[k + 1]), "plain")
    <3>1. IsShellSafeRune(text[k + 1])
      BY <1>1, <2>1
    <3>. QED  BY <3>1, ReadMeans, SafeRunes
  <2>. QED  BY <1>4, <2>1, <2>2, <2>3, <2>4
<1>5. h[n] = WordOf(SubSeq(text, 1, n), "plain")
  <2>1. 0 .. n \subseteq T
    <3>. HIDE DEF T
    <3>. QED  BY <1>1, <1>3, <1>4, RiseTo
  <2>2. n \in 0 .. n
    BY <1>1
  <2>. QED  BY <2>1, <2>2
<1>6. SubSeq(text, 1, n) = text
  OBVIOUS
<1>7. h[n].mode = "plain" /\ h[n].out = text
  BY <1>5, <1>6 DEF WordOf
<1>. QED  BY <1>2, <1>7

(* Between quotes a text is a word of the same characters.                 *)
LEMMA QuotedRead ==
  ASSUME NEW C, NEW text \in Seq(C)
  PROVE  ShellWord(<<"'">> \o FlattenSeq([i \in DOMAIN text |-> ShellRune(text[i])]) \o <<"'">>) = text
<1>. DEFINE n == Len(text)
            E == C \union {"'", "\\"}
            seqs == [i \in DOMAIN text |-> ShellRune(text[i])]
            all == FlattenSeq(seqs)
            raw == <<"'">> \o all \o <<"'">>
<1>1. n \in Nat /\ DOMAIN text = 1 .. n /\ \A i \in 1 .. n : text[i] \in C
  OBVIOUS
<1>2. ASSUME NEW c \in C
      PROVE  ShellRune(c) \in Seq(E)
  <2>1. c \in E /\ "'" \in E /\ "\\" \in E
    OBVIOUS
  <2>. HIDE DEF E
  <2>2. <<"'", "\\", "'", "'">> \in Seq(E) /\ <<c>> \in Seq(E)
    BY <2>1
  <2>. QED  BY <2>2 DEF ShellRune
<1>3. "'" \in E
  OBVIOUS
<1>. HIDE DEF E
<1>4. seqs \in Seq(Seq(E)) /\ Len(seqs) = n /\ \A i \in 1 .. n : seqs[i] = ShellRune(text[i])
  BY <1>1, <1>2
<1>. HIDE DEF seqs, n, all
<1>5. PICK e \in [0 .. n -> Seq(E)] : Flattened(e, seqs) /\ all = e[n]
  <2>1. \E e \in [0 .. Len(seqs) -> Seq(E)] : Flattened(e, seqs) /\ FlattenSeq(seqs) = e[Len(seqs)]
    BY <1>4, FlattenSteps, Zenon
  <2>. QED  BY <1>4, <2>1 DEF all
<1>6. e[0] = <<>> /\ \A k \in 1 .. n : e[k] = e[k - 1] \o ShellRune(text[k])
  BY <1>4, <1>5 DEF Flattened
<1>7. /\ all \in Seq(E) /\ \A k \in 0 .. n : e[k] \in Seq(E) /\ Len(e[k]) \in Nat
      /\ \A k \in 0 .. n : Len(e[k]) <= Len(all) /\ \A i \in 1 .. Len(e[k]) : all[i] = e[k][i]
  <2>1. e \in [0 .. Len(seqs) -> Seq(E)] /\ n \in 0 .. n
    BY <1>1, <1>4
  <2>2. Begins(e, Len(seqs))
    <3>1. seqs \in Seq(Seq(E)) /\ Flattened(e, seqs) /\ e \in [0 .. Len(seqs) -> Seq(E)]
      BY <1>4, <1>5, <2>1
    <3>. QED  BY <3>1, FlattenKeeps, Zenon
  <2>. QED  BY <1>4, <1>5, <2>1, <2>2 DEF Begins
<1>8. /\ raw \in Seq(E) /\ Len(raw) = Len(all) + 2 /\ Len(all) \in Nat
      /\ raw[1] = "'" /\ raw[Len(all) + 2] = "'"
      /\ \A j \in 1 .. Len(all) : raw[1 + j] = all[j]
  <2>1. all \in Seq(E)
    BY <1>7
  <2>2. <<"'">> \in Seq(E) /\ Len(<<"'">>) = 1 /\ <<"'">>[1] = "'"
    BY <1>3
  <2>. QED  BY <2>1, <2>2
<1>. HIDE DEF raw
<1>9. PICK h \in [0 .. Len(raw) -> Word(E)] :
        /\ h[0] = WordOf(<<>>, "plain")
        /\ \A k \in 1 .. Len(raw) : h[k] = ReadRune(h[k - 1], raw[k])
        /\ ShellWord(raw) = IF h[Len(raw)].mode = "plain" THEN h[Len(raw)].out ELSE NoPath
  BY <1>8, ReadSteps
<1>10. \A i : i \in 1 .. Len(raw) => h[i] = ReadRune(h[i - 1], raw[i])
  BY <1>9
<1>. DEFINE Done(k) == h[1 + Len(e[k])] = WordOf(SubSeq(text, 1, k), "quoted")
            T == {k \in 0 .. n : Done(k)}
<1>11. 0 \in T
  <2>1. SubSeq(text, 1, 0) = <<>> /\ Len(<<>>) = 0
    OBVIOUS
  <2>2. h[1] = ReadRune(h[0], raw[1])
    BY <1>8, <1>9
  <2>3. h[1] = WordOf(<<>>, "quoted")
    BY <1>8, <1>9, <2>2, ReadMeans
  <2>4. Len(e[0]) = 0 /\ 1 + 0 = 1
    BY <1>6, <2>1
  <2>5. Done(0)
    BY <2>1, <2>3, <2>4
  <2>. HIDE DEF Done
  <2>. QED  BY <1>1, <2>5
<1>12. ASSUME NEW k \in 0 .. n - 1, k \in T
       PROVE  k + 1 \in T
  <2>. DEFINE c == text[k + 1]
              m == Len(e[k])
              t == SubSeq(text, 1, k)
              w == ShellRune(c)
  <2>1. k \in 0 .. n /\ k + 1 \in 1 .. n /\ k + 1 \in 0 .. n /\ (k + 1) - 1 = k
    BY <1>1
  <2>2. c \in C /\ Append(t, c) = SubSeq(text, 1, k + 1)
    <3>. HIDE DEF t
    <3>1. k \in 0 .. Len(text) - 1
      BY DEF n
    <3>2. Append(SubSeq(text, 1, k), text[k + 1]) = SubSeq(text, 1, k + 1)
      BY <3>1
    <3>. QED  BY <1>1, <2>1, <3>2 DEF t
  <2>3. e[k + 1] = e[k] \o w /\ w \in Seq(E)
    BY <1>2, <1>6, <2>1, <2>2
  <2>4. /\ m \in Nat /\ Len(w) \in Nat /\ m + Len(w) = Len(e[k + 1]) /\ m + Len(w) <= Len(all)
        /\ \A j \in 1 .. Len(w) : raw[1 + (m + j)] = w[j]
    <3>1. e[k] \in Seq(E)
      BY <1>7, <2>1
    <3>2. ASSUME NEW a \in Seq(E), NEW b \in Seq(E)
          PROVE  /\ Len(a) \in Nat /\ Len(b) \in Nat /\ Len(a \o b) = Len(a) + Len(b)
                 /\ \A j \in 1 .. Len(b) : (a \o b)[Len(a) + j] = b[j] /\ Len(a) + j \in 1 .. Len(a \o b)
      OBVIOUS
    <3>3. /\ m \in Nat /\ Len(w) \in Nat /\ m + Len(w) = Len(e[k + 1])
          /\ \A j \in 1 .. Len(w) : e[k + 1][m + j] = w[j] /\ m + j \in 1 .. Len(e[k + 1])
      BY <2>3, <3>1, <3>2
    <3>4. Len(e[k + 1]) <= Len(all) /\ \A i \in 1 .. Len(e[k + 1]) : all[i] = e[k + 1][i]
      BY <1>7, <2>1
    <3>5. \A j \in 1 .. Len(w) : m + j \in 1 .. Len(all) /\ all[m + j] = w[j]
      <4>. HIDE DEF m, w
      <4>. QED  BY <1>8, <3>3, <3>4
    <3>. HIDE DEF m, w
    <3>. QED  BY <1>8, <3>3, <3>4, <3>5
  <2>5. h[1 + m] = WordOf(t, "quoted") /\ Len(all) \in Nat /\ Len(raw) = Len(all) + 2
    BY <1>8, <1>12
  <2>. HIDE DEF c, m, t, w
  <2>6. CASE c # "'"
    <3>1. w = <<c>>
      BY <2>6 DEF w, ShellRune
    <3>2. Len(w) = 1 /\ w[1] = c
      BY <3>1
    <3>3. raw[1 + (m + 1)] = c /\ 1 + (m + 1) \in 1 .. Len(raw) /\ (1 + (m + 1)) - 1 = 1 + m
      BY <2>4, <2>5, <3>2
    <3>4. h[1 + (m + 1)] = ReadRune(h[1 + m], c)
      BY <1>10, <3>3
    <3>5. h[1 + (m + 1)] = WordOf(Append(t, c), "quoted")
      BY <2>5, <2>6, <3>4, ReadMeans
    <3>. QED  BY <2>1, <2>2, <2>4, <3>2, <3>5
  <2>7. CASE c = "'"
    <3>1. w = <<"'", "\\", "'", "'">>
      BY <2>7 DEF w, ShellRune
    <3>2. Len(w) = 4 /\ w[1] = "'" /\ w[2] = "\\" /\ w[3] = "'" /\ w[4] = "'"
      BY <3>1
    <3>3. /\ m \in Nat /\ m + 4 <= Len(all)
          /\ raw[1 + (m + 1)] = "'" /\ raw[1 + (m + 2)] = "\\"
          /\ raw[1 + (m + 3)] = "'" /\ raw[1 + (m + 4)] = "'"
      BY <2>4, <3>2
    <3>4. ASSUME NEW j \in 1 .. 4
          PROVE  h[1 + (m + j)] = ReadRune(h[m + j], raw[1 + (m + j)])
      <4>1. 1 + (m + j) \in 1 .. Len(raw) /\ (1 + (m + j)) - 1 = m + j
        BY <2>5, <3>3
      <4>. QED  BY <1>10, <4>1
    <3>5. /\ h[1 + (m + 1)] = ReadRune(h[m + 1], "'") /\ h[1 + (m + 2)] = ReadRune(h[m + 2], "\\")
          /\ h[1 + (m + 3)] = ReadRune(h[m + 3], "'") /\ h[1 + (m + 4)] = ReadRune(h[m + 4], "'")
      <4>1. 1 \in 1 .. 4 /\ 2 \in 1 .. 4 /\ 3 \in 1 .. 4 /\ 4 \in 1 .. 4
        OBVIOUS
      <4>. QED  BY <3>3, <3>4, <4>1
    <3>6. /\ ReadRune(WordOf(t, "quoted"), "'") = WordOf(t, "plain")
          /\ ReadRune(WordOf(t, "plain"), "\\") = WordOf(t, "literal")
          /\ ReadRune(WordOf(t, "literal"), "'") = WordOf(Append(t, "'"), "plain")
          /\ ReadRune(WordOf(Append(t, "'"), "plain"), "'") = WordOf(Append(t, "'"), "quoted")
      BY ReadMeans
    <3>7. 1 + m = m + 1 /\ 1 + (m + 1) = m + 2 /\ 1 + (m + 2) = m + 3 /\ 1 + (m + 3) = m + 4
      BY <3>3
    <3>8. h[1 + (m + 4)] = WordOf(Append(t, c), "quoted")
      BY <2>5, <2>7, <3>5, <3>6, <3>7
    <3>. QED  BY <2>1, <2>2, <2>4, <3>2, <3>8
  <2>. QED  BY <2>6, <2>7
<1>13. Done(n)
  <2>. HIDE DEF Done
  <2>1. 0 .. n \subseteq T
    <3>. HIDE DEF T
    <3>. QED  BY <1>1, <1>11, <1>12, RiseTo
  <2>2. n \in 0 .. n
    BY <1>1
  <2>. QED  BY <2>1, <2>2
<1>14. SubSeq(text, 1, n) = text
  BY DEF n
<1>15. h[Len(raw)] = WordOf(text, "plain")
  <2>1. h[1 + Len(all)] = WordOf(text, "quoted")
    BY <1>5, <1>13, <1>14
  <2>2. Len(raw) \in 1 .. Len(raw) /\ Len(raw) - 1 = 1 + Len(all) /\ raw[Len(raw)] = "'"
    BY <1>8
  <2>3. h[Len(raw)] = ReadRune(WordOf(text, "quoted"), "'")
    BY <1>10, <2>1, <2>2
  <2>. QED  BY <2>3, ReadMeans
<1>16. ShellWord(raw) = text
  <2>1. h[Len(raw)].mode = "plain" /\ h[Len(raw)].out = text
    BY <1>15 DEF WordOf
  <2>. QED  BY <1>9, <2>1
<1>. QED  BY <1>16 DEF raw, all, seqs

(* The path in the commands that the hint of a refused umount recommends   *)
(* is read back by a shell as that path, and so is any other text a hint   *)
(* quotes, whatever its characters.                                        *)
THEOREM HintsAreRead == PathsSpec => []HintsCanBePasted
<1>1. ASSUME NEW C, NEW text \in Seq(C)
      PROVE  ShellWord(ShellArg(text)) = text
  <2>1. CASE text # <<>> /\ \A i \in DOMAIN text : IsShellSafeRune(text[i])
    BY <2>1, SafeRead DEF ShellArg
  <2>2. CASE ~(text # <<>> /\ \A i \in DOMAIN text : IsShellSafeRune(text[i]))
    BY <2>2, QuotedRead DEF ShellArg
  <2>. QED  BY <2>1, <2>2
<1>2. LabelsOK /\ SettingsOK => HintsCanBePasted
  <2>. SUFFICES ASSUME LabelsOK, SettingsOK
                PROVE  /\ \A v \in enabled : ShellWord(ShellArg(label[v])) = label[v]
                       /\ Config.VisibleRoot.abs =>
                            \A f \in FriendlyNames :
                              ShellWord(ShellArg(Text(VisiblePath(Config, f)))) = Text(VisiblePath(Config, f))
    BY DEF HintsCanBePasted
  <2>1. ASSUME NEW v \in enabled
        PROVE  ShellWord(ShellArg(label[v])) = label[v]
    <3>1. label[v] \in Seq(STRING)
      BY DEF LabelsOK
    <3>. QED  BY <1>1, <3>1
  <2>2. ASSUME Config.VisibleRoot.abs, NEW f \in FriendlyNames
        PROVE  ShellWord(ShellArg(Text(VisiblePath(Config, f)))) = Text(VisiblePath(Config, f))
    <3>1. VisiblePath(Config, f) \in Path /\ VisiblePath(Config, f).abs
      BY <2>2, ConfigRoots, FriendlySteps, JoinOne DEF VisiblePath, CleanPath
    <3>2. Text(VisiblePath(Config, f)) \in Seq(TextChar)
      BY <3>1, TextRead
    <3>. QED  BY <1>1, <3>2
  <2>. QED  BY <2>1, <2>2
<1>. QED  BY <1>2, LabelsKept, SettingsKept, PTL
===============================================================================
