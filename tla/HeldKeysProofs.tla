----------------------------- MODULE HeldKeysProofs -----------------------------
(***************************************************************************)
(* Theorems about the functions of HeldKeys, for sequences of any length:     *)
(* that splitting a broken gate's edges, dropping a superseded key-up, or      *)
(* cutting off what a drain replays loses no edge and doubles none, and that   *)
(* what was retained once holds no key-up that could leave at once.           *)
(***************************************************************************)
EXTENDS HeldKeys, TLAPS, WellFoundedInduction, SequenceTheorems

(* Induction over the natural numbers as a fact about sets, which needs no theorem of the *)
(* library with an operator for a parameter.                                              *)
Smaller == {p \in Nat \X Nat : p[1] < p[2]}

(* Less-than on the natural numbers, as a set of pairs, is well founded. *)
LEMMA SmallerFounded == IsWellFoundedOn(Smaller, Nat)
BY NatLessThanWellFounded DEF OpToRel, Smaller

(* Induction: a set with 0 and with the successor of each of its members is all of Nat. *)
LEMMA SetInduction ==
    ASSUME NEW S \in SUBSET Nat, 0 \in S, \A n \in S : n + 1 \in S
    PROVE  \A n \in Nat : n \in S
<1> DEFINE T == Nat \ S
<1> SUFFICES ASSUME T # {} PROVE FALSE
    OBVIOUS
<1>1. PICK x \in T : \A y \in T : <<y, x>> \notin Smaller
    <2>1. T \subseteq Nat
        OBVIOUS
    <2> HIDE DEF T
    <2> QED
        BY <2>1, SmallerFounded, WFMin
<1>2. x \in Nat \ {0} /\ x - 1 \in Nat /\ <<x - 1, x>> \in Smaller
    BY DEF Smaller
<1>3. x - 1 \in S
    BY <1>1, <1>2
<1> QED
    BY <1>2, <1>3

(* A nonempty set of numbers up to n has a greatest member.                 *)
LEMMA GreatestMember ==
    ASSUME NEW n \in Nat, NEW S \in SUBSET (0..n), S # {}
    PROVE  Max(S) \in S /\ \A i \in S : i <= Max(S)
<1> DEFINE D == {m \in Nat : n - m \in S}
<1>1. D \subseteq Nat /\ D # {}
    <2>1. PICK i \in S : TRUE
        OBVIOUS
    <2>2. n - i \in D
        BY <2>1
    <2> QED
        BY <2>2
<1>2. PICK m \in D : \A k \in D : <<k, m>> \notin Smaller
    <2> HIDE DEF D
    <2> QED
        BY <1>1, SmallerFounded, WFMin
<1>3. n - m \in S /\ \A i \in S : n - m >= i
    <2>1. ASSUME NEW i \in S PROVE n - m >= i
        <3>1. n - i \in D
            OBVIOUS
        <3>2. ~(n - i < m)
            BY <1>2, <3>1 DEF Smaller
        <3> QED
            BY <3>2
    <2> QED
        BY <2>1
<1>4. \E x \in S : \A y \in S : x >= y
    BY <1>3
<1>5. Max(S) \in S /\ \A i \in S : Max(S) >= i
    BY <1>4 DEF Max
<1> QED
    BY <1>5

-----------------------------------------------------------------------------
(* What Selected computes.                                                  *)
SelectedSteps(f, seq, chosen, n) ==
  f = [i \in 0..n |-> IF i = 0 THEN <<>>
                      ELSE IF seq[i] \in chosen THEN Append(f[i - 1], seq[i]) ELSE f[i - 1]]

(* The recursive function exists, however long the sequence is. *)
LEMMA SelectedStepsExist ==
    ASSUME NEW seq, NEW chosen
    PROVE  \A n \in Nat : \E f : SelectedSteps(f, seq, chosen, n)
<1> DEFINE S == {n \in Nat : \E f : SelectedSteps(f, seq, chosen, n)}
<1>1. 0 \in S
    <2> DEFINE f == [i \in 0..0 |-> <<>>]
    <2>1. SelectedSteps(f, seq, chosen, 0)
        BY DEF SelectedSteps
    <2> QED
        BY <2>1
<1>2. ASSUME NEW n \in S PROVE n + 1 \in S
    <2>1. PICK f : SelectedSteps(f, seq, chosen, n)
        OBVIOUS
    <2> DEFINE last == IF seq[n + 1] \in chosen THEN Append(f[n], seq[n + 1]) ELSE f[n]
               g == [i \in 0..(n + 1) |-> IF i = n + 1 THEN last ELSE f[i]]
    <2>2. \A i \in 0..n : g[i] = f[i]
        OBVIOUS
    <2>3. ASSUME NEW i \in 0..(n + 1)
          PROVE  g[i] = IF i = 0 THEN <<>>
                        ELSE IF seq[i] \in chosen THEN Append(g[i - 1], seq[i]) ELSE g[i - 1]
        <3>1. CASE i = n + 1
            BY <3>1, <2>2
        <3>2. CASE i \in 0..n
            <4>1. i # 0 => i - 1 \in 0..n
                BY <3>2
            <4>2. f[i] = IF i = 0 THEN <<>>
                         ELSE IF seq[i] \in chosen THEN Append(f[i - 1], seq[i]) ELSE f[i - 1]
                BY <2>1, <3>2 DEF SelectedSteps
            <4> HIDE DEF g
            <4> QED
                BY <2>2, <3>2, <4>1, <4>2
        <3> QED
            BY <3>1, <3>2
    <2>4. SelectedSteps(g, seq, chosen, n + 1)
        <3>1. g = [i \in 0..(n + 1) |-> g[i]]
            OBVIOUS
        <3> HIDE DEF g
        <3> QED
            BY <2>3, <3>1 DEF SelectedSteps
    <2> QED
        BY <2>4
<1> HIDE DEF S
<1>3. S \in SUBSET Nat
    BY DEF S
<1>4. \A n \in Nat : n \in S
    BY <1>1, <1>2, <1>3, SetInduction
<1> QED
    BY <1>4 DEF S

(* Selected is its last value. *)
LEMMA SelectedIsLast ==
    ASSUME NEW S, NEW seq \in Seq(S), NEW chosen
    PROVE  \E f : SelectedSteps(f, seq, chosen, Len(seq)) /\ Selected(seq, chosen) = f[Len(seq)]
<1> DEFINE up == CHOOSE f : SelectedSteps(f, seq, chosen, Len(seq))
<1>1. SelectedSteps(up, seq, chosen, Len(seq))
    BY SelectedStepsExist
<1>2. Selected(seq, chosen) = up[Len(seq)]
    BY DEF Selected, SelectedSteps
<1> QED
    BY <1>1, <1>2

(* The chosen members of a sequence, by their positions: nothing else is selected, *)
(* nothing chosen is left out, and the order stays.                         *)
Selects(sel, seq, chosen, n, pos) ==
  /\ pos \in [1..Len(sel) -> 1..n]
  /\ \A j, k \in 1..Len(sel) : j < k => pos[j] < pos[k]
  /\ \A k \in 1..Len(sel) : sel[k] = seq[pos[k]] /\ seq[pos[k]] \in chosen
  /\ \A i \in 1..n : seq[i] \in chosen => \E k \in 1..Len(sel) : pos[k] = i

(* Selected picks the chosen members, by increasing positions. *)
LEMMA SelectedByPosition ==
    ASSUME NEW S, NEW seq \in Seq(S), NEW chosen
    PROVE  /\ Selected(seq, chosen) \in Seq(S)
           /\ \E pos : Selects(Selected(seq, chosen), seq, chosen, Len(seq), pos)
<1>1. PICK f : SelectedSteps(f, seq, chosen, Len(seq)) /\ Selected(seq, chosen) = f[Len(seq)]
    BY SelectedIsLast
<1> DEFINE Good(n) == f[n] \in Seq(S) /\ \E pos : Selects(f[n], seq, chosen, n, pos)
           G == {n \in Nat : n <= Len(seq) => Good(n)}
<1>2. Len(seq) \in Nat
    OBVIOUS
<1>3. 0 \in G
    <2> DEFINE pos == [k \in 1..0 |-> 0]
    <2>1. f[0] = <<>>
        BY <1>1, <1>2 DEF SelectedSteps
    <2>2. Selects(<<>>, seq, chosen, 0, pos)
        BY DEF Selects
    <2>3. Good(0)
        <3> HIDE DEF pos
        <3> QED
            BY <2>1, <2>2
    <2> HIDE DEF Good
    <2> QED
        BY <2>3
<1>4. ASSUME NEW n \in G, n + 1 <= Len(seq) PROVE Good(n + 1)
    <2>1. Good(n) /\ n \in Nat
        BY <1>2, <1>4
    <2>2. PICK pos : Selects(f[n], seq, chosen, n, pos)
        BY <2>1
    <2>3. n + 1 \in 1..Len(seq) /\ seq[n + 1] \in S
        BY <1>2, <1>4, <2>1
    <2>4. f[n + 1] = IF seq[n + 1] \in chosen THEN Append(f[n], seq[n + 1]) ELSE f[n]
        <3>1. \A i \in 0..Len(seq) :
                f[i] = IF i = 0 THEN <<>>
                       ELSE IF seq[i] \in chosen THEN Append(f[i - 1], seq[i]) ELSE f[i - 1]
            BY <1>1 DEF SelectedSteps
        <3>2. n + 1 \in 0..Len(seq) /\ n + 1 # 0 /\ (n + 1) - 1 = n
            BY <1>2, <2>1, <2>3
        <3> QED
            BY <3>1, <3>2
    <2>5. CASE seq[n + 1] \notin chosen
        <3>1. Selects(f[n], seq, chosen, n + 1, pos)
            BY <2>1, <2>2, <2>5 DEF Selects
        <3> QED
            BY <2>1, <2>4, <2>5, <3>1
    <2>6. CASE seq[n + 1] \in chosen
        <3> DEFINE sel == Append(f[n], seq[n + 1])
                   last == Len(f[n]) + 1
                   more == [k \in 1..last |-> IF k = last THEN n + 1 ELSE pos[k]]
        <3>1. f[n] \in Seq(S) /\ Len(f[n]) \in Nat
            BY <2>1
        <3>2. /\ sel \in Seq(S) /\ Len(sel) = last
              /\ sel[last] = seq[n + 1] /\ \A k \in 1..Len(f[n]) : sel[k] = f[n][k]
            BY <2>3, <3>1
        <3>3. 1..last = 1..Len(f[n]) \cup {last} /\ last \notin 1..Len(f[n])
            BY <3>1
        <3>4. /\ more[last] = n + 1
              /\ \A k \in 1..Len(f[n]) : more[k] = pos[k] /\ pos[k] \in 1..n
            BY <2>2, <3>3 DEF Selects
        <3>5. more \in [1..last -> 1..(n + 1)]
            <4>1. \A k \in 1..last : more[k] \in 1..(n + 1)
                <5>1. n + 1 \in 1..(n + 1) /\ 1..n \subseteq 1..(n + 1)
                    BY <2>1
                <5> HIDE DEF last, more
                <5> QED
                    BY <3>3, <3>4, <5>1
            <4> QED
                BY <4>1
        <3> HIDE DEF sel, last, more
        <3>6. Selects(sel, seq, chosen, n + 1, more)
            <4>1. ASSUME NEW j \in 1..Len(sel), NEW k \in 1..Len(sel), j < k PROVE more[j] < more[k]
                <5>1. j \in 1..Len(f[n])
                    BY <3>1, <3>2, <3>3, <4>1 DEF last
                <5>2. CASE k = last
                    BY <2>1, <3>4, <5>1, <5>2
                <5>3. CASE k \in 1..Len(f[n])
                    BY <2>2, <3>4, <4>1, <5>1, <5>3 DEF Selects
                <5> QED
                    BY <3>2, <3>3, <5>2, <5>3
            <4>2. ASSUME NEW k \in 1..Len(sel)
                  PROVE  sel[k] = seq[more[k]] /\ seq[more[k]] \in chosen
                <5>1. CASE k = last
                    BY <2>6, <3>2, <3>4, <5>1
                <5>2. CASE k \in 1..Len(f[n])
                    BY <2>2, <3>2, <3>4, <5>2 DEF Selects
                <5> QED
                    BY <3>2, <3>3, <5>1, <5>2
            <4>3. ASSUME NEW i \in 1..(n + 1), seq[i] \in chosen
                  PROVE  \E k \in 1..Len(sel) : more[k] = i
                <5>1. CASE i = n + 1
                    BY <3>2, <3>3, <3>4, <5>1
                <5>2. CASE i \in 1..n
                    <6>1. PICK k \in 1..Len(f[n]) : pos[k] = i
                        BY <2>2, <4>3, <5>2 DEF Selects
                    <6> QED
                        BY <3>2, <3>3, <3>4, <6>1
                <5> QED
                    BY <2>1, <5>1, <5>2
            <4> QED
                BY <3>2, <3>5, <4>1, <4>2, <4>3 DEF Selects
        <3> QED
            BY <2>4, <2>6, <3>2, <3>6 DEF sel
    <2> QED
        BY <2>5, <2>6
<1>5. \A n \in G : n + 1 \in G
    <2> HIDE DEF Good
    <2> QED
        BY <1>4
<1> HIDE DEF G
<1>6. G \in SUBSET Nat
    BY DEF G
<1>7. Len(seq) \in G
    BY <1>2, <1>3, <1>5, <1>6, SetInduction
<1> QED
    BY <1>1, <1>2, <1>7 DEF G

(* What the proofs use of it: the members, and that distinct ones stay distinct. *)
LEMMA SelectedMembers ==
    ASSUME NEW S, NEW seq \in Seq(S), NEW chosen
    PROVE  /\ Selected(seq, chosen) \in Seq(S)
           /\ Range(Selected(seq, chosen)) = Range(seq) \cap chosen
<1>1. /\ Selected(seq, chosen) \in Seq(S)
      /\ \E pos : Selects(Selected(seq, chosen), seq, chosen, Len(seq), pos)
    BY SelectedByPosition
<1> DEFINE sel == Selected(seq, chosen)
<1>2. sel \in Seq(S) /\ DOMAIN sel = 1..Len(sel) /\ DOMAIN seq = 1..Len(seq)
    BY <1>1
<1> HIDE DEF sel
<1>3. PICK pos : Selects(sel, seq, chosen, Len(seq), pos)
    BY <1>1 DEF sel
<1>4. ASSUME NEW x \in Range(sel) PROVE x \in Range(seq) \cap chosen
    BY <1>2, <1>3 DEF Range, Selects
<1>5. ASSUME NEW x \in Range(seq) \cap chosen PROVE x \in Range(sel)
    BY <1>2, <1>3 DEF Range, Selects
<1> QED
    BY <1>1, <1>4, <1>5 DEF sel

(* Distinct members stay distinct. *)
LEMMA SelectedDistinct ==
    ASSUME NEW S, NEW seq \in Seq(S), NEW chosen,
           \A i, j \in DOMAIN seq : seq[i] = seq[j] /\ seq[i] \in chosen => i = j
    PROVE  IsInjective(Selected(seq, chosen))
<1>1. /\ Selected(seq, chosen) \in Seq(S)
      /\ \E pos : Selects(Selected(seq, chosen), seq, chosen, Len(seq), pos)
    BY SelectedByPosition
<1> DEFINE sel == Selected(seq, chosen)
<1>2. sel \in Seq(S) /\ DOMAIN sel = 1..Len(sel) /\ DOMAIN seq = 1..Len(seq)
    BY <1>1
<1> HIDE DEF sel
<1>3. PICK pos : Selects(sel, seq, chosen, Len(seq), pos)
    BY <1>1 DEF sel
<1>4. ASSUME NEW j \in 1..Len(sel), NEW k \in 1..Len(sel), sel[j] = sel[k] PROVE j = k
    <2>1. pos[j] = pos[k] /\ pos[j] \in 1..Len(seq)
        BY <1>2, <1>3, <1>4 DEF Selects
    <2> QED
        BY <1>2, <1>3, <1>4, <2>1 DEF Selects
<1> QED
    BY <1>2, <1>4 DEF IsInjective, sel

(* Selecting from a concatenation.                                          *)
LEMMA SelectedConcat ==
    ASSUME NEW S, NEW s \in Seq(S), NEW t \in Seq(S), NEW chosen
    PROVE  Selected(s \o t, chosen) = Selected(s, chosen) \o Selected(t, chosen)
<1> DEFINE st == s \o t
<1>1. /\ st \in Seq(S) /\ Len(st) = Len(s) + Len(t) /\ Len(s) \in Nat /\ Len(t) \in Nat
      /\ \A i \in 1..Len(s) : st[i] = s[i]
      /\ \A i \in 1..Len(t) : st[Len(s) + i] = t[i]
    OBVIOUS
<1> HIDE DEF st
<1>2. PICK f : SelectedSteps(f, s, chosen, Len(s)) /\ Selected(s, chosen) = f[Len(s)]
    BY SelectedIsLast
<1>3. PICK g : SelectedSteps(g, t, chosen, Len(t)) /\ Selected(t, chosen) = g[Len(t)]
    BY SelectedIsLast
<1>4. PICK h : SelectedSteps(h, st, chosen, Len(st)) /\ Selected(st, chosen) = h[Len(st)]
    BY <1>1, SelectedIsLast
<1>5. /\ \A i \in 0..Len(s) : f[i] = IF i = 0 THEN <<>>
                  ELSE IF s[i] \in chosen THEN Append(f[i - 1], s[i]) ELSE f[i - 1]
      /\ \A i \in 0..Len(t) : g[i] = IF i = 0 THEN <<>>
                  ELSE IF t[i] \in chosen THEN Append(g[i - 1], t[i]) ELSE g[i - 1]
      /\ \A i \in 0..Len(st) : h[i] = IF i = 0 THEN <<>>
                  ELSE IF st[i] \in chosen THEN Append(h[i - 1], st[i]) ELSE h[i - 1]
    BY <1>2, <1>3, <1>4 DEF SelectedSteps
<1> DEFINE F == {n \in Nat : n <= Len(s) => f[n] \in Seq(S) /\ h[n] = f[n]}
<1>6. \A n \in Nat : n \in F
    <2>1. 0 \in F
        <3>1. f[0] = <<>> /\ h[0] = <<>> /\ <<>> \in Seq(S)
            BY <1>1, <1>5
        <3> QED
            BY <3>1
    <2>2. ASSUME NEW n \in F PROVE n + 1 \in F
        <3> SUFFICES ASSUME n + 1 <= Len(s) PROVE f[n + 1] \in Seq(S) /\ h[n + 1] = f[n + 1]
            OBVIOUS
        <3>1. /\ n + 1 \in 1..Len(s) /\ n + 1 \in 0..Len(s) /\ n + 1 \in 0..Len(st)
              /\ n + 1 # 0 /\ (n + 1) - 1 = n /\ f[n] \in Seq(S) /\ h[n] = f[n]
            BY <1>1
        <3>2. st[n + 1] = s[n + 1] /\ s[n + 1] \in S
            BY <1>1, <3>1
        <3>3. /\ f[n + 1] = IF s[n + 1] \in chosen THEN Append(f[n], s[n + 1]) ELSE f[n]
              /\ h[n + 1] = IF s[n + 1] \in chosen THEN Append(f[n], s[n + 1]) ELSE f[n]
            BY <1>5, <3>1, <3>2
        <3> QED
            BY <3>1, <3>2, <3>3
    <2>3. F \in SUBSET Nat
        OBVIOUS
    <2> HIDE DEF F
    <2> QED
        BY <2>1, <2>2, <2>3, SetInduction
<1>7. f[Len(s)] \in Seq(S) /\ h[Len(s)] = f[Len(s)]
    BY <1>1, <1>6
<1> HIDE DEF F
<1> DEFINE Both(n) == f[Len(s)] \o g[n]
<1>a. /\ Both(0) = f[Len(s)]
      /\ \A n \in Nat, x \in S : g[n] \in Seq(S) => Append(Both(n), x) = f[Len(s)] \o Append(g[n], x)
      /\ \A n \in Nat : Both(n) = f[Len(s)] \o g[n]
    <2>1. g[0] = <<>>
        BY <1>1, <1>5
    <2>2. f[Len(s)] \o <<>> = f[Len(s)]
        BY <1>7
    <2>3. ASSUME NEW n \in Nat, NEW x \in S, g[n] \in Seq(S)
          PROVE  Append(Both(n), x) = f[Len(s)] \o Append(g[n], x)
        <3>1. PICK a \in Seq(S) : a = f[Len(s)]
            BY <1>7
        <3>2. PICK b \in Seq(S) : b = g[n]
            BY <2>3
        <3>3. Append(a \o b, x) = a \o Append(b, x)
            <4> DEFINE l == Append(a \o b, x)  r == a \o Append(b, x)
            <4>1. l \in Seq(S) /\ Len(l) = Len(a) + Len(b) + 1
                OBVIOUS
            <4>2. r \in Seq(S) /\ Len(r) = Len(a) + Len(b) + 1
                OBVIOUS
            <4>3. ASSUME NEW i \in 1..(Len(a) + Len(b) + 1) PROVE l[i] = r[i]
                <5>1. CASE i \in 1..Len(a)
                    BY <5>1
                <5>2. CASE i \in (Len(a) + 1)..(Len(a) + Len(b))
                    BY <5>2
                <5>3. CASE i = Len(a) + Len(b) + 1
                    BY <5>3
                <5>4. Len(a) \in Nat /\ Len(b) \in Nat
                    OBVIOUS
                <5>5. \/ i \in 1..Len(a) \/ i \in (Len(a) + 1)..(Len(a) + Len(b))
                      \/ i = Len(a) + Len(b) + 1
                    BY <5>4
                <5> QED
                    BY <5>1, <5>2, <5>3, <5>5
            <4> HIDE DEF l, r
            <4>4. l = r
                BY <4>1, <4>2, <4>3
            <4> QED
                BY <4>4 DEF l, r
        <3> QED
            BY <3>1, <3>2, <3>3
    <2> QED
        BY <2>1, <2>2, <2>3
<1> HIDE DEF Both
<1> DEFINE G == {n \in Nat : n <= Len(t) => g[n] \in Seq(S) /\ h[Len(s) + n] = Both(n)}
<1>8. \A n \in Nat : n \in G
    <2>1. 0 \in G
        <3>1. g[0] = <<>> /\ Len(s) + 0 = Len(s) /\ <<>> \in Seq(S)
            BY <1>1, <1>5
        <3> QED
            BY <1>7, <1>a, <3>1
    <2>2. ASSUME NEW n \in G PROVE n + 1 \in G
        <3> SUFFICES ASSUME n + 1 <= Len(t)
                     PROVE  g[n + 1] \in Seq(S) /\ h[Len(s) + (n + 1)] = Both(n + 1)
            OBVIOUS
        <3> DEFINE m == Len(s) + (n + 1)
        <3>1. /\ n + 1 \in 1..Len(t) /\ n + 1 \in 0..Len(t) /\ n + 1 # 0 /\ (n + 1) - 1 = n
              /\ m \in 0..Len(st) /\ m # 0 /\ m - 1 = Len(s) + n /\ n \in Nat
              /\ g[n] \in Seq(S) /\ h[Len(s) + n] = Both(n)
            BY <1>1
        <3>2. st[m] = t[n + 1] /\ t[n + 1] \in S
            BY <1>1, <3>1
        <3> HIDE DEF m
        <3>3. /\ g[n + 1] = IF t[n + 1] \in chosen THEN Append(g[n], t[n + 1]) ELSE g[n]
              /\ h[m] = IF t[n + 1] \in chosen THEN Append(Both(n), t[n + 1]) ELSE Both(n)
            BY <1>5, <3>1, <3>2
        <3>4. h[m] = f[Len(s)] \o g[n + 1]
            BY <1>a, <3>1, <3>2, <3>3
        <3>5. g[n + 1] \in Seq(S) /\ n + 1 \in Nat
            BY <3>1, <3>2, <3>3
        <3> QED
            BY <1>a, <3>4, <3>5 DEF m
    <2>3. G \in SUBSET Nat
        OBVIOUS
    <2> HIDE DEF G
    <2> QED
        BY <2>1, <2>2, <2>3, SetInduction
<1>9. h[Len(st)] = f[Len(s)] \o g[Len(t)]
    <2>1. Len(t) \in G /\ Len(t) <= Len(t) /\ Len(st) = Len(s) + Len(t) /\ Len(t) \in Nat
        BY <1>1, <1>8
    <2> QED
        BY <1>a, <2>1
<1> QED
    BY <1>2, <1>3, <1>4, <1>9 DEF st

-----------------------------------------------------------------------------
(* Edges the user typed, which have a number, and edges as they are sent,   *)
(* among which are key-ups the agent adds, without one.                     *)
Typed(keys) == [id : Nat \ {0}, key : keys, down : BOOLEAN, rep : BOOLEAN]

Sendable(keys) == [id : Nat, key : keys, down : BOOLEAN, rep : BOOLEAN]

(* Typed edges, each at most once. *)
OnceEach(q, keys) ==
  q \in Seq(Typed(keys)) /\ \A i, j \in DOMAIN q : q[i].id = q[j].id => i = j

(* The numbers in a sequence, and that nothing is in an empty one. *)
LEMMA EmptyOnce ==
    ASSUME NEW keys PROVE OnceEach(<<>>, keys) /\ Ids(<<>>) = {}
<1>1. <<>> \in Seq(Typed(keys)) /\ DOMAIN <<>> = {}
    OBVIOUS
<1> QED
    BY <1>1 DEF OnceEach, Ids

(* The numbers in a concatenation are those of its parts. *)
LEMMA IdsOfConcat ==
    ASSUME NEW S, NEW s \in Seq(S), NEW t \in Seq(S)
    PROVE  Ids(s \o t) = Ids(s) \cup Ids(t)
<1> DEFINE st == s \o t
<1>1. /\ DOMAIN s = 1..Len(s) /\ DOMAIN t = 1..Len(t) /\ DOMAIN st = 1..(Len(s) + Len(t))
      /\ Len(s) \in Nat /\ Len(t) \in Nat
      /\ \A i \in 1..Len(s) : st[i] = s[i]
      /\ \A i \in 1..Len(t) : st[Len(s) + i] = t[i]
    OBVIOUS
<1> HIDE DEF st
<1>2. ASSUME NEW n \in Ids(st) PROVE n \in Ids(s) \cup Ids(t)
    <2>1. PICK i \in 1..(Len(s) + Len(t)) : n = st[i].id
        BY <1>1, <1>2 DEF Ids
    <2>2. CASE i \in 1..Len(s)
        BY <1>1, <2>1, <2>2 DEF Ids
    <2>3. CASE i \notin 1..Len(s)
        <3>1. i - Len(s) \in 1..Len(t) /\ Len(s) + (i - Len(s)) = i
            BY <1>1, <2>3
        <3> QED
            BY <1>1, <2>1, <3>1 DEF Ids
    <2> QED
        BY <2>2, <2>3
<1>3. ASSUME NEW n \in Ids(s) PROVE n \in Ids(st)
    <2>1. PICK i \in 1..Len(s) : n = s[i].id
        BY <1>1, <1>3 DEF Ids
    <2>2. i \in 1..(Len(s) + Len(t)) /\ st[i] = s[i]
        BY <1>1
    <2> QED
        BY <1>1, <2>1, <2>2 DEF Ids
<1>4. ASSUME NEW n \in Ids(t) PROVE n \in Ids(st)
    <2>1. PICK i \in 1..Len(t) : n = t[i].id
        BY <1>1, <1>4 DEF Ids
    <2>2. Len(s) + i \in 1..(Len(s) + Len(t)) /\ st[Len(s) + i] = t[i]
        BY <1>1
    <2> QED
        BY <1>1, <2>1, <2>2 DEF Ids
<1> QED
    BY <1>2, <1>3, <1>4 DEF st

(* Two sequences of different edges, one after the other. *)
LEMMA OnceOfConcat ==
    ASSUME NEW keys, NEW s, NEW t, OnceEach(s, keys), OnceEach(t, keys), Ids(s) \cap Ids(t) = {}
    PROVE  OnceEach(s \o t, keys)
<1> DEFINE T == Typed(keys)
           st == s \o t
<1> HIDE DEF T
<1>1. s \in Seq(T) /\ t \in Seq(T)
    BY DEF OnceEach, T
<1>2. /\ DOMAIN s = 1..Len(s) /\ DOMAIN t = 1..Len(t) /\ DOMAIN st = 1..(Len(s) + Len(t))
      /\ Len(s) \in Nat /\ Len(t) \in Nat /\ st \in Seq(T)
      /\ \A i \in 1..Len(s) : st[i] = s[i]
      /\ \A i \in 1..Len(t) : st[Len(s) + i] = t[i]
    BY <1>1
<1> HIDE DEF st
<1>3. ASSUME NEW i \in DOMAIN st, NEW j \in DOMAIN st, st[i].id = st[j].id PROVE i = j
    <2>1. ASSUME NEW k \in DOMAIN st
          PROVE  \/ k \in 1..Len(s) /\ st[k] = s[k] /\ st[k].id \in Ids(s)
                 \/ k - Len(s) \in 1..Len(t) /\ st[k] = t[k - Len(s)] /\ st[k].id \in Ids(t)
        <3>1. CASE k \in 1..Len(s)
            BY <1>2, <3>1 DEF Ids
        <3>2. CASE k \notin 1..Len(s)
            <4>1. k - Len(s) \in 1..Len(t) /\ Len(s) + (k - Len(s)) = k
                BY <1>2, <3>2
            <4> QED
                BY <1>2, <4>1 DEF Ids
        <3> QED
            BY <3>1, <3>2
    <2>2. CASE i \in 1..Len(s) /\ st[i] = s[i] /\ st[i].id \in Ids(s)
        <3>1. j \in 1..Len(s) /\ st[j] = s[j]
            BY <1>3, <2>1, <2>2
        <3> QED
            BY <1>2, <1>3, <2>2, <3>1 DEF OnceEach
    <2>3. CASE i - Len(s) \in 1..Len(t) /\ st[i] = t[i - Len(s)] /\ st[i].id \in Ids(t)
        <3>1. j - Len(s) \in 1..Len(t) /\ st[j] = t[j - Len(s)]
            BY <1>3, <2>1, <2>3
        <3>2. i - Len(s) = j - Len(s)
            BY <1>2, <1>3, <2>3, <3>1 DEF OnceEach
        <3> QED
            BY <1>2, <3>2
    <2> QED
        BY <2>1, <2>2, <2>3
<1> QED
    BY <1>2, <1>3 DEF OnceEach, T, st

(* Their numbers. *)
LEMMA IdsOfJoined ==
    ASSUME NEW keys, NEW s, NEW t, OnceEach(s, keys), OnceEach(t, keys)
    PROVE  Ids(s \o t) = Ids(s) \cup Ids(t)
<1> DEFINE T == Typed(keys)
<1> HIDE DEF T
<1>1. s \in Seq(T) /\ t \in Seq(T)
    BY DEF OnceEach, T
<1> QED
    BY <1>1, IdsOfConcat

(* One more edge. *)
LEMMA OnceOfAppend ==
    ASSUME NEW keys, NEW q, OnceEach(q, keys), NEW e \in Typed(keys), e.id \notin Ids(q)
    PROVE  OnceEach(Append(q, e), keys) /\ Ids(Append(q, e)) = Ids(q) \cup {e.id}
<1> DEFINE T == Typed(keys)
           qe == Append(q, e)
<1> HIDE DEF T
<1>1. q \in Seq(T) /\ e \in T
    BY DEF OnceEach, T
<1>2. /\ DOMAIN q = 1..Len(q) /\ DOMAIN qe = 1..(Len(q) + 1) /\ Len(q) \in Nat /\ qe \in Seq(T)
      /\ \A i \in 1..Len(q) : qe[i] = q[i]
      /\ qe[Len(q) + 1] = e
    BY <1>1
<1> HIDE DEF qe
<1>3. ASSUME NEW i \in 1..(Len(q) + 1)
      PROVE  \/ i \in 1..Len(q) /\ qe[i] = q[i] /\ qe[i].id \in Ids(q)
             \/ i = Len(q) + 1 /\ qe[i].id = e.id
    <2>1. CASE i \in 1..Len(q)
        BY <1>2, <2>1 DEF Ids
    <2>2. CASE i = Len(q) + 1
        BY <1>2, <2>2
    <2> QED
        BY <1>2, <2>1, <2>2
<1>4. ASSUME NEW i \in DOMAIN qe, NEW j \in DOMAIN qe, qe[i].id = qe[j].id PROVE i = j
    <2>1. CASE i = Len(q) + 1 \/ j = Len(q) + 1
        BY <1>2, <1>3, <1>4, <2>1
    <2>2. CASE i \in 1..Len(q) /\ j \in 1..Len(q)
        BY <1>2, <1>4, <2>2 DEF OnceEach
    <2> QED
        BY <1>2, <1>3, <2>1, <2>2
<1>5. Ids(qe) = Ids(q) \cup {e.id}
    <2>1. ASSUME NEW n \in Ids(qe) PROVE n \in Ids(q) \cup {e.id}
        BY <1>2, <1>3, <2>1 DEF Ids
    <2>2. ASSUME NEW n \in Ids(q) PROVE n \in Ids(qe)
        <3>1. PICK i \in 1..Len(q) : n = q[i].id
            BY <1>2, <2>2 DEF Ids
        <3>2. i \in 1..(Len(q) + 1) /\ qe[i] = q[i]
            BY <1>2
        <3> QED
            BY <1>2, <3>1, <3>2 DEF Ids
    <2>3. e.id \in Ids(qe)
        <3>1. Len(q) + 1 \in 1..(Len(q) + 1)
            BY <1>2
        <3> QED
            BY <1>2, <3>1 DEF Ids
    <2> QED
        BY <2>1, <2>2, <2>3
<1> QED
    BY <1>2, <1>4, <1>5 DEF OnceEach, T, qe

(* Some of the edges, in their order. *)
LEMMA OnceOfSelected ==
    ASSUME NEW keys, NEW q, OnceEach(q, keys), NEW chosen
    PROVE  /\ OnceEach(Selected(q, chosen), keys)
           /\ Ids(Selected(q, chosen)) = {e.id : e \in Range(q) \cap chosen}
           /\ Ids(Selected(q, chosen)) \subseteq Ids(q)
<1> DEFINE sel == Selected(q, chosen)
<1>1. q \in Seq(Typed(keys)) /\ DOMAIN q = 1..Len(q)
    BY DEF OnceEach
<1>2. sel \in Seq(Typed(keys)) /\ Range(sel) = Range(q) \cap chosen
    BY <1>1, SelectedMembers
<1>3. PICK pos : Selects(sel, q, chosen, Len(q), pos)
    BY <1>1, SelectedByPosition
<1> HIDE DEF sel
<1>4. DOMAIN sel = 1..Len(sel)
    BY <1>2
<1>5. ASSUME NEW i \in DOMAIN sel, NEW j \in DOMAIN sel, sel[i].id = sel[j].id PROVE i = j
    <2>1. /\ sel[i] = q[pos[i]] /\ sel[j] = q[pos[j]]
          /\ pos[i] \in 1..Len(q) /\ pos[j] \in 1..Len(q)
        BY <1>3, <1>4 DEF Selects
    <2>2. pos[i] = pos[j]
        BY <1>1, <1>5, <2>1 DEF OnceEach
    <2>3. ~(i < j) /\ ~(j < i)
        BY <1>1, <1>3, <1>4, <2>1, <2>2 DEF Selects
    <2> QED
        BY <1>2, <1>4, <2>3
<1>6. Ids(sel) = {e.id : e \in Range(sel)}
    BY <1>4 DEF Ids, Range
<1>7. Ids(sel) \subseteq Ids(q)
    BY <1>2, <1>6 DEF Ids, Range
<1> QED
    BY <1>2, <1>5, <1>6, <1>7 DEF OnceEach, sel

(* split_delivered_key_releases and the rest: every edge of a broken gate is either returned *)
(* at once or retained, none is both, and none is there twice.                              *)
LEMMA SplitHeld ==
    ASSUME NEW keys, NEW q, OnceEach(q, keys)
    PROVE  /\ OnceEach(DeliveredReleases(q), keys) /\ OnceEach(RetainedEdges(q), keys)
           /\ Ids(DeliveredReleases(q)) \cup Ids(RetainedEdges(q)) = Ids(q)
           /\ Ids(DeliveredReleases(q)) \cap Ids(RetainedEdges(q)) = {}
<1> DEFINE released == Released(q)
<1>1. /\ OnceEach(DeliveredReleases(q), keys) /\ OnceEach(RetainedEdges(q), keys)
      /\ Ids(DeliveredReleases(q)) = {e.id : e \in Range(q) \cap released}
      /\ Ids(RetainedEdges(q)) = {e.id : e \in Range(q) \cap (Range(q) \ released)}
    BY OnceOfSelected DEF DeliveredReleases, RetainedEdges
<1>2. Ids(q) = {e.id : e \in Range(q)}
    BY DEF Ids, Range
<1>3. \A e, f \in Range(q) : e.id = f.id => e = f
    BY DEF OnceEach, Range
<1> HIDE DEF released
<1> QED
    BY <1>1, <1>2, <1>3

(* cancel_superseded keeps some of the waiting key-ups. *)
LEMMA SupersedeKeeps ==
    ASSUME NEW keys, NEW q, OnceEach(q, keys), NEW e
    PROVE  /\ OnceEach(CancelSupersededRelease(q, e), keys)
           /\ Ids(CancelSupersededRelease(q, e)) \subseteq Ids(q)
BY OnceOfSelected DEF CancelSupersededRelease

(* The rest of a sequence behind its first n members. *)
LEMMA SuffixMembers ==
    ASSUME NEW T, NEW q \in Seq(T), NEW n \in 0..Len(q)
    PROVE  /\ SubSeq(q, n + 1, Len(q)) \in Seq(T)
           /\ Len(SubSeq(q, n + 1, Len(q))) = Len(q) - n
           /\ DOMAIN SubSeq(q, n + 1, Len(q)) = 1..(Len(q) - n)
           /\ \A i \in 1..(Len(q) - n) :
                SubSeq(q, n + 1, Len(q))[i] = q[n + i] /\ n + i \in 1..Len(q)
<1> DEFINE b == SubSeq(q, n + 1, Len(q))
<1>0. DOMAIN q = 1..Len(q) /\ Len(q) \in Nat /\ n \in Nat
    OBVIOUS
<1> DEFINE m == n + 1  l == Len(q)
<1>1. /\ m \in Int /\ l \in Int /\ l - m + 1 = l - n /\ l - n \in Nat
      /\ n <= l /\ m = n + 1
    BY <1>0
<1>7. ASSUME NEW i \in m..l PROVE q[i] \in T
    <2>1. i \in 1..Len(q)
        BY <1>0
    <2> QED
        BY <1>1, <2>1
<1>8. (IF m <= l THEN l - m + 1 ELSE 0) = l - n
    <2> HIDE DEF m, l
    <2> QED
        BY <1>0, <1>1
<1>2. \A i \in 1..(l - n) : m + i - 1 = n + i /\ n + i \in 1..l
    BY <1>0
<1>3. b = SubSeq(q, m, l)
    OBVIOUS
<1> HIDE DEF b, m, l
<1>4. /\ b \in Seq(T) /\ Len(b) = IF m <= l THEN l - m + 1 ELSE 0
      /\ \A i \in 1..(l - m + 1) : b[i] = q[m + i - 1]
    BY <1>1, <1>3, <1>7, SubSeqProperties
<1>5. b \in Seq(T) /\ Len(b) = l - n /\ \A i \in 1..(l - n) : b[i] = q[n + i]
    BY <1>1, <1>2, <1>4, <1>8
<1>6. DOMAIN b = 1..Len(b)
    BY <1>5
<1> QED
    BY <1>2, <1>5, <1>6 DEF l

(* A sequence cut in two. *)
LEMMA CutOnce ==
    ASSUME NEW keys, NEW q, OnceEach(q, keys), NEW n \in 0..Len(q)
    PROVE  /\ OnceEach(SubSeq(q, 1, n), keys) /\ OnceEach(SubSeq(q, n + 1, Len(q)), keys)
           /\ Ids(SubSeq(q, 1, n)) \cup Ids(SubSeq(q, n + 1, Len(q))) = Ids(q)
           /\ Ids(SubSeq(q, 1, n)) \cap Ids(SubSeq(q, n + 1, Len(q))) = {}
<1> DEFINE T == Typed(keys)
           a == SubSeq(q, 1, n)
           b == SubSeq(q, n + 1, Len(q))
<1> HIDE DEF T
<1>1. q \in Seq(T) /\ DOMAIN q = 1..Len(q) /\ Len(q) \in Nat /\ n \in Nat
    BY DEF OnceEach, T
<1>2. /\ a \in Seq(T) /\ Len(a) = n /\ DOMAIN a = 1..n
      /\ \A i \in 1..n : a[i] = q[i] /\ i \in 1..Len(q)
    BY <1>1
<1>3. /\ b \in Seq(T) /\ Len(b) = Len(q) - n /\ DOMAIN b = 1..(Len(q) - n)
      /\ \A i \in 1..(Len(q) - n) : b[i] = q[n + i] /\ n + i \in 1..Len(q)
    BY <1>1, SuffixMembers
<1> HIDE DEF a, b
<1>4. OnceEach(a, keys)
    BY <1>1, <1>2 DEF OnceEach, T
<1>5. OnceEach(b, keys)
    <2>1. ASSUME NEW i \in DOMAIN b, NEW j \in DOMAIN b, b[i].id = b[j].id PROVE i = j
        <3>1. i \in 1..(Len(q) - n) /\ j \in 1..(Len(q) - n)
            BY <1>3
        <3>2. b[i] = q[n + i] /\ b[j] = q[n + j] /\ n + i \in 1..Len(q) /\ n + j \in 1..Len(q)
            BY <1>3, <3>1
        <3>3. n + i = n + j
            BY <1>1, <2>1, <3>2 DEF OnceEach
        <3> QED
            BY <1>1, <3>1, <3>3
    <2> QED
        BY <1>3, <2>1 DEF OnceEach, T
<1>6. ASSUME NEW i \in 1..Len(q) PROVE q[i].id \in Ids(a) \cup Ids(b)
    <2>1. CASE i <= n
        <3>1. i \in 1..n
            BY <2>1, <1>1
        <3> QED
            BY <1>2, <3>1 DEF Ids
    <2>2. CASE ~(i <= n)
        <3>1. i - n \in 1..(Len(q) - n) /\ n + (i - n) = i
            BY <2>2, <1>1
        <3> QED
            BY <1>3, <3>1 DEF Ids
    <2> QED
        BY <2>1, <2>2
<1>7. Ids(a) \cup Ids(b) = Ids(q)
    <2>1. Ids(a) \subseteq Ids(q)
        BY <1>1, <1>2 DEF Ids
    <2>2. Ids(b) \subseteq Ids(q)
        BY <1>1, <1>3 DEF Ids
    <2> QED
        BY <1>1, <1>6, <2>1, <2>2 DEF Ids
<1>8. Ids(a) \cap Ids(b) = {}
    <2>1. ASSUME NEW i \in 1..n, NEW j \in 1..(Len(q) - n), a[i].id = b[j].id PROVE FALSE
        <3>0. a[i] = q[i] /\ b[j] = q[n + j] /\ i \in 1..Len(q) /\ n + j \in 1..Len(q)
            BY <1>2, <1>3
        <3>1. i = n + j
            BY <1>1, <2>1, <3>0 DEF OnceEach
        <3> QED
            BY <1>1, <3>1
    <2> QED
        BY <1>2, <1>3, <2>1 DEF Ids
<1> QED
    BY <1>4, <1>5, <1>7, <1>8 DEF a, b

(* A nonempty set of natural numbers has a least member. *)
LEMMA LeastMember ==
    ASSUME NEW S \in SUBSET Nat, S # {}
    PROVE  Min(S) \in S /\ \A i \in S : Min(S) <= i
<1>1. PICK m \in S : \A k \in S : <<k, m>> \notin Smaller
    BY SmallerFounded, WFMin
<1>2. ASSUME NEW k \in S PROVE m <= k
    <2>1. k \in Nat /\ m \in Nat
        OBVIOUS
    <2>2. ~(k < m)
        BY <1>1, <2>1 DEF Smaller
    <2> QED
        BY <2>1, <2>2
<1>3. Min(S) \in S /\ \A y \in S : Min(S) <= y
    BY <1>2 DEF Min
<1> QED
    BY <1>3

(* take_held_replay_prefix takes no more than there is. *)
LEMMA PrefixWithin ==
    ASSUME NEW S, NEW q \in Seq(S), NEW space
    PROVE  ReplayPrefixLength(q, space) \in 0..Len(q)
<1> DEFINE spaces == {i \in DOMAIN q : q[i].key = space /\ q[i].down}
<1>1. DOMAIN q = 1..Len(q) /\ Len(q) \in Nat
    OBVIOUS
<1>2. spaces \subseteq 1..Len(q) /\ spaces \in SUBSET Nat
    BY <1>1
<1>3. spaces # {} => Min(spaces) \in spaces
    <2> HIDE DEF spaces
    <2> QED
        BY <1>2, LeastMember
<1> HIDE DEF spaces
<1>4. ReplayPrefixLength(q, space) = IF spaces = {} THEN Len(q) ELSE Min(spaces)
    BY DEF ReplayPrefixLength, spaces
<1>5. Len(q) \in 0..Len(q) /\ 1..Len(q) \subseteq 0..Len(q)
    BY <1>1
<1>6. CASE spaces = {}
    BY <1>4, <1>5, <1>6
<1>7. CASE spaces # {}
    <2>1. Min(spaces) \in 1..Len(q)
        BY <1>2, <1>3, <1>7
    <2> QED
        BY <1>4, <1>5, <1>7, <2>1
<1> QED
    BY <1>6, <1>7

-----------------------------------------------------------------------------
(* Marks of repeats. A held key-down is marked as a repeat when its key is down already *)
(* (gated_key_down_repeats): never right after a held key-up of its key.                 *)
Repeats(q) ==
  \A k, j \in DOMAIN q :
    k < j /\ q[k].key = q[j].key /\ ~q[k].down /\ q[j].down /\ q[j].rep
      => \E m \in DOMAIN q : k < m /\ m < j /\ q[m].key = q[j].key

(* The marks stay right when an edge marked by gated_key_down_repeats is held behind the others. *)
LEMMA RepeatsOfAppend ==
    ASSUME NEW keys, NEW q \in Seq(Typed(keys)), Repeats(q), NEW e \in Typed(keys), NEW systemDown,
           e.down /\ e.rep => GatedKeyDownRepeats(q, e.key, systemDown)
    PROVE  Repeats(Append(q, e))
<1> DEFINE T == Typed(keys)
           qe == Append(q, e)
<1> HIDE DEF T
<1>1. q \in Seq(T) /\ e \in T
    BY DEF T
<1>2. /\ DOMAIN q = 1..Len(q) /\ DOMAIN qe = 1..(Len(q) + 1) /\ Len(q) \in Nat
      /\ \A i \in 1..Len(q) : qe[i] = q[i]
      /\ qe[Len(q) + 1] = e
    BY <1>1
<1> HIDE DEF qe
<1>3. ASSUME NEW k \in DOMAIN qe, NEW j \in DOMAIN qe,
             k < j, qe[k].key = qe[j].key, ~qe[k].down, qe[j].down, qe[j].rep
      PROVE  \E m \in DOMAIN qe : k < m /\ m < j /\ qe[m].key = qe[j].key
    <2>1. k \in 1..Len(q) /\ qe[k] = q[k]
        BY <1>2, <1>3
    <2>2. CASE j \in 1..Len(q)
        <3>1. qe[j] = q[j]
            BY <1>2, <2>2
        <3>2. PICK m \in DOMAIN q : k < m /\ m < j /\ q[m].key = q[j].key
            BY <1>2, <1>3, <2>1, <2>2, <3>1 DEF Repeats
        <3>3. m \in DOMAIN qe /\ qe[m] = q[m]
            BY <1>2, <3>2
        <3> QED
            BY <3>1, <3>2, <3>3
    <2>3. CASE j = Len(q) + 1
        <3> DEFINE same == {i \in DOMAIN q : q[i].key = e.key}
        <3>1. qe[j] = e
            BY <1>2, <2>3
        <3>2. k \in same /\ same \in SUBSET (0..Len(q))
            BY <1>2, <1>3, <2>1, <3>1
        <3> HIDE DEF same
        <3>3. Max(same) \in same /\ \A i \in same : i <= Max(same)
            BY <1>2, <3>2, GreatestMember
        <3>4. q[Max(same)].down
            <4>1. GatedKeyDownRepeats(q, e.key, systemDown) = q[Max(same)].down
                BY <3>2 DEF GatedKeyDownRepeats, same
            <4> QED
                BY <1>3, <3>1, <4>1
        <3>5. Max(same) \in 1..Len(q) /\ q[Max(same)].key = e.key
            BY <1>2, <3>3 DEF same
        <3>6. k # Max(same) /\ k <= Max(same)
            BY <1>3, <2>1, <3>2, <3>3, <3>4
        <3>7. k < Max(same) /\ Max(same) < j /\ Max(same) \in DOMAIN qe /\ qe[Max(same)] = q[Max(same)]
            BY <1>2, <2>1, <2>3, <3>5, <3>6
        <3> QED
            BY <3>1, <3>5, <3>7
    <2> QED
        BY <1>2, <2>2, <2>3
<1> QED
    BY <1>3 DEF Repeats, qe

(* The marks stay right in what a drain leaves of the held edges. *)
LEMMA RepeatsOfRest ==
    ASSUME NEW S, NEW q \in Seq(S), Repeats(q), NEW n \in 0..Len(q)
    PROVE  Repeats(SubSeq(q, n + 1, Len(q)))
<1> DEFINE b == SubSeq(q, n + 1, Len(q))
<1>1. /\ DOMAIN q = 1..Len(q) /\ Len(q) \in Nat /\ n \in Nat
      /\ DOMAIN b = 1..(Len(q) - n)
      /\ \A i \in 1..(Len(q) - n) : b[i] = q[n + i] /\ n + i \in 1..Len(q)
    BY SuffixMembers
<1> HIDE DEF b
<1>2. ASSUME NEW k \in DOMAIN b, NEW j \in DOMAIN b,
             k < j, b[k].key = b[j].key, ~b[k].down, b[j].down, b[j].rep
      PROVE  \E m \in DOMAIN b : k < m /\ m < j /\ b[m].key = b[j].key
    <2>1. b[k] = q[n + k] /\ b[j] = q[n + j] /\ n + k \in DOMAIN q /\ n + j \in DOMAIN q /\ n + k < n + j
        BY <1>1, <1>2
    <2>2. PICK m \in DOMAIN q : n + k < m /\ m < n + j /\ q[m].key = q[n + j].key
        BY <1>2, <2>1 DEF Repeats
    <2>3. m - n \in 1..(Len(q) - n) /\ n + (m - n) = m /\ k < m - n /\ m - n < j
        BY <1>1, <2>2
    <2>4. b[m - n] = q[m]
        BY <1>1, <2>3
    <2> QED
        BY <1>1, <2>1, <2>2, <2>3, <2>4
<1> QED
    BY <1>2 DEF Repeats, b

(* Nothing is marked in an empty gate. *)
LEMMA RepeatsOfEmpty == Repeats(<<>>)
<1>1. DOMAIN <<>> = {}
    OBVIOUS
<1> QED
    BY <1>1 DEF Repeats

(* Where the marks are right, a fresh key-down goes back to one without a mark. *)
LEMMA FreshGoesBack ==
    ASSUME NEW keys, NEW q \in Seq(Typed(keys)), Repeats(q), NEW j \in DOMAIN q, FreshDown(q, j)
    PROVE  \E f \in DOMAIN q :
             /\ f <= j /\ q[f].key = q[j].key /\ q[f].down /\ ~q[f].rep
             /\ \A k \in DOMAIN q : f < k /\ k <= j /\ q[k].key = q[j].key => q[k].down
<1>1. DOMAIN q = 1..Len(q) /\ Len(q) \in Nat /\ q[j].down
    BY DEF FreshDown
<1>2. CASE ~q[j].rep
    BY <1>1, <1>2
<1>3. CASE q[j].rep
    <2> DEFINE ups == {k \in 1..(j - 1) : q[k].key = q[j].key /\ ~q[k].down}
    <2>1. ups # {} /\ ups \in SUBSET (0..Len(q))
        BY <1>1, <1>3 DEF FreshDown, Before
    <2> DEFINE up == Max(ups)
    <2>2. up \in ups /\ \A i \in ups : i <= up
        <3> HIDE DEF ups
        <3> QED
            BY <1>1, <2>1, GreatestMember
    <2> HIDE DEF up
    <2>3. up \in 1..(j - 1) /\ q[up].key = q[j].key /\ ~q[up].down
        BY <2>2
    <2>4. ASSUME NEW k \in DOMAIN q, up < k, k <= j, q[k].key = q[j].key PROVE q[k].down
        <3>1. k \in 1..(j - 1) \/ k = j
            BY <1>1, <2>4
        <3>2. k \notin ups
            BY <1>1, <2>2, <2>3, <2>4
        <3> QED
            BY <1>1, <2>4, <3>1, <3>2
    <2> HIDE DEF ups
    <2> DEFINE after == {m \in 1..j : up < m /\ q[m].key = q[j].key}
    <2>5. j \in after /\ after \in SUBSET Nat
        BY <1>1, <2>3
    <2> DEFINE f == Min(after)
    <2>6. f \in after /\ \A i \in after : f <= i
        <3> HIDE DEF after
        <3> QED
            BY <2>5, LeastMember
    <2> HIDE DEF f
    <2>7. f \in DOMAIN q /\ f <= j /\ up < f /\ q[f].key = q[j].key /\ f \in Nat
        BY <1>1, <2>6
    <2>8. q[f].down
        BY <2>4, <2>7
    <2>9. ~q[f].rep
        <3> SUFFICES ASSUME q[f].rep PROVE FALSE
            OBVIOUS
        <3>1. PICK m \in DOMAIN q : up < m /\ m < f /\ q[m].key = q[f].key
            BY <1>1, <2>3, <2>7, <2>8 DEF Repeats
        <3>2. m \in after
            BY <1>1, <2>7, <3>1
        <3> QED
            BY <1>1, <2>6, <2>7, <3>1, <3>2
    <2>10. \A k \in DOMAIN q : f < k /\ k <= j /\ q[k].key = q[j].key => q[k].down
        BY <1>1, <2>3, <2>4, <2>7
    <2> QED
        BY <2>7, <2>8, <2>9, <2>10
<1> QED
    BY <1>2, <1>3

(* What a broken gate retained holds no key-up that could leave at once: deleting the record *)
(* later returns nothing, so no key-up is sent a second time.                                *)
LEMMA RetainedReturnsNothing ==
    ASSUME NEW keys, NEW q, OnceEach(q, keys), Repeats(q)
    PROVE  DeliveredReleases(RetainedEdges(q)) = <<>>
<1> DEFINE T == Typed(keys)
           kept == RetainedEdges(q)
           chosen == Range(q) \ Released(q)
<1>0. q \in Seq(T) /\ DOMAIN q = 1..Len(q) /\ Len(q) \in Nat
    BY DEF OnceEach
<1>1. q \in Seq(T) /\ DOMAIN q = 1..Len(q) /\ Len(q) \in Nat /\ OnceEach(kept, keys)
    BY <1>0, SplitHeld
<1>2. PICK pos : Selects(kept, q, chosen, Len(q), pos)
    BY <1>1, SelectedByPosition DEF RetainedEdges
<1>3. kept \in Seq(T) /\ DOMAIN kept = 1..Len(kept) /\ Len(kept) \in Nat
    BY <1>1 DEF OnceEach
<1> HIDE DEF T
<1> HIDE DEF kept
<1>4. ASSUME NEW i \in DOMAIN kept PROVE ~DeliveredRelease(kept, i)
    <2> SUFFICES ASSUME DeliveredRelease(kept, i) PROVE FALSE
        OBVIOUS
    <2> DEFINE p == pos[i]
    <2>1. p \in 1..Len(q) /\ kept[i] = q[p] /\ q[p] \in chosen
        BY <1>2, <1>3 DEF Selects
    <2>2. ~DeliveredRelease(q, p) /\ ~q[p].down
        BY <1>1, <2>1 DEF Released, DeliveredRelease
    <2> HIDE DEF p
    <2>3. PICK j \in Before(q, p) : FreshDown(q, j) /\ ~\E k \in Before(q, p) : k > j /\ ~q[k].down
        BY <2>2 DEF DeliveredRelease
    <2>4. j \in 1..(p - 1) /\ j \in DOMAIN q /\ q[j].key = q[p].key
        BY <1>1, <2>1, <2>3 DEF Before
    <2>5. PICK f \in DOMAIN q :
             /\ f <= j /\ q[f].key = q[j].key /\ q[f].down /\ ~q[f].rep
             /\ \A k \in DOMAIN q : f < k /\ k <= j /\ q[k].key = q[j].key => q[k].down
        BY <1>1, <2>3, <2>4, FreshGoesBack DEF T
    <2>6. q[f] \in chosen
        BY <1>1, <2>5 DEF Released, DeliveredRelease, Range
    <2>7. PICK g \in 1..Len(kept) : pos[g] = f
        BY <1>1, <1>2, <2>5, <2>6 DEF Selects
    <2>8. kept[g] = q[f]
        BY <1>2, <2>7 DEF Selects
    <2>9. g < i
        <3>1. f < p
            BY <1>1, <2>1, <2>4, <2>5
        <3>2. CASE i < g
            <4>1. p < f
                BY <1>2, <1>3, <2>7, <3>2 DEF Selects, p
            <4> QED
                BY <1>1, <2>1, <2>5, <3>1, <4>1
        <3>3. CASE i = g
            BY <1>1, <2>1, <2>7, <3>1, <3>3 DEF p
        <3> QED
            BY <1>3, <3>2, <3>3
    <2>10. g \in Before(kept, i) /\ FreshDown(kept, g)
        BY <1>3, <2>1, <2>4, <2>5, <2>8, <2>9 DEF Before, FreshDown
    <2>11. PICK k \in Before(kept, i) : k > g /\ ~kept[k].down
        BY <2>10 DEF DeliveredRelease
    <2>12. k \in 1..Len(kept) /\ k < i /\ g < k /\ kept[k].key = kept[i].key
        BY <1>3, <2>11, <2>7 DEF Before
    <2>13. /\ pos[k] \in 1..Len(q) /\ kept[k] = q[pos[k]]
           /\ f < pos[k] /\ pos[k] < p
        BY <1>2, <1>3, <2>7, <2>12 DEF Selects, p
    <2>14. CASE pos[k] <= j
        BY <1>1, <2>1, <2>4, <2>5, <2>11, <2>12, <2>13, <2>14
    <2>15. CASE ~(pos[k] <= j)
        <3>1. pos[k] \in Before(q, p) /\ pos[k] > j
            BY <1>1, <2>1, <2>4, <2>12, <2>13, <2>15 DEF Before
        <3> QED
            BY <2>3, <2>11, <2>13, <3>1
    <2> QED
        BY <2>14, <2>15
<1>5. Released(kept) = {}
    BY <1>4 DEF Released
<1>6. DeliveredReleases(kept) \in Seq(T) /\ Range(DeliveredReleases(kept)) = {}
    BY <1>3, <1>5, SelectedMembers DEF DeliveredReleases
<1>7. DeliveredReleases(kept) = <<>>
    <2> DEFINE d == DeliveredReleases(kept)
    <2> HIDE DEF d
    <2>1. d \in Seq(T) /\ Range(d) = {}
        BY <1>6 DEF d
    <2>2. DOMAIN d = 1..Len(d) /\ Len(d) \in Nat
        BY <2>1
    <2>3. Len(d) = 0
        <3> SUFFICES ASSUME Len(d) # 0 PROVE FALSE
            OBVIOUS
        <3>1. 1 \in DOMAIN d
            BY <2>2
        <3>2. d[1] \in Range(d)
            BY <3>1 DEF Range
        <3> QED
            BY <2>1, <3>2
    <2>4. d = <<>>
        BY <2>1, <2>3
    <2> QED
        BY <2>4 DEF d
<1> QED
    BY <1>7 DEF kept

-----------------------------------------------------------------------------
(* What SendInput gets (build_balanced_replay_inputs): the edges as they are, and key-ups  *)
(* behind them that the user did not type.                                                *)
LEMMA BalancedMembers ==
    ASSUME NEW keys, NEW q \in Seq(Typed(keys))
    PROVE  LET b == BalancedReplay(q)
           IN  /\ b \in Seq(Sendable(keys)) /\ Len(b) >= Len(q)
               /\ \A i \in 1..Len(q) : b[i] = q[i]
               /\ \A i \in (Len(q) + 1)..Len(b) : b[i].id = 0
<1> DEFINE order == Selected([i \in DOMAIN q |-> i], LeftDown(q))
           up(i) == [id |-> 0, key |-> q[i].key, down |-> FALSE, rep |-> FALSE]
           ups == [n \in DOMAIN order |-> up(order[n])]
<1>1. DOMAIN q = 1..Len(q) /\ Len(q) \in Nat /\ \A i \in 1..Len(q) : q[i] \in Typed(keys)
    OBVIOUS
<1>2. [i \in DOMAIN q |-> i] \in Seq(1..Len(q))
    BY <1>1
<1>3. order \in Seq(1..Len(q))
    BY <1>2, SelectedMembers
<1> HIDE DEF order
<1>4. DOMAIN order = 1..Len(order) /\ Len(order) \in Nat /\ \A n \in 1..Len(order) : order[n] \in 1..Len(q)
    BY <1>3
<1>5. \A i \in 1..Len(q) : up(i) \in Sendable(keys) /\ up(i).id = 0
    BY <1>1 DEF Typed, Sendable
<1> HIDE DEF up
<1> DEFINE S == Sendable(keys)
<1>6. ups \in Seq(S) /\ Len(ups) = Len(order) /\ \A n \in 1..Len(order) : ups[n].id = 0
    <2> HIDE DEF S
    <2>1. ups \in [1..Len(order) -> S]
        BY <1>4, <1>5 DEF S
    <2> QED
        BY <1>4, <1>5, <2>1
<1>7. q \in Seq(S)
    <2>1. Typed(keys) \subseteq S
        BY DEF Typed, Sendable
    <2> HIDE DEF S
    <2> QED
        BY <2>1
<1> HIDE DEF S, ups
<1>8. /\ q \o ups \in Seq(S) /\ Len(q \o ups) = Len(q) + Len(ups)
      /\ \A i \in 1..Len(q) : (q \o ups)[i] = q[i]
      /\ \A i \in (Len(q) + 1)..(Len(q) + Len(ups)) : (q \o ups)[i] = ups[i - Len(q)]
    BY <1>6, <1>7
<1>9. BalancedReplay(q) = q \o ups
    BY DEF BalancedReplay, ups, order, up
<1>10. ASSUME NEW i \in (Len(q) + 1)..(Len(q) + Len(ups)) PROVE ups[i - Len(q)].id = 0
    <2>1. i - Len(q) \in 1..Len(order)
        BY <1>1, <1>4, <1>6
    <2> QED
        BY <1>6, <2>1
<1> HIDE DEF S
<1>11. Len(q) + Len(ups) >= Len(q)
    BY <1>1, <1>4, <1>6
<1> QED
    BY <1>8, <1>9, <1>10, <1>11 DEF S

(* As much of it as SendInput takes brings nothing but the edges, each at most once. *)
LEMMA SentOnce ==
    ASSUME NEW keys, NEW q, OnceEach(q, keys), NEW n \in 0..Len(BalancedReplay(q))
    PROVE  LET x == SubSeq(BalancedReplay(q), 1, n)
           IN  /\ x \in Seq(Sendable(keys))
               /\ Ids(x) \ {0} \subseteq Ids(q)
               /\ n = Len(BalancedReplay(q)) => Ids(x) \ {0} = Ids(q)
               /\ n = 0 => Ids(x) = {}
               /\ \A i, j \in DOMAIN x : x[i].id = x[j].id /\ x[i].id # 0 => i = j
<1> DEFINE b == BalancedReplay(q)
           x == SubSeq(b, 1, n)
           S == Sendable(keys)
<1>1. /\ b \in Seq(S) /\ Len(b) >= Len(q)
      /\ \A i \in 1..Len(q) : b[i] = q[i]
      /\ \A i \in (Len(q) + 1)..Len(b) : b[i].id = 0
    BY BalancedMembers DEF OnceEach
<1>2. /\ DOMAIN q = 1..Len(q) /\ Len(q) \in Nat
      /\ \A i \in 1..Len(q) : q[i] \in Typed(keys)
      /\ \A i, j \in DOMAIN q : q[i].id = q[j].id => i = j
    BY DEF OnceEach
<1>3. \A i \in 1..Len(q) : q[i].id # 0
    BY <1>2 DEF Typed
<1> HIDE DEF b, S
<1>4. Len(b) \in Nat /\ n \in 0..Len(b)
    BY <1>1 DEF b
<1>5. /\ x \in Seq(S) /\ Len(x) = n /\ DOMAIN x = 1..n
      /\ \A i \in 1..n : x[i] = b[i]
    BY <1>1, <1>4
<1> HIDE DEF x
<1>6. ASSUME NEW i \in 1..n, x[i].id # 0 PROVE i \in 1..Len(q) /\ x[i] = q[i]
    <2>1. i \in 1..Len(b) /\ ~(i \in (Len(q) + 1)..Len(b))
        BY <1>1, <1>4, <1>5, <1>6
    <2>2. i \in 1..Len(q)
        BY <1>2, <1>4, <2>1
    <2> QED
        BY <1>1, <1>5, <2>2
<1>7. Ids(x) \ {0} \subseteq Ids(q)
    BY <1>2, <1>5, <1>6 DEF Ids
<1>8. ASSUME n = Len(b) PROVE Ids(x) \ {0} = Ids(q)
    <2>1. ASSUME NEW i \in 1..Len(q) PROVE q[i].id \in Ids(x) \ {0}
        <3>1. i \in 1..n
            BY <1>1, <1>2, <1>4, <1>8
        <3>2. i \in DOMAIN x /\ x[i] = q[i]
            BY ONLY <1>1, <1>5, <3>1
        <3>3. q[i].id \in {x[k].id : k \in DOMAIN x}
            BY ONLY <3>2
        <3> QED
            BY <1>3, <3>3 DEF Ids
    <2>2. ASSUME NEW k \in Ids(q) PROVE k \in Ids(x) \ {0}
        <3>1. PICK i \in 1..Len(q) : k = q[i].id
            BY <1>2, <2>2 DEF Ids
        <3> QED
            BY <2>1, <3>1
    <2> QED
        BY <1>7, <2>2
<1>9. n = 0 => Ids(x) = {}
    BY <1>5 DEF Ids
<1>10. ASSUME NEW i \in DOMAIN x, NEW j \in DOMAIN x, x[i].id = x[j].id, x[i].id # 0 PROVE i = j
    <2>1. i \in 1..Len(q) /\ x[i] = q[i] /\ j \in 1..Len(q) /\ x[j] = q[j]
        BY <1>5, <1>6, <1>10
    <2> QED
        BY <1>2, <1>10, <2>1
<1> QED
    BY <1>5, <1>7, <1>8, <1>9, <1>10 DEF x, b, S

(* The numbers of the edges sent, without those of the agent's own key-ups. *)
LEMMA NumbersSent ==
    ASSUME NEW keys, NEW x \in Seq(Sendable(keys)),
           \A i, j \in DOMAIN x : x[i].id = x[j].id /\ x[i].id # 0 => i = j
    PROVE  LET passed == Selected([i \in DOMAIN x |-> x[i].id], Nat \ {0})
           IN  passed \in Seq(Nat) /\ IsInjective(passed) /\ Range(passed) = Ids(x) \ {0}
<1> DEFINE numbers == [i \in DOMAIN x |-> x[i].id]
<1>1. numbers \in Seq(Nat) /\ DOMAIN numbers = DOMAIN x /\ \A i \in DOMAIN x : numbers[i] = x[i].id
    <2>1. DOMAIN x = 1..Len(x) /\ Len(x) \in Nat /\ \A i \in DOMAIN x : x[i] \in Sendable(keys)
        OBVIOUS
    <2>2. \A i \in DOMAIN x : x[i].id \in Nat
        BY <2>1 DEF Sendable
    <2> QED
        BY <2>1, <2>2
<1> HIDE DEF numbers
<1>2. \A i, j \in DOMAIN numbers : numbers[i] = numbers[j] /\ numbers[i] \in Nat \ {0} => i = j
    BY <1>1
<1>3. /\ Selected(numbers, Nat \ {0}) \in Seq(Nat) /\ IsInjective(Selected(numbers, Nat \ {0}))
      /\ Range(Selected(numbers, Nat \ {0})) = Range(numbers) \cap (Nat \ {0})
    BY <1>1, <1>2, SelectedMembers, SelectedDistinct
<1>4. Range(numbers) = Ids(x) /\ Range(numbers) \subseteq Nat
    BY <1>1 DEF Range, Ids
<1> QED
    BY <1>3, <1>4 DEF numbers
=============================================================================
