--------------------------- MODULE BagFile_proofs ---------------------------
(***************************************************************************)
(* BagFile for any lengths of the header's fields, of topics and of        *)
(* bodies, and for any place where the writer dies.                        *)
(***************************************************************************)
EXTENDS BagFile, NumberLemmas

Lens == {FirstLens, LastLens}
Bytes == [1..HeaderLen -> Nat]

-----------------------------------------------------------------------------
(* What WriteHeader appends *)

\* What stands where in a concatenation, in repeated bytes and in a number.
LEMMA Concatenated ==
    ASSUME NEW s \in Seq(Nat), NEW t \in Seq(Nat)
    PROVE  /\ s \o t \in Seq(Nat) /\ Len(s \o t) = Len(s) + Len(t)
           /\ \A k \in 1..Len(s) : (s \o t)[k] = s[k]
           /\ \A k \in 1..Len(t) : (s \o t)[Len(s) + k] = t[k]
<1> DEFINE m == Len(s)
           n == Len(t)
<1>1. m \in Nat /\ n \in Nat /\ s \o t \in Seq(Nat) /\ Len(s \o t) = m + n
  OBVIOUS
<1>2. \A k \in 1..(m + n) :
         (s \o t)[k] = IF k <= m THEN s[k] ELSE t[k - m]
  OBVIOUS
<1>3. \A k \in 1..m : k \in 1..(m + n) /\ k <= m
  BY <1>1
<1>4. \A k \in 1..n : m + k \in 1..(m + n) /\ ~(m + k <= m) /\ (m + k) - m = k
  BY <1>1
<1> HIDE DEF m, n
<1>5. \A k \in 1..m : (s \o t)[k] = s[k]
  BY <1>2, <1>3
<1>6. \A k \in 1..n : (s \o t)[m + k] = t[k]
  BY <1>2, <1>4
<1> QED
  BY <1>1, <1>5, <1>6 DEF m, n

LEMMA TimesLemma ==
    ASSUME NEW n \in Nat, NEW byte \in Nat
    PROVE  /\ Times(n, byte) \in Seq(Nat) /\ Len(Times(n, byte)) = n
           /\ \A k \in 1..n : Times(n, byte)[k] = byte
BY DEF Times

LEMMA Int32Lemma ==
    ASSUME NEW n \in Nat
    PROVE  /\ Int32(n) \in Seq(Nat) /\ Len(Int32(n)) = IntLen
           /\ Int32(n)[1] = n
           /\ \A k \in 2..IntLen : Int32(n)[k] = 0
<1> DEFINE t == Times(IntLen - 1, Zero)
<1>1. IntLen \in Nat \ {0} /\ IntLen - 1 \in Nat
  BY HeaderAssumption
<1>2. t \in Seq(Nat) /\ Len(t) = IntLen - 1 /\ \A k \in 1..(IntLen - 1) : t[k] = 0
  BY <1>1, TimesLemma DEF Zero
<1> HIDE DEF t
<1>3. Int32(n) = <<n>> \o t
  BY DEF Int32, t
<1>4. <<n>> \in Seq(Nat) /\ Len(<<n>>) = 1 /\ <<n>>[1] = n
  OBVIOUS
<1> QED
  BY <1>1, <1>2, <1>3, <1>4

\* Each field has a name, and a value of some length.
LEMMA LensTypes ==
    ASSUME NEW lens \in Lens, NEW i \in Fields
    PROVE  /\ NameLens[i] \in Nat \ {0} /\ lens[i] \in Nat
           /\ i \in Nat \ {0} /\ i <= Len(NameLens)
BY HeaderAssumption DEF Lens, Fields

\* A field: its length, its name, "=" and its value.
LEMMA FieldLemma ==
    ASSUME NEW lens \in Lens, NEW i \in Fields
    PROVE  LET f == Field(i, lens[i])
               name == NameLens[i]
               value == lens[i]
           IN  /\ f \in Seq(Nat) /\ Len(f) = IntLen + (name + 1 + value)
               /\ f[1] = name + 1 + value
               /\ \A k \in 2..IntLen : f[k] = 0
               /\ \A k \in 1..name : f[IntLen + k] = Letter(i)
               /\ f[IntLen + name + 1] = Eq
<1> DEFINE name == NameLens[i]
           value == lens[i]
           a == Int32(name + 1 + value)
           b == Name(i)
           c == <<Eq>>
           d == Times(value, Digit)
<1>1. name \in Nat \ {0} /\ value \in Nat /\ IntLen \in Nat \ {0} /\ i \in Nat
  BY LensTypes, HeaderAssumption
<1>2. /\ a \in Seq(Nat) /\ Len(a) = IntLen /\ a[1] = name + 1 + value
      /\ \A k \in 2..IntLen : a[k] = 0
  <2>1. name + 1 + value \in Nat
    BY <1>1
  <2> HIDE DEF name, value
  <2> QED
    BY <2>1, Int32Lemma
<1>3. b \in Seq(Nat) /\ Len(b) = name /\ \A k \in 1..name : b[k] = Letter(i)
  <2>1. Letter(i) \in Nat /\ b = Times(name, Letter(i))
    BY <1>1 DEF Name, Letter
  <2> HIDE DEF name, b
  <2> QED
    BY <1>1, <2>1, TimesLemma
<1>4. c \in Seq(Nat) /\ Len(c) = 1 /\ c[1] = Eq
  BY DEF Eq
<1>5. d \in Seq(Nat) /\ Len(d) = value
  BY <1>1, TimesLemma DEF Digit
<1>6. Field(i, lens[i]) = ((a \o b) \o c) \o d
  BY DEF Field
<1> HIDE DEF name, value, a, b, c, d
<1> DEFINE ab == a \o b
           abc == ab \o c
           f == abc \o d
<1>7. /\ ab \in Seq(Nat) /\ Len(ab) = IntLen + name
      /\ ab[1] = name + 1 + value
      /\ \A k \in 2..IntLen : ab[k] = 0
      /\ \A k \in 1..name : ab[IntLen + k] = Letter(i)
  <2>1. /\ ab \in Seq(Nat) /\ Len(ab) = Len(a) + Len(b)
        /\ \A k \in 1..Len(a) : ab[k] = a[k]
        /\ \A k \in 1..Len(b) : ab[Len(a) + k] = b[k]
    BY <1>2, <1>3, Concatenated
  <2> HIDE DEF ab
  <2>2. Len(a) = IntLen /\ Len(b) = name
    BY <1>2, <1>3
  <2>3. /\ \A k \in 1..IntLen : ab[k] = a[k]
        /\ \A k \in 1..name : ab[IntLen + k] = b[k]
    BY <2>1, <2>2
  <2>4. 1 \in 1..IntLen /\ \A k \in 2..IntLen : k \in 1..IntLen
    BY <1>1
  <2> QED
    BY <1>2, <1>3, <2>1, <2>2, <2>3, <2>4
<1> HIDE DEF ab
<1>8. /\ abc \in Seq(Nat) /\ Len(abc) = IntLen + name + 1
      /\ \A k \in 1..(IntLen + name) : abc[k] = ab[k]
      /\ abc[IntLen + name + 1] = Eq
  <2>1. /\ abc \in Seq(Nat) /\ Len(abc) = Len(ab) + Len(c)
        /\ \A k \in 1..Len(ab) : abc[k] = ab[k]
        /\ \A k \in 1..Len(c) : abc[Len(ab) + k] = c[k]
    BY <1>4, <1>7, Concatenated
  <2> HIDE DEF abc
  <2> QED
    BY <1>1, <1>4, <1>7, <2>1
<1> HIDE DEF abc
<1>9. /\ f \in Seq(Nat) /\ Len(f) = IntLen + (name + 1 + value)
      /\ \A k \in 1..(IntLen + name + 1) : f[k] = abc[k]
  <2>1. /\ f \in Seq(Nat) /\ Len(f) = Len(abc) + Len(d)
        /\ \A k \in 1..Len(abc) : f[k] = abc[k]
    BY <1>5, <1>8, Concatenated
  <2> HIDE DEF f
  <2> QED
    BY <1>1, <1>5, <1>8, <2>1
<1> HIDE DEF f
<1>10. \A k \in 1..(IntLen + name) : f[k] = ab[k]
  <2> SUFFICES ASSUME NEW k \in 1..(IntLen + name)
               PROVE  f[k] = ab[k]
    OBVIOUS
  <2>1. k \in 1..(IntLen + name + 1)
    BY <1>1
  <2> QED
    BY <1>8, <1>9, <2>1
<1>11. /\ f[1] = name + 1 + value
       /\ \A k \in 2..IntLen : f[k] = 0
       /\ \A k \in 1..name : f[IntLen + k] = Letter(i)
  <2>1. 1 \in 1..(IntLen + name) /\ \A k \in 2..IntLen : k \in 1..(IntLen + name)
    BY <1>1
  <2>2. \A k \in 1..name : IntLen + k \in 1..(IntLen + name)
    BY <1>1
  <2> QED
    BY <1>7, <1>10, <2>1, <2>2
<1>12. f[IntLen + name + 1] = Eq
  BY <1>1, <1>8, <1>9
<1>13. f = Field(i, lens[i])
  BY <1>6 DEF f, abc, ab
<1> QED
  BY <1>9, <1>11, <1>12, <1>13 DEF name, value

\* The loop of WriteHeader computes what its body says.
LEMMA AppendedDef ==
    ASSUME NEW lens \in Lens
    PROVE  Appended(lens) = [n \in 0..Len(NameLens) |->
               IF n = 0 THEN <<>>
               ELSE Appended(lens)[n - 1] \o Field(n, lens[n])]
<1> DEFINE V == Seq(Nat)
           step == [n \in Nat |-> [s \in V |->
                       IF n + 1 \in Fields THEN s \o Field(n + 1, lens[n + 1])
                       ELSE s]]
<1>1. \A n \in Fields : Field(n, lens[n]) \in V
  BY FieldLemma
<1>2. step \in [Nat -> [V -> V]] /\ <<>> \in V
  BY <1>1
<1>3. PICK g \in [Nat -> V] :
         g[0] = <<>> /\ \A n \in Nat : g[n + 1] = step[n][g[n]]
  <2> DEFINE base == <<>>
  <2>1. base \in V
    BY <1>2
  <2> HIDE DEF V, step, base
  <2>2. Recurses(V, base, step)
    BY <1>2, <2>1, Recursion
  <2> QED
    BY <2>2 DEF base, Recurses
<1> DEFINE h == [n \in 0..Len(NameLens) |-> g[n]]
           Is(f) == f = [n \in 0..Len(NameLens) |->
                           IF n = 0 THEN <<>>
                           ELSE f[n - 1] \o Field(n, lens[n])]
<1>4. Len(NameLens) \in Nat /\ Fields = 1..Len(NameLens)
  BY HeaderAssumption DEF Fields
<1>5. Is(h)
  <2>1. \A n \in 1..Len(NameLens) : g[n] = g[n - 1] \o Field(n, lens[n])
    <3> SUFFICES ASSUME NEW n \in 1..Len(NameLens)
                 PROVE  g[n] = g[n - 1] \o Field(n, lens[n])
      OBVIOUS
    <3>1. n - 1 \in Nat /\ (n - 1) + 1 = n /\ n \in Fields
      BY <1>4
    <3>2. g[n] = step[n - 1][g[n - 1]]
      BY <1>3, <3>1
    <3> QED
      BY <1>3, <3>1, <3>2
  <2>2. h = [n \in 0..Len(NameLens) |->
               IF n = 0 THEN <<>> ELSE h[n - 1] \o Field(n, lens[n])]
    <3> SUFFICES ASSUME NEW n \in 0..Len(NameLens)
                 PROVE  g[n] = IF n = 0 THEN <<>>
                               ELSE h[n - 1] \o Field(n, lens[n])
      OBVIOUS
    <3>1. CASE n = 0
      BY <1>3, <3>1
    <3>2. CASE n # 0
      <4>1. n \in 1..Len(NameLens) /\ n - 1 \in 0..Len(NameLens)
        BY <1>4, <3>2
      <4>2. h[n - 1] = g[n - 1]
        BY <4>1
      <4> QED
        BY <2>1, <3>2, <4>1, <4>2
    <3> QED
      BY <3>1, <3>2
  <2> QED
    BY <2>2
<1>6. Appended(lens) = CHOOSE f : Is(f)
  BY DEF Appended
<1> HIDE DEF h, Is
<1>7. Is(Appended(lens))
  BY <1>5, <1>6
<1> QED
  BY <1>7 DEF Is

\* Nothing at first, and then field after field.
LEMMA AppendedStep ==
    ASSUME NEW lens \in Lens
    PROVE  /\ Appended(lens)[0] = <<>>
           /\ \A n \in Fields :
                Appended(lens)[n] = Appended(lens)[n - 1] \o Field(n, lens[n])
<1> DEFINE A == Appended(lens)
           N == Len(NameLens)
<1>1. N \in Nat /\ Fields = 1..N
  BY HeaderAssumption DEF Fields
<1>2. A = [n \in 0..N |-> IF n = 0 THEN <<>> ELSE A[n - 1] \o Field(n, lens[n])]
  BY AppendedDef
<1> HIDE DEF A, N
<1>3. \A n \in 0..N :
         A[n] = IF n = 0 THEN <<>> ELSE A[n - 1] \o Field(n, lens[n])
  BY <1>2
<1>4. A[0] = <<>>
  BY <1>1, <1>3
<1>5. \A n \in 1..N : n \in 0..N /\ n # 0
  BY <1>1
<1>6. \A n \in 1..N : A[n] = A[n - 1] \o Field(n, lens[n])
  BY <1>3, <1>5
<1> QED
  BY <1>1, <1>4, <1>6 DEF A

\* Where field i begins, in what WriteHeader appends, and how long its text is.
Start(lens, i) == Len(Appended(lens)[i - 1])
TextLen(lens, i) == NameLens[i] + 1 + lens[i]

\* What has been appended stays.
LEMMA AppendedPrefix ==
    ASSUME NEW lens \in Lens, NEW n \in 0..Len(NameLens), NEW m \in 0..n
    PROVE  LET A == Appended(lens)
           IN  /\ A[n] \in Seq(Nat) /\ Len(A[m]) <= Len(A[n])
               /\ \A k \in 1..Len(A[m]) : A[n][k] = A[m][k]
<1> DEFINE N == Len(NameLens)
           A == Appended(lens)
           Good(j) == /\ A[j] \in Seq(Nat)
                      /\ \A l \in 0..j :
                            /\ Len(A[l]) <= Len(A[j])
                            /\ \A k \in 1..Len(A[l]) : A[j][k] = A[l][k]
           S == {j \in Nat : j <= N => Good(j)}
<1>1. N \in Nat /\ Fields = 1..N
  BY HeaderAssumption DEF Fields
<1>2. A[0] = <<>> /\ \A j \in Fields : A[j] = A[j - 1] \o Field(j, lens[j])
  BY AppendedStep
<1> HIDE DEF A
<1>3. 0 \in S
  <2>1. A[0] \in Seq(Nat) /\ \A l \in 0..0 : A[l] = A[0]
    BY <1>2
  <2>2. Good(0)
    BY <2>1
  <2> QED
    BY <2>2
<1>4. ASSUME NEW j \in Nat, j \in S
      PROVE  j + 1 \in S
  <2> SUFFICES ASSUME j + 1 <= N
               PROVE  Good(j + 1)
    OBVIOUS
  <2> DEFINE f == Field(j + 1, lens[j + 1])
             a == A[j]
             b == A[j + 1]
  <2>1. j + 1 \in Fields /\ (j + 1) - 1 = j /\ j <= N
    BY <1>1
  <2>2. Good(j)
    BY <1>1, <1>4, <2>1
  <2>3. f \in Seq(Nat)
    BY <2>1, FieldLemma
  <2>4. b = a \o f
    BY <1>2, <2>1
  <2>5. a \in Seq(Nat)
    BY <2>2
  <2> HIDE DEF f, a, b
  <2>6. /\ b \in Seq(Nat) /\ Len(b) = Len(a) + Len(f)
        /\ \A k \in 1..Len(a) : b[k] = a[k]
    BY <2>3, <2>4, <2>5, Concatenated
  <2>7. Len(a) \in Nat /\ Len(f) \in Nat
    BY <2>3, <2>5
  <2>8. ASSUME NEW l \in 0..(j + 1)
        PROVE  /\ Len(A[l]) <= Len(b)
               /\ \A k \in 1..Len(A[l]) : b[k] = A[l][k]
    <3>1. CASE l = j + 1
      <4>1. A[l] = b /\ Len(b) \in Nat
        BY <2>6, <3>1 DEF b
      <4> QED
        BY <4>1
    <3>2. CASE l # j + 1
      <4>1. l \in 0..j
        BY <3>2
      <4>2. /\ Len(A[l]) <= Len(a)
            /\ \A k \in 1..Len(A[l]) : a[k] = A[l][k]
        BY <2>2, <4>1 DEF a
      <4> QED
        BY <2>6, <2>7, <4>2
    <3> QED
      BY <3>1, <3>2
  <2> QED
    BY <2>6, <2>8 DEF b
<1>5. Nat \subseteq S
  <2> HIDE DEF S
  <2> QED
    BY <1>3, <1>4, Induction
<1>6. n \in Nat /\ n <= N
  BY <1>1
<1>7. n \in S
  BY <1>5, <1>6
<1>8. Good(n)
  BY <1>6, <1>7
<1> QED
  BY <1>8 DEF A

\* A field, among all that is appended.
LEMMA FieldPlace ==
    ASSUME NEW lens \in Lens, NEW i \in Fields
    PROVE  LET A == Appended(lens)
               N == Len(NameLens)
               start == Start(lens, i)
               size == IntLen + TextLen(lens, i)
           IN  /\ start \in Nat /\ size \in Nat /\ Len(A[i]) = start + size
               /\ Len(A[i]) <= Len(A[N])
               /\ \A k \in 1..size : A[N][start + k] = Field(i, lens[i])[k]
<1> DEFINE N == Len(NameLens)
           before == Appended(lens)[i - 1]
           after == Appended(lens)[i]
           all == Appended(lens)[N]
           f == Field(i, lens[i])
           size == IntLen + TextLen(lens, i)
<1>1. N \in Nat /\ i \in 1..N /\ i \in 0..N /\ i - 1 \in 0..i /\ i - 1 \in 0..N
  BY HeaderAssumption DEF Fields
<1>2. before \in Seq(Nat)
  <2>1. i - 1 \in 0..Len(NameLens) /\ i - 1 \in 0..(i - 1)
    BY <1>1
  <2> QED
    BY <2>1, AppendedPrefix
<1>3. f \in Seq(Nat) /\ Len(f) = size
  BY FieldLemma DEF TextLen
<1>4. after = before \o f
  BY AppendedStep
<1>5. Len(after) <= Len(all) /\ \A k \in 1..Len(after) : all[k] = after[k]
  <2>1. N \in 0..Len(NameLens) /\ i \in 0..N
    BY <1>1
  <2> QED
    BY <2>1, AppendedPrefix
<1>6. /\ Len(after) = Len(before) + Len(f)
      /\ \A k \in 1..Len(f) : after[Len(before) + k] = f[k]
  <2> HIDE DEF before, after, f
  <2> QED
    BY <1>2, <1>3, <1>4, Concatenated
<1>7. Len(before) \in Nat /\ Len(f) \in Nat
  BY <1>2, <1>3
<1>8. \A k \in 1..Len(f) : all[Len(before) + k] = f[k]
  <2> HIDE DEF before, after, f, all
  <2> DEFINE b == Len(before)
             n == Len(f)
  <2>1. \A k \in 1..n : b + k \in 1..(b + n)
    BY <1>7
  <2> QED
    BY <1>5, <1>6, <2>1
<1> QED
  BY <1>3, <1>5, <1>6, <1>7, <1>8 DEF Start

-----------------------------------------------------------------------------
(* The header record *)

Total(lens) == Len(Appended(lens)[Len(NameLens)])

\* The bytes of a header record are a sequence of that length.
LEMMA BytesAreSequences ==
    /\ \A b \in Bytes : b \in Seq(Nat) /\ Len(b) = HeaderLen
    /\ \A b \in Seq(Nat) : Len(b) = HeaderLen => b \in Bytes
<1>1. HeaderLen \in Nat
  BY HeaderAssumption
<1>2. ASSUME NEW b \in Bytes
      PROVE  b \in Seq(Nat) /\ Len(b) = HeaderLen
  <2>1. b \in [1..HeaderLen -> Nat]
    BY DEF Bytes
  <2>2. b \in Seq(Nat)
    BY <1>1, <2>1
  <2>3. DOMAIN b = 1..HeaderLen /\ DOMAIN b = 1..Len(b) /\ Len(b) \in Nat
    BY <2>1, <2>2
  <2> QED
    BY <1>1, <2>2, <2>3
<1>3. ASSUME NEW b \in Seq(Nat), Len(b) = HeaderLen
      PROVE  b \in Bytes
  BY <1>3 DEF Bytes
<1> QED
  BY <1>2, <1>3

\* The length of all fields stands in front of them.
LEMMA RecordLemma ==
    ASSUME NEW lens \in Lens
    PROVE  LET h == HeaderRecord(lens)
               all == Appended(lens)[Len(NameLens)]
           IN  /\ Total(lens) \in Nat /\ IntLen + Total(lens) <= HeaderLen
               /\ h \in Bytes /\ h[1] = Total(lens)
               /\ \A k \in 2..IntLen : h[k] = 0
               /\ \A k \in 1..Total(lens) : h[IntLen + k] = all[k]
<1> DEFINE all == Appended(lens)[Len(NameLens)]
           size == Total(lens)
           a == Int32(size)
           ab == a \o all
           c == Times((HeaderLen - IntLen) - size, Space)
           h == ab \o c
<1>1. IntLen \in Nat \ {0} /\ HeaderLen \in Nat
  BY HeaderAssumption
<1>2. IntLen + size <= HeaderLen
  BY HeaderFits DEF Total, Lens
<1>3. all \in Seq(Nat) /\ size \in Nat /\ Len(all) = size
  <2>1. Len(NameLens) \in 0..Len(NameLens)
    BY HeaderAssumption
  <2>2. all \in Seq(Nat)
    BY <2>1, AppendedPrefix
  <2> QED
    BY <2>2 DEF Total
<1>4. h = HeaderRecord(lens)
  BY DEF HeaderRecord, Total
<1> HIDE DEF all, size
<1>5. /\ a \in Seq(Nat) /\ Len(a) = IntLen /\ a[1] = size
      /\ \A k \in 2..IntLen : a[k] = 0
  BY <1>3, Int32Lemma
<1>6. c \in Seq(Nat) /\ Len(c) = (HeaderLen - IntLen) - size
  <2>1. (HeaderLen - IntLen) - size \in Nat
    BY <1>1, <1>2, <1>3
  <2> QED
    BY <2>1, TimesLemma DEF Space
<1> HIDE DEF a, c
<1>7. /\ ab \in Seq(Nat) /\ Len(ab) = IntLen + size
      /\ \A k \in 1..IntLen : ab[k] = a[k]
      /\ \A k \in 1..size : ab[IntLen + k] = all[k]
  <2>1. Len(a) = IntLen /\ Len(all) = size
    BY <1>3, <1>5
  <2>2. /\ ab \in Seq(Nat) /\ Len(ab) = Len(a) + Len(all)
        /\ \A k \in 1..Len(a) : ab[k] = a[k]
        /\ \A k \in 1..Len(all) : ab[Len(a) + k] = all[k]
    BY <1>3, <1>5, Concatenated
  <2> QED
    BY <2>1, <2>2
<1> HIDE DEF ab
<1>8. /\ h \in Seq(Nat) /\ Len(h) = HeaderLen
      /\ \A k \in 1..(IntLen + size) : h[k] = ab[k]
  <2>1. /\ h \in Seq(Nat) /\ Len(h) = Len(ab) + Len(c)
        /\ \A k \in 1..Len(ab) : h[k] = ab[k]
    BY <1>6, <1>7, Concatenated
  <2> HIDE DEF h
  <2> QED
    BY <1>1, <1>3, <1>6, <1>7, <2>1
<1> HIDE DEF h
<1>9. h \in Bytes
  BY <1>8, BytesAreSequences
<1>10. /\ 1 \in 1..IntLen
       /\ \A k \in 2..IntLen : k \in 1..IntLen
       /\ \A k \in 1..IntLen : k \in 1..(IntLen + size)
       /\ \A k \in 1..size : IntLen + k \in 1..(IntLen + size)
  BY <1>1, <1>3
<1>11. \A k \in 1..IntLen : h[k] = a[k]
  BY <1>7, <1>8, <1>10
<1>12. \A k \in 1..size : h[IntLen + k] = all[k]
  BY <1>7, <1>8, <1>10
<1> QED
  BY <1>2, <1>3, <1>4, <1>5, <1>9, <1>10, <1>11, <1>12 DEF all, size

-----------------------------------------------------------------------------
(* What ReadHeader reads *)

\* The sums that peekInt32 forms.
LEMMA IntAtDef ==
    ASSUME NEW b \in Bytes, NEW r \in Nat, r + IntLen <= HeaderLen
    PROVE  \E value \in [0..IntLen -> Nat] :
              /\ value[0] = 0
              /\ \A k \in 1..IntLen :
                    value[k] = b[(r + IntLen) - (k - 1)] + 256 * value[k - 1]
              /\ IntAt(b, r) = value[IntLen]
<1> DEFINE byte(k) == b[(r + IntLen) - k]
           step == [k \in Nat |-> [v \in Nat |->
                       IF k < IntLen THEN byte(k) + 256 * v ELSE v]]
           Is(f) == f = [k \in 0..IntLen |->
                           IF k = 0 THEN 0
                           ELSE b[(r + IntLen) - (k - 1)] + 256 * f[k - 1]]
<1>1. IntLen \in Nat \ {0} /\ HeaderLen \in Nat
  BY HeaderAssumption
<1>2. \A k \in 0..(IntLen - 1) : byte(k) \in Nat
  <2> SUFFICES ASSUME NEW k \in 0..(IntLen - 1)
               PROVE  byte(k) \in Nat
    OBVIOUS
  <2>1. (r + IntLen) - k \in 1..HeaderLen
    BY <1>1
  <2> QED
    BY <2>1 DEF Bytes
<1> HIDE DEF byte
<1>3. step \in [Nat -> [Nat -> Nat]]
  <2> SUFFICES ASSUME NEW k \in Nat, NEW v \in Nat
               PROVE  (IF k < IntLen THEN byte(k) + 256 * v ELSE v) \in Nat
    OBVIOUS
  <2>1. CASE k < IntLen
    <3>1. byte(k) \in Nat
      BY <1>1, <1>2, <2>1
    <3> QED
      BY <2>1, <3>1
  <2>2. CASE ~(k < IntLen)
    BY <2>2
  <2> QED
    BY <2>1, <2>2
<1>4. PICK g \in [Nat -> Nat] :
         g[0] = 0 /\ \A k \in Nat : g[k + 1] = step[k][g[k]]
  <2> HIDE DEF step
  <2>1. Recurses(Nat, 0, step)
    BY <1>3, Recursion
  <2> QED
    BY <2>1 DEF Recurses
<1> DEFINE value == [k \in 0..IntLen |-> g[k]]
<1>5. \A k \in 1..IntLen :
         value[k] = b[(r + IntLen) - (k - 1)] + 256 * value[k - 1]
  <2> SUFFICES ASSUME NEW k \in 1..IntLen
               PROVE  value[k] = b[(r + IntLen) - (k - 1)] + 256 * value[k - 1]
    OBVIOUS
  <2>1. k - 1 \in Nat /\ (k - 1) + 1 = k /\ k - 1 < IntLen
    BY <1>1
  <2>2. k \in 0..IntLen /\ k - 1 \in 0..IntLen
    BY <1>1
  <2>3. g[k] = step[k - 1][g[k - 1]] /\ g[k - 1] \in Nat
    BY <1>4, <2>1
  <2>4. g[k] = byte(k - 1) + 256 * g[k - 1]
    BY <2>1, <2>3
  <2>5. value[k] = g[k] /\ value[k - 1] = g[k - 1]
    BY <2>2
  <2> QED
    BY <2>4, <2>5 DEF byte
<1>6. value \in [0..IntLen -> Nat] /\ value[0] = 0 /\ 0 \in 0..IntLen
  BY <1>1, <1>4
<1>7. Is(value)
  <2> HIDE DEF value
  <2>1. value = [k \in 0..IntLen |-> value[k]]
    BY <1>6
  <2>2. \A k \in 0..IntLen : k = 0 \/ k \in 1..IntLen
    BY <1>1
  <2>3. \A k \in 0..IntLen :
           value[k] = IF k = 0 THEN 0
                      ELSE b[(r + IntLen) - (k - 1)] + 256 * value[k - 1]
    BY <1>5, <1>6, <2>2
  <2> QED
    BY <2>1, <2>3
<1>8. IntAt(b, r) = (CHOOSE f : Is(f))[IntLen]
  BY DEF IntAt
<1> DEFINE chosen == CHOOSE f : Is(f)
<1>9. Is(chosen)
  <2> HIDE DEF Is, value
  <2> QED
    BY <1>7
<1> HIDE DEF chosen
<1>10. /\ chosen[0] = 0
       /\ \A k \in 1..IntLen :
            chosen[k] = b[(r + IntLen) - (k - 1)] + 256 * chosen[k - 1]
  <2>1. \A k \in 0..IntLen :
           chosen[k] = IF k = 0 THEN 0
                       ELSE b[(r + IntLen) - (k - 1)] + 256 * chosen[k - 1]
    BY <1>9
  <2>2. 0 \in 0..IntLen /\ \A k \in 1..IntLen : k \in 0..IntLen /\ k # 0
    BY <1>1
  <2> QED
    BY <2>1, <2>2
<1> DEFINE S == {k \in Nat : k <= IntLen => chosen[k] = value[k]}
<1>11. Nat \subseteq S
  <2> HIDE DEF value
  <2>1. 0 \in S
    BY <1>6, <1>10
  <2>2. ASSUME NEW k \in Nat, k \in S
        PROVE  k + 1 \in S
    <3> SUFFICES ASSUME k + 1 <= IntLen
                 PROVE  chosen[k + 1] = value[k + 1]
      OBVIOUS
    <3>1. k + 1 \in 1..IntLen /\ (k + 1) - 1 = k /\ k <= IntLen
      BY <1>1
    <3>2. chosen[k] = value[k]
      BY <2>2, <3>1
    <3>3. chosen[k + 1] = b[(r + IntLen) - k] + 256 * chosen[k]
      BY <1>10, <3>1
    <3>4. value[k + 1] = b[(r + IntLen) - k] + 256 * value[k]
      BY <1>5, <3>1
    <3> QED
      BY <3>2, <3>3, <3>4
  <2> HIDE DEF S
  <2> QED
    BY <2>1, <2>2, Induction
<1>12. IntAt(b, r) = value[IntLen]
  <2>1. IntLen \in S
    BY <1>1, <1>11
  <2> QED
    BY <1>1, <1>8, <2>1 DEF chosen
<1> HIDE DEF value
<1> QED
  BY <1>5, <1>6, <1>12

\* A number of one byte, followed by zeros, is that byte.
LEMMA IntAtLemma ==
    ASSUME NEW b \in Bytes, NEW r \in Nat, r + IntLen <= HeaderLen
    PROVE  /\ IntAt(b, r) \in Nat
           /\ (\A k \in 2..IntLen : b[r + k] = 0) => IntAt(b, r) = b[r + 1]
<1>1. PICK value \in [0..IntLen -> Nat] :
         /\ value[0] = 0
         /\ \A k \in 1..IntLen :
               value[k] = b[(r + IntLen) - (k - 1)] + 256 * value[k - 1]
         /\ IntAt(b, r) = value[IntLen]
  BY IntAtDef
<1>2. IntLen \in Nat \ {0}
  BY HeaderAssumption
<1>3. ASSUME \A k \in 2..IntLen : b[r + k] = 0
      PROVE  IntAt(b, r) = b[r + 1]
  <2> DEFINE S == {k \in Nat : k < IntLen => value[k] = 0}
  <2>1. 0 \in S
    BY <1>1
  <2>2. ASSUME NEW k \in Nat, k \in S
        PROVE  k + 1 \in S
    <3> SUFFICES ASSUME k + 1 < IntLen
                 PROVE  value[k + 1] = 0
      OBVIOUS
    <3>1. k + 1 \in 1..IntLen /\ IntLen - k \in 2..IntLen
      BY <1>2
    <3>2. (r + IntLen) - ((k + 1) - 1) = r + (IntLen - k) /\ (k + 1) - 1 = k
      BY <1>2
    <3>3. value[k + 1] = b[r + (IntLen - k)] + 256 * value[k]
      BY <1>1, <3>1, <3>2
    <3>4. value[k] = 0
      BY <2>2, <1>2
    <3> QED
      BY <1>3, <3>1, <3>3, <3>4
  <2>3. Nat \subseteq S
    <3> HIDE DEF S
    <3> QED
      BY <2>1, <2>2, Induction
  <2>4. IntLen - 1 \in S /\ IntLen - 1 < IntLen /\ IntLen \in 1..IntLen
    BY <1>2, <2>3
  <2>5. value[IntLen - 1] = 0
    BY <2>4
  <2>6. (r + IntLen) - (IntLen - 1) = r + 1
    BY <1>2
  <2>7. value[IntLen] = b[r + 1] + 256 * value[IntLen - 1]
    BY <1>1, <2>4, <2>6
  <2>8. b[r + 1] \in Nat
    <3>1. r + 1 \in 1..HeaderLen
      BY <1>2, HeaderAssumption
    <3> QED
      BY <3>1 DEF Bytes
  <2> QED
    BY <1>1, <2>5, <2>7, <2>8
<1> QED
  BY <1>1, <1>2, <1>3

\* The bytes of a field, in the header record.
LEMMA FieldBytes ==
    ASSUME NEW lens \in Lens, NEW i \in Fields
    PROVE  LET h == HeaderRecord(lens)
               at == IntLen + Start(lens, i)
               name == NameLens[i]
               len == TextLen(lens, i)
           IN  /\ at \in Nat /\ len \in Nat /\ name + 1 <= len
               /\ Len(Appended(lens)[i]) = Start(lens, i) + (IntLen + len)
               /\ at + (IntLen + len) <= IntLen + Total(lens)
               /\ h[at + 1] = len
               /\ \A k \in 2..IntLen : h[at + k] = 0
               /\ \A k \in 1..name : h[(at + IntLen) + k] = Letter(i)
               /\ h[(at + IntLen) + (name + 1)] = Eq
<1> DEFINE h == HeaderRecord(lens)
           all == Appended(lens)[Len(NameLens)]
           f == Field(i, lens[i])
           start == Start(lens, i)
           name == NameLens[i]
           len == TextLen(lens, i)
           total == Total(lens)
<1>1. /\ IntLen \in Nat \ {0} /\ name \in Nat \ {0} /\ len \in Nat
      /\ name + 1 <= len
  BY HeaderAssumption, LensTypes DEF TextLen
<1>2. /\ start \in Nat
      /\ Len(Appended(lens)[i]) = start + (IntLen + len)
      /\ start + (IntLen + len) <= total
      /\ \A k \in 1..(IntLen + len) : all[start + k] = f[k]
  BY FieldPlace DEF Total
<1>3. total \in Nat /\ \A k \in 1..total : h[IntLen + k] = all[k]
  BY RecordLemma
<1>4. /\ f[1] = len
      /\ \A k \in 2..IntLen : f[k] = 0
      /\ \A k \in 1..name : f[IntLen + k] = Letter(i)
      /\ f[(IntLen + name) + 1] = Eq
  BY FieldLemma DEF TextLen
<1> HIDE DEF h, all, f, start, name, len, total
<1>5. \A k \in 1..(IntLen + len) : h[(IntLen + start) + k] = f[k]
  <2> SUFFICES ASSUME NEW k \in 1..(IntLen + len)
               PROVE  h[(IntLen + start) + k] = f[k]
    OBVIOUS
  <2>1. start + k \in 1..total /\ (IntLen + start) + k = IntLen + (start + k)
    BY <1>1, <1>2, <1>3
  <2> QED
    BY <1>2, <1>3, <2>1
<1>6. \A k \in 1..(name + 1) :
         /\ IntLen + k \in 1..(IntLen + len)
         /\ ((IntLen + start) + IntLen) + k = (IntLen + start) + (IntLen + k)
  BY <1>1, <1>2
<1>7. h[(IntLen + start) + 1] = len
  <2>1. 1 \in 1..(IntLen + len)
    BY <1>1
  <2> QED
    BY <1>4, <1>5, <2>1
<1>8. \A k \in 2..IntLen : h[(IntLen + start) + k] = 0
  <2>1. \A k \in 2..IntLen : k \in 1..(IntLen + len)
    BY <1>1
  <2> QED
    BY <1>4, <1>5, <2>1
<1>9. \A k \in 1..name : h[((IntLen + start) + IntLen) + k] = Letter(i)
  <2>1. \A k \in 1..name : k \in 1..(name + 1)
    BY <1>1
  <2> QED
    BY <1>4, <1>5, <1>6, <2>1
<1>10. h[((IntLen + start) + IntLen) + (name + 1)] = Eq
  <2>1. name + 1 \in 1..(name + 1) /\ IntLen + (name + 1) = (IntLen + name) + 1
    BY <1>1
  <2> QED
    BY <1>4, <1>5, <1>6, <2>1
<1>11. (IntLen + start) + (IntLen + len) <= IntLen + total
  BY <1>1, <1>2, <1>3
<1> QED
  BY <1>1, <1>2, <1>7, <1>8, <1>9, <1>10, <1>11
     DEF h, start, name, len, total

\* One pass of ReadHeader over field i finds its length and its name.
LEMMA TextLemma ==
    ASSUME NEW lens \in Lens, NEW i \in Fields
    PROVE  LET h == HeaderRecord(lens)
               at == IntLen + Start(lens, i)
               text == Text(h, at + IntLen, TextLen(lens, i))
           IN  /\ IntAt(h, at) = TextLen(lens, i)
               /\ Contains(text, Eq)
               /\ NameIn(text) = Name(i)
<1> DEFINE h == HeaderRecord(lens)
           at == IntLen + Start(lens, i)
           from == at + IntLen
           name == NameLens[i]
           len == TextLen(lens, i)
           text == SubSeq(h, from + 1, from + len)
<1>1. IntLen \in Nat \ {0} /\ HeaderLen \in Nat /\ name \in Nat \ {0}
  BY HeaderAssumption, LensTypes
<1>2. /\ at \in Nat /\ len \in Nat /\ name + 1 <= len
      /\ at + (IntLen + len) <= IntLen + Total(lens)
      /\ h[at + 1] = len
      /\ \A k \in 2..IntLen : h[at + k] = 0
      /\ \A k \in 1..name : h[from + k] = Letter(i)
      /\ h[from + (name + 1)] = Eq
  BY FieldBytes
<1>3. /\ Total(lens) \in Nat /\ IntLen + Total(lens) <= HeaderLen
      /\ h \in Bytes
  BY RecordLemma
<1>4. h \in Seq(Nat) /\ Len(h) = HeaderLen
  BY <1>3, BytesAreSequences
<1> HIDE DEF h, at, name, len
<1>5. IntAt(h, at) = len
  <2>1. at + IntLen <= HeaderLen
    BY <1>1, <1>2, <1>3
  <2> QED
    BY <1>2, <1>3, <2>1, IntAtLemma
<1>6. from \in Nat /\ from + len <= HeaderLen
  BY <1>1, <1>2, <1>3
<1> HIDE DEF from
<1>7. /\ text \in Seq(Nat) /\ Len(text) = len
      /\ \A k \in 1..len : text[k] = h[from + k]
  BY <1>2, <1>4, <1>6
<1> HIDE DEF text
<1>8. /\ \A k \in 1..name : text[k] = Letter(i)
      /\ text[name + 1] = Eq /\ name + 1 \in 1..len
  <2>1. name + 1 \in 1..len /\ \A k \in 1..name : k \in 1..len
    BY <1>1, <1>2
  <2> QED
    BY <1>2, <1>7, <2>1
<1>9. Contains(text, Eq)
  BY <1>7, <1>8 DEF Contains
<1>10. Letter(i) # Eq /\ Letter(i) \in Nat
  BY LensTypes DEF Letter, Eq
<1> DEFINE I == {k \in 1..Len(text) : text[k] = Eq}
<1>11. name + 1 \in I /\ \A k \in I : k \in Nat /\ name + 1 <= k
  <2>1. name + 1 \in I
    BY <1>7, <1>8
  <2>2. \A k \in I : k \in Nat /\ k \notin 1..name /\ k # 0
    BY <1>7, <1>8, <1>10
  <2> QED
    BY <1>1, <2>1, <2>2
<1> DEFINE pos == IF I # {} THEN CHOOSE x \in I : \A y \in I : x =< y ELSE 0
<1>12. pos = name + 1
  <2> HIDE DEF I
  <2>1. \A x \in I : (\A y \in I : x =< y) => x = name + 1
    BY <1>1, <1>11
  <2>2. \E x \in I : \A y \in I : x =< y
    BY <1>11
  <2> QED
    BY <1>11, <2>1, <2>2
<1>13. NameIn(text) = SubSeq(text, 1, name)
  <2>1. NameIn(text) = SubSeq(text, 1, pos - 1)
    BY DEF NameIn, SelectInSeq, Min
  <2> HIDE DEF pos
  <2> QED
    BY <1>1, <1>12, <2>1
<1>14. SubSeq(text, 1, name) = Name(i)
  <2>1. /\ SubSeq(text, 1, name) \in Seq(Nat)
        /\ Len(SubSeq(text, 1, name)) = name
        /\ \A k \in 1..name : SubSeq(text, 1, name)[k] = text[k]
    BY <1>1, <1>2, <1>7
  <2>2. Name(i) = [k \in 1..name |-> Letter(i)]
    BY DEF Name, Times, name
  <2> QED
    BY <1>8, <2>1, <2>2
<1> QED
  BY <1>5, <1>9, <1>13, <1>14 DEF Text, text, from, len, at, h

-----------------------------------------------------------------------------
(* The inductive invariant *)

USE DEF NoPosition

HeaderReader == [r : Nat, w : {0, HeaderLen}, len : Nat, read : Nat,
                 found : SUBSET Seq(Nat)]

Types == /\ writer \in DOMAIN NextWrite \union
                          {"idle", "rewrite", "closed", "crashed"}
         /\ header \in Bytes
         /\ hdr \in HeaderReader /\ hdr.r <= hdr.w
         /\ file_size \in Nat /\ offset_ \in NoPosition..file_size
         /\ offset_ = NoPosition => reader = "threw"
         /\ recs \in Seq(Record) /\ records_ \in Seq(Nat)
         /\ reader \in {"none", "header", "reading", "opened", "threw",
                         "undefined"}

InRecord == writer \in {"size", "stamp", "topic", "newline", "body"}

\* The header record at each step of the writer.
HeaderWritten ==
    /\ writer \in {"version", "header"} => header = NoHeader
    /\ writer \in {"idle", "rewrite"} \/ InRecord => header = FirstHeader
    /\ writer = "closed" => header = LastHeader
    /\ writer = "crashed" /\ file_size <= VersionLen => header = NoHeader

HeaderEnd == VersionLen + HeaderLen

\* The records follow the header and each other.
Contiguous ==
    /\ recs # <<>> => recs[1].start = HeaderEnd
    /\ \A k \in 1..(Len(recs) - 1) : recs[k + 1].start = End(recs[k])
    /\ \A k \in 1..Len(recs) :
          /\ HeaderEnd <= recs[k].start
          /\ \A j \in 1..(k - 1) : End(recs[j]) <= recs[k].start

LastEnd == IF recs = <<>> THEN HeaderEnd ELSE End(Last(recs))

\* How far the writer has come in the file.
SizeWritten ==
    /\ writer \in {"version", "header"} => recs = <<>>
    /\ InRecord => recs # <<>>
    /\ writer = "version" => file_size = 0
    /\ writer = "header" => file_size = VersionLen
    /\ writer \in {"idle", "rewrite", "closed"} => file_size = LastEnd
    /\ writer = "size" => file_size = Last(recs).start
    /\ writer = "stamp" => file_size = Last(recs).start + WordLen
    /\ writer = "topic" => file_size = StampEnd(Last(recs))
    /\ writer = "newline" => file_size = StampEnd(Last(recs)) + Last(recs).topic
    /\ writer = "body" => file_size = LineEnd(Last(recs))
    /\ writer = "crashed" =>
          /\ file_size <= LastEnd
          /\ recs # <<>> => Last(recs).start <= file_size

\* Where the reader stands behind what it has read.
Position == IF records_ = <<>> THEN HeaderEnd ELSE End(recs[Len(records_)])

MissesAtMostTheLast ==
    \A k \in Complete : k <= Len(records_) \/ End(recs[k]) = file_size

ReaderPlace ==
    /\ reader # "none" => Ended
    /\ reader \in {"none", "header"} => records_ = <<>> /\ offset_ = 0
    /\ \A i \in 1..Len(records_) :
          /\ records_[i] = i
          /\ i \in Complete \/ (reader = "threw" /\ i = Len(records_))
    /\ reader = "header" => VersionLen <= file_size
    /\ reader \in {"reading", "opened"} =>
          /\ HeaderEnd <= file_size
          /\ \/ offset_ = Position
             \/ offset_ = file_size /\ MissesAtMostTheLast
    /\ reader = "opened" => offset_ = file_size

\* ReadHeader stands before field i of a header with these lengths, or, after
\* the last field, behind them all.
BeforeField(lens, i) ==
    /\ header = HeaderRecord(lens)
    /\ hdr.len = Total(lens)
    /\ hdr.read = Start(lens, i)
    /\ hdr.found = {Name(j) : j \in 1..(i - 1)}
    /\ i \in Fields => hdr.w = HeaderLen /\ hdr.r = IntLen + Start(lens, i)

HeaderPlace ==
    /\ reader = "header" =>
          /\ header \in {FirstHeader, LastHeader} =>
                \E lens \in Lens, i \in 1..(Len(NameLens) + 1) :
                    BeforeField(lens, i)
          /\ file_size = VersionLen => hdr.len = 0
    /\ reader \in {"reading", "opened"} /\ ~HeaderTorn => hdr.found = Names

IInv == /\ Types /\ HeaderWritten /\ Contiguous /\ SizeWritten /\ ReaderPlace
        /\ HeaderPlace /\ RefusedOnlyIfTorn

\* The parts of a record, in order.
LEMMA RecordParts ==
    ASSUME NEW r \in Record
    PROVE  /\ r.start \in Nat /\ r.topic \in Nat \ {0} /\ r.body \in Nat
           /\ StampEnd(r) = r.start + 2 * WordLen
           /\ LineEnd(r) = r.start + 2 * WordLen + r.topic + 1
           /\ End(r) = LineEnd(r) + r.body
           /\ StampEnd(r) \in Nat /\ LineEnd(r) \in Nat /\ End(r) \in Nat
           /\ WordLen \in Nat \ {0}
           /\ r.start < StampEnd(r) /\ StampEnd(r) < LineEnd(r)
           /\ LineEnd(r) <= End(r) /\ r.start < End(r)
<1>1. /\ r.start \in Nat /\ r.topic \in Nat \ {0} /\ r.body \in Nat
      /\ WordLen \in Nat \ {0}
  BY BagFileAssumption DEF Record
<1>2. /\ StampEnd(r) = r.start + 2 * WordLen
      /\ LineEnd(r) = (r.start + 2 * WordLen) + r.topic + 1
      /\ End(r) = LineEnd(r) + r.body
  BY DEF StampEnd, LineEnd, End
<1>3. 2 * WordLen \in Nat \ {0}
  BY <1>1
<1> DEFINE stamp == StampEnd(r)
           line == LineEnd(r)
           end == End(r)
<1> HIDE DEF stamp, line, end
<1>4. /\ stamp = r.start + 2 * WordLen
      /\ line = (r.start + 2 * WordLen) + r.topic + 1
      /\ end = line + r.body
  BY <1>2 DEF stamp, line, end
<1>5. /\ stamp \in Nat /\ line \in Nat /\ end \in Nat
      /\ r.start < stamp /\ stamp < line /\ line <= end /\ r.start < end
  BY <1>1, <1>3, <1>4
<1> QED
  BY <1>1, <1>4, <1>5 DEF stamp, line, end

\* There is a version line, and a header behind it.
LEMMA HeaderEndType ==
    /\ VersionLen \in Nat \ {0} /\ HeaderLen \in Nat \ {0}
    /\ HeaderEnd \in Nat /\ HeaderEnd = VersionLen + HeaderLen
    /\ VersionLen < HeaderEnd
BY BagFileAssumption, HeaderAssumption DEF HeaderEnd

\* The last record ends behind the header, and nothing ends behind it.
LEMMA LastEndLemma ==
    ASSUME Types, Contiguous
    PROVE  /\ LastEnd \in Nat /\ HeaderEnd <= LastEnd
           /\ recs # <<>> =>
                /\ Len(recs) \in Nat \ {0} /\ Last(recs) \in Record
                /\ Last(recs) = recs[Len(recs)]
                /\ HeaderEnd <= Last(recs).start
                /\ LastEnd = End(Last(recs))
           /\ \A k \in 1..Len(recs) :
                /\ recs[k] \in Record /\ End(recs[k]) <= LastEnd
                /\ k < Len(recs) => End(recs[k]) <= Last(recs).start
<1>1. CASE recs = <<>>
  BY <1>1, HeaderEndType DEF LastEnd
<1>2. CASE recs # <<>>
  <2>1. Len(recs) \in Nat \ {0} /\ Last(recs) = recs[Len(recs)]
    BY <1>2 DEF Types, Last
  <2>2. \A k \in 1..Len(recs) : recs[k] \in Record
    BY DEF Types
  <2>3. Len(recs) \in 1..Len(recs)
    BY <2>1
  <2>4. Last(recs) \in Record /\ LastEnd = End(Last(recs))
    BY <1>2, <2>1, <2>2, <2>3 DEF LastEnd
  <2>5. HeaderEnd <= Last(recs).start
    BY <2>1, <2>3 DEF Contiguous
  <2>6. /\ Last(recs).start \in Nat /\ End(Last(recs)) \in Nat
        /\ Last(recs).start < End(Last(recs))
    BY <2>4, RecordParts
  <2>7. LastEnd \in Nat /\ HeaderEnd <= LastEnd
    BY <2>4, <2>5, <2>6, HeaderEndType
  <2>8. ASSUME NEW k \in 1..Len(recs)
        PROVE  /\ recs[k] \in Record /\ End(recs[k]) <= LastEnd
               /\ k < Len(recs) => End(recs[k]) <= Last(recs).start
    <3>1. CASE k < Len(recs)
      <4>1. k \in 1..(Len(recs) - 1)
        BY <2>1, <3>1
      <4>2. End(recs[k]) <= Last(recs).start
        BY <2>1, <2>3, <4>1 DEF Contiguous
      <4>3. End(recs[k]) \in Nat
        BY <2>2, RecordParts
      <4> QED
        BY <2>2, <2>4, <2>6, <4>2, <4>3
    <3>2. CASE k = Len(recs)
      BY <2>1, <2>2, <2>4, <2>7, <3>2
    <3> QED
      BY <2>1, <3>1, <3>2
  <2> QED
    BY <2>1, <2>4, <2>5, <2>7, <2>8
<1> QED
  BY <1>1, <1>2

\* The headers that are written are header records of the two sets of lengths.
LEMMA HeaderTypes ==
    /\ NoHeader \in Bytes /\ FirstHeader \in Bytes /\ LastHeader \in Bytes
    /\ \A lens \in Lens : HeaderRecord(lens) \in {FirstHeader, LastHeader}
    /\ \A h \in {FirstHeader, LastHeader} :
          \E lens \in Lens : h = HeaderRecord(lens)
<1>1. NoHeader \in Bytes
  BY HeaderAssumption DEF NoHeader, Times, Bytes, Zero
<1>2. \A lens \in Lens : HeaderRecord(lens) \in Bytes
  BY RecordLemma
<1> QED
  BY <1>1, <1>2 DEF FirstHeader, LastHeader, Lens

\* A writer that is at work has not been read yet.
NotRead == reader = "none" /\ records_ = <<>> /\ offset_ = 0

LEMMA NotReadLemma ==
    ASSUME IInv, ~Ended
    PROVE  NotRead
BY DEF IInv, ReaderPlace, NotRead

LEMMA UnreadLemma ==
    ASSUME NotRead, UNCHANGED <<reader, hdr, offset_, records_>>
    PROVE  (ReaderPlace /\ HeaderPlace /\ RefusedOnlyIfTorn)'
<1>1. reader' = "none" /\ records_' = <<>> /\ offset_' = 0 /\ Len(records_') = 0
  BY DEF NotRead
<1> QED
  BY <1>1 DEF ReaderPlace, HeaderPlace, RefusedOnlyIfTorn

\* Retrieving moves the read index, or empties the Buffer.
LEMMA RetrievedLemma ==
    ASSUME NEW h \in HeaderReader, h.r <= h.w, NEW n \in Nat
    PROVE  LET g == Retrieved(h, n)
           IN  /\ g \in HeaderReader /\ g.r <= g.w
               /\ g.len = h.len /\ g.read = h.read /\ g.found = h.found
               /\ n < h.w - h.r => g.r = h.r + n /\ g.w = h.w
               /\ ~(n < h.w - h.r) => g.r = 0 /\ g.w = 0
<1>1. /\ h.r \in Nat /\ h.w \in {0, HeaderLen} /\ h.w \in Nat
      /\ h = [r |-> h.r, w |-> h.w, len |-> h.len, read |-> h.read,
              found |-> h.found]
  BY HeaderAssumption DEF HeaderReader
<1>2. CASE n < h.w - h.r
  <2>1. Retrieved(h, n) = [h EXCEPT !.r = h.r + n]
    BY <1>2 DEF Retrieved
  <2>2. h.r + n \in Nat /\ h.r + n <= h.w
    BY <1>1, <1>2
  <2> QED
    BY <1>1, <1>2, <2>1, <2>2 DEF HeaderReader
<1>3. CASE ~(n < h.w - h.r)
  <2>1. Retrieved(h, n) = [h EXCEPT !.r = 0, !.w = 0]
    BY <1>3 DEF Retrieved
  <2>2. Retrieved(h, n) = [r |-> 0, w |-> 0, len |-> h.len, read |-> h.read,
                           found |-> h.found]
    BY <1>1, <2>1
  <2> QED
    BY <1>3, <2>2 DEF HeaderReader
<1> QED
  BY <1>2, <1>3

\* A reader of a header stands behind its first length.
LEMMA NewReaderLemma ==
    ASSUME NEW b \in Bytes
    PROVE  LET g == NewReader(b)
           IN  /\ g \in HeaderReader /\ g.r <= g.w
               /\ g.len = IntAt(b, 0) /\ g.read = 0 /\ g.found = {}
               /\ IntLen < HeaderLen => g.r = IntLen /\ g.w = HeaderLen
<1> DEFINE h == [r |-> 0, w |-> Len(b), len |-> IntAt(b, 0), read |-> 0,
                 found |-> {}]
<1>1. IntLen \in Nat /\ HeaderLen \in Nat /\ IntLen <= HeaderLen
  <2>1. /\ Total(FirstLens) \in Nat
        /\ IntLen + Total(FirstLens) <= HeaderLen
    BY RecordLemma DEF Lens
  <2> QED
    BY <2>1, HeaderAssumption
<1>2. IntAt(b, 0) \in Nat
  BY <1>1, IntAtLemma
<1>3. Len(b) = HeaderLen
  BY BytesAreSequences
<1>4. h \in HeaderReader
  BY <1>2, <1>3 DEF HeaderReader
<1>5. h.r = 0 /\ h.w = HeaderLen /\ h.r <= h.w
  BY <1>1, <1>3
<1>6. h.len = IntAt(b, 0) /\ h.read = 0 /\ h.found = {}
  OBVIOUS
<1>7. NewReader(b) = Retrieved(h, IntLen)
  BY DEF NewReader
<1> HIDE DEF h
<1> DEFINE g == Retrieved(h, IntLen)
<1>8. /\ g \in HeaderReader /\ g.r <= g.w
      /\ g.len = h.len /\ g.read = h.read /\ g.found = h.found
      /\ IntLen < h.w - h.r => g.r = h.r + IntLen /\ g.w = h.w
  BY <1>1, <1>4, <1>5, RetrievedLemma
<1> HIDE DEF g
<1> QED
  BY <1>1, <1>5, <1>6, <1>7, <1>8 DEF g

\* Overwriting changes no length, and nothing at all if it did not begin.
LEMMA OverwrittenLemma ==
    ASSUME header \in Bytes, NEW new \in Bytes, NEW k \in 0..HeaderLen
    PROVE  /\ Overwritten(new, k) \in Bytes
           /\ k = 0 => Overwritten(new, k) = header
<1> DEFINE a == SubSeq(new, 1, k)
           b == SubSeq(header, k + 1, HeaderLen)
<1>1. /\ new \in Seq(Nat) /\ Len(new) = HeaderLen
      /\ header \in Seq(Nat) /\ Len(header) = HeaderLen
      /\ HeaderLen \in Nat /\ k \in Nat /\ k <= HeaderLen
  BY BytesAreSequences, HeaderAssumption
<1>2. a \in Seq(Nat) /\ Len(a) = k
  BY <1>1
<1>3. b \in Seq(Nat) /\ Len(b) = HeaderLen - k
  BY <1>1
<1>4. Overwritten(new, k) = a \o b
  BY DEF Overwritten
<1>5. a \o b \in Bytes
  <2> HIDE DEF a, b
  <2>1. a \o b \in Seq(Nat) /\ Len(a \o b) = Len(a) + Len(b)
    BY <1>2, <1>3, Concatenated
  <2>2. Len(a \o b) = HeaderLen
    BY <1>1, <1>2, <1>3, <2>1
  <2> QED
    BY <2>1, <2>2, BytesAreSequences
<1>6. ASSUME k = 0
      PROVE  a \o b = header
  <2>1. a = <<>>
    BY <1>1, <1>2, <1>6
  <2>2. b = header
    BY <1>1, <1>6
  <2> HIDE DEF a, b
  <2>3. /\ a \o b \in Seq(Nat) /\ Len(a) = 0
        /\ \A j \in 1..Len(b) : (a \o b)[Len(a) + j] = b[j]
    BY <1>2, <1>3, <1>6, Concatenated
  <2>4. \A j \in 1..HeaderLen : (a \o b)[j] = header[j]
    BY <1>1, <2>2, <2>3
  <2> DEFINE c == a \o b
  <2> HIDE DEF c
  <2>5. c = [j \in 1..HeaderLen |-> c[j]]
    BY <1>5 DEF Bytes, c
  <2>6. header = [j \in 1..HeaderLen |-> header[j]]
    BY DEF Bytes
  <2>7. c = header
    BY <2>4, <2>5, <2>6 DEF c
  <2> QED
    BY <2>7 DEF c
<1> QED
  BY <1>4, <1>5, <1>6

-----------------------------------------------------------------------------
(* The steps of the writer *)

LEMMA InitInv == Init => IInv
<1> SUFFICES ASSUME Init
             PROVE  IInv
  OBVIOUS
<1> USE DEF Init
<1>1. Types
  <2>1. NoHeader \in Bytes
    BY HeaderTypes
  <2>2. hdr \in HeaderReader /\ hdr.r <= hdr.w
    BY <2>1, NewReaderLemma
  <2> QED
    BY <2>1, <2>2 DEF Types, NextWrite
<1>2. HeaderWritten
  BY DEF HeaderWritten, InRecord
<1>3. Contiguous
  BY DEF Contiguous
<1>4. SizeWritten
  BY DEF SizeWritten, InRecord
<1>5. ReaderPlace /\ HeaderPlace /\ RefusedOnlyIfTorn
  BY DEF ReaderPlace, HeaderPlace, RefusedOnlyIfTorn
<1> QED
  BY <1>1, <1>2, <1>3, <1>4, <1>5 DEF IInv

LEMMA WriteStep ==
    ASSUME IInv, Write
    PROVE  IInv'
<1>1. NotRead
  BY NotReadLemma DEF Write, Writing, Ended, NextWrite
<1>2. (ReaderPlace /\ HeaderPlace /\ RefusedOnlyIfTorn)'
  BY <1>1, UnreadLemma DEF Write
<1>3. Types /\ HeaderWritten /\ Contiguous /\ SizeWritten
  BY DEF IInv
<1>4. /\ LastEnd \in Nat /\ HeaderEnd <= LastEnd
      /\ recs # <<>> => /\ Last(recs) \in Record
                        /\ LastEnd = End(Last(recs))
  BY <1>3, LastEndLemma
<1>5. recs # <<>> =>
         /\ Last(recs).start \in Nat /\ Last(recs).topic \in Nat \ {0}
         /\ Last(recs).body \in Nat /\ WordLen \in Nat
         /\ StampEnd(Last(recs)) = Last(recs).start + 2 * WordLen
         /\ LineEnd(Last(recs)) = Last(recs).start + 2 * WordLen + Last(recs).topic + 1
         /\ End(Last(recs)) = LineEnd(Last(recs)) + Last(recs).body
  BY <1>4, RecordParts
<1>6. recs' = recs /\ LastEnd' = LastEnd
  BY DEF Write, LastEnd, Last
<1>7. Contiguous'
  BY <1>3, <1>6 DEF Contiguous
<1>8. WriteLen \in Nat
  BY <1>3, <1>5, HeaderEndType DEF WriteLen, SizeWritten, InRecord, Write,
     Writing, NextWrite
<1>9. HeaderWritten'
  BY <1>3 DEF HeaderWritten, InRecord, Write, Writing, NextWrite
<1>10. SizeWritten'
  <2>1. CASE writer = "version"
    BY <1>3, <1>6, <2>1, HeaderEndType
       DEF SizeWritten, InRecord, Write, WriteLen, NextWrite
  <2>2. CASE writer = "header"
    BY <1>3, <1>6, <2>2, HeaderEndType
       DEF SizeWritten, InRecord, Write, WriteLen, NextWrite, LastEnd, HeaderEnd
  <2>3. CASE writer = "size"
    BY <1>3, <1>6, <2>3 DEF SizeWritten, InRecord, Write, WriteLen, NextWrite, Last
  <2>4. CASE writer = "stamp"
    <3>1. recs # <<>> /\ file_size = Last(recs).start + WordLen
      BY <1>3, <2>4 DEF SizeWritten, InRecord
    <3>2. file_size' = Last(recs).start + WordLen + WordLen /\ writer' = "topic"
      BY <2>4, <3>1 DEF Write, WriteLen, NextWrite
    <3>3. file_size' = StampEnd(Last(recs))
      BY <1>5, <3>1, <3>2
    <3> QED
      BY <1>6, <3>1, <3>2, <3>3 DEF SizeWritten, InRecord
  <2>5. CASE writer = "topic"
    BY <1>3, <1>6, <2>5 DEF SizeWritten, InRecord, Write, WriteLen, NextWrite, Last
  <2>6. CASE writer = "newline"
    BY <1>3, <1>5, <1>6, <2>6 DEF SizeWritten, InRecord, Write, WriteLen, NextWrite
  <2>7. CASE writer = "body"
    <3>1. recs # <<>> /\ file_size = LineEnd(Last(recs))
      BY <1>3, <2>7 DEF SizeWritten, InRecord
    <3>2. file_size' = LineEnd(Last(recs)) + Last(recs).body /\ writer' = "idle"
      BY <2>7, <3>1 DEF Write, WriteLen, NextWrite
    <3> QED
      BY <1>4, <1>5, <1>6, <3>1, <3>2 DEF SizeWritten, InRecord
  <2> QED
    BY <2>1, <2>2, <2>3, <2>4, <2>5, <2>6, <2>7 DEF Write, Writing, NextWrite
<1>11. Types'
  <2>1. header' \in Bytes
    BY <1>3, HeaderTypes DEF Write, Types
  <2>2. file_size' \in Nat /\ file_size <= file_size'
    BY <1>3, <1>8 DEF Write, Types
  <2>3. writer' \in DOMAIN NextWrite \union {"idle"}
    BY DEF Write, Writing, NextWrite
  <2> QED
    BY <1>1, <1>3, <2>1, <2>2, <2>3 DEF Write, Types, NotRead
<1> QED
  BY <1>2, <1>7, <1>9, <1>10, <1>11 DEF IInv

LEMMA BeginRecordStep ==
    ASSUME IInv, BeginRecord
    PROVE  IInv'
<1>1. NotRead
  BY NotReadLemma DEF BeginRecord, Ended
<1>2. (ReaderPlace /\ HeaderPlace /\ RefusedOnlyIfTorn)'
  BY <1>1, UnreadLemma DEF BeginRecord
<1>3. /\ Types /\ HeaderWritten /\ Contiguous /\ SizeWritten
      /\ writer = "idle" /\ file_size = LastEnd /\ writer' = "size"
  BY DEF IInv, BeginRecord, SizeWritten
<1>4. /\ LastEnd \in Nat /\ HeaderEnd <= LastEnd
      /\ recs # <<>> => LastEnd = End(recs[Len(recs)])
      /\ \A k \in 1..Len(recs) : End(recs[k]) <= LastEnd
  BY <1>3, LastEndLemma
<1>5. PICK t \in TopicLens, b \in BodyLens :
         recs' = Append(recs, [start |-> file_size, topic |-> t, body |-> b])
  BY DEF BeginRecord
<1> DEFINE r == [start |-> file_size, topic |-> t, body |-> b]
           n == Len(recs)
<1>6. r \in Record /\ r.start = LastEnd
  BY <1>3 DEF Types, Record
<1>7. recs \in Seq(Record) /\ n \in Nat
  BY <1>3 DEF Types
<1>8. /\ recs' \in Seq(Record) /\ Len(recs') = n + 1 /\ recs'[n + 1] = r
      /\ \A k \in 1..n : recs'[k] = recs[k]
      /\ Last(recs') = r /\ recs' # <<>>
  <2> HIDE DEF r
  <2>1. /\ Append(recs, r) \in Seq(Record) /\ Len(Append(recs, r)) = n + 1
        /\ Append(recs, r)[n + 1] = r
        /\ \A k \in 1..n : Append(recs, r)[k] = recs[k]
    BY <1>6, <1>7
  <2>2. recs' = Append(recs, r)
    BY <1>5 DEF r
  <2> QED
    BY <1>7, <2>1, <2>2 DEF Last
<1> HIDE DEF r
<1>9. Contiguous'
  <2>1. recs'[1].start = HeaderEnd
    <3>1. CASE n = 0
      <4>1. recs = <<>>
        BY <1>7, <3>1
      <4> QED
        BY <1>6, <1>8, <3>1, <4>1 DEF LastEnd
    <3>2. CASE n # 0
      <4>1. recs # <<>> /\ 1 \in 1..n
        BY <1>7, <3>2
      <4> QED
        BY <1>3, <1>8, <4>1 DEF Contiguous
    <3> QED
      BY <3>1, <3>2
  <2>2. ASSUME NEW k \in 1..((n + 1) - 1)
        PROVE  recs'[k + 1].start = End(recs'[k])
    <3>1. k \in 1..n /\ recs'[k] = recs[k]
      BY <1>7, <1>8
    <3>2. CASE k = n
      <4>1. recs # <<>>
        BY <1>7, <3>1
      <4> QED
        BY <1>4, <1>6, <1>8, <3>1, <3>2, <4>1
    <3>3. CASE k # n
      <4>1. k \in 1..(n - 1) /\ k + 1 \in 1..n
        BY <1>7, <3>1, <3>3
      <4> QED
        BY <1>3, <1>8, <3>1, <4>1 DEF Contiguous
    <3> QED
      BY <3>2, <3>3
  <2>3. ASSUME NEW k \in 1..(n + 1)
        PROVE  /\ HeaderEnd <= recs'[k].start
               /\ \A j \in 1..(k - 1) : End(recs'[j]) <= recs'[k].start
    <3>1. CASE k = n + 1
      <4>1. \A j \in 1..(k - 1) : j \in 1..n
        BY <1>7, <3>1
      <4> QED
        BY <1>4, <1>6, <1>8, <3>1, <4>1
    <3>2. CASE k # n + 1
      <4>1. k \in 1..n /\ \A j \in 1..(k - 1) : j \in 1..n
        BY <1>7, <3>2
      <4> QED
        BY <1>3, <1>8, <4>1 DEF Contiguous
    <3> QED
      BY <3>1, <3>2
  <2> QED
    BY <1>8, <2>1, <2>2, <2>3 DEF Contiguous
<1>10. SizeWritten'
  <2>1. file_size' = Last(recs').start
    BY <1>3, <1>6, <1>8 DEF BeginRecord, disk
  <2> QED
    BY <1>3, <1>8, <2>1 DEF SizeWritten, InRecord
<1>11. HeaderWritten'
  BY <1>3 DEF HeaderWritten, InRecord, BeginRecord, disk
<1>12. Types'
  BY <1>3, <1>8 DEF Types, BeginRecord, disk, NextWrite
<1> QED
  BY <1>2, <1>9, <1>10, <1>11, <1>12 DEF IInv

LEMMA CloseStep ==
    ASSUME IInv, Close
    PROVE  IInv'
<1>1. NotRead
  BY NotReadLemma DEF Close, Ended
<1>2. (ReaderPlace /\ HeaderPlace /\ RefusedOnlyIfTorn)'
  BY <1>1, UnreadLemma DEF Close
<1>3. Types' /\ HeaderWritten' /\ Contiguous' /\ SizeWritten'
  BY DEF IInv, Close, disk, Types, HeaderWritten, Contiguous, SizeWritten,
     InRecord, LastEnd, Last
<1> QED
  BY <1>2, <1>3 DEF IInv

LEMMA RewriteStep ==
    ASSUME IInv, Rewrite
    PROVE  IInv'
<1>1. NotRead
  BY NotReadLemma DEF Rewrite, Ended
<1>2. (ReaderPlace /\ HeaderPlace /\ RefusedOnlyIfTorn)'
  BY <1>1, UnreadLemma DEF Rewrite
<1>3. LastHeader \in Bytes
  BY HeaderTypes
<1>4. Types' /\ HeaderWritten' /\ Contiguous' /\ SizeWritten'
  BY <1>3 DEF IInv, Rewrite, Types, HeaderWritten, Contiguous, SizeWritten,
     InRecord, LastEnd, Last
<1> QED
  BY <1>2, <1>4 DEF IInv

LEMMA CrashStep ==
    ASSUME IInv, Crash
    PROVE  IInv'
<1>1. NotRead
  BY NotReadLemma DEF Crash, Ended, Writing, NextWrite
<1>2. (ReaderPlace /\ HeaderPlace /\ RefusedOnlyIfTorn)'
  BY <1>1, UnreadLemma DEF Crash
<1>3. /\ Types /\ HeaderWritten /\ Contiguous /\ SizeWritten
      /\ recs' = recs /\ records_' = records_ /\ offset_' = offset_
      /\ hdr' = hdr /\ reader' = reader /\ writer' = "crashed"
      /\ file_size \in Nat /\ header \in Bytes
  BY DEF IInv, Crash, Types
<1>4. Contiguous'
  BY <1>3 DEF Contiguous
<1>5. /\ LastEnd \in Nat /\ HeaderEnd <= LastEnd
      /\ recs # <<>> => /\ Last(recs) \in Record
                        /\ LastEnd = End(Last(recs))
                        /\ HeaderEnd <= Last(recs).start
  BY <1>3, LastEndLemma
<1>6. recs # <<>> =>
         /\ Last(recs).start \in Nat /\ Last(recs).topic \in Nat \ {0}
         /\ Last(recs).body \in Nat /\ WordLen \in Nat
         /\ StampEnd(Last(recs)) = Last(recs).start + 2 * WordLen
         /\ LineEnd(Last(recs)) = Last(recs).start + 2 * WordLen + Last(recs).topic + 1
         /\ End(Last(recs)) = LineEnd(Last(recs)) + Last(recs).body
  BY <1>5, RecordParts
<1>7. LastEnd' = LastEnd /\ Last(recs') = Last(recs)
  BY <1>3 DEF LastEnd, Last
<1>8. FirstHeader \in Bytes /\ LastHeader \in Bytes
  BY HeaderTypes
<1> DEFINE Goal == /\ header' \in Bytes /\ file_size' \in Nat
                   /\ file_size' <= LastEnd
                   /\ recs # <<>> => Last(recs).start <= file_size'
                   /\ file_size' <= VersionLen => header' = NoHeader
<1>9. ASSUME writer = "idle" /\ UNCHANGED disk
      PROVE  Goal
  <2>1. file_size = LastEnd /\ file_size' = file_size /\ header' = header
    BY <1>3, <1>9 DEF SizeWritten, disk
  <2> QED
    BY <1>3, <1>5, <1>6, <2>1, HeaderEndType
<1>10. ASSUME /\ writer = "header"
              /\ \E k \in 0..HeaderLen :
                    /\ header' = Overwritten(FirstHeader, k)
                    /\ file_size' = file_size + k
       PROVE  Goal
  <2>1. PICK k \in 0..HeaderLen : /\ header' = Overwritten(FirstHeader, k)
                                  /\ file_size' = file_size + k
    BY <1>10
  <2>2. header' \in Bytes /\ (k = 0 => header' = header)
    BY <1>3, <1>8, <2>1, OverwrittenLemma
  <2>3. recs = <<>> /\ file_size = VersionLen /\ header = NoHeader
    BY <1>3, <1>10 DEF SizeWritten, HeaderWritten
  <2>4. /\ file_size' \in Nat /\ file_size' <= HeaderEnd
        /\ file_size' <= VersionLen => k = 0
    BY <2>1, <2>3, HeaderEndType
  <2> QED
    BY <1>5, <2>2, <2>3, <2>4, HeaderEndType
<1>11. ASSUME /\ writer = "rewrite"
              /\ \E k \in 0..HeaderLen : header' = Overwritten(LastHeader, k)
              /\ UNCHANGED file_size
       PROVE  Goal
  <2>1. header' \in Bytes
    BY <1>3, <1>8, <1>11, OverwrittenLemma
  <2>2. file_size = LastEnd /\ file_size' = file_size
    BY <1>3, <1>11 DEF SizeWritten
  <2> QED
    BY <1>3, <1>5, <1>6, <2>1, <2>2, HeaderEndType
<1>12. ASSUME /\ Writing /\ writer # "header"
              /\ file_size' \in file_size..(file_size + WriteLen)
              /\ UNCHANGED header
       PROVE  Goal
  <2>1. CASE writer = "version"
    <3>1. WriteLen = VersionLen /\ file_size = 0 /\ recs = <<>>
      BY <1>3, <2>1 DEF WriteLen, SizeWritten
    <3>2. header' = NoHeader
      BY <1>3, <1>12, <2>1 DEF HeaderWritten
    <3>3. file_size' \in 0..(0 + VersionLen)
      BY <1>12, <3>1
    <3> QED
      BY <1>3, <1>5, <1>12, <3>1, <3>2, <3>3, HeaderEndType
  <2>2. CASE InRecord
    <3>1. recs # <<>>
      BY <1>3, <2>2 DEF SizeWritten
    <3>2. /\ Last(recs).start <= file_size
          /\ WriteLen \in Nat /\ file_size + WriteLen <= End(Last(recs))
      <4>1. CASE writer = "size"
        <5>1. file_size = Last(recs).start /\ WriteLen = WordLen
          BY <1>3, <4>1 DEF SizeWritten, WriteLen
        <5> QED
          BY <1>6, <3>1, <5>1
      <4>2. CASE writer = "stamp"
        <5>1. file_size = Last(recs).start + WordLen /\ WriteLen = WordLen
          BY <1>3, <4>2 DEF SizeWritten, WriteLen
        <5> QED
          BY <1>6, <3>1, <5>1
      <4>3. CASE writer = "topic"
        <5>1. file_size = StampEnd(Last(recs)) /\ WriteLen = Last(recs).topic
          BY <1>3, <4>3 DEF SizeWritten, WriteLen
        <5> QED
          BY <1>6, <3>1, <5>1
      <4>4. CASE writer = "newline"
        <5>1. /\ file_size = StampEnd(Last(recs)) + Last(recs).topic
              /\ WriteLen = 1
          BY <1>3, <4>4 DEF SizeWritten, WriteLen
        <5> QED
          BY <1>6, <3>1, <5>1
      <4>5. CASE writer = "body"
        <5>1. file_size = LineEnd(Last(recs)) /\ WriteLen = Last(recs).body
          BY <1>3, <4>5 DEF SizeWritten, WriteLen
        <5> QED
          BY <1>6, <3>1, <5>1
      <4> QED
        BY <2>2, <4>1, <4>2, <4>3, <4>4, <4>5 DEF InRecord
    <3>3. HeaderEnd <= file_size
      BY <1>3, <1>5, <1>6, <3>1, <3>2, HeaderEndType
    <3>4. file_size' \in Nat /\ file_size <= file_size' /\ file_size' <= LastEnd
      BY <1>3, <1>5, <1>6, <1>12, <3>1, <3>2
    <3>5. header' \in Bytes
      BY <1>3, <1>12
    <3> QED
      BY <1>3, <1>6, <3>1, <3>2, <3>3, <3>4, <3>5, HeaderEndType
  <2> QED
    BY <1>12, <2>1, <2>2 DEF Writing, NextWrite, InRecord
<1>13. Goal
  <2> HIDE DEF Goal
  <2> QED
    BY <1>9, <1>10, <1>11, <1>12 DEF Crash
<1>14. HeaderWritten' /\ SizeWritten'
  BY <1>3, <1>7, <1>13 DEF HeaderWritten, SizeWritten, InRecord
<1>15. Types'
  BY <1>1, <1>3, <1>13 DEF Types, NotRead
<1> QED
  BY <1>2, <1>4, <1>14, <1>15 DEF IInv

-----------------------------------------------------------------------------
(* The steps of the reader *)

\* The reader leaves what was written alone.
LEMMA WrittenUnchanged ==
    ASSUME IInv, UNCHANGED <<writer, disk, recs>>
    PROVE  /\ (HeaderWritten /\ Contiguous /\ SizeWritten)'
           /\ HeaderTorn' = HeaderTorn /\ Ended' = Ended
           /\ Complete' = Complete
<1>1. /\ writer' = writer /\ file_size' = file_size /\ header' = header
      /\ recs' = recs
  BY DEF disk
<1>2. HeaderWritten' /\ Contiguous' /\ SizeWritten'
  BY <1>1 DEF IInv, HeaderWritten, Contiguous, SizeWritten, InRecord, LastEnd,
     Last
<1>3. HeaderTorn' = HeaderTorn /\ Ended' = Ended /\ Complete' = Complete
  BY <1>1 DEF HeaderTorn, Ended, Complete
<1> QED
  BY <1>2, <1>3

\* What OpenRead finds first in a header that was written in full.
LEMMA FirstField ==
    ASSUME header \in {FirstHeader, LastHeader},
           hdr' = NewReader(header), header' = header
    PROVE  \E lens \in Lens : BeforeField(lens, 1)'
<1>1. PICK lens \in Lens : header = HeaderRecord(lens)
  BY HeaderTypes
<1>2. /\ Total(lens) \in Nat /\ IntLen + Total(lens) <= HeaderLen
      /\ header \in Bytes /\ header[1] = Total(lens)
      /\ \A k \in 2..IntLen : header[k] = 0
  BY <1>1, RecordLemma
<1>3. IntLen \in Nat \ {0} /\ HeaderLen \in Nat
  BY HeaderAssumption
<1>4. IntAt(header, 0) = Total(lens)
  <2>1. \A k \in 2..IntLen : 0 + k = k
    BY <1>3
  <2>2. 0 + 1 = 1 /\ 0 + IntLen <= HeaderLen /\ 0 \in Nat
    BY <1>2, <1>3
  <2> QED
    BY <1>2, <2>1, <2>2, IntAtLemma
<1>5. /\ hdr'.len = Total(lens) /\ hdr'.read = 0 /\ hdr'.found = {}
      /\ IntLen < HeaderLen => hdr'.r = IntLen /\ hdr'.w = HeaderLen
  BY <1>2, <1>4, NewReaderLemma
<1>6. Start(lens, 1) = 0
  <2>1. Appended(lens)[0] = <<>>
    BY AppendedStep
  <2>2. Start(lens, 1) = Len(Appended(lens)[1 - 1]) /\ 1 - 1 = 0
    BY DEF Start
  <2>3. Start(lens, 1) = Len(Appended(lens)[0])
    BY <2>2
  <2> QED
    BY <2>1, <2>3
<1>7. 1 \in Fields => IntLen < HeaderLen
  <2> SUFFICES ASSUME 1 \in Fields
               PROVE  IntLen < HeaderLen
    OBVIOUS
  <2>1. /\ IntLen + Start(lens, 1) \in Nat /\ TextLen(lens, 1) \in Nat
        /\ IntLen + Start(lens, 1) + (IntLen + TextLen(lens, 1))
              <= IntLen + Total(lens)
    BY FieldBytes
  <2> QED
    BY <1>2, <1>3, <1>6, <2>1
<1>8. {Name(j) : j \in 1..(1 - 1)} = {}
  OBVIOUS
<1>9. BeforeField(lens, 1)'
  BY <1>1, <1>3, <1>5, <1>6, <1>7, <1>8 DEF BeforeField
<1> QED
  BY <1>9

\* The text before the first "=" is a text.
LEMMA NameType ==
    ASSUME NEW text \in Seq(Nat), Contains(text, Eq)
    PROVE  NameIn(text) \in Seq(Nat)
<1> DEFINE I == {k \in 1..Len(text) : text[k] = Eq}
           pos == IF I # {} THEN CHOOSE x \in I : \A y \in I : x =< y ELSE 0
<1>1. I # {} /\ \A k \in I : k \in Int /\ 0 <= k /\ k \in 1..Len(text)
  BY DEF Contains
<1>2. pos \in I
  <2> HIDE DEF I
  <2>1. \E x \in I : \A y \in I : x <= y
    <3>1. 0 \in Int /\ \A k \in I : k \in Int /\ 0 <= k
      BY <1>1
    <3> QED
      BY <1>1, <3>1, LeastNumber
  <2> QED
    BY <1>1, <2>1
<1>3. NameIn(text) = SubSeq(text, 1, pos - 1)
  BY DEF NameIn, SelectInSeq, Min
<1>4. pos \in 1..Len(text)
  <2> HIDE DEF I, pos
  <2> QED
    BY <1>1, <1>2
<1> HIDE DEF pos
<1> QED
  BY <1>3, <1>4

\* A pass that stays inside the Buffer's vector leaves indices in order.
LEMMA ReadFieldType ==
    ASSUME NEW b \in Bytes, NEW h \in HeaderReader, h.r <= h.w,
           ~FieldOverruns(b, h)
    PROVE  ReadField(b, h) \in HeaderReader /\ ReadField(b, h).r <= ReadField(b, h).w
<1> DEFINE len == IntAt(b, h.r)
           lr == Retrieved(h, IntLen)
           text == Text(b, lr.r, len)
           g == Retrieved(lr, len)
<1>1. /\ IntLen \in Nat \ {0} /\ HeaderLen \in Nat
      /\ b \in Seq(Nat) /\ Len(b) = HeaderLen /\ h.r \in Nat
  BY HeaderAssumption, BytesAreSequences DEF HeaderReader
<1>2. h.r + IntLen <= HeaderLen
  BY <1>1 DEF FieldOverruns, Overruns
<1>3. len \in Nat
  BY <1>1, <1>2, IntAtLemma
<1>4. lr \in HeaderReader /\ lr.r <= lr.w
  BY <1>1, RetrievedLemma
<1>5. lr.r + len <= HeaderLen
  <2>1. ~Overruns(b, lr.r, len)
    BY DEF FieldOverruns
  <2>2. lr.r + len \in Nat
    BY <1>3, <1>4 DEF HeaderReader
  <2> QED
    BY <1>1, <2>1, <2>2 DEF Overruns
<1>6. g \in HeaderReader /\ g.r <= g.w
  <2> HIDE DEF lr, len
  <2> QED
    BY <1>3, <1>4, RetrievedLemma
<1>7. text \in Seq(Nat)
  <2>1. lr.r \in Nat
    BY <1>4 DEF HeaderReader
  <2> HIDE DEF lr, len
  <2> DEFINE from == lr.r
  <2>2. text = SubSeq(b, from + 1, from + len)
    BY DEF Text
  <2>3. from \in Nat /\ from + len <= HeaderLen
    BY <1>5, <2>1
  <2> HIDE DEF from
  <2> QED
    BY <1>1, <1>3, <2>2, <2>3
<1>8. ReadField(b, h) = IF Contains(text, Eq)
                        THEN [g EXCEPT !.read = @ + (len + IntLen),
                                       !.found = @ \union {NameIn(text)}]
                        ELSE g
  BY DEF ReadField
<1> HIDE DEF text, g, len
<1>9. CASE Contains(text, Eq)
  <2>1. NameIn(text) \in Seq(Nat)
    BY <1>7, <1>9, NameType
  <2>2. g.read + (len + IntLen) \in Nat
    BY <1>1, <1>3, <1>6 DEF HeaderReader
  <2>3. g.found \union {NameIn(text)} \in SUBSET Seq(Nat)
    BY <1>6, <2>1 DEF HeaderReader
  <2>4. g = [r |-> g.r, w |-> g.w, len |-> g.len, read |-> g.read,
             found |-> g.found]
    BY <1>6 DEF HeaderReader
  <2>5. ReadField(b, h) =
           [r |-> g.r, w |-> g.w, len |-> g.len,
            read |-> g.read + (len + IntLen),
            found |-> g.found \union {NameIn(text)}]
    BY <1>8, <1>9, <2>4
  <2> QED
    BY <1>6, <2>2, <2>3, <2>5 DEF HeaderReader
<1>10. CASE ~Contains(text, Eq)
  BY <1>6, <1>8, <1>10
<1> QED
  BY <1>9, <1>10

\* A pass over field i of a header that was written in full.
LEMMA FieldStep ==
    ASSUME NEW lens \in Lens, NEW i \in Fields, BeforeField(lens, i), Types
    PROVE  /\ ~FieldOverruns(header, hdr)
           /\ hdr' = ReadField(header, hdr) /\ header' = header =>
                BeforeField(lens, i + 1)'
<1> DEFINE at == IntLen + Start(lens, i)
           len == TextLen(lens, i)
           lr == Retrieved(hdr, IntLen)
           text == Text(header, at + IntLen, len)
           g == Retrieved(lr, len)
<1>1. /\ IntLen \in Nat \ {0} /\ HeaderLen \in Nat /\ header \in Bytes
      /\ Len(header) = HeaderLen
      /\ hdr \in HeaderReader /\ hdr.r <= hdr.w
  BY HeaderAssumption, BytesAreSequences DEF Types
<1>2. /\ header = HeaderRecord(lens) /\ hdr.len = Total(lens)
      /\ hdr.read = Start(lens, i)
      /\ hdr.found = {Name(j) : j \in 1..(i - 1)}
      /\ hdr.w = HeaderLen /\ hdr.r = at
  BY DEF BeforeField
<1>3. /\ at \in Nat /\ len \in Nat /\ 1 <= len
      /\ Len(Appended(lens)[i]) = Start(lens, i) + (IntLen + len)
      /\ at + (IntLen + len) <= IntLen + Total(lens)
  <2>1. NameLens[i] \in Nat
    BY LensTypes
  <2> QED
    BY <2>1, FieldBytes
<1>4. Total(lens) \in Nat /\ IntLen + Total(lens) <= HeaderLen
  BY RecordLemma
<1>5. IntAt(header, at) = len /\ Contains(text, Eq) /\ NameIn(text) = Name(i)
  BY <1>2, TextLemma
<1> HIDE DEF at, len
<1>6. /\ lr \in HeaderReader /\ lr.r <= lr.w
      /\ lr.len = hdr.len /\ lr.read = hdr.read /\ lr.found = hdr.found
      /\ lr.r = at + IntLen /\ lr.w = HeaderLen
  <2>1. IntLen < hdr.w - hdr.r
    BY <1>1, <1>2, <1>3, <1>4
  <2> QED
    BY <1>1, <1>2, <2>1, RetrievedLemma
<1>7. ~FieldOverruns(header, hdr)
  <2>1. ~(at + IntLen > HeaderLen) /\ ~((at + IntLen) + len > HeaderLen)
    BY <1>1, <1>3, <1>4
  <2> QED
    BY <1>1, <1>2, <1>5, <1>6, <2>1 DEF FieldOverruns, Overruns
<1>8. /\ g \in HeaderReader
      /\ g.len = hdr.len /\ g.read = hdr.read /\ g.found = hdr.found
      /\ len < HeaderLen - (at + IntLen) =>
            g.r = (at + IntLen) + len /\ g.w = HeaderLen
  <2> HIDE DEF lr
  <2> QED
    BY <1>3, <1>6, RetrievedLemma
<1>9. ReadField(header, hdr) =
         [g EXCEPT !.read = @ + (len + IntLen), !.found = @ \union {Name(i)}]
  BY <1>2, <1>5, <1>6 DEF ReadField
<1> HIDE DEF g
<1>10. g = [r |-> g.r, w |-> g.w, len |-> g.len, read |-> g.read,
            found |-> g.found]
  BY <1>8 DEF HeaderReader
<1>11. ASSUME hdr' = ReadField(header, hdr), header' = header
       PROVE  BeforeField(lens, i + 1)'
  <2>1. hdr' = [r |-> g.r, w |-> g.w, len |-> g.len,
                read |-> g.read + (len + IntLen),
                found |-> g.found \union {Name(i)}]
    BY <1>9, <1>10, <1>11
  <2>2. i \in Nat \ {0} /\ (i + 1) - 1 = i
    BY LensTypes
  <2>3. Start(lens, i + 1) = Len(Appended(lens)[i])
    BY <2>2 DEF Start
  <2>4. hdr'.read = Start(lens, i + 1) /\ hdr'.len = Total(lens)
    <3>1. Start(lens, i) \in Nat
      BY FieldPlace
    <3>2. Start(lens, i) + (IntLen + len) = Start(lens, i) + (len + IntLen)
      BY <1>1, <1>3, <3>1
    <3> QED
      BY <1>2, <1>3, <1>8, <2>1, <2>3, <3>2
  <2>5. hdr'.found = {Name(j) : j \in 1..((i + 1) - 1)}
    <3>1. 1..((i + 1) - 1) = (1..(i - 1)) \union {i}
      BY <2>2
    <3> QED
      BY <1>2, <1>8, <2>1, <3>1
  <2>6. ASSUME i + 1 \in Fields
        PROVE  hdr'.w = HeaderLen /\ hdr'.r = IntLen + Start(lens, i + 1)
    <3>1. /\ IntLen + Start(lens, i + 1) \in Nat /\ TextLen(lens, i + 1) \in Nat
          /\ (IntLen + Start(lens, i + 1)) + (IntLen + TextLen(lens, i + 1))
                <= IntLen + Total(lens)
      BY <2>6, FieldBytes
    <3>2. IntLen + Start(lens, i + 1) = (at + IntLen) + len
      <4>1. Start(lens, i) \in Nat
        BY FieldPlace
      <4> QED
        BY <1>1, <1>3, <2>3, <4>1 DEF at
    <3>3. len < HeaderLen - (at + IntLen)
      BY <1>1, <1>3, <1>4, <3>1, <3>2
    <3> QED
      BY <1>8, <2>1, <3>2, <3>3
  <2> QED
    BY <1>2, <1>11, <2>4, <2>5, <2>6 DEF BeforeField
<1> QED
  BY <1>7, <1>11

\* Outside its header nothing is refused while the file is whole.
LEMMA ShortFile ==
    ASSUME IInv, Ended
    PROVE  /\ file_size < HeaderEnd => writer = "crashed"
           /\ file_size = VersionLen => header = NoHeader
<1>1. /\ Types /\ HeaderWritten /\ Contiguous /\ SizeWritten
      /\ file_size \in Nat
  BY DEF IInv, Types
<1>2. LastEnd \in Nat /\ HeaderEnd <= LastEnd
  BY <1>1, LastEndLemma
<1>3. writer = "closed" => file_size = LastEnd
  BY <1>1 DEF SizeWritten
<1>4. file_size < HeaderEnd => writer = "crashed"
  BY <1>1, <1>2, <1>3, HeaderEndType DEF Ended
<1>5. file_size = VersionLen => header = NoHeader
  BY <1>1, <1>4, HeaderEndType DEF HeaderWritten
<1> QED
  BY <1>4, <1>5

\* Over a vector of zeros ReadHeader sees an empty header.
LEMMA NoHeaderLen == IntAt(NoHeader, 0) = 0
<1>1. /\ IntLen \in Nat \ {0} /\ HeaderLen \in Nat /\ NoHeader \in Bytes
      /\ IntLen <= HeaderLen
  <2>1. /\ Total(FirstLens) \in Nat
        /\ IntLen + Total(FirstLens) <= HeaderLen
    BY RecordLemma DEF Lens
  <2> QED
    BY <2>1, HeaderAssumption, HeaderTypes
<1>2. \A k \in 1..IntLen : NoHeader[0 + k] = 0
  BY <1>1 DEF NoHeader, Times, Zero
<1>3. 0 \in Nat /\ 0 + IntLen <= HeaderLen /\ 1 \in 1..IntLen
      /\ \A k \in 2..IntLen : k \in 1..IntLen
  BY <1>1
<1>4. IntAt(NoHeader, 0) = NoHeader[0 + 1]
  BY <1>1, <1>2, <1>3, IntAtLemma
<1> QED
  BY <1>2, <1>3, <1>4

LEMMA OpenReadStep ==
    ASSUME IInv, OpenRead
    PROVE  IInv'
<1>1. /\ Types /\ ReaderPlace /\ Ended /\ reader = "none"
      /\ file_size \in Nat /\ header \in Bytes
  BY DEF IInv, Types, OpenRead
<1>2. (HeaderWritten /\ Contiguous /\ SizeWritten)'
  BY WrittenUnchanged DEF OpenRead
<1>3. Ended' /\ records_ = <<>> /\ offset_ = 0 /\ Len(records_) = 0
  BY <1>1, WrittenUnchanged DEF OpenRead, ReaderPlace
<1>4. /\ records_' = records_ /\ offset_' = offset_ /\ recs' = recs
      /\ file_size' = file_size /\ header' = header /\ writer' = writer
  BY DEF OpenRead, disk
<1>5. /\ file_size < HeaderEnd => writer = "crashed"
      /\ file_size = VersionLen => header = NoHeader
  BY <1>1, ShortFile
<1>6. CASE file_size < VersionLen /\ reader' = "threw" /\ UNCHANGED hdr
  <2>1. Types'
    BY <1>1, <1>4, <1>6 DEF Types
  <2>2. ReaderPlace' /\ HeaderPlace'
    BY <1>3, <1>4, <1>6 DEF ReaderPlace, HeaderPlace
  <2>3. RefusedOnlyIfTorn'
    <3>1. file_size < VersionLen + HeaderLen /\ writer = "crashed"
      BY <1>1, <1>5, <1>6, HeaderEndType
    <3> QED
      BY <1>4, <1>6, <3>1 DEF RefusedOnlyIfTorn
  <2> QED
    BY <1>2, <2>1, <2>2, <2>3 DEF IInv
<1>7. CASE /\ file_size >= VersionLen
           /\ reader' = "header"
           /\ hdr' = NewReader(header)
  <2>1. Types'
    <3>1. hdr' \in HeaderReader /\ hdr'.r <= hdr'.w
      BY <1>1, <1>7, NewReaderLemma
    <3> QED
      BY <1>1, <1>4, <1>7, <3>1 DEF Types
  <2>2. ReaderPlace'
    BY <1>1, <1>3, <1>4, <1>7, HeaderEndType DEF ReaderPlace
  <2>3. header \in {FirstHeader, LastHeader} =>
           \E lens \in Lens, i \in 1..(Len(NameLens) + 1) : BeforeField(lens, i)'
    <3>1. 1 \in 1..(Len(NameLens) + 1)
      BY HeaderAssumption
    <3> QED
      BY <1>4, <1>7, <3>1, FirstField
  <2>4. file_size = VersionLen => hdr'.len = 0
    BY <1>1, <1>5, <1>7, NoHeaderLen, NewReaderLemma
  <2>5. HeaderPlace'
    BY <1>4, <1>7, <2>3, <2>4 DEF HeaderPlace
  <2>6. RefusedOnlyIfTorn'
    BY <1>7 DEF RefusedOnlyIfTorn
  <2> QED
    BY <1>2, <2>1, <2>2, <2>5, <2>6 DEF IInv
<1> QED
  BY <1>6, <1>7 DEF OpenRead

LEMMA ReadHeaderFieldStep ==
    ASSUME IInv, ReadHeaderField
    PROVE  IInv'
<1>1. /\ Types /\ ReaderPlace /\ HeaderPlace /\ Ended /\ reader = "header"
      /\ file_size \in Nat /\ header \in Bytes /\ hdr.read < hdr.len
      /\ hdr \in HeaderReader /\ hdr.r <= hdr.w
      /\ hdr.read \in Nat /\ hdr.len \in Nat
      /\ VersionLen <= file_size /\ records_ = <<>> /\ offset_ = 0
  BY DEF IInv, Types, ReadHeaderField, ReaderPlace, HeaderReader
<1>2. (HeaderWritten /\ Contiguous /\ SizeWritten)' /\ Ended'
  BY <1>1, WrittenUnchanged DEF ReadHeaderField
<1>3. /\ records_' = records_ /\ offset_' = offset_ /\ recs' = recs
      /\ file_size' = file_size /\ header' = header /\ writer' = writer
      /\ Len(records_) = 0
  BY <1>1 DEF ReadHeaderField, disk
<1>4. VersionLen < file_size
  <2>1. file_size # VersionLen
    BY <1>1 DEF HeaderPlace
  <2> QED
    BY <1>1, <2>1, HeaderEndType
<1>5. ASSUME header \in {FirstHeader, LastHeader}
      PROVE  \E lens \in Lens, i \in Fields : BeforeField(lens, i)
  <2>1. PICK lens \in Lens, i \in 1..(Len(NameLens) + 1) : BeforeField(lens, i)
    BY <1>1, <1>5 DEF HeaderPlace
  <2>2. Fields = 1..Len(NameLens) /\ Len(NameLens) \in Nat
    BY HeaderAssumption DEF Fields
  <2>3. i # Len(NameLens) + 1
    <3> SUFFICES ASSUME i = Len(NameLens) + 1
                 PROVE  FALSE
      OBVIOUS
    <3>1. i - 1 = Len(NameLens)
      BY <2>2
    <3>2. hdr.read = hdr.len
      BY <2>1, <3>1 DEF BeforeField, Start, Total
    <3> QED
      BY <1>1, <3>2
  <2> QED
    BY <2>1, <2>2, <2>3
<1>6. CASE FieldOverruns(header, hdr) /\ reader' = "undefined" /\ UNCHANGED hdr
  <2>1. header \notin {FirstHeader, LastHeader}
    BY <1>1, <1>5, <1>6, FieldStep
  <2>2. HeaderTorn
    BY <1>4, <2>1 DEF HeaderTorn
  <2>3. writer = "crashed"
    <3>1. HeaderWritten
      BY DEF IInv
    <3> QED
      BY <1>1, <2>1, <3>1 DEF HeaderWritten, Ended
  <2>4. HeaderTorn' /\ writer' = "crashed"
    BY <1>3, <2>2, <2>3 DEF HeaderTorn
  <2>5. RefusedOnlyIfTorn'
    BY <1>6, <2>4 DEF RefusedOnlyIfTorn
  <2>6. Types'
    BY <1>1, <1>3, <1>6 DEF Types
  <2>7. ReaderPlace' /\ HeaderPlace'
    BY <1>1, <1>2, <1>3, <1>6 DEF ReaderPlace, HeaderPlace
  <2> QED
    BY <1>2, <2>5, <2>6, <2>7 DEF IInv
<1>7. CASE /\ ~FieldOverruns(header, hdr)
           /\ hdr' = ReadField(header, hdr)
           /\ UNCHANGED reader
  <2>1. hdr' \in HeaderReader /\ hdr'.r <= hdr'.w
    BY <1>1, <1>7, ReadFieldType
  <2>2. Types'
    BY <1>1, <1>3, <1>7, <2>1 DEF Types
  <2>3. ReaderPlace'
    BY <1>1, <1>2, <1>3, <1>7 DEF ReaderPlace
  <2>4. ASSUME header \in {FirstHeader, LastHeader}
        PROVE  \E lens \in Lens, i \in 1..(Len(NameLens) + 1) :
                  BeforeField(lens, i)'
    <3>1. PICK lens \in Lens, i \in Fields : BeforeField(lens, i)
      BY <1>5, <2>4
    <3>2. BeforeField(lens, i + 1)'
      BY <1>1, <1>3, <1>7, <3>1, FieldStep
    <3>3. i + 1 \in 1..(Len(NameLens) + 1)
      BY HeaderAssumption DEF Fields
    <3> QED
      BY <3>2, <3>3
  <2>5. HeaderPlace'
    BY <1>1, <1>3, <1>4, <1>7, <2>4, HeaderEndType DEF HeaderPlace
  <2>6. RefusedOnlyIfTorn'
    BY <1>1, <1>7 DEF RefusedOnlyIfTorn
  <2> QED
    BY <1>2, <2>2, <2>3, <2>5, <2>6 DEF IInv
<1> QED
  BY <1>6, <1>7 DEF ReadHeaderField

LEMMA HeaderReadStep ==
    ASSUME IInv, HeaderRead
    PROVE  IInv'
<1>1. /\ Types /\ ReaderPlace /\ HeaderPlace /\ Ended /\ reader = "header"
      /\ file_size \in Nat /\ hdr.read >= hdr.len
      /\ hdr.read \in Nat /\ hdr.len \in Nat
      /\ VersionLen <= file_size /\ records_ = <<>> /\ offset_ = 0
  BY DEF IInv, Types, HeaderRead, ReaderPlace, HeaderReader
<1>2. (HeaderWritten /\ Contiguous /\ SizeWritten)' /\ Ended'
  BY <1>1, WrittenUnchanged DEF HeaderRead
<1>3. /\ records_' = records_ /\ recs' = recs /\ hdr' = hdr
      /\ file_size' = file_size /\ header' = header /\ writer' = writer
      /\ Len(records_) = 0
  BY <1>1 DEF HeaderRead, disk
<1>4. ASSUME header \in {FirstHeader, LastHeader}
      PROVE  hdr.found = Names
  <2>1. PICK lens \in Lens, i \in 1..(Len(NameLens) + 1) : BeforeField(lens, i)
    BY <1>1, <1>4 DEF HeaderPlace
  <2>2. Fields = 1..Len(NameLens) /\ Len(NameLens) \in Nat /\ IntLen \in Nat \ {0}
    BY HeaderAssumption DEF Fields
  <2>3. i \notin Fields
    <3> SUFFICES ASSUME i \in Fields
                 PROVE  FALSE
      OBVIOUS
    <3>1. /\ IntLen + Start(lens, i) \in Nat /\ TextLen(lens, i) \in Nat
          /\ (IntLen + Start(lens, i)) + (IntLen + TextLen(lens, i))
                <= IntLen + Total(lens)
      BY FieldBytes
    <3>2. Start(lens, i) >= Total(lens)
      BY <1>1, <2>1 DEF BeforeField
    <3>3. Start(lens, i) \in Nat /\ Total(lens) \in Nat
      BY FieldPlace, RecordLemma
    <3> QED
      BY <2>2, <3>1, <3>2, <3>3
  <2>4. i - 1 = Len(NameLens)
    BY <2>2, <2>3
  <2> QED
    BY <2>1, <2>2, <2>4 DEF BeforeField, Names
<1>5. CASE /\ file_size >= VersionLen + HeaderLen
           /\ offset_' = VersionLen + HeaderLen
           /\ reader' = "reading"
  <2>1. HeaderEnd <= file_size /\ offset_' = HeaderEnd /\ VersionLen < file_size
    BY <1>1, <1>5, HeaderEndType
  <2>2. Types'
    BY <1>1, <1>3, <1>5, <2>1, HeaderEndType DEF Types
  <2>3. ReaderPlace'
    <3>1. Position' = HeaderEnd
      BY <1>1, <1>3 DEF Position
    <3> QED
      BY <1>1, <1>2, <1>3, <1>5, <2>1, <3>1 DEF ReaderPlace
  <2>4. HeaderPlace'
    <3>1. ~HeaderTorn => hdr.found = Names
      BY <1>4, <2>1 DEF HeaderTorn
    <3> QED
      BY <1>3, <1>5, <3>1 DEF HeaderPlace, HeaderTorn
  <2>5. RefusedOnlyIfTorn'
    BY <1>5 DEF RefusedOnlyIfTorn
  <2> QED
    BY <1>2, <2>2, <2>3, <2>4, <2>5 DEF IInv
<1>6. CASE /\ file_size < VersionLen + HeaderLen
           /\ reader' = "threw"
           /\ UNCHANGED offset_
  <2>1. writer = "crashed"
    BY <1>1, <1>6, ShortFile, HeaderEndType
  <2>2. RefusedOnlyIfTorn'
    BY <1>3, <1>6, <2>1 DEF RefusedOnlyIfTorn
  <2>3. Types'
    BY <1>1, <1>3, <1>6 DEF Types
  <2>4. ReaderPlace' /\ HeaderPlace'
    BY <1>1, <1>2, <1>3, <1>6 DEF ReaderPlace, HeaderPlace
  <2> QED
    BY <1>2, <2>2, <2>3, <2>4 DEF IInv
<1> QED
  BY <1>5, <1>6 DEF HeaderRead

\* While the file goes on the reader stands before a record that was begun.
LEMMA FollowingLemma ==
    ASSUME IInv, reader = "reading", offset_ < file_size
    PROVE  /\ Len(records_) \in Nat
           /\ Len(records_) + 1 \in 1..Len(recs)
           /\ Following \in Record /\ offset_ = Following.start
           /\ file_size <= LastEnd
           /\ \A k \in 1..Len(recs) :
                Len(records_) + 1 < k => End(Following) <= recs[k].start
<1> DEFINE m == Len(records_)
           n == Len(recs)
<1>1. /\ Types /\ Contiguous /\ SizeWritten /\ ReaderPlace /\ Ended
      /\ file_size \in Nat /\ offset_ \in Nat /\ m \in Nat /\ n \in Nat
  BY DEF IInv, Types, ReaderPlace
<1>2. /\ LastEnd \in Nat
      /\ recs # <<>> => LastEnd = End(recs[n])
      /\ \A k \in 1..n : recs[k] \in Record
  BY <1>1, LastEndLemma
<1>3. file_size <= LastEnd
  BY <1>1, <1>2 DEF SizeWritten, Ended
<1>4. offset_ = Position
  BY <1>1 DEF ReaderPlace
<1>5. m + 1 \in 1..n /\ offset_ = recs[m + 1].start
  <2>1. CASE records_ = <<>>
    <3>1. offset_ = HeaderEnd /\ m = 0
      BY <1>4, <2>1 DEF Position
    <3>2. recs # <<>>
      BY <1>1, <1>3, <3>1 DEF LastEnd
    <3>3. recs[1].start = HeaderEnd /\ 1 \in 1..n
      BY <1>1, <3>2 DEF Contiguous
    <3> QED
      BY <3>1, <3>3
  <2>2. CASE records_ # <<>>
    <3>1. m \in 1..m /\ offset_ = End(recs[m])
      BY <1>1, <1>4, <2>2 DEF Position, Types
    <3>2. m \in 1..n
      BY <1>1, <3>1 DEF ReaderPlace, Complete
    <3>3. m # n
      <4>1. recs # <<>>
        BY <3>2
      <4> QED
        BY <1>1, <1>2, <1>3, <3>1, <4>1
    <3>4. m \in 1..(n - 1)
      BY <1>1, <3>2, <3>3
    <3>5. recs[m + 1].start = End(recs[m])
      BY <1>1, <3>4 DEF Contiguous
    <3> QED
      BY <1>1, <3>1, <3>4, <3>5
  <2> QED
    BY <2>1, <2>2
<1>6. ASSUME NEW k \in 1..n, m + 1 < k
      PROVE  End(recs[m + 1]) <= recs[k].start
  <2>1. m + 1 \in 1..(k - 1)
    BY <1>1, <1>5, <1>6
  <2> QED
    BY <1>1, <2>1 DEF Contiguous
<1> QED
  BY <1>1, <1>2, <1>3, <1>5, <1>6 DEF Following

\* Where the reader gives up there is at most the end of that record.
LEMMA GivingUp ==
    ASSUME IInv, reader = "reading", offset_ < file_size,
           \/ ~PrefixReadable
           \/ /\ file_size >= LineEnd(Following)
              /\ ~EnoughData(LineEnd(Following), Following.body)
    PROVE  MissesAtMostTheLast
<1> DEFINE r == Following
           m == Len(records_)
<1>1. /\ m \in Nat /\ m + 1 \in 1..Len(recs)
      /\ r \in Record /\ offset_ = r.start
      /\ \A k \in 1..Len(recs) : m + 1 < k => End(r) <= recs[k].start
      /\ file_size \in Nat
      /\ \A k \in 1..Len(recs) : recs[k] \in Record
  BY FollowingLemma DEF IInv, Types
<1> HIDE DEF r
<1>2. /\ r.start \in Nat /\ r.topic \in Nat \ {0} /\ r.body \in Nat
      /\ StampEnd(r) = r.start + 2 * WordLen
      /\ LineEnd(r) = r.start + 2 * WordLen + r.topic + 1
      /\ End(r) = LineEnd(r) + r.body
      /\ LineEnd(r) \in Nat /\ End(r) \in Nat /\ WordLen \in Nat \ {0}
  BY <1>1, RecordParts
<1>3. file_size <= End(r)
  <2>1. CASE ~PrefixReadable
    <3>1. \/ ~(file_size - r.start > WordLen)
          \/ ~(file_size - (r.start + WordLen) > WordLen)
      BY <1>1, <2>1 DEF PrefixReadable, EnoughData
    <3>2. StampEnd(r) \in Nat /\ StampEnd(r) < End(r)
      BY <1>1, <1>2, RecordParts
    <3>3. file_size <= r.start + 2 * WordLen
      BY <1>1, <1>2, <3>1
    <3> QED
      BY <1>1, <1>2, <3>2, <3>3
  <2>2. CASE /\ file_size >= LineEnd(Following)
             /\ ~EnoughData(LineEnd(Following), Following.body)
    <3>1. ~(file_size - LineEnd(r) > r.body)
      BY <2>2 DEF r, EnoughData
    <3> QED
      BY <1>1, <1>2, <3>1
  <2> QED
    BY <2>1, <2>2
<1>4. ASSUME NEW k \in Complete, ~(k <= m)
      PROVE  End(recs[k]) = file_size
  <2>1. k \in 1..Len(recs) /\ End(recs[k]) <= file_size /\ recs[k] \in Record
    BY <1>1 DEF Complete
  <2>2. CASE k = m + 1
    <3>1. recs[k] = r
      BY <2>2 DEF r, Following
    <3> QED
      BY <1>1, <1>2, <1>3, <2>1, <3>1
  <2>3. CASE k # m + 1
    <3>1. m + 1 < k
      BY <1>1, <1>4, <2>1, <2>3
    <3>2. End(r) <= recs[k].start
      BY <1>1, <2>1, <3>1
    <3>3. recs[k].start < End(recs[k]) /\ recs[k].start \in Nat
          /\ End(recs[k]) \in Nat
      BY <2>1, RecordParts
    <3> QED
      BY <1>1, <1>2, <1>3, <2>1, <3>2, <3>3
  <2> QED
    BY <2>2, <2>3
<1> QED
  BY <1>4 DEF MissesAtMostTheLast

LEMMA ReadRecordsStep ==
    ASSUME IInv, ReadTopicIndexRecord100
    PROVE  IInv'
<1> DEFINE r == Following
           m == Len(records_)
<1>1. /\ Types /\ ReaderPlace /\ HeaderPlace /\ Ended
      /\ reader = "reading" /\ offset_ < file_size
      /\ file_size \in Nat /\ offset_ \in Nat /\ records_ \in Seq(Nat)
      /\ HeaderEnd <= file_size
  BY DEF IInv, Types, ReadTopicIndexRecord100, ReaderPlace
<1>2. /\ (HeaderWritten /\ Contiguous /\ SizeWritten)' /\ Ended'
      /\ HeaderTorn' = HeaderTorn /\ Complete' = Complete
  BY <1>1, WrittenUnchanged DEF ReadTopicIndexRecord100
<1>3. /\ recs' = recs /\ hdr' = hdr
      /\ file_size' = file_size /\ header' = header /\ writer' = writer
  BY DEF ReadTopicIndexRecord100, disk
<1>4. /\ m \in Nat /\ m + 1 \in 1..Len(recs)
      /\ r \in Record /\ offset_ = r.start /\ file_size <= LastEnd
      /\ \A k \in 1..Len(recs) : m + 1 < k => End(r) <= recs[k].start
      /\ r = recs[m + 1]
  BY <1>1, FollowingLemma DEF Following
<1>5. /\ r.start \in Nat /\ r.topic \in Nat \ {0} /\ r.body \in Nat
      /\ StampEnd(r) = r.start + 2 * WordLen
      /\ LineEnd(r) = r.start + 2 * WordLen + r.topic + 1
      /\ End(r) = LineEnd(r) + r.body
      /\ LineEnd(r) \in Nat /\ End(r) \in Nat /\ WordLen \in Nat \ {0}
  BY <1>4, RecordParts
<1>6. CASE ReadRecord
  <2>1. /\ records_' = Append(records_, m + 1) /\ offset_' = End(r)
        /\ reader' = "reading"
        /\ file_size >= LineEnd(r) /\ file_size - LineEnd(r) > r.body
    BY <1>1, <1>6 DEF ReadRecord, EnoughData
  <2> HIDE DEF r
  <2>2. /\ records_' \in Seq(Nat) /\ Len(records_') = m + 1
        /\ records_'[m + 1] = m + 1
        /\ \A i \in 1..m : records_'[i] = records_[i]
        /\ records_' # <<>>
    BY <1>1, <1>4, <2>1
  <2>3. End(r) < file_size
    BY <1>1, <1>5, <2>1
  <2>4. Types'
    BY <1>1, <1>3, <1>5, <2>1, <2>2, <2>3 DEF Types
  <2>5. ReaderPlace'
    <3>1. m + 1 \in Complete
      BY <1>1, <1>4, <1>5, <2>3 DEF Complete
    <3>2. \A i \in 1..(m + 1) : records_'[i] = i /\ i \in Complete
      <4>1. \A i \in 1..(m + 1) : i = m + 1 \/ i \in 1..m
        BY <1>4
      <4> QED
        BY <1>1, <2>2, <3>1, <4>1 DEF ReaderPlace
    <3>3. Position' = End(r)
      BY <1>3, <1>4, <2>2 DEF Position
    <3> QED
      BY <1>1, <1>2, <1>3, <2>1, <2>2, <3>2, <3>3 DEF ReaderPlace
  <2>6. HeaderPlace'
    BY <1>1, <1>2, <1>3, <2>1 DEF HeaderPlace
  <2>7. RefusedOnlyIfTorn'
    BY <2>1 DEF RefusedOnlyIfTorn
  <2> QED
    BY <1>2, <2>4, <2>5, <2>6, <2>7 DEF IInv
<1>7. CASE NotEnough
  <2>1. /\ records_' = records_ /\ offset_' = file_size /\ reader' = "reading"
    BY <1>1, <1>7 DEF NotEnough
  <2>2. MissesAtMostTheLast
    BY <1>1, <1>7, GivingUp DEF NotEnough
  <2>3. MissesAtMostTheLast'
    BY <1>2, <1>3, <2>1, <2>2 DEF MissesAtMostTheLast
  <2>4. Types'
    BY <1>1, <1>3, <2>1 DEF Types
  <2>5. ReaderPlace'
    BY <1>1, <1>2, <1>3, <2>1, <2>3 DEF ReaderPlace
  <2>6. HeaderPlace'
    BY <1>1, <1>2, <1>3, <2>1 DEF HeaderPlace
  <2>7. RefusedOnlyIfTorn'
    BY <2>1 DEF RefusedOnlyIfTorn
  <2> QED
    BY <1>2, <2>3, <2>4, <2>5, <2>6, <2>7 DEF IInv
<1>8. CASE TopicTorn
  <2>1. /\ reader' = "threw" /\ file_size < LineEnd(r)
        /\ file_size - (offset_ + WordLen) > WordLen
    BY <1>8 DEF TopicTorn, PrefixReadable, EnoughData
  <2>2. StampEnd(r) < file_size
    BY <1>1, <1>4, <1>5, <2>1
  <2>3. /\ recs # <<>> /\ Last(recs) = recs[Len(recs)] /\ Len(recs) \in Nat
        /\ LastEnd = End(Last(recs)) /\ Last(recs) \in Record
        /\ SizeWritten
    <3>1. recs # <<>>
      BY <1>4
    <3>2. Contiguous /\ SizeWritten
      BY DEF IInv
    <3> QED
      BY <1>1, <3>1, <3>2, LastEndLemma
  <2>4. Last(recs).start <= file_size /\ Last(recs).start \in Nat
        /\ End(Last(recs)) \in Nat /\ Last(recs).start < End(Last(recs))
    <3>1. /\ Last(recs).start \in Nat /\ End(Last(recs)) \in Nat
          /\ Last(recs).start < End(Last(recs))
      BY <2>3, RecordParts
    <3> QED
      BY <1>1, <2>3, <3>1 DEF SizeWritten, Ended
  <2>5. m + 1 = Len(recs)
    <3> SUFFICES ASSUME m + 1 # Len(recs)
                 PROVE  FALSE
      OBVIOUS
    <3>1. Len(recs) \in 1..Len(recs) /\ m + 1 < Len(recs)
      BY <1>4, <2>3
    <3>2. End(r) <= Last(recs).start
      BY <1>4, <2>3, <3>1
    <3> QED
      BY <1>1, <1>5, <2>1, <2>4, <3>2
  <2>6. r = Last(recs)
    BY <1>4, <2>3, <2>5
  <2>7. writer = "crashed"
    <3>1. file_size < LastEnd
      BY <1>1, <1>5, <2>1, <2>3, <2>6
    <3> QED
      BY <1>1, <2>3, <3>1 DEF SizeWritten, Ended
  <2>8. RefusedOnlyIfTorn'
    <3>1. /\ writer' = "crashed" /\ recs' # <<>>
          /\ StampEnd(Last(recs')) < file_size'
          /\ file_size' < LineEnd(Last(recs'))
      BY <1>3, <2>1, <2>2, <2>3, <2>6, <2>7
    <3> QED
      BY <2>1, <3>1 DEF RefusedOnlyIfTorn
  <2>9. Types' /\ ReaderPlace' /\ HeaderPlace'
    <3>1. CASE records_' = Append(records_, m + 1) /\ offset_' = NoPosition
      <4> HIDE DEF r
      <4>1. /\ records_' \in Seq(Nat) /\ Len(records_') = m + 1
            /\ records_'[m + 1] = m + 1
            /\ \A i \in 1..m : records_'[i] = records_[i]
        BY <1>1, <1>4, <3>1
      <4>2. Types'
        BY <1>1, <1>3, <2>1, <3>1, <4>1 DEF Types
      <4>3. \A i \in 1..(m + 1) : i = m + 1 \/ i \in 1..m
        BY <1>4
      <4> QED
        BY <1>1, <1>2, <1>3, <2>1, <4>1, <4>2, <4>3
           DEF ReaderPlace, HeaderPlace
    <3>2. CASE records_' = records_ /\ offset_' = file_size
      <4>1. Types'
        BY <1>1, <1>3, <2>1, <3>2 DEF Types
      <4> QED
        BY <1>1, <1>2, <1>3, <2>1, <3>2, <4>1 DEF ReaderPlace, HeaderPlace
    <3> QED
      BY <1>8, <3>1, <3>2 DEF TopicTorn
  <2> QED
    BY <1>2, <2>8, <2>9 DEF IInv
<1> QED
  BY <1>6, <1>7, <1>8 DEF ReadTopicIndexRecord100

LEMMA OpenedStep ==
    ASSUME IInv, Opened
    PROVE  IInv'
<1>1. /\ Types /\ ReaderPlace /\ HeaderPlace /\ Ended
      /\ reader = "reading" /\ offset_ >= file_size /\ offset_ = file_size
  BY DEF IInv, Types, Opened, ReaderPlace
<1>2. /\ (HeaderWritten /\ Contiguous /\ SizeWritten)' /\ Ended'
      /\ HeaderTorn' = HeaderTorn /\ Complete' = Complete
  BY <1>1, WrittenUnchanged DEF Opened
<1>3. /\ recs' = recs /\ hdr' = hdr /\ records_' = records_
      /\ file_size' = file_size /\ header' = header /\ writer' = writer
      /\ offset_' = offset_ /\ reader' = "opened"
  BY DEF Opened, disk
<1>4. Position' = Position /\ MissesAtMostTheLast' = MissesAtMostTheLast
  BY <1>2, <1>3 DEF Position, MissesAtMostTheLast
<1>5. Types'
  BY <1>1, <1>3 DEF Types
<1>6. ReaderPlace'
  BY <1>1, <1>2, <1>3, <1>4 DEF ReaderPlace
<1>7. HeaderPlace'
  BY <1>1, <1>2, <1>3 DEF HeaderPlace
<1>8. RefusedOnlyIfTorn'
  BY <1>3 DEF RefusedOnlyIfTorn
<1> QED
  BY <1>2, <1>5, <1>6, <1>7, <1>8 DEF IInv

LEMMA StutterStep ==
    ASSUME IInv, UNCHANGED vars
    PROVE  IInv'
<1>1. /\ Types /\ ReaderPlace /\ HeaderPlace /\ RefusedOnlyIfTorn
      /\ writer' = writer /\ file_size' = file_size /\ header' = header
      /\ recs' = recs /\ reader' = reader /\ hdr' = hdr
      /\ offset_' = offset_ /\ records_' = records_
  BY DEF IInv, vars
<1>2. /\ (HeaderWritten /\ Contiguous /\ SizeWritten)'
      /\ HeaderTorn' = HeaderTorn /\ Ended' = Ended
      /\ Complete' = Complete
  BY <1>1, WrittenUnchanged DEF disk
<1>3. Types'
  BY <1>1 DEF Types
<1>4. ReaderPlace'
  BY <1>1, <1>2 DEF ReaderPlace, Position, MissesAtMostTheLast
<1>5. HeaderPlace'
  BY <1>1, <1>2 DEF HeaderPlace, BeforeField
<1>6. RefusedOnlyIfTorn'
  BY <1>1, <1>2 DEF RefusedOnlyIfTorn
<1> QED
  BY <1>2, <1>3, <1>4, <1>5, <1>6 DEF IInv

LEMMA StepInv == IInv /\ [Next]_vars => IInv'
<1> SUFFICES ASSUME IInv, [Next]_vars
             PROVE  IInv'
  OBVIOUS
<1>1. CASE Write
  BY <1>1, WriteStep
<1>2. CASE BeginRecord
  BY <1>2, BeginRecordStep
<1>3. CASE Close
  BY <1>3, CloseStep
<1>4. CASE Rewrite
  BY <1>4, RewriteStep
<1>5. CASE Crash
  BY <1>5, CrashStep
<1>6. CASE OpenRead
  BY <1>6, OpenReadStep
<1>7. CASE ReadHeaderField
  BY <1>7, ReadHeaderFieldStep
<1>8. CASE HeaderRead
  BY <1>8, HeaderReadStep
<1>9. CASE ReadTopicIndexRecord100
  BY <1>9, ReadRecordsStep
<1>10. CASE Opened
  BY <1>10, OpenedStep
<1>11. CASE Done
  BY <1>11, StutterStep DEF Done
<1>12. CASE UNCHANGED vars
  BY <1>12, StutterStep
<1> QED
  BY <1>1, <1>2, <1>3, <1>4, <1>5, <1>6, <1>7, <1>8, <1>9, <1>10, <1>11, <1>12
     DEF Next, Reading

\* The invariant holds of every bag, wherever its writer dies.
THEOREM Invariance == Spec => []IInv
<1>1. Init => IInv
  BY InitInv
<1>2. IInv /\ [Next]_vars => IInv'
  BY StepInv
<1> QED
  BY <1>1, <1>2, PTL DEF Spec

-----------------------------------------------------------------------------
(* What the invariant says of every bag *)

\* For any lengths of names, values, topics and messages, and any crash, the
\* state of the file and of Bag::Open has the types it should have, the reader's
\* indices stay in its Buffer, and it stands within the file.
THEOREM TypeCorrect == Spec => []TypeOK
<1>1. IInv => TypeOK
  <2> SUFFICES ASSUME IInv
               PROVE  TypeOK
    OBVIOUS
  <2>1. Types /\ SizeWritten
    BY DEF IInv
  <2>2. /\ hdr.r \in Nat /\ hdr.w \in {0, HeaderLen} /\ hdr.len \in Nat
        /\ hdr.read \in Nat /\ hdr.r <= hdr.w
    BY <2>1 DEF Types, HeaderReader
  <2>3. hdr.r \in 0..hdr.w
    BY <2>2, HeaderAssumption
  <2> QED
    BY <2>1, <2>2, <2>3 DEF TypeOK, Types, SizeWritten, InRecord, Bytes
<1> QED
  BY Invariance, <1>1, PTL

\* Wherever the writer died, Bag::Open inserts records in order and each once,
\* and has read every field of a header that was written in full; the only
\* record that may be cut is the last one of a bag that it refuses.
THEOREM ReadsWholeRecordsCorrect == Spec => []ReadsWholeRecords
<1>1. IInv => ReadsWholeRecords
  <2> SUFFICES ASSUME IInv
               PROVE  ReadsWholeRecords
    OBVIOUS
  <2>1. ReaderPlace /\ HeaderPlace
    BY DEF IInv
  <2>2. reader = "reading" /\ offset_ < file_size => offset_ = Following.start
    BY FollowingLemma
  <2> QED
    BY <2>1, <2>2 DEF ReadsWholeRecords, ReaderPlace, HeaderPlace
<1> QED
  BY Invariance, <1>1, PTL

\* A bag that opens lacks at most one complete record, the one that ends with
\* the file: CheckEnoughDataToRead asks for one byte more than it needs.
THEOREM LosesAtMostTheLastCorrect == Spec => []LosesAtMostTheLast
<1>1. IInv => LosesAtMostTheLast
  <2> SUFFICES ASSUME IInv, reader = "opened", NEW k \in Complete,
                      ~(k <= Len(records_))
               PROVE  End(recs[k]) = file_size
    BY DEF LosesAtMostTheLast
  <2> DEFINE m == Len(records_)
  <2>1. /\ Types /\ Contiguous /\ ReaderPlace
        /\ m \in Nat /\ file_size \in Nat /\ recs \in Seq(Record)
    BY DEF IInv, Types
  <2>2. /\ offset_ = file_size
        /\ offset_ = Position \/ MissesAtMostTheLast
    BY <2>1 DEF ReaderPlace
  <2>3. k \in 1..Len(recs) /\ End(recs[k]) <= file_size /\ recs[k] \in Record
    BY <2>1 DEF Complete
  <2>4. /\ recs[k].start \in Nat /\ End(recs[k]) \in Nat
        /\ recs[k].start < End(recs[k])
    BY <2>3, RecordParts
  <2>5. Position # file_size
    <3>1. CASE records_ = <<>>
      <4>1. HeaderEnd <= recs[k].start
        BY <2>1, <2>3 DEF Contiguous
      <4> QED
        BY <2>1, <2>3, <2>4, <3>1, <4>1, HeaderEndType DEF Position
    <3>2. CASE records_ # <<>>
      <4>1. m \in 1..m
        BY <2>1, <3>2 DEF Types
      <4>2. m \in 1..(k - 1)
        BY <2>1, <2>3, <4>1
      <4>3. End(recs[m]) <= recs[k].start
        BY <2>1, <2>3, <4>2 DEF Contiguous
      <4>4. End(recs[m]) \in Nat
        <5>1. m \in 1..Len(recs)
          BY <2>1, <2>3, <4>2
        <5>2. recs[m] \in Record
          BY <2>1, <5>1
        <5> QED
          BY <5>2, RecordParts
      <4> QED
        BY <2>1, <2>3, <2>4, <3>2, <4>3, <4>4 DEF Position
    <3> QED
      BY <3>1, <3>2
  <2>6. MissesAtMostTheLast
    BY <2>2, <2>5
  <2> QED
    BY <2>6 DEF MissesAtMostTheLast
<1> QED
  BY Invariance, <1>1, PTL

\* Bag::Open throws only over a file that ends inside its header or inside a
\* topic line, and leaves its Buffer only over a header written in part; so a
\* bag that was closed always opens.
THEOREM RefusedOnlyIfTornCorrect == Spec => []RefusedOnlyIfTorn
<1>1. IInv => RefusedOnlyIfTorn
  BY DEF IInv
<1> QED
  BY Invariance, <1>1, PTL
=============================================================================
