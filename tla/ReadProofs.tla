----------------------------- MODULE ReadProofs -----------------------------
(***************************************************************************)
(* The frames of src/socket for every width of a byte and of a word, every *)
(* set of packets and every number of them: a header tells the length that *)
(* was written, there is always room to read, and the reader stays in step *)
(* with the writer until a packet that no header can tell.                 *)
(***************************************************************************)
EXTENDS SocketRead, SequenceTheorems, WellFoundedInduction, TLAPS

(* Induction over the natural numbers, for a set instead of a predicate.   *)
LEMMA SetInduction ==
    ASSUME NEW S, 0 \in S, \A n \in Nat : n \in S => n + 1 \in S
    PROVE  \A n \in Nat : n \in S
<1> DEFINE T == Nat \ S
<1> SUFFICES ASSUME T # {}
             PROVE  FALSE
  OBVIOUS
<1>1. PICK x \in T : \A y \in T : ~ (<<y, x>> \in OpToRel(<, Nat))
  <2>1. T \subseteq Nat
    OBVIOUS
  <2> HIDE DEF T
  <2> QED BY <2>1, NatLessThanWellFounded, WFMin
<1>2. x \in Nat /\ x # 0 /\ x - 1 \in Nat
  OBVIOUS
<1>3. x - 1 \notin S
  BY <1>2
<1>4. <<x - 1, x>> \in OpToRel(<, Nat)
  BY <1>2 DEF OpToRel
<1> QED BY <1>1, <1>2, <1>3, <1>4

(* The functions on 0 .. N that begin with a value and go on, from each to  *)
(* the next, as given; there is one.                                       *)
Steps(A) == [Nat -> [A -> A]]

Iterations(A, first, next, N) ==
    {f \in [0 .. N -> A] : f[0] = first /\ \A i \in 1 .. N : f[i] = next[i][f[i - 1]]}

LEMMA RecursionExists ==
    ASSUME NEW A, NEW first \in A, NEW next \in Steps(A), NEW N \in Nat
    PROVE  Iterations(A, first, next, N) # {}
<1> USE DEF Steps, Iterations
<1> DEFINE Upto(n) == Iterations(A, first, next, n)
           S == {n \in Nat : Upto(n) # {}}
<1>1. 0 \in S
  <2>1. [i \in 0 .. 0 |-> first] \in Upto(0)
    OBVIOUS
  <2> QED BY <2>1
<1>2. ASSUME NEW n \in Nat, n \in S
      PROVE  n + 1 \in S
  <2>1. PICK f \in Upto(n) : TRUE
    BY <1>2
  <2> DEFINE g == [i \in 0 .. n + 1 |-> IF i = n + 1 THEN next[n + 1][f[n]] ELSE f[i]]
  <2>2. f \in [0 .. n -> A] /\ f[0] = first /\ \A i \in 1 .. n : f[i] = next[i][f[i - 1]]
    BY <2>1
  <2>3. f[n] \in A /\ next[n + 1][f[n]] \in A
    BY <2>2
  <2>4. g \in [0 .. n + 1 -> A] /\ g[0] = first
    BY <2>2, <2>3
  <2>5. ASSUME NEW i \in 1 .. n + 1
        PROVE  g[i] = next[i][g[i - 1]]
    <3>1. i - 1 \in 0 .. n /\ g[i - 1] = f[i - 1]
      OBVIOUS
    <3>2. CASE i = n + 1
      BY <3>1, <3>2
    <3>3. CASE i # n + 1
      BY <2>2, <3>1, <3>3
    <3> QED BY <3>2, <3>3
  <2> HIDE DEF g
  <2>6. g \in Upto(n + 1)
    BY <2>4, <2>5
  <2> QED BY <2>6
<1>3. N \in S
  <2> HIDE DEF S
  <2> QED BY <1>1, <1>2, SetInduction
<1> QED BY <1>3
-----------------------------------------------------------------------------
(* The bytes of a word, and a number of two bytes. *)
LEMMA WordOfBytes ==
    ASSUME NEW x \in Nat
    PROVE  /\ WordBytes(x) \in [1 .. Word -> Byte]
           /\ WordBytes(x)[1] = x % Base
           /\ WordBytes(x)[2] = (x \div Base) % Base
<1> DEFINE Quotients(f) == f = [i \in 0 .. Word - 1 |-> IF i = 0 THEN x ELSE f[i - 1] \div Base]
           rest == CHOOSE f : Quotients(f)
<1>1. /\ Word - 1 \in Nat /\ 1 \in 1 .. Word - 1 /\ 0 \in 0 .. Word - 1 /\ 1 \in 0 .. Word - 1
      /\ Word \in Nat /\ 1 \in 1 .. Word /\ 2 \in 1 .. Word
      /\ \A y \in Nat : y \div Base \in Nat /\ y % Base \in Byte
  BY BufferAssumption DEF Byte
<1>2. PICK f \in [0 .. Word - 1 -> Nat] : f[0] = x /\ \A i \in 1 .. Word - 1 : f[i] = f[i - 1] \div Base
  <2> DEFINE next == [i \in Nat |-> [v \in Nat |-> v \div Base]]
  <2>1. next \in Steps(Nat)
    BY <1>1 DEF Steps
  <2>2. \A i \in Nat, v \in Nat : next[i][v] = v \div Base
    OBVIOUS
  <2> HIDE DEF next
  <2>3. PICK f \in Iterations(Nat, x, next, Word - 1) : TRUE
    BY <1>1, <2>1, RecursionExists
  <2>4. f \in [0 .. Word - 1 -> Nat] /\ f[0] = x /\ \A i \in 1 .. Word - 1 : f[i] = next[i][f[i - 1]]
    BY <2>3 DEF Iterations
  <2>5. \A i \in 1 .. Word - 1 : f[i] = f[i - 1] \div Base
    <3> SUFFICES ASSUME NEW i \in 1 .. Word - 1
                 PROVE  f[i] = f[i - 1] \div Base
      OBVIOUS
    <3>1. i \in Nat /\ i - 1 \in 0 .. Word - 1
      BY <1>1
    <3> QED BY <2>2, <2>4, <3>1
  <2> QED BY <2>4, <2>5
<1>3. Quotients(f)
  <2>1. \A i \in 0 .. Word - 1 : f[i] = IF i = 0 THEN x ELSE f[i - 1] \div Base
    BY <1>1, <1>2
  <2>2. f = [i \in 0 .. Word - 1 |-> f[i]]
    OBVIOUS
  <2> QED BY <2>1, <2>2
<1>4. Quotients(rest)
  <2> HIDE DEF Quotients
  <2> QED BY <1>3
<1>5. WordBytes(x) = [i \in 1 .. Word |-> rest[i - 1] % Base]
  BY DEF WordBytes
<1> HIDE DEF rest
<1>6. \A i \in 0 .. Word - 1 : rest[i] = IF i = 0 THEN x ELSE rest[i - 1] \div Base
  BY <1>4
<1>7. rest[0] = x /\ rest[1] = x \div Base
  <2>0. 0 \in 0 .. Word - 1 /\ 1 \in 0 .. Word - 1 /\ 1 # 0
    BY BufferAssumption
  <2>1. rest[0] = x /\ rest[1] = rest[1 - 1] \div Base
    BY <1>6, <2>0, Zenon
  <2>2. 1 - 1 = 0
    OBVIOUS
  <2> QED BY <2>1, <2>2
<1>8. \A n \in Nat : n \in {i \in Nat : i <= Word - 1 => rest[i] \in Nat}
  <2> DEFINE S == {i \in Nat : i <= Word - 1 => rest[i] \in Nat}
  <2>1. 0 \in S
    BY <1>7
  <2>2. ASSUME NEW n \in Nat, n \in S
        PROVE  n + 1 \in S
    <3> SUFFICES ASSUME n + 1 <= Word - 1
                 PROVE  rest[n + 1] \in Nat
      OBVIOUS
    <3>1. n + 1 \in 0 .. Word - 1 /\ n + 1 # 0 /\ (n + 1) - 1 = n /\ rest[n] \in Nat
      BY <1>1, <2>2
    <3>2. rest[n + 1] = rest[n] \div Base
      BY <1>6, <3>1
    <3> QED BY <1>1, <3>1, <3>2
  <2> HIDE DEF S
  <2>3. \A n \in Nat : n \in S
    BY <2>1, <2>2, SetInduction
  <2> QED BY <2>3 DEF S
<1>9. \A i \in 1 .. Word : rest[i - 1] \in Nat
  BY <1>1, <1>8
<1>10. \A i \in 1 .. Word : WordBytes(x)[i] = rest[i - 1] % Base
  BY <1>5
<1>11. WordBytes(x) \in [1 .. Word -> Byte]
  BY <1>1, <1>5, <1>9
<1>12. 1 - 1 = 0 /\ 2 - 1 = 1
  OBVIOUS
<1> QED BY <1>1, <1>7, <1>10, <1>11, <1>12

(* A sequence of two. *)
LEMMA PairIsSeq ==
    ASSUME NEW S, NEW s \in Seq(S), Len(s) = 2
    PROVE  s = <<s[1], s[2]>>
<1>1. s \in [1 .. 2 -> S]
  BY SeqDef
<1> QED BY <1>1

(* Turned over, byte for byte. *)
LEMMA FlipTurns ==
    ASSUME NEW S, NEW s \in [1 .. Word -> S]
    PROVE  /\ Flip(s) \in [1 .. Word -> S] /\ Len(Flip(s)) = Word
           /\ \A i \in 1 .. Word : Flip(s)[i] = s[Word - i + 1]
<1>1. Len(s) = Word
  BY BufferAssumption
<1>2. \A i \in 1 .. Word : Word - i + 1 \in 1 .. Word
  BY BufferAssumption
<1>3. Flip(s) = [i \in 1 .. Word |-> s[Word - i + 1]]
  BY <1>1 DEF Flip
<1>4. Flip(s) \in [1 .. Word -> S]
  BY <1>2, <1>3
<1>5. Len(Flip(s)) = Word
  BY <1>4, BufferAssumption
<1> QED BY <1>3, <1>4, <1>5

(* What a header of two bytes holds of a length. *)
LEMMA HeaderDigits ==
    ASSUME NEW x \in Nat
    PROVE  LowDigits(Flip(WordBytes(x)), 2) = <<(x \div Base) % Base, x % Base>>
<1> DEFINE w == Flip(WordBytes(x))
<1>0. Word \in Nat /\ Word >= 2
  BY BufferAssumption
<1>1. w \in [1 .. Word -> Byte] /\ Len(w) = Word /\ w[Word] = x % Base /\ w[Word - 1] = (x \div Base) % Base
  <2>1. w[Word] = WordBytes(x)[1] /\ w[Word - 1] = WordBytes(x)[2]
    <3>1. Word \in 1 .. Word /\ Word - 1 \in 1 .. Word /\ Word - Word + 1 = 1 /\ Word - (Word - 1) + 1 = 2
      BY <1>0
    <3> QED BY <3>1, WordOfBytes, FlipTurns
  <2> QED BY <2>1, WordOfBytes, FlipTurns
<1> HIDE DEF w
<1>2. w \in Seq(Byte)
  BY <1>0, <1>1, SeqDef
<1>3. LowDigits(w, 2) = SubSeq(w, Word - 1, Word)
  BY <1>0 DEF LowDigits
<1>4. /\ SubSeq(w, Word - 1, Word) \in Seq(Byte) /\ Len(SubSeq(w, Word - 1, Word)) = 2
      /\ SubSeq(w, Word - 1, Word)[1] = w[Word - 1] /\ SubSeq(w, Word - 1, Word)[2] = w[Word]
  BY <1>0, <1>1, <1>2
<1>5. SubSeq(w, Word - 1, Word) = <<w[Word - 1], w[Word]>>
  BY <1>4, PairIsSeq
<1> QED BY <1>1, <1>3, <1>5 DEF w

(* The word that read_uint puts together from two bytes, low-order byte    *)
(* first.                                                                  *)
LEMMA WordOfTwo ==
    ASSUME NEW h \in Byte, NEW l \in Byte
    PROVE  LET s == Flip(AtLowEnd(<<h, l>>))
           IN  /\ s \in [1 .. Word -> Byte] /\ s[1] = l /\ s[2] = h
               /\ \A i \in 3 .. Word : s[i] = 0
<1>0. Word \in Nat /\ Word >= 2 /\ 0 \in Byte
  BY BufferAssumption DEF Byte
<1> DEFINE t == AtLowEnd(<<h, l>>)
<1>1. \A i \in 1 .. Word : t[i] = IF i > Word - 2 THEN <<h, l>>[i - (Word - 2)] ELSE 0
  BY DEF AtLowEnd
<1>2. /\ \A i \in 1 .. Word : i <= Word - 2 => t[i] = 0
      /\ t[Word - 1] = h /\ t[Word] = l
  <2>1. Word - 1 \in 1 .. Word /\ Word - 1 > Word - 2 /\ (Word - 1) - (Word - 2) = 1
    BY <1>0
  <2>2. Word \in 1 .. Word /\ Word > Word - 2 /\ Word - (Word - 2) = 2
    BY <1>0
  <2>3. t[Word - 1] = <<h, l>>[1] /\ t[Word] = <<h, l>>[2]
    BY <1>1, <2>1, <2>2, Zenon
  <2>4. \A i \in 1 .. Word : i <= Word - 2 => ~ (i > Word - 2)
    BY <1>0
  <2> HIDE DEF t
  <2> QED BY <1>1, <2>3, <2>4
<1>3. t \in [1 .. Word -> Byte]
  <2>1. t = [i \in 1 .. Word |-> t[i]]
    BY DEF AtLowEnd
  <2> HIDE DEF t
  <2>2. \A i \in 1 .. Word : i <= Word - 2 \/ i = Word - 1 \/ i = Word
    BY <1>0
  <2>3. \A i \in 1 .. Word : t[i] \in Byte
    BY <1>0, <1>2, <2>2
  <2> QED BY <2>1, <2>3
<1> HIDE DEF t
<1>4. /\ Flip(t) \in [1 .. Word -> Byte]
      /\ \A i \in 1 .. Word : Flip(t)[i] = t[Word - i + 1]
  BY <1>3, FlipTurns
<1>5. Flip(t)[1] = l /\ Flip(t)[2] = h
  <2>1. 1 \in 1 .. Word /\ 2 \in 1 .. Word /\ Word - 1 + 1 = Word /\ Word - 2 + 1 = Word - 1
    BY <1>0
  <2> QED BY <1>2, <1>4, <2>1
<1>6. ASSUME NEW i \in 3 .. Word
      PROVE  Flip(t)[i] = 0
  <2>1. i \in 1 .. Word /\ Word - i + 1 \in 1 .. Word /\ Word - i + 1 <= Word - 2
    BY <1>0
  <2> QED BY <1>2, <1>4, <2>1
<1> QED BY <1>4, <1>5, <1>6 DEF t

(* The number that a header of two bytes tells. *)
LEMMA HeaderValue ==
    ASSUME NEW h \in Byte, NEW l \in Byte
    PROVE  WordValue(Flip(AtLowEnd(<<h, l>>))) = h * Base + l
<1> DEFINE s == Flip(AtLowEnd(<<h, l>>))
<1>1. /\ s \in [1 .. Word -> Byte] /\ s[1] = l /\ s[2] = h
      /\ \A i \in 3 .. Word : s[i] = 0
  BY WordOfTwo
<1> HIDE DEF s
<1> DEFINE Sums(f) == f = [i \in 0 .. Word |-> IF i = 0 THEN 0 ELSE f[i - 1] * Base + s[Word - i + 1]]
           high == CHOOSE f : Sums(f)
<1>2. Word \in Nat /\ Word >= 2 /\ Base \in Nat /\ Byte \subseteq Nat
  BY BufferAssumption DEF Byte
<1>3. \E f : Sums(f)
  <2> DEFINE digit(i) == IF i \in 1 .. Word THEN s[Word - i + 1] ELSE 0
             next == [i \in Nat |-> [v \in Nat |-> v * Base + digit(i)]]
  <2>1. \A i \in Nat : digit(i) \in Nat
    <3> SUFFICES ASSUME NEW i \in 1 .. Word
                 PROVE  s[Word - i + 1] \in Nat
      OBVIOUS
    <3>1. Word - i + 1 \in 1 .. Word
      BY <1>2
    <3> QED BY <1>1, <1>2, <3>1
  <2>2. \A i \in 1 .. Word : digit(i) = s[Word - i + 1]
    OBVIOUS
  <2> HIDE DEF digit
  <2>3. next \in Steps(Nat)
    <3>1. \A i \in Nat, v \in Nat : v * Base + digit(i) \in Nat
      BY <1>2, <2>1
    <3> QED BY <3>1 DEF Steps
  <2>4. \A i \in Nat, v \in Nat : next[i][v] = v * Base + digit(i)
    OBVIOUS
  <2> HIDE DEF next
  <2>5. PICK f \in Iterations(Nat, 0, next, Word) : TRUE
    BY <1>2, <2>3, RecursionExists
  <2>6. f \in [0 .. Word -> Nat] /\ f[0] = 0 /\ \A i \in 1 .. Word : f[i] = next[i][f[i - 1]]
    BY <2>5 DEF Iterations
  <2>7. ASSUME NEW i \in 1 .. Word
        PROVE  f[i] = f[i - 1] * Base + s[Word - i + 1]
    <3>1. i \in Nat /\ i - 1 \in 0 .. Word
      BY <1>2
    <3>2. f[i - 1] \in Nat
      BY <2>6, <3>1
    <3> QED BY <2>2, <2>4, <2>6, <3>1, <3>2
  <2>8. \A i \in 0 .. Word : f[i] = IF i = 0 THEN 0 ELSE f[i - 1] * Base + s[Word - i + 1]
    <3>1. \A i \in 0 .. Word : i = 0 \/ i \in 1 .. Word
      BY <1>2
    <3>2. 0 \notin 1 .. Word
      OBVIOUS
    <3> QED BY <2>6, <2>7, <3>1, <3>2
  <2>9. f = [i \in 0 .. Word |-> f[i]]
    BY <2>6
  <2>10. Sums(f)
    BY <2>8, <2>9
  <2> QED BY <2>10
<1>4. Sums(high)
  <2> HIDE DEF Sums
  <2> QED BY <1>3
<1>5. WordValue(s) = high[Word]
  BY DEF WordValue
<1> HIDE DEF high
<1>6. /\ high[0] = 0
      /\ \A i \in 1 .. Word : high[i] = high[i - 1] * Base + s[Word - i + 1]
  <2>1. \A i \in 0 .. Word : high[i] = IF i = 0 THEN 0 ELSE high[i - 1] * Base + s[Word - i + 1]
    BY <1>4
  <2>2. 0 \in 0 .. Word /\ \A i \in 1 .. Word : i \in 0 .. Word /\ i # 0
    BY <1>2
  <2> QED BY <2>1, <2>2, Zenon
<1>7. high[Word - 2] = 0
  <2> DEFINE S == {i \in Nat : i <= Word - 2 => high[i] = 0}
  <2>1. 0 \in S
    BY <1>6
  <2>2. ASSUME NEW n \in Nat, n \in S
        PROVE  n + 1 \in S
    <3> SUFFICES ASSUME n + 1 <= Word - 2
                 PROVE  high[n + 1] = 0
      OBVIOUS
    <3>1. n + 1 \in 1 .. Word /\ Word - (n + 1) + 1 \in 3 .. Word /\ (n + 1) - 1 = n /\ n <= Word - 2
      BY <1>2
    <3>2. high[n] = 0
      BY <2>2, <3>1
    <3>3. high[n + 1] = high[n] * Base + s[Word - (n + 1) + 1]
      BY <1>6, <3>1
    <3>4. s[Word - (n + 1) + 1] = 0
      BY <1>1, <3>1
    <3> QED BY <1>2, <3>2, <3>3, <3>4
  <2> HIDE DEF S
  <2>3. \A n \in Nat : n \in S
    BY <2>1, <2>2, SetInduction
  <2>4. Word - 2 \in Nat /\ Word - 2 <= Word - 2
    BY <1>2
  <2> QED BY <2>3, <2>4 DEF S
<1>8. high[Word - 1] = h
  <2>1. Word - 1 \in 1 .. Word /\ (Word - 1) - 1 = Word - 2 /\ Word - (Word - 1) + 1 = 2
    BY <1>2
  <2>2. high[Word - 1] = high[Word - 2] * Base + s[2]
    BY <1>6, <2>1
  <2> QED BY <1>1, <1>2, <1>7, <2>2
<1>9. high[Word] = h * Base + l
  <2>1. Word \in 1 .. Word /\ Word - Word + 1 = 1
    BY <1>2
  <2>2. high[Word] = high[Word - 1] * Base + s[1]
    BY <1>6, <2>1
  <2> QED BY <1>1, <1>8, <2>2
<1> QED BY <1>5, <1>9 DEF s
-----------------------------------------------------------------------------
(* Sequences cut and put together. *)
LEMMA ConcatIs ==
    ASSUME NEW S, NEW a \in Seq(S), NEW b \in Seq(S)
    PROVE  /\ a \o b \in Seq(S) /\ Len(a \o b) = Len(a) + Len(b)
           /\ \A i \in 1 .. Len(a) : (a \o b)[i] = a[i]
           /\ \A i \in 1 .. Len(b) : (a \o b)[Len(a) + i] = b[i]
OBVIOUS

LEMMA SameSeq ==
    ASSUME NEW S, NEW a \in Seq(S), NEW b \in Seq(S), Len(a) = Len(b),
           \A i \in 1 .. Len(a) : a[i] = b[i]
    PROVE  a = b
OBVIOUS

LEMMA CutIs ==
    ASSUME NEW S, NEW s \in Seq(S), NEW n \in Nat, n <= Len(s)
    PROVE  /\ SubSeq(s, 1, n) \in Seq(S) /\ Len(SubSeq(s, 1, n)) = n
           /\ \A i \in 1 .. n : SubSeq(s, 1, n)[i] = s[i]
           /\ SubSeq(s, n + 1, Len(s)) \in Seq(S) /\ Len(SubSeq(s, n + 1, Len(s))) = Len(s) - n
           /\ \A i \in 1 .. Len(s) - n : SubSeq(s, n + 1, Len(s))[i] = s[n + i]
<1> DEFINE m == Len(s)
<1>1. m \in Nat /\ n <= m
  OBVIOUS
<1>2. \A i \in 1 .. n : i \in 1 .. m
  BY <1>1
<1>3. \A i \in n + 1 .. m : i \in 1 .. m
  BY <1>1
<1>4. \A i \in 1 .. m : s[i] \in S
  OBVIOUS
<1>5. SubSeq(s, 1, n) = [i \in 1 .. n |-> s[i]]
  OBVIOUS
<1>6. SubSeq(s, n + 1, m) = [i \in 1 .. m - n |-> s[n + i]]
  OBVIOUS
<1> HIDE DEF m
<1>7. [i \in 1 .. n |-> s[i]] \in [1 .. n -> S]
  BY <1>2, <1>4
<1>8. \A i \in 1 .. m - n : n + i \in 1 .. m
  BY <1>1
<1>9. [i \in 1 .. m - n |-> s[n + i]] \in [1 .. m - n -> S] /\ m - n \in Nat
  BY <1>1, <1>4, <1>8
<1> QED BY <1>5, <1>6, <1>7, <1>9, SeqDef DEF m

LEMMA Recut ==
    ASSUME NEW S, NEW s \in Seq(S), NEW t \in Seq(S), NEW n \in Nat, n <= Len(t)
    PROVE  (s \o SubSeq(t, 1, n)) \o SubSeq(t, n + 1, Len(t)) = s \o t
<1> DEFINE u == SubSeq(t, 1, n)
           v == SubSeq(t, n + 1, Len(t))
<1>1. /\ u \in Seq(S) /\ v \in Seq(S) /\ Len(u) = n /\ Len(v) = Len(t) - n
      /\ \A i \in 1 .. n : u[i] = t[i]
      /\ \A i \in 1 .. Len(t) - n : v[i] = t[n + i]
  BY CutIs
<1> HIDE DEF u, v
<1>2. u \o v = t
  <2>0. Len(t) \in Nat
    OBVIOUS
  <2>1. u \o v \in Seq(S) /\ Len(u \o v) = Len(t)
    BY <1>1, <2>0, ConcatIs
  <2>2. ASSUME NEW i \in 1 .. Len(t)
        PROVE  (u \o v)[i] = t[i]
    <3>1. CASE i <= n
      BY <1>1, <3>1
    <3>2. CASE i > n
      <4>1. i - n \in 1 .. Len(t) - n /\ n + (i - n) = i
        BY <3>2
      <4>2. v[i - n] = t[i]
        BY <1>1, <4>1
      <4> QED BY <1>1, <3>2, <4>1, <4>2
    <3>3. i <= n \/ i > n
      BY <2>0
    <3> QED BY <3>1, <3>2, <3>3, Zenon
  <2> QED BY <2>1, <2>2, SameSeq
<1>3. (s \o u) \o v = s \o (u \o v)
  <2>1. u \in Seq(S) /\ v \in Seq(S)
    BY <1>1
  <2> QED BY <2>1, ConcatAssociative, SMTT(30)
<1> QED BY <1>2, <1>3 DEF u, v

(* What begins with c goes on with what c was put in front of. *)
LEMMA CutFront ==
    ASSUME NEW S, NEW a \in Seq(S), NEW b \in Seq(S), NEW c \in Seq(S), NEW d \in Seq(S),
           a \o b = c \o d, Len(c) <= Len(a)
    PROVE  /\ SubSeq(a, 1, Len(c)) = c
           /\ SubSeq(a, Len(c) + 1, Len(a)) \o b = d
<1> DEFINE n == Len(c)
           u == SubSeq(a, 1, n)
           v == SubSeq(a, n + 1, Len(a))
<1>0. n \in Nat /\ Len(a) \in Nat /\ Len(b) \in Nat /\ Len(d) \in Nat /\ n <= Len(a)
  OBVIOUS
<1>1. /\ u \in Seq(S) /\ v \in Seq(S) /\ Len(u) = n /\ Len(v) = Len(a) - n
      /\ \A i \in 1 .. n : u[i] = a[i]
      /\ \A i \in 1 .. Len(a) - n : v[i] = a[n + i]
  BY <1>0, CutIs
<1>2. Len(a) + Len(b) = n + Len(d)
  <2>1. Len(a \o b) = Len(a) + Len(b) /\ Len(c \o d) = n + Len(d)
    BY ConcatIs
  <2> QED BY <2>1
<1>3. ASSUME NEW i \in 1 .. n
      PROVE  u[i] = c[i]
  <2>1. (a \o b)[i] = a[i]
    BY <1>0, ConcatIs
  <2>2. (c \o d)[i] = c[i]
    BY ConcatIs
  <2> QED BY <1>1, <2>1, <2>2
<1> HIDE DEF u, v
<1>4. u = c
  BY <1>1, <1>3, SameSeq
<1>5. ASSUME NEW i \in 1 .. Len(d)
      PROVE  (v \o b)[i] = d[i]
  <2>1. (c \o d)[n + i] = d[i]
    BY ConcatIs
  <2>2. CASE n + i <= Len(a)
    <3>1. (a \o b)[n + i] = a[n + i]
      BY <1>0, <2>2, ConcatIs
    <3>2. i \in 1 .. Len(v) /\ v[i] = a[n + i]
      BY <1>0, <1>1, <2>2
    <3> QED BY <1>1, <2>1, <3>1, <3>2
  <2>3. CASE n + i > Len(a)
    <3> DEFINE j == n + i - Len(a)
    <3>1. j \in 1 .. Len(b) /\ Len(a) + j = n + i /\ Len(v) + j = i
      BY <1>0, <1>1, <1>2, <2>3
    <3> HIDE DEF j
    <3>2. (a \o b)[Len(a) + j] = b[j]
      <4>1. \A k \in 1 .. Len(b) : (a \o b)[Len(a) + k] = b[k]
        BY ConcatIs
      <4> QED BY <3>1, <4>1, Zenon
    <3>3. (v \o b)[Len(v) + j] = b[j]
      BY <1>1, <3>1, ConcatIs
    <3> QED BY <2>1, <3>1, <3>2, <3>3, Zenon
  <2>4. n + i <= Len(a) \/ n + i > Len(a)
    BY <1>0
  <2> QED BY <2>2, <2>3, <2>4, Zenon
<1>6. v \o b = d
  <2>1. v \o b \in Seq(S) /\ Len(v \o b) = Len(d)
    BY <1>0, <1>1, <1>2
  <2> HIDE DEF n
  <2> QED BY <1>5, <2>1, SameSeq
<1> QED BY <1>4, <1>6 DEF u, v, n
-----------------------------------------------------------------------------
(* The buffer of the reader: what is in it and how much room there is.     *)
Buffers == [off : 0 .. FrameMax, unread : Seq(Byte)]

LEMMA BoundsAreNat ==
    /\ BodyMax \in Nat /\ BodyMax > 0 /\ FrameMax \in Nat /\ FrameMax = BodyMax + 2
    /\ HeaderLength = 2 /\ HeaderLength \in Nat
    /\ Byte \subseteq Nat /\ Base \in Nat /\ Base >= 2
BY BufferAssumption DEF BodyMax, FrameMax, HeaderLength, Byte

LEMMA ConsumeIs ==
    ASSUME NEW b \in Buffers, NEW n \in Nat, n <= Len(b.unread),
           b.off + Len(b.unread) <= FrameMax
    PROVE  /\ Consume(b, n) \in Buffers
           /\ Consume(b, n).off + Len(Consume(b, n).unread) <= FrameMax
           /\ Consume(b, n).unread = SubSeq(b.unread, n + 1, Len(b.unread))
           /\ Consume(b, n).unread = << >> => Consume(b, n).off = 0
<1> DEFINE m == Len(b.unread)
           rest == SubSeq(b.unread, n + 1, m)
<1>1. /\ b.unread \in Seq(Byte) /\ m \in Nat /\ b.off \in Nat /\ FrameMax \in Nat
      /\ b.off + m <= FrameMax /\ n <= m
  BY BoundsAreNat DEF Buffers
<1>2. rest \in Seq(Byte) /\ Len(rest) = m - n
  BY <1>1, CutIs
<1>3. CASE m = n
  <2>1. Consume(b, n) = Cleared
    BY <1>1, <1>3 DEF Consume
  <2>2. rest = << >>
    <3>1. Len(rest) = 0
      BY <1>1, <1>2, <1>3
    <3> HIDE DEF rest
    <3> QED BY <1>2, <3>1
  <2>3. Cleared.off = 0 /\ Cleared.unread = << >> /\ Cleared \in Buffers /\ Len(Cleared.unread) = 0
    BY <1>1 DEF Cleared, Buffers
  <2>4. Cleared.off + Len(Cleared.unread) <= FrameMax
    BY <1>1, <2>3
  <2>5. Cleared.unread = rest
    BY <2>2, <2>3
  <2> QED BY <2>1, <2>3, <2>4, <2>5, Zenon
<1>4. CASE n < m
  <2>1. Consume(b, n) = [off |-> b.off + n, unread |-> rest]
    BY <1>1, <1>4 DEF Consume
  <2>2. b.off + n \in 0 .. FrameMax /\ (b.off + n) + (m - n) <= FrameMax
    BY <1>1, <1>4
  <2> HIDE DEF rest, m
  <2>3. Consume(b, n).off = b.off + n /\ Consume(b, n).unread = rest
    BY <2>1
  <2>4. rest # << >>
    BY <1>1, <1>2, <1>4
  <2> QED BY <1>2, <2>1, <2>2, <2>3, <2>4 DEF Buffers, rest, m
<1> QED BY <1>1, <1>3, <1>4

LEMMA StoreIs ==
    ASSUME NEW b, NEW s \in Seq(Byte), NEW size \in Nat,
           b \in [off : Nat, unread : Seq(Byte)], b.off + Len(b.unread) + Len(s) <= size
    PROVE  /\ Store(b, s, size) = [off |-> b.off, unread |-> b.unread \o s]
           /\ b.unread \o s \in Seq(Byte) /\ Len(b.unread \o s) = Len(b.unread) + Len(s)
<1>1. /\ b.off \in Nat /\ b.unread \in Seq(Byte) /\ Len(b.unread) \in Nat /\ Len(s) \in Nat
      /\ b = [off |-> b.off, unread |-> b.unread]
  OBVIOUS
<1>2. ~ (BufCapacity(b, size) < Len(s))
  BY <1>1 DEF BufCapacity
<1>3. Store(b, s, size) = [b EXCEPT !.unread = @ \o s]
  BY <1>2 DEF Store
<1>4. [b EXCEPT !.unread = @ \o s] = [off |-> b.off, unread |-> b.unread \o s]
  <2> DEFINE t == b.unread \o s
  <2> HIDE DEF t
  <2>1. [b EXCEPT !.unread = t] = [off |-> b.off, unread |-> t]
    OBVIOUS
  <2> QED BY <2>1 DEF t
<1> QED BY <1>1, <1>3, <1>4, ConcatIs

(* A frame is a header that tells the length, as far as two bytes can, and *)
(* the body.                                                               *)
LEMMA FrameIs ==
    ASSUME NEW p \in Seq(Byte)
    PROVE  /\ Frame(p) = <<(Len(p) \div Base) % Base, Len(p) % Base>> \o p
           /\ <<(Len(p) \div Base) % Base, Len(p) % Base>> \in Seq(Byte)
           /\ Frame(p) \in Seq(Byte)
<1> DEFINE n == Len(p)
           head == <<(n \div Base) % Base, n % Base>>
           size == n + HeaderLength
<1>1. n \in Nat /\ size \in Nat /\ size = n + 2
  BY DEF HeaderLength
<1>2. (n \div Base) % Base \in Byte /\ n % Base \in Byte
  <2> HIDE DEF n
  <2> QED BY <1>1, BufferAssumption DEF Byte
<1>3. head \in Seq(Byte) /\ Len(head) = 2
  BY <1>2
<1>4. LowDigits(Flip(WordBytes(n)), HeaderLength) = head
  BY <1>1, HeaderDigits DEF HeaderLength
<1> HIDE DEF head, n
<1>5. StoreUint(Cleared, n, HeaderLength, size) = [off |-> 0, unread |-> head]
  <2>1. Cleared \in [off : Nat, unread : Seq(Byte)] /\ Cleared.off = 0 /\ Cleared.unread = << >>
    BY DEF Cleared
  <2>2. Cleared.off + Len(Cleared.unread) + Len(head) <= size
    BY <1>1, <1>3, <2>1
  <2>3. Store(Cleared, head, size) = [off |-> 0, unread |-> << >> \o head]
    <3>1. Store(Cleared, head, size) = [off |-> Cleared.off, unread |-> Cleared.unread \o head]
      BY <1>1, <1>3, <2>1, <2>2, StoreIs
    <3> QED BY <2>1, <3>1
  <2>4. << >> \o head = head
    BY <1>3
  <2> QED BY <1>4, <2>3, <2>4 DEF StoreUint
<1>6. Store([off |-> 0, unread |-> head], p, size) = [off |-> 0, unread |-> head \o p]
  <2> DEFINE b == [off |-> 0, unread |-> head]
  <2>1. b \in [off : Nat, unread : Seq(Byte)] /\ b.off = 0 /\ b.unread = head
    BY <1>3
  <2> HIDE DEF b
  <2>2. b.off + Len(b.unread) + Len(p) <= size
    <3>1. Len(b.unread) = 2 /\ Len(p) = n
      BY <1>3, <2>1 DEF n
    <3> HIDE DEF size
    <3> QED BY <1>1, <2>1, <3>1
  <2>3. Store(b, p, size) = [off |-> 0, unread |-> head \o p]
    BY <1>1, <2>1, <2>2, StoreIs
  <2> QED BY <2>3 DEF b
<1>7. Frame(p) = head \o p
  BY <1>5, <1>6 DEF Frame, n
<1> QED BY <1>3, <1>7, ConcatIs DEF head, n

(* The number a complete header tells. *)
LEMMA UintIs ==
    ASSUME NEW b \in Buffers, Len(b.unread) >= 2
    PROVE  /\ UintValue(b, HeaderLength) = b.unread[1] * Base + b.unread[2]
           /\ UintValue(b, HeaderLength) \in 0 .. BodyMax
<1> DEFINE s == b.unread
           c == SubSeq(s, 1, 2)
<1>1. s \in Seq(Byte) /\ Len(s) >= 2 /\ Len(s) \in Nat
  BY DEF Buffers
<1> HIDE DEF s
<1>2. s[1] \in Byte /\ s[2] \in Byte
  BY <1>1
<1>3. c = <<s[1], s[2]>>
  <2>1. 2 \in Nat /\ 1 \in 1 .. 2 /\ 2 \in 1 .. 2
    OBVIOUS
  <2>2. c \in Seq(Byte) /\ Len(c) = 2 /\ c[1] = s[1] /\ c[2] = s[2]
    BY <1>1, <2>1, CutIs
  <2> HIDE DEF c
  <2> QED BY <2>2, PairIsSeq
<1>4. UintValue(b, HeaderLength) = WordValue(Flip(AtLowEnd(c)))
  BY <1>1 DEF UintValue, HeaderLength, s
<1>5. UintValue(b, HeaderLength) = s[1] * Base + s[2]
  BY <1>2, <1>3, <1>4, HeaderValue
<1>6. s[1] * Base + s[2] \in 0 .. BodyMax
  <2>1. ASSUME NEW h \in Byte, NEW l \in Byte
        PROVE  h * Base + l \in Nat /\ h * Base + l <= Base * Base - 1
    BY BufferAssumption DEF Byte
  <2>2. s[1] * Base + s[2] \in Nat /\ s[1] * Base + s[2] <= Base * Base - 1
    BY <1>2, <2>1
  <2> QED BY <2>2, BufferAssumption DEF BodyMax
<1> QED BY <1>5, <1>6 DEF s

(* A length of at most BodyMax is told in full. *)
LEMMA LengthTold ==
    ASSUME NEW n \in 0 .. BodyMax
    PROVE  ((n \div Base) % Base) * Base + (n % Base) = n
<1>1. n \in Nat /\ n <= Base * Base - 1 /\ Base \in Nat /\ Base >= 2
  BY BufferAssumption DEF BodyMax
<1>2. n = (n \div Base) * Base + (n % Base) /\ n \div Base \in Nat /\ n % Base \in Nat
  BY <1>1
<1>3. n \div Base < Base
  BY <1>1, <1>2
<1>4. (n \div Base) % Base = n \div Base
  BY <1>1, <1>2, <1>3
<1> QED BY <1>2, <1>4
-----------------------------------------------------------------------------
(* What keeps room in the buffer: an empty buffer begins at its head, and   *)
(* between two callbacks the buffer holds, from its head on, less than the *)
(* loop waits for.                                                         *)
KeptShort ==
    /\ buf.unread = << >> => buf.off = 0
    /\ ~ parsing => buf.off = 0 /\ ~ Complete

RoomInv == ReadTypeOK /\ KeptShort

LEMMA PacketsAreBytes == Seq(Packets) \subseteq Seq(Seq(Byte)) /\ \A p \in Packets : p \in Seq(Byte)
<1>1. Packets \subseteq Seq(Byte)
  BY SocketReadAssumption
<1> QED BY <1>1

LEMMA ReadInitRoom == ReadInit => RoomInv
<1> SUFFICES ASSUME ReadInit
             PROVE  RoomInv
  OBVIOUS
<1>1. Cleared \in Buffers /\ Cleared.off = 0 /\ Cleared.unread = << >> /\ Len(Cleared.unread) = 0
  BY BoundsAreNat DEF Cleared, Buffers
<1>2. ReadTypeOK
  <2>1. buf \in Buffers /\ buf.off + Len(buf.unread) <= FrameMax
    BY <1>1, BoundsAreNat DEF ReadInit
  <2>2. body \in 0 .. BodyMax /\ Len(sent) <= MaxFrames
    BY BoundsAreNat, SocketReadAssumption DEF ReadInit
  <2>3. \A S : << >> \in Seq(S)
    OBVIOUS
  <2>4. sent \in Seq(Packets) /\ wire \in Seq(Byte)
        /\ consumed \in Seq([body : Seq(Byte), how : {"ping", "delivered", "skipped"}])
    BY <2>3 DEF ReadInit
  <2> QED BY <2>1, <2>2, <2>4 DEF ReadInit, ReadTypeOK, Buffers
<1>3. KeptShort
  BY <1>1, BoundsAreNat DEF ReadInit, KeptShort, Complete, BufLength
<1> QED BY <1>2, <1>3 DEF RoomInv

LEMMA WriteRoom ==
    ASSUME RoomInv, NEW p \in Packets, Write(p)
    PROVE  RoomInv'
<1>1. sent' \in Seq(Packets) /\ Len(sent') <= MaxFrames
  <2>1. sent \in Seq(Packets) /\ Len(sent) \in Nat /\ MaxFrames \in Nat /\ Len(sent) < MaxFrames
    BY SocketReadAssumption DEF RoomInv, ReadTypeOK, Write
  <2> QED BY <2>1 DEF Write
<1>2. wire' \in Seq(Byte)
  BY PacketsAreBytes, FrameIs, ConcatIs DEF RoomInv, ReadTypeOK, Write
<1>3. UNCHANGED <<callbacks, buf, body, parsing, consumed, filled, closing>>
  BY DEF Write, readVars
<1> QED BY <1>1, <1>2, <1>3 DEF RoomInv, ReadTypeOK, KeptShort, Complete, BufLength

LEMMA ReadBytesRoom ==
    ASSUME RoomInv, NEW n \in 1 .. FrameMax, ReadBytes(n)
    PROVE  /\ RoomInv'
           /\ buf'.unread \o wire' = buf.unread \o wire
<1> DEFINE s == SubSeq(wire, 1, n)
           v == SubSeq(wire, n + 1, Len(wire))
<1>1. /\ buf \in Buffers /\ buf.off \in Nat /\ buf.unread \in Seq(Byte) /\ Len(buf.unread) \in Nat
      /\ wire \in Seq(Byte) /\ n \in Nat /\ n <= Len(wire) /\ n <= FrameMax - (buf.off + Len(buf.unread))
      /\ FrameMax \in Nat
  BY BoundsAreNat DEF RoomInv, ReadTypeOK, ReadBytes, Buffers, BufCapacity
<1>2. s \in Seq(Byte) /\ Len(s) = n /\ v \in Seq(Byte)
  BY <1>1, CutIs
<1>3. (buf.unread \o s) \o v = buf.unread \o wire
  BY <1>1, Recut
<1>4. buf' = Store(buf, s, FrameMax) /\ wire' = v
  BY DEF ReadBytes
<1> HIDE DEF s, v
<1>5. /\ buf' = [off |-> buf.off, unread |-> buf.unread \o s]
      /\ buf.unread \o s \in Seq(Byte) /\ Len(buf.unread \o s) = Len(buf.unread) + n
  <2>1. buf \in [off : Nat, unread : Seq(Byte)]
    BY <1>1 DEF Buffers
  <2>2. buf.off + Len(buf.unread) + Len(s) <= FrameMax
    BY <1>1, <1>2
  <2> QED BY <1>1, <1>2, <1>4, <2>1, <2>2, StoreIs
<1> DEFINE t == buf.unread \o s
<1> HIDE DEF t
<1>6. buf'.off = buf.off /\ buf'.unread = t /\ t \in Seq(Byte) /\ Len(t) = Len(buf.unread) + n
  BY <1>5 DEF t
<1>7. /\ buf' \in Buffers /\ buf'.off + Len(buf'.unread) <= FrameMax
      /\ buf'.unread # << >>
  <2>1. Len(t) # 0
    BY <1>1, <1>6
  <2>2. buf' = [off |-> buf.off, unread |-> t]
    BY <1>5 DEF t
  <2>3. buf.off \in 0 .. FrameMax
    BY <1>1 DEF Buffers
  <2> QED BY <1>1, <1>6, <2>1, <2>2, <2>3 DEF Buffers
<1>8. ReadTypeOK'
  <2>1. filled' \in BOOLEAN /\ parsing' \in BOOLEAN
    BY DEF ReadBytes
  <2> QED BY <1>2, <1>4, <1>7, <2>1 DEF RoomInv, ReadTypeOK, ReadBytes, Buffers
<1>9. KeptShort'
  BY <1>7 DEF KeptShort, ReadBytes
<1>10. buf'.unread \o wire' = buf.unread \o wire
  BY <1>3, <1>4, <1>6 DEF t
<1> QED BY <1>8, <1>9, <1>10 DEF RoomInv

LEMMA ReadHeaderRoom ==
    ASSUME RoomInv, ReadHeader
    PROVE  /\ RoomInv'
           /\ buf.unread \in Seq(Byte) /\ Len(buf.unread) >= 2
           /\ body' = buf.unread[1] * Base + buf.unread[2]
           /\ buf'.unread = SubSeq(buf.unread, 2 + 1, Len(buf.unread))
<1>1. /\ buf \in Buffers /\ buf.unread \in Seq(Byte) /\ Len(buf.unread) \in Nat
      /\ buf.off + Len(buf.unread) <= FrameMax
  BY DEF RoomInv, ReadTypeOK, Buffers
<1>2. Len(buf.unread) >= 2
  BY DEF ReadHeader, Complete, BufLength, HeaderLength
<1>3. body' = buf.unread[1] * Base + buf.unread[2] /\ body' \in 0 .. BodyMax
  BY <1>1, <1>2, UintIs DEF ReadHeader
<1>4. /\ buf' \in Buffers /\ buf'.off + Len(buf'.unread) <= FrameMax
      /\ buf'.unread = SubSeq(buf.unread, 2 + 1, Len(buf.unread))
      /\ buf'.unread = << >> => buf'.off = 0
  <2>1. buf' = Consume(buf, 2) /\ 2 \in Nat
    BY DEF ReadHeader, HeaderLength
  <2> QED BY <1>1, <1>2, <2>1, ConsumeIs
<1>5. consumed' \in Seq([body : Seq(Byte), how : {"ping", "delivered", "skipped"}])
  <2> DEFINE S == [body : Seq(Byte), how : {"ping", "delivered", "skipped"}]
             ping == [body |-> << >>, how |-> "ping"]
  <2>1. ping \in S /\ consumed \in Seq(S)
    BY DEF RoomInv, ReadTypeOK
  <2>2. consumed' = Append(consumed, ping) \/ consumed' = consumed
    BY DEF ReadHeader, Took
  <2> HIDE DEF S, ping
  <2>3. Append(consumed, ping) \in Seq(S)
    BY <2>1
  <2> QED BY <2>1, <2>2, <2>3 DEF S
<1>6. ReadTypeOK'
  BY <1>3, <1>4, <1>5 DEF RoomInv, ReadTypeOK, ReadHeader, Buffers
<1>7. KeptShort'
  <2>1. parsing'
    BY DEF ReadHeader
  <2> QED BY <1>4, <2>1 DEF KeptShort
<1> QED BY <1>1, <1>2, <1>3, <1>4, <1>6, <1>7 DEF RoomInv

LEMMA ReadBodyRoom ==
    ASSUME RoomInv, ReadBody
    PROVE  /\ RoomInv'
           /\ buf.unread \in Seq(Byte) /\ body \in Nat /\ Len(buf.unread) >= body
           /\ buf'.unread = SubSeq(buf.unread, body + 1, Len(buf.unread))
<1>1. /\ buf \in Buffers /\ buf.unread \in Seq(Byte) /\ Len(buf.unread) \in Nat
      /\ buf.off + Len(buf.unread) <= FrameMax /\ body \in Nat /\ body > 0 /\ BodyMax \in Nat
  BY BoundsAreNat DEF RoomInv, ReadTypeOK, Buffers, ReadBody
<1>2. Len(buf.unread) >= body
  BY <1>1 DEF ReadBody, Complete, BufLength
<1>4. /\ buf' \in Buffers /\ buf'.off + Len(buf'.unread) <= FrameMax
      /\ buf'.unread = SubSeq(buf.unread, body + 1, Len(buf.unread))
      /\ buf'.unread = << >> => buf'.off = 0
  <2>1. buf' = Consume(buf, body)
    BY DEF ReadBody
  <2> QED BY <1>1, <1>2, <2>1, ConsumeIs
<1>5. consumed' \in Seq([body : Seq(Byte), how : {"ping", "delivered", "skipped"}])
  <2>1. SubSeq(buf.unread, 1, body) \in Seq(Byte)
    BY <1>1, <1>2, CutIs
  <2>2. [body |-> SubSeq(buf.unread, 1, body), how |-> IF callbacks THEN "delivered" ELSE "skipped"]
            \in [body : Seq(Byte), how : {"ping", "delivered", "skipped"}]
    BY <2>1
  <2> QED BY <2>2 DEF RoomInv, ReadTypeOK, ReadBody, Took
<1>6. ReadTypeOK'
  <2>1. body' \in 0 .. BodyMax
    BY <1>1 DEF ReadBody
  <2> QED BY <1>4, <1>5, <2>1 DEF RoomInv, ReadTypeOK, ReadBody, Buffers
<1>7. KeptShort'
  <2>1. parsing'
    BY DEF ReadBody
  <2> QED BY <1>4, <2>1 DEF KeptShort
<1> QED BY <1>1, <1>2, <1>4, <1>6, <1>7 DEF RoomInv

LEMMA ReadEndRoom ==
    ASSUME RoomInv, ReadEnd
    PROVE  RoomInv' /\ buf'.unread = buf.unread
<1>1. buf \in Buffers /\ FrameMax \in Nat /\ buf.off + Len(buf.unread) <= FrameMax
  BY BoundsAreNat DEF RoomInv, ReadTypeOK, Buffers
<1>2. buf'.unread = buf.unread /\ buf'.off = 0 /\ buf' \in Buffers
  <2>1. CASE buf.unread = << >> \/ buf.off = 0
    BY <1>1, <2>1 DEF ReadEnd, Fragment, RoomInv, KeptShort
  <2>2. CASE ~ (buf.unread = << >> \/ buf.off = 0)
    <3>1. buf' = [buf EXCEPT !.off = 0]
      BY <2>2 DEF ReadEnd, Fragment
    <3> QED BY <1>1, <3>1 DEF Buffers
  <2> QED BY <2>1, <2>2
<1>3. buf'.off + Len(buf'.unread) <= FrameMax
  <2>1. Len(buf.unread) \in Nat /\ buf.off \in Nat
    BY <1>1 DEF Buffers
  <2> QED BY <1>1, <1>2, <2>1
<1>4. ReadTypeOK'
  BY <1>2, <1>3 DEF RoomInv, ReadTypeOK, ReadEnd, Buffers
<1>5. KeptShort'
  BY <1>2 DEF KeptShort, ReadEnd, Complete, BufLength
<1> QED BY <1>2, <1>4, <1>5 DEF RoomInv

LEMMA ReadNothingRoom ==
    ASSUME RoomInv, NEW why \in {"eof", "again"}, ReadNothing(why)
    PROVE  RoomInv'
BY DEF RoomInv, ReadTypeOK, KeptShort, Complete, BufLength, ReadNothing

LEMMA SetCallbacksRoom ==
    ASSUME RoomInv, SetCallbacks
    PROVE  RoomInv'
BY DEF RoomInv, ReadTypeOK, KeptShort, Complete, BufLength, SetCallbacks, readVars

LEMMA RoomStep == RoomInv /\ [ReadNext]_vars => RoomInv'
<1> SUFFICES ASSUME RoomInv, [ReadNext]_vars
             PROVE  RoomInv'
  OBVIOUS
<1>1. ASSUME NEW p \in Packets, Write(p)
      PROVE  RoomInv'
  BY <1>1, WriteRoom
<1>2. CASE SetCallbacks
  BY <1>2, SetCallbacksRoom
<1>3. ASSUME NEW n \in 1 .. FrameMax, ReadBytes(n)
      PROVE  RoomInv'
  BY <1>3, ReadBytesRoom
<1>4. CASE ReadHeader
  BY <1>4, ReadHeaderRoom
<1>5. CASE ReadBody
  BY <1>5, ReadBodyRoom
<1>6. CASE ReadEnd
  BY <1>6, ReadEndRoom
<1>7. ASSUME NEW why \in {"eof", "again"}, ReadNothing(why)
      PROVE  RoomInv'
  BY <1>7, ReadNothingRoom
<1>8. CASE UNCHANGED vars
  BY <1>8 DEF RoomInv, ReadTypeOK, KeptShort, Complete, BufLength, vars, readVars
<1> QED BY <1>1, <1>2, <1>3, <1>4, <1>5, <1>6, <1>7, <1>8 DEF ReadNext

LEMMA RoomFollows == RoomInv => ReadTypeOK /\ RoomToRead
<1> SUFFICES ASSUME RoomInv, ~ parsing
             PROVE  BufCapacity(buf, FrameMax) > 0
  BY DEF RoomInv, RoomToRead
<1> DEFINE n == Len(buf.unread)
<1>1. n \in Nat /\ buf.off = 0 /\ body \in 0 .. BodyMax
  BY DEF RoomInv, ReadTypeOK, KeptShort
<1>2. ~ (n >= IF body = 0 THEN 2 ELSE body)
  BY DEF RoomInv, KeptShort, Complete, BufLength, HeaderLength
<1>3. BufCapacity(buf, FrameMax) = FrameMax - (buf.off + n)
  BY DEF BufCapacity
<1> HIDE DEF n
<1> QED BY <1>1, <1>2, <1>3, BoundsAreNat

(* Whatever is written, however it is cut and whether or not a header can  *)
(* tell it, a read callback ends with room for at least one more byte.     *)
THEOREM ReadRoom == ReadSafety => [](ReadTypeOK /\ RoomToRead)
<1>1. ReadInit => RoomInv
  BY ReadInitRoom
<1>2. RoomInv /\ [ReadNext]_vars => RoomInv'
  BY RoomStep
<1>3. RoomInv => ReadTypeOK /\ RoomToRead
  BY RoomFollows
<1> QED BY <1>1, <1>2, <1>3, PTL DEF ReadSafety
-----------------------------------------------------------------------------
(* What is still to be read is, byte for byte, what the frames of the       *)
(* packets not consumed are put together from: tail[k] is the frames after *)
(* the k-th one.  Between header and body the frame has lost its header.   *)
Tails ==
    {tail \in [0 .. Len(sent) -> Seq(Byte)] :
        /\ tail[Len(sent)] = << >>
        /\ \A j \in 1 .. Len(sent) : tail[j - 1] = Frame(sent[j]) \o tail[j]}

InStep(tail) ==
    LET n == Len(consumed)
    IN  /\ body = 0 /\ Told(n) => n <= Len(sent) /\ buf.unread \o wire = tail[n]
        /\ body # 0 /\ Told(n + 1) =>
               /\ n + 1 <= Len(sent) /\ body = Len(sent[n + 1])
               /\ buf.unread \o wire = sent[n + 1] \o tail[n + 1]

SyncInv == (\E tail \in Tails : InStep(tail)) /\ InSync

LEMMA SyncTypes ==
    ASSUME RoomInv
    PROVE  /\ Len(sent) \in Nat /\ \A k \in 1 .. Len(sent) : sent[k] \in Packets /\ sent[k] \in Seq(Byte)
           /\ Len(consumed) \in Nat
           /\ wire \in Seq(Byte) /\ buf.unread \in Seq(Byte) /\ body \in Nat
           /\ buf.unread \o wire \in Seq(Byte)
<1>1. /\ sent \in Seq(Packets) /\ wire \in Seq(Byte) /\ buf.unread \in Seq(Byte) /\ body \in Nat
      /\ Len(consumed) \in Nat
  BY BoundsAreNat DEF RoomInv, ReadTypeOK
<1> QED BY <1>1, PacketsAreBytes, ConcatIs

LEMMA ToldBefore ==
    ASSUME NEW k \in Nat, Told(k + 1)
    PROVE  Told(k)
BY DEF Told

LEMMA ReadInitSync == ReadInit => SyncInv
<1> SUFFICES ASSUME ReadInit
             PROVE  SyncInv
  OBVIOUS
<1> DEFINE tail == [k \in 0 .. 0 |-> << >>]
<1>1. Len(sent) = 0 /\ Len(consumed) = 0 /\ << >> \in Seq(Byte) /\ << >> \o << >> = << >>
  BY DEF ReadInit
<1>2. buf.unread = << >> /\ wire = << >> /\ body = 0
  BY DEF ReadInit, Cleared
<1>3. tail \in Tails
  BY <1>1 DEF Tails
<1>4. InStep(tail)
  BY <1>1, <1>2 DEF InStep
<1>5. InSync
  BY <1>1 DEF InSync
<1> QED BY <1>3, <1>4, <1>5 DEF SyncInv

(* What is written is put behind what is there. *)
LEMMA SentGrows ==
    ASSUME RoomInv, NEW p \in Packets, Write(p)
    PROVE  /\ Len(sent') = Len(sent) + 1 /\ sent'[Len(sent) + 1] = p
           /\ \A k \in 1 .. Len(sent) : sent'[k] = sent[k]
           /\ \A k \in Nat : Told(k)' => Told(k)
<1>1. sent \in Seq(Packets) /\ sent' = Append(sent, p) /\ Len(sent) \in Nat
  BY DEF RoomInv, ReadTypeOK, Write
<1>2. Len(sent') = Len(sent) + 1 /\ sent'[Len(sent) + 1] = p
  BY <1>1
<1>3. \A k \in 1 .. Len(sent) : sent'[k] = sent[k]
  BY <1>1
<1>4. ASSUME NEW k \in Nat, Told(k)'
      PROVE  Told(k)
  <2> SUFFICES ASSUME NEW j \in 1 .. k, j <= Len(sent)
               PROVE  Len(sent[j]) <= BodyMax
    BY DEF Told
  <2>1. j \in 1 .. Len(sent) /\ j <= Len(sent')
    BY <1>1, <1>2
  <2>2. Len(sent'[j]) <= BodyMax
    BY <1>4, <2>1 DEF Told
  <2> QED BY <1>3, <2>1, <2>2
<1> QED BY <1>2, <1>3, <1>4

LEMMA WriteSync ==
    ASSUME RoomInv, SyncInv, NEW p \in Packets, Write(p)
    PROVE  SyncInv'
<1> DEFINE N == Len(sent)
           F == Frame(p)
<1>1. PICK tail \in Tails : InStep(tail)
  BY DEF SyncInv
<1>2. /\ tail \in [0 .. N -> Seq(Byte)] /\ tail[N] = << >>
      /\ \A j \in 1 .. N : tail[j - 1] = Frame(sent[j]) \o tail[j]
  BY DEF Tails
<1>3. N \in Nat /\ F \in Seq(Byte) /\ \A k \in 1 .. N : sent[k] \in Seq(Byte) /\ Frame(sent[k]) \in Seq(Byte)
  BY SyncTypes, PacketsAreBytes, FrameIs
<1>4. /\ Len(sent') = N + 1 /\ sent'[N + 1] = p /\ \A k \in 1 .. N : sent'[k] = sent[k]
      /\ \A k \in Nat : Told(k)' => Told(k)
  BY SentGrows
<1>5. wire' = wire \o F /\ UNCHANGED <<buf, body, consumed>>
  BY DEF Write, readVars
<1>6. \A s \in Seq(Byte), t \in Seq(Byte) : (s \o t) \o F = s \o (t \o F) /\ t \o F \in Seq(Byte)
  <2> SUFFICES ASSUME NEW s \in Seq(Byte), NEW t \in Seq(Byte)
               PROVE  (s \o t) \o F = s \o (t \o F) /\ t \o F \in Seq(Byte)
    OBVIOUS
  <2>1. F \in Seq(Byte)
    BY <1>3
  <2> HIDE DEF F
  <2>2. (s \o t) \o F = s \o (t \o F)
    BY <2>1, ConcatAssociative, SMTT(30)
  <2> QED BY <2>1, <2>2, ConcatIs
<1>7. F \o << >> = F /\ << >> \o F = F /\ << >> \in Seq(Byte)
  BY <1>3
<1> HIDE DEF F, N
<1>8. PICK longer \in [0 .. N + 1 -> Seq(Byte)] :
          /\ \A j \in 0 .. N : longer[j] = tail[j] \o F
          /\ longer[N + 1] = << >>
  <2> DEFINE l == [j \in 0 .. N + 1 |-> IF j <= N THEN tail[j] \o F ELSE << >>]
  <2>1. \A j \in 0 .. N : tail[j] \in Seq(Byte) /\ tail[j] \o F \in Seq(Byte) /\ j \in 0 .. N + 1 /\ j <= N
    BY <1>2, <1>3, <1>6
  <2>2. N + 1 \in 0 .. N + 1 /\ ~ (N + 1 <= N) /\ \A j \in 0 .. N + 1 : j <= N => j \in 0 .. N
    BY <1>3
  <2>3. /\ \A j \in 0 .. N : l[j] = tail[j] \o F
        /\ l[N + 1] = << >> /\ l \in [0 .. N + 1 -> Seq(Byte)]
    BY <1>7, <2>1, <2>2
  <2> HIDE DEF l
  <2> QED BY <2>3
<1>9. longer \in Tails'
  <2>1. ASSUME NEW j \in 1 .. N + 1
        PROVE  longer[j - 1] = Frame(sent'[j]) \o longer[j]
    <3>1. CASE j = N + 1
      <4>1. N \in 0 .. N /\ j - 1 = N
        BY <1>3, <3>1
      <4>2. longer[j - 1] = F
        BY <1>2, <1>7, <1>8, <4>1
      <4>3. Frame(sent'[j]) = F
        BY <1>4, <3>1 DEF F
      <4> QED BY <1>7, <1>8, <3>1, <4>2, <4>3
    <3>2. CASE j <= N
      <4>1. j \in 1 .. N /\ j \in 0 .. N /\ j - 1 \in 0 .. N
        BY <1>3, <3>2
      <4>2. longer[j - 1] = (Frame(sent[j]) \o tail[j]) \o F /\ longer[j] = tail[j] \o F
        BY <1>2, <1>8, <4>1
      <4>3. sent'[j] = sent[j] /\ Frame(sent[j]) \in Seq(Byte) /\ tail[j] \in Seq(Byte)
        BY <1>2, <1>3, <1>4, <4>1
      <4>4. (Frame(sent[j]) \o tail[j]) \o F = Frame(sent[j]) \o (tail[j] \o F)
        BY <1>6, <4>3
      <4> QED BY <4>2, <4>3, <4>4, Zenon
    <3>3. j = N + 1 \/ j <= N
      BY <1>3
    <3> QED BY <3>1, <3>2, <3>3
  <2>2. Tails' = {t \in [0 .. Len(sent') -> Seq(Byte)] :
                     /\ t[Len(sent')] = << >>
                     /\ \A j \in 1 .. Len(sent') : t[j - 1] = Frame(sent'[j]) \o t[j]}
    BY DEF Tails, Frame
  <2> QED BY <1>4, <1>8, <2>1, <2>2
<1>10. InStep(longer)'
  <2>0. PICK n \in Nat : n = Len(consumed) /\ n = Len(consumed')
    BY <1>5, SyncTypes
  <2>1. wire \in Seq(Byte) /\ buf.unread \in Seq(Byte)
    BY SyncTypes
  <2>2. buf'.unread \o wire' = (buf.unread \o wire) \o F
    BY <1>5, <1>6, <2>1
  <2>3. ASSUME body' = 0, Told(n)'
        PROVE  n <= Len(sent') /\ buf'.unread \o wire' = longer[n]
    <3>1. n <= N /\ buf.unread \o wire = tail[n]
      BY <1>1, <1>4, <1>5, <2>0, <2>3 DEF InStep, N
    <3>2. n \in 0 .. N /\ n <= N + 1
      BY <1>3, <3>1
    <3> QED BY <1>4, <1>8, <2>2, <3>1, <3>2
  <2>4. ASSUME body' # 0, Told(n + 1)'
        PROVE  /\ n + 1 <= Len(sent') /\ body' = Len(sent'[n + 1])
               /\ buf'.unread \o wire' = sent'[n + 1] \o longer[n + 1]
    <3>0. Told(n + 1)
      BY <1>4, <2>4
    <3>1. n + 1 <= N /\ body = Len(sent[n + 1]) /\ buf.unread \o wire = sent[n + 1] \o tail[n + 1]
      BY <1>1, <1>5, <2>0, <2>4, <3>0 DEF InStep, N
    <3>2. n + 1 \in 1 .. N /\ n + 1 \in 0 .. N /\ n + 1 <= N + 1
      <4>1. n + 1 <= N
        BY <3>1
      <4> QED BY <1>3, <4>1
    <3>3. sent'[n + 1] = sent[n + 1] /\ sent[n + 1] \in Seq(Byte) /\ tail[n + 1] \in Seq(Byte)
      BY <1>2, <1>3, <1>4, <3>2
    <3>4. (sent[n + 1] \o tail[n + 1]) \o F = sent[n + 1] \o longer[n + 1]
      BY <1>6, <1>8, <3>2, <3>3
    <3> QED BY <1>4, <1>5, <2>2, <3>1, <3>2, <3>3, <3>4
  <2> QED BY <2>0, <2>3, <2>4 DEF InStep
<1>11. InSync'
  <2> SUFFICES ASSUME NEW k \in 1 .. Len(consumed), Told(k)'
               PROVE  k <= Len(sent') /\ consumed[k].body = sent'[k]
    BY <1>5 DEF InSync
  <2>1. k \in Nat /\ Told(k)
    BY <1>4, SyncTypes
  <2>2. k <= N /\ consumed[k].body = sent[k]
    BY <2>1 DEF SyncInv, InSync, N
  <2>3. k \in 1 .. N /\ k <= N + 1
    BY <1>3, <2>2
  <2> QED BY <1>4, <2>2, <2>3
<1> QED BY <1>9, <1>10, <1>11 DEF SyncInv

(* What leaves the packets, what was made of them and the bytes still to   *)
(* be read alone.                                                          *)
LEMMA SameSync ==
    ASSUME SyncInv, sent' = sent, consumed' = consumed, body' = body,
           buf'.unread \o wire' = buf.unread \o wire
    PROVE  SyncInv'
BY DEF SyncInv, Tails, InStep, InSync, Told, Frame

(* A header read in step is that of the next packet, and tells its length. *)
LEMMA ReadHeaderSync ==
    ASSUME RoomInv, SyncInv, ReadHeader
    PROVE  SyncInv'
<1>1. PICK tail \in Tails : InStep(tail)
  BY DEF SyncInv
<1>2. PICK n \in Nat : n = Len(consumed)
  BY SyncTypes
<1>3. body = 0 /\ UNCHANGED <<sent, wire>>
  BY DEF ReadHeader
<1>4. /\ buf.unread \in Seq(Byte) /\ Len(buf.unread) >= 2 /\ wire \in Seq(Byte)
      /\ body' = buf.unread[1] * Base + buf.unread[2]
      /\ buf'.unread = SubSeq(buf.unread, 2 + 1, Len(buf.unread))
  BY ReadHeaderRoom, SyncTypes
<1>5. tail \in Tails' /\ \A k : Told(k)' = Told(k)
  BY <1>1, <1>3 DEF Tails, Told, Frame
<1>6. /\ body' = 0 => Len(consumed') = n + 1 /\ consumed'[n + 1].body = << >>
      /\ body' = 0 => \A k \in 1 .. n : consumed'[k] = consumed[k]
      /\ body' # 0 => consumed' = consumed
  <2> DEFINE ping == [body |-> << >>, how |-> "ping"]
  <2>1. body' = 0 => consumed' = Append(consumed, ping)
    BY DEF ReadHeader, Took
  <2>2. consumed \in Seq([body : Seq(Byte), how : {"ping", "delivered", "skipped"}]) /\ ping.body = << >>
    BY DEF RoomInv, ReadTypeOK
  <2>3. body' # 0 => consumed' = consumed
    BY DEF ReadHeader
  <2> HIDE DEF ping
  <2>4. ASSUME body' = 0
        PROVE  /\ Len(consumed') = n + 1 /\ consumed'[n + 1] = ping
               /\ \A k \in 1 .. n : consumed'[k] = consumed[k]
    <3>1. consumed' = Append(consumed, ping)
      BY <2>1, <2>4
    <3>2. \A k \in 1 .. n : k # n + 1
      OBVIOUS
    <3> QED BY <1>2, <2>2, <3>1, <3>2, AppendProperties
  <2> QED BY <2>2, <2>3, <2>4
<1>7. ASSUME Told(n + 1)
      PROVE  /\ n + 1 \in 1 .. Len(sent) /\ body' = Len(sent[n + 1])
             /\ sent[n + 1] \in Seq(Byte) /\ tail[n + 1] \in Seq(Byte)
             /\ buf'.unread \o wire' = sent[n + 1] \o tail[n + 1]
  <2>1. n <= Len(sent) /\ buf.unread \o wire = tail[n]
    BY <1>1, <1>2, <1>3, <1>7, ToldBefore DEF InStep
  <2>2. Len(sent) \in Nat /\ tail[Len(sent)] = << >>
    BY SyncTypes DEF Tails
  <2>3. n # Len(sent)
    <3>1. Len(buf.unread \o wire) # 0
      <4>1. Len(buf.unread \o wire) = Len(buf.unread) + Len(wire) /\ Len(wire) \in Nat /\ Len(buf.unread) \in Nat
        BY <1>4, ConcatIs
      <4> QED BY <1>4, <4>1
    <3>2. Len(<< >>) = 0
      OBVIOUS
    <3> QED BY <2>1, <2>2, <3>1, <3>2
  <2>4. n + 1 \in 1 .. Len(sent) /\ n + 1 \in 0 .. Len(sent)
    <3>1. n <= Len(sent)
      BY <2>1
    <3> QED BY <2>2, <2>3, <3>1
  <2> DEFINE p == sent[n + 1]
             h == (Len(p) \div Base) % Base
             l == Len(p) % Base
             c == <<h, l>>
  <2>5. p \in Seq(Byte) /\ tail[n + 1] \in Seq(Byte)
    BY <2>4, SyncTypes DEF Tails
  <2>6. tail[n] = Frame(p) \o tail[n + 1]
    <3>1. \A j \in 1 .. Len(sent) : tail[j - 1] = Frame(sent[j]) \o tail[j]
      BY DEF Tails
    <3>2. (n + 1) - 1 = n
      OBVIOUS
    <3> QED BY <2>4, <3>1, <3>2
  <2>7. Frame(p) = c \o p /\ c \in Seq(Byte)
    BY <2>5, FrameIs
  <2>8. Len(p) \in 0 .. BodyMax
    <3>1. Len(p) <= BodyMax
      BY <1>7, <2>4 DEF Told
    <3> QED BY <2>5, <3>1, BoundsAreNat
  <2>9. h * Base + l = Len(p)
    BY <2>8, LengthTold
  <2> HIDE DEF p, h, l
  <2>15. Len(c) = 2 /\ c[1] = h /\ c[2] = l
    OBVIOUS
  <2> HIDE DEF c
  <2>10. buf.unread \o wire = c \o (p \o tail[n + 1])
    <3>1. (c \o p) \o tail[n + 1] = c \o (p \o tail[n + 1])
      <4>1. \A q \in Seq(Byte), r \in Seq(Byte), s \in Seq(Byte) : (q \o r) \o s = q \o (r \o s)
        BY ConcatAssociative
      <4> QED BY <2>5, <2>7, <4>1, Zenon
    <3> QED BY <2>1, <2>6, <2>7, <3>1
  <2>11. /\ SubSeq(buf.unread, 1, 2) = c
         /\ SubSeq(buf.unread, 2 + 1, Len(buf.unread)) \o wire = p \o tail[n + 1]
    <3> DEFINE d == p \o tail[n + 1]
    <3>1. d \in Seq(Byte) /\ Len(c) <= Len(buf.unread)
      BY <1>4, <2>5, <2>15, ConcatIs
    <3>2. /\ SubSeq(buf.unread, 1, Len(c)) = c
          /\ SubSeq(buf.unread, Len(c) + 1, Len(buf.unread)) \o wire = d
      <4>1. buf.unread \o wire = c \o d
        BY <2>10
      <4> HIDE DEF d
      <4> QED BY <1>4, <2>7, <3>1, <4>1, CutFront, Zenon
    <3> QED BY <2>15, <3>2
  <2>12. buf.unread[1] = h /\ buf.unread[2] = l
    <3>1. 2 \in Nat /\ 1 \in 1 .. 2 /\ 2 \in 1 .. 2
      OBVIOUS
    <3>2. SubSeq(buf.unread, 1, 2)[1] = buf.unread[1] /\ SubSeq(buf.unread, 1, 2)[2] = buf.unread[2]
      BY <1>4, <3>1, CutIs
    <3> QED BY <2>11, <2>15, <3>2, Zenon
  <2>13. body' = Len(p)
    BY <1>4, <2>9, <2>12
  <2>14. buf'.unread \o wire' = p \o tail[n + 1]
    BY <1>3, <1>4, <2>11
  <2> QED BY <2>4, <2>5, <2>13, <2>14 DEF p
<1>8. CASE body' = 0
  <2>1. ASSUME Told(n + 1)
        PROVE  sent[n + 1] = << >> /\ buf'.unread \o wire' = tail[n + 1]
    <3>1. sent[n + 1] = << >>
      BY <1>7, <1>8, <2>1
    <3>2. << >> \o tail[n + 1] = tail[n + 1]
      BY <1>7, <2>1
    <3> QED BY <1>7, <2>1, <3>1, <3>2
  <2>2. InStep(tail)'
    <3>1. ASSUME Told(n + 1)
          PROVE  n + 1 <= Len(sent) /\ buf'.unread \o wire' = tail[n + 1]
      BY <1>7, <2>1, <3>1
    <3> QED BY <1>3, <1>5, <1>6, <1>8, <3>1 DEF InStep
  <2>3. InSync'
    <3> SUFFICES ASSUME NEW k \in 1 .. n + 1, Told(k)
                 PROVE  k <= Len(sent) /\ consumed'[k].body = sent[k]
      BY <1>3, <1>5, <1>6, <1>8 DEF InSync
    <3>1. CASE k = n + 1
      BY <1>6, <1>7, <1>8, <2>1, <3>1
    <3>2. CASE k \in 1 .. n
      BY <1>2, <1>6, <1>8, <3>2 DEF SyncInv, InSync
    <3> QED BY <3>1, <3>2
  <2> QED BY <1>5, <2>2, <2>3 DEF SyncInv
<1>9. CASE body' # 0
  <2>1. InStep(tail)'
    <3>1. ASSUME Told(n + 1)
          PROVE  n + 1 <= Len(sent) /\ body' = Len(sent[n + 1]) /\ buf'.unread \o wire' = sent[n + 1] \o tail[n + 1]
      <4>1. n + 1 \in 1 .. Len(sent)
        BY <1>7, <3>1
      <4>2. n + 1 <= Len(sent)
        BY <4>1, SyncTypes
      <4> QED BY <1>7, <3>1, <4>2, Zenon
    <3> QED BY <1>2, <1>3, <1>5, <1>6, <1>9, <3>1 DEF InStep
  <2>2. InSync'
    BY <1>3, <1>5, <1>6, <1>9 DEF SyncInv, InSync
  <2> QED BY <1>5, <2>1, <2>2 DEF SyncInv
<1> QED BY <1>8, <1>9

(* A body read in step is the next packet. *)
LEMMA ReadBodySync ==
    ASSUME RoomInv, SyncInv, ReadBody
    PROVE  SyncInv'
<1>1. PICK tail \in Tails : InStep(tail)
  BY DEF SyncInv
<1>2. PICK n \in Nat : n = Len(consumed)
  BY SyncTypes
<1>3. body # 0 /\ body' = 0 /\ UNCHANGED <<sent, wire>>
  BY DEF ReadBody
<1>4. /\ buf.unread \in Seq(Byte) /\ body \in Nat /\ Len(buf.unread) >= body /\ wire \in Seq(Byte)
      /\ buf'.unread = SubSeq(buf.unread, body + 1, Len(buf.unread))
  BY ReadBodyRoom, SyncTypes
<1>5. tail \in Tails' /\ \A k : Told(k)' = Told(k)
  BY <1>1, <1>3 DEF Tails, Told, Frame
<1>6. /\ Len(consumed') = n + 1 /\ consumed'[n + 1].body = SubSeq(buf.unread, 1, body)
      /\ \A k \in 1 .. n : consumed'[k] = consumed[k]
  <2> DEFINE took == [body |-> SubSeq(buf.unread, 1, body), how |-> IF callbacks THEN "delivered" ELSE "skipped"]
  <2>1. consumed' = Append(consumed, took)
    BY DEF ReadBody, Took
  <2>2. consumed \in Seq([body : Seq(Byte), how : {"ping", "delivered", "skipped"}])
        /\ took.body = SubSeq(buf.unread, 1, body)
    BY DEF RoomInv, ReadTypeOK
  <2> HIDE DEF took
  <2> QED BY <1>2, <2>1, <2>2
<1>7. ASSUME Told(n + 1)
      PROVE  /\ n + 1 <= Len(sent) /\ SubSeq(buf.unread, 1, body) = sent[n + 1]
             /\ buf'.unread \o wire' = tail[n + 1]
  <2>1. /\ n + 1 <= Len(sent) /\ body = Len(sent[n + 1])
        /\ buf.unread \o wire = sent[n + 1] \o tail[n + 1]
    BY <1>1, <1>2, <1>3, <1>7 DEF InStep
  <2>2. n + 1 \in 1 .. Len(sent) /\ n + 1 \in 0 .. Len(sent)
    <3>1. n + 1 <= Len(sent) /\ Len(sent) \in Nat
      BY <2>1, SyncTypes
    <3> QED BY <3>1
  <2>3. sent[n + 1] \in Seq(Byte) /\ tail[n + 1] \in Seq(Byte)
    BY <2>2, SyncTypes DEF Tails
  <2>4. /\ SubSeq(buf.unread, 1, body) = sent[n + 1]
        /\ SubSeq(buf.unread, body + 1, Len(buf.unread)) \o wire = tail[n + 1]
    <3> DEFINE p == sent[n + 1]
    <3>1. Len(p) <= Len(buf.unread) /\ Len(p) = body
      BY <1>4, <2>1
    <3>2. p \in Seq(Byte) /\ buf.unread \o wire = p \o tail[n + 1]
      BY <2>1, <2>3
    <3> HIDE DEF p
    <3>3. /\ SubSeq(buf.unread, 1, Len(p)) = p
          /\ SubSeq(buf.unread, Len(p) + 1, Len(buf.unread)) \o wire = tail[n + 1]
      BY <1>4, <2>3, <3>1, <3>2, CutFront
    <3> QED BY <3>1, <3>3 DEF p
  <2> QED BY <1>3, <1>4, <2>1, <2>4
<1>8. InStep(tail)'
  <2>1. ASSUME Told(n + 1)
        PROVE  n + 1 <= Len(sent) /\ buf'.unread \o wire' = tail[n + 1]
    BY <1>7, <2>1
  <2> QED BY <1>3, <1>5, <1>6, <2>1 DEF InStep
<1>9. InSync'
  <2> SUFFICES ASSUME NEW k \in 1 .. n + 1, Told(k)
               PROVE  k <= Len(sent) /\ consumed'[k].body = sent[k]
    BY <1>3, <1>5, <1>6 DEF InSync
  <2>1. CASE k = n + 1
    BY <1>6, <1>7, <2>1
  <2>2. CASE k \in 1 .. n
    BY <1>2, <1>6, <2>2 DEF SyncInv, InSync
  <2> QED BY <2>1, <2>2
<1> QED BY <1>5, <1>8, <1>9 DEF SyncInv

LEMMA SyncStep == RoomInv /\ SyncInv /\ [ReadNext]_vars => SyncInv'
<1> SUFFICES ASSUME RoomInv, SyncInv, [ReadNext]_vars
             PROVE  SyncInv'
  OBVIOUS
<1>1. ASSUME NEW p \in Packets, Write(p)
      PROVE  SyncInv'
  BY <1>1, WriteSync
<1>2. CASE SetCallbacks
  BY <1>2, SameSync DEF SetCallbacks, readVars
<1>3. ASSUME NEW n \in 1 .. FrameMax, ReadBytes(n)
      PROVE  SyncInv'
  <2>1. UNCHANGED <<sent, consumed, body>>
    BY <1>3 DEF ReadBytes
  <2> QED BY <1>3, <2>1, ReadBytesRoom, SameSync
<1>4. CASE ReadHeader
  BY <1>4, ReadHeaderSync
<1>5. CASE ReadBody
  BY <1>5, ReadBodySync
<1>6. CASE ReadEnd
  <2>1. UNCHANGED <<sent, consumed, body, wire>>
    BY <1>6 DEF ReadEnd
  <2> QED BY <1>6, <2>1, ReadEndRoom, SameSync
<1>7. ASSUME NEW why \in {"eof", "again"}, ReadNothing(why)
      PROVE  SyncInv'
  BY <1>7, SameSync DEF ReadNothing
<1>8. CASE UNCHANGED vars
  BY <1>8, SameSync DEF vars, readVars
<1> QED BY <1>1, <1>2, <1>3, <1>4, <1>5, <1>6, <1>7, <1>8 DEF ReadNext

(* However the stream is cut, frame after frame is the packet that was     *)
(* written, until one that no header can tell.                             *)
THEOREM ReaderKeepsStep == ReadSafety => []InSync
<1>1. ReadInit => RoomInv /\ SyncInv
  BY ReadInitRoom, ReadInitSync
<1>2. RoomInv /\ SyncInv /\ [ReadNext]_vars => RoomInv' /\ SyncInv'
  BY RoomStep, SyncStep
<1>3. SyncInv => InSync
  BY DEF SyncInv
<1> QED BY <1>1, <1>2, <1>3, PTL DEF ReadSafety
=============================================================================
