------------------------- MODULE SftpTransferProofs -------------------------
(***************************************************************************)
(* Proofs about SftpTransfer, for any files, chunks, connections, faults,  *)
(* repetitions and restarts: the list of ranges is exactly what was        *)
(* received and "one range from 0 to the size" exactly "every byte"; and,  *)
(* where no two transfers have one path and a rename's answer is not lost, *)
(* a committed file is whole and stays on the server, unless its transfer  *)
(* was assembled on two connections at a time (Split).                     *)
(*                                                                         *)
(* Three parts: the loops of addRange and coveredBytes, which are          *)
(* recursions over the list; the states of the transfers and who works on  *)
(* them (AssemblyInv); the files of the server (FileInv).                  *)
(***************************************************************************)
EXTENDS SftpTransfer, WellFoundedInduction, TLAPS

\* A set of natural numbers that is not empty has a least element,
LEMMA LeastNat ==
  ASSUME NEW T, T \subseteq Nat, T # {}
  PROVE  \E n \in T : \A m \in T : n <= m
<1> DEFINE R == OpToRel(<, Nat)
<1>1. IsWellFoundedOn(R, Nat)
  BY NatLessThanWellFounded
<1>2. \A m, n \in Nat : m < n => <<m, n>> \in R
  BY DEF OpToRel
<1> HIDE DEF R
<1>3. PICK n \in T : \A m \in T : ~ (<<m, n>> \in R)
  BY <1>1, WFMin
<1>4. \A m \in T : ~(m < n)
  BY <1>2, <1>3
<1> QED BY <1>4

\* and so a set that contains 0 and with n also n + 1 contains all of them.
LEMMA Induction ==
  ASSUME NEW S, 0 \in S, \A n \in Nat : n \in S => n + 1 \in S
  PROVE  \A n \in Nat : n \in S
<1> SUFFICES ASSUME NEW n \in Nat, n \notin S PROVE FALSE
  OBVIOUS
<1> DEFINE T == Nat \ S
<1>1. T # {} /\ T \subseteq Nat
  OBVIOUS
<1>2. PICK m \in T : \A k \in T : m <= k
  BY <1>1, LeastNat
<1>3. m # 0 /\ m - 1 \in Nat /\ m - 1 \notin T /\ (m - 1) + 1 = m
  BY <1>2
<1> QED BY <1>3

\* A recursion over 0..n defines a function.
Recursive(T, b, step, n) ==
  \E f \in [0..n -> T] : f[0] = b /\ \A k \in 1..n : f[k] = step[k][f[k - 1]]

\* Such a function exists, for any start and any step (cited for the loops below).
LEMMA Recursion ==
  ASSUME NEW T, NEW b \in T, NEW step \in [Nat -> [T -> T]], NEW n \in Nat
  PROVE  Recursive(T, b, step, n)
<1> DEFINE F(m) == {f \in [0..m -> T] : f[0] = b /\ \A k \in 1..m : f[k] = step[k][f[k - 1]]}
           S == {m \in Nat : F(m) # {}}
<1>1. 0 \in S
  <2>1. [k \in 0..0 |-> b] \in F(0)
    OBVIOUS
  <2> QED BY <2>1
<1>2. ASSUME NEW m \in Nat, m \in S PROVE m + 1 \in S
  <2>1. PICK f \in F(m) : TRUE
    BY <1>2
  <2> DEFINE g == [k \in 0..(m + 1) |-> IF k = m + 1 THEN step[k][f[m]] ELSE f[k]]
  <2>2. f[m] \in T /\ step[m + 1] \in [T -> T]
    BY <2>1
  <2>3. g \in [0..(m + 1) -> T]
    BY <2>1, <2>2
  <2>4. g[0] = b
    BY <2>1
  <2>5. ASSUME NEW k \in 1..(m + 1) PROVE g[k] = step[k][g[k - 1]]
    <3>1. k - 1 \in 0..m /\ g[k - 1] = f[k - 1]
      OBVIOUS
    <3>2. CASE k = m + 1
      BY <3>1, <3>2
    <3>3. CASE k # m + 1
      BY <3>1, <3>3, <2>1
    <3> QED BY <3>2, <3>3
  <2>6. g \in F(m + 1)
    <3> HIDE DEF g
    <3> QED BY <2>3, <2>4, <2>5
  <2> HIDE DEF F
  <2> QED BY <2>6
<1> HIDE DEF S
<1>3. n \in S
  BY <1>1, <1>2, Induction
<1> QED BY <1>3 DEF S, Recursive
-----------------------------------------------------------------------------
\* What addRange's loop carries from turn to turn.
Acc == [merged : Seq(FileRange), new : FileRange, inserted : BOOLEAN]

\* The least and the greatest of two numbers.
LEMMA MinMax ==
  ASSUME NEW a \in Int, NEW b \in Int
  PROVE  /\ Min({a, b}) = IF a <= b THEN a ELSE b
         /\ Max({a, b}) = IF a >= b THEN a ELSE b
  BY DEF Min, Max

\* One turn of addRange's loop keeps the kinds of what it carries.
LEMMA MergeType ==
  ASSUME NEW a \in Acc, NEW c \in FileRange
  PROVE  MergeOne(a, c) \in Acc
<1>1. /\ a.merged \in Seq(FileRange) /\ a.new \in FileRange /\ a.inserted \in BOOLEAN
      /\ Append(a.merged, c) \in Seq(FileRange)
      /\ Append(Append(a.merged, a.new), c) \in Seq(FileRange)
  BY DEF Acc
<1>2. /\ Min({a.new.start, c.start}) \in Nat /\ Max({a.new.end, c.end}) \in Nat
  <2>1. a.new.start \in Nat /\ c.start \in Nat /\ a.new.end \in Nat /\ c.end \in Nat
    BY <1>1 DEF FileRange
  <2>2. /\ Min({a.new.start, c.start}) = IF a.new.start <= c.start THEN a.new.start ELSE c.start
        /\ Max({a.new.end, c.end}) = IF a.new.end >= c.end THEN a.new.end ELSE c.end
    BY <2>1 DEF Min, Max
  <2> QED BY <2>1, <2>2
<1> QED BY <1>1, <1>2 DEF MergeOne, Acc, FileRange

\* The loop runs from the first range to the last.
LEMMA TurnsDefined ==
  ASSUME NEW ranges \in Seq(FileRange), NEW r \in FileRange
  PROVE  LET acc == Turns(ranges, r) IN
         /\ acc \in [0..Len(ranges) -> Acc]
         /\ acc[0] = [merged |-> <<>>, new |-> r, inserted |-> FALSE]
         /\ \A k \in 1..Len(ranges) : acc[k] = MergeOne(acc[k - 1], ranges[k])
<1> DEFINE n == Len(ranges)
           b == [merged |-> <<>>, new |-> r, inserted |-> FALSE]
           step == [k \in Nat |-> [a \in Acc |-> IF k \in 1..n THEN MergeOne(a, ranges[k]) ELSE a]]
           F(f) == [k \in 0..n |-> IF k = 0 THEN b ELSE MergeOne(f[k - 1], ranges[k])]
<1>1. n \in Nat /\ b \in Acc /\ \A k \in 1..n : ranges[k] \in FileRange
  BY DEF Acc
<1>2. step \in [Nat -> [Acc -> Acc]]
  BY <1>1, MergeType
<1>3. PICK f \in [0..n -> Acc] : f[0] = b /\ \A k \in 1..n : f[k] = step[k][f[k - 1]]
  <2> HIDE DEF step, b, n
  <2>1. Recursive(Acc, b, step, n)
    BY <1>1, <1>2, Recursion, Zenon
  <2> QED BY <2>1 DEF Recursive
<1>4. \A k \in 1..n : f[k] = MergeOne(f[k - 1], ranges[k])
  <2> SUFFICES ASSUME NEW k \in 1..n PROVE f[k] = MergeOne(f[k - 1], ranges[k])
    OBVIOUS
  <2>1. k \in Nat /\ f[k - 1] \in Acc
    BY <1>1, <1>3
  <2> QED BY <2>1, <1>3
<1>5. f = F(f)
  <2> HIDE DEF b, step
  <2> QED BY <1>1, <1>3, <1>4
<1>6. Turns(ranges, r) = CHOOSE g : g = F(g)
  BY DEF Turns
<1>7. Turns(ranges, r) = F(Turns(ranges, r))
  <2> HIDE DEF F
  <2> QED BY <1>5, <1>6
<1> DEFINE acc == Turns(ranges, r)
<1>8. DOMAIN acc = 0..n /\ acc[0] = b
  BY <1>1, <1>7
<1>9. \A k \in 1..n : acc[k] = MergeOne(acc[k - 1], ranges[k])
  <2> SUFFICES ASSUME NEW k \in 1..n PROVE acc[k] = MergeOne(acc[k - 1], ranges[k])
    OBVIOUS
  <2>1. k \in 0..n /\ k # 0
    BY <1>1
  <2>2. acc[k] = F(acc)[k]
    <3> HIDE DEF F, acc
    <3> QED BY <1>7 DEF acc
  <2> HIDE DEF acc, b
  <2> QED BY <2>1, <2>2
<1> DEFINE S == {k \in Nat : k <= n => acc[k] \in Acc}
<1>10. 0 \in S
  BY <1>1, <1>8
<1>11. ASSUME NEW k \in Nat, k \in S PROVE k + 1 \in S
  <2>1. CASE k + 1 <= n
    <3>1. k + 1 \in 1..n /\ acc[k] \in Acc /\ (k + 1) - 1 = k
      BY <1>1, <1>11, <2>1
    <3>2. acc[k + 1] = MergeOne(acc[k], ranges[k + 1])
      BY <1>9, <3>1
    <3>3. acc[k + 1] \in Acc
      BY <1>1, <3>1, <3>2, MergeType
    <3> QED BY <3>3
  <2> QED BY <2>1, <1>1
<1> HIDE DEF S
<1>12. \A k \in Nat : k \in S
  BY <1>10, <1>11, Induction
<1>13. \A k \in 0..n : acc[k] \in Acc
  BY <1>1, <1>12 DEF S
<1>14. acc = [k \in 0..n |-> acc[k]]
  BY <1>7
<1>15. acc \in [0..n -> Acc]
  <2> HIDE DEF acc, n
  <2> QED BY <1>13, <1>14
<1> QED BY <1>8, <1>9, <1>15
-----------------------------------------------------------------------------
\* Byte b is in range x, in some range of q.
In(b, x) == x.start < b /\ b <= x.end
InSome(b, q) == \E j \in DOMAIN q : In(b, q[j])

\* What is in a list of ranges: pairs of numbers.
LEMMA RangeFields ==
  ASSUME NEW q \in Seq(FileRange)
  PROVE  \A j \in DOMAIN q : q[j] \in FileRange /\ q[j].start \in Nat /\ q[j].end \in Nat
<1>1. \A j \in DOMAIN q : q[j] \in FileRange
  OBVIOUS
<1>2. \A x \in FileRange : x.start \in Nat /\ x.end \in Nat
  BY DEF FileRange
<1> QED BY <1>1, <1>2

\* Covered, byte by byte.
LEMMA CoveredIs ==
  ASSUME NEW q \in Seq(FileRange), NEW b
  PROVE  b \in Covered(q) <=> b \in Nat /\ InSome(b, q)
<1>1. \A j \in DOMAIN q : q[j].start \in Nat /\ q[j].end \in Nat
  BY RangeFields
<1>2. b \in Covered(q) <=> \E j \in DOMAIN q : b \in (q[j].start + 1)..q[j].end
  BY DEF Covered
<1>3. \A j \in DOMAIN q : b \in (q[j].start + 1)..q[j].end <=> b \in Nat /\ In(b, q[j])
  BY <1>1 DEF In
<1> QED BY <1>2, <1>3 DEF InSome

\* What the loop has made of the first k ranges.
Merged(ranges, r, k, a) ==
  /\ Canonical(a.merged) /\ a.new.start < a.new.end
  /\ \A b \in Nat : InSome(b, a.merged) \/ In(b, a.new) <=>
                      (\E j \in 1..k : In(b, ranges[j])) \/ In(b, r)
  /\ k < Len(ranges) => \A j \in DOMAIN a.merged : a.merged[j].end < ranges[k + 1].start
  /\ ~a.inserted => \A j \in DOMAIN a.merged : a.merged[j].end < a.new.start
  /\ a.inserted => /\ \A b \in Nat : In(b, a.new) => InSome(b, a.merged)
                   /\ k < Len(ranges) => a.new.end < ranges[k + 1].start

\* A range behind all others.
LEMMA AppendRange ==
  ASSUME NEW q \in Seq(FileRange), Canonical(q), NEW x \in FileRange, x.start < x.end,
         \A j \in DOMAIN q : q[j].end < x.start
  PROVE  /\ Append(q, x) \in Seq(FileRange) /\ Canonical(Append(q, x))
         /\ \A b : InSome(b, Append(q, x)) <=> InSome(b, q) \/ In(b, x)
         /\ \A m : (\A j \in DOMAIN q : q[j].end < m) /\ x.end < m =>
                     \A j \in DOMAIN Append(q, x) : Append(q, x)[j].end < m
<1> DEFINE p == Append(q, x)
<1>a. Len(q) \in Nat
  OBVIOUS
<1>1. /\ p \in Seq(FileRange) /\ Len(q) \in Nat /\ Len(p) = Len(q) + 1
      /\ DOMAIN q = 1..Len(q) /\ DOMAIN p = 1..(Len(q) + 1)
      /\ p[Len(q) + 1] = x /\ \A j \in 1..Len(q) : p[j] = q[j]
  OBVIOUS
<1> HIDE DEF p
<1>2. \A j \in DOMAIN p : p[j].start < p[j].end
  BY <1>1 DEF Canonical
<1>3. \A j \in 1..(Len(p) - 1) : p[j].end < p[j + 1].start
  <2> SUFFICES ASSUME NEW j \in 1..Len(q) PROVE p[j].end < p[j + 1].start
    BY <1>1
  <2>1. CASE j = Len(q)
    BY <1>1, <2>1
  <2>2. CASE j # Len(q)
    <3>1. j \in 1..(Len(q) - 1) /\ j + 1 \in 1..Len(q)
      BY <1>a, <2>2
    <3> QED BY <1>1, <3>1 DEF Canonical
  <2> QED BY <2>1, <2>2
<1>4. \A b : InSome(b, p) <=> InSome(b, q) \/ In(b, x)
  BY <1>1 DEF InSome
<1>5. \A m : (\A j \in DOMAIN q : q[j].end < m) /\ x.end < m => \A j \in DOMAIN p : p[j].end < m
  BY <1>1
<1> QED BY <1>1, <1>2, <1>3, <1>4, <1>5 DEF p, Canonical

\* One turn of addRange's loop keeps Merged: the range is put before the current one,
\* after it, or grows over it.
LEMMA MergeStep ==
  ASSUME NEW ranges \in Seq(FileRange), Canonical(ranges), NEW r \in FileRange,
         NEW k \in Nat, k < Len(ranges), NEW a \in Acc
  PROVE  Merged(ranges, r, k, a) => Merged(ranges, r, k + 1, MergeOne(a, ranges[k + 1]))
<1>0. SUFFICES ASSUME Merged(ranges, r, k, a) PROVE Merged(ranges, r, k + 1, MergeOne(a, ranges[k + 1]))
  OBVIOUS
<1> DEFINE c == ranges[k + 1]
           new == a.new
           q == a.merged
           z == MergeOne(a, c)
<1>1. /\ c \in FileRange /\ c.start \in Nat /\ c.end \in Nat /\ c.start < c.end
      /\ new \in FileRange /\ new.start \in Nat /\ new.end \in Nat /\ new.start < new.end
      /\ q \in Seq(FileRange) /\ a.inserted \in BOOLEAN /\ z \in Acc
  <2>1. k + 1 \in DOMAIN ranges /\ c \in FileRange
    OBVIOUS
  <2>2. c.start < c.end
    BY <2>1 DEF Canonical
  <2> QED BY <1>0, <2>1, <2>2, MergeType DEF Acc, FileRange, Merged
<1>2. \A j \in DOMAIN q : q[j].start \in Nat /\ q[j].end \in Nat
  BY <1>1, RangeFields
<1>3. /\ Canonical(q) /\ \A j \in DOMAIN q : q[j].end < c.start
      /\ \A b \in Nat : InSome(b, q) \/ In(b, new) <=>
                          (\E j \in 1..k : In(b, ranges[j])) \/ In(b, r)
      /\ ~a.inserted => \A j \in DOMAIN q : q[j].end < new.start
      /\ a.inserted => /\ \A b \in Nat : In(b, new) => InSome(b, q)
                       /\ new.end < c.start
  BY <1>0 DEF Merged
<1>4. k + 1 < Len(ranges) => c.end < ranges[(k + 1) + 1].start
  <2> SUFFICES ASSUME k + 1 < Len(ranges) PROVE c.end < ranges[(k + 1) + 1].start
    OBVIOUS
  <2>1. k + 1 \in 1..(Len(ranges) - 1)
    OBVIOUS
  <2> QED BY <2>1 DEF Canonical
<1>5. k + 1 < Len(ranges) => ranges[(k + 1) + 1].start \in Nat
  <2> SUFFICES ASSUME k + 1 < Len(ranges) PROVE ranges[(k + 1) + 1].start \in Nat
    OBVIOUS
  <2>1. (k + 1) + 1 \in DOMAIN ranges
    OBVIOUS
  <2> QED BY <2>1, RangeFields
<1>6. \A b : (\E j \in 1..(k + 1) : In(b, ranges[j])) <=> (\E j \in 1..k : In(b, ranges[j])) \/ In(b, c)
  <2> SUFFICES ASSUME NEW b
               PROVE (\E j \in 1..(k + 1) : In(b, ranges[j])) <=> (\E j \in 1..k : In(b, ranges[j])) \/ In(b, c)
    OBVIOUS
  <2>1. 1..(k + 1) = (1..k) \cup {k + 1}
    OBVIOUS
  <2> QED BY <2>1
<1>7. Before(c, new) \/ Before(new, c) \/ (~Before(c, new) /\ ~Before(new, c))
  OBVIOUS
<1> HIDE DEF c, new, q, z
<1>8. ASSUME Before(c, new) PROVE Merged(ranges, r, k + 1, z)
  <2>1. ~a.inserted /\ c.end < new.start /\ ~Before(new, c)
    BY <1>1, <1>3, <1>8 DEF Before
  <2>2. z = [a EXCEPT !.merged = Append(q, c)]
    BY <1>8, <2>1 DEF z, q, new, MergeOne
  <2>3. z.merged = Append(q, c) /\ z.new = new /\ z.inserted = a.inserted
    BY <2>2 DEF Acc, new
  <2>4. /\ Canonical(Append(q, c)) /\ \A b : InSome(b, Append(q, c)) <=> InSome(b, q) \/ In(b, c)
        /\ \A m : (\A j \in DOMAIN q : q[j].end < m) /\ c.end < m =>
                     \A j \in DOMAIN Append(q, c) : Append(q, c)[j].end < m
    BY <1>1, <1>3, AppendRange
  <2>5. \A j \in DOMAIN Append(q, c) : Append(q, c)[j].end < new.start
    BY <1>3, <2>1, <2>4
  <2>6. k + 1 < Len(ranges) => \A j \in DOMAIN q : q[j].end < ranges[(k + 1) + 1].start
    BY <1>1, <1>2, <1>3, <1>4, <1>5
  <2>7. k + 1 < Len(ranges) =>
          \A j \in DOMAIN Append(q, c) : Append(q, c)[j].end < ranges[(k + 1) + 1].start
    BY <1>4, <2>4, <2>6
  <2>8. \A b \in Nat : InSome(b, Append(q, c)) \/ In(b, new) <=>
                         (\E j \in 1..(k + 1) : In(b, ranges[j])) \/ In(b, r)
    BY <1>3, <1>6, <2>4
  <2>a. Canonical(z.merged) /\ z.new.start < z.new.end
    BY <1>1, <2>3, <2>4
  <2>b. \A b \in Nat : InSome(b, z.merged) \/ In(b, z.new) <=>
                         (\E j \in 1..(k + 1) : In(b, ranges[j])) \/ In(b, r)
    BY <2>3, <2>8
  <2>c. k + 1 < Len(ranges) =>
          \A j \in DOMAIN z.merged : z.merged[j].end < ranges[(k + 1) + 1].start
    BY <2>3, <2>7
  <2>d. ~z.inserted => \A j \in DOMAIN z.merged : z.merged[j].end < z.new.start
    BY <2>3, <2>5
  <2>e. z.inserted => /\ \A b \in Nat : In(b, z.new) => InSome(b, z.merged)
                      /\ k + 1 < Len(ranges) => z.new.end < ranges[(k + 1) + 1].start
    BY <2>1, <2>3
  <2> QED BY <2>a, <2>b, <2>c, <2>d, <2>e DEF Merged
<1>9. ASSUME Before(new, c) PROVE Merged(ranges, r, k + 1, z)
  <2> DEFINE p == IF a.inserted THEN q ELSE Append(q, new)
  <2>1. ~Before(c, new) /\ new.end < c.start
    BY <1>1, <1>9 DEF Before
  <2>2. z = [a EXCEPT !.merged = Append(p, c), !.inserted = TRUE]
    BY <1>9, <2>1 DEF z, q, new, MergeOne
  <2>3. z.merged = Append(p, c) /\ z.new = new /\ z.inserted = TRUE
    BY <2>2 DEF Acc, new
  <2>4. /\ p \in Seq(FileRange) /\ Canonical(p) /\ \A j \in DOMAIN p : p[j].end < c.start
        /\ \A b \in Nat : InSome(b, p) <=> InSome(b, q) \/ In(b, new)
    <3>1. CASE a.inserted
      BY <1>1, <1>3, <3>1
    <3>2. CASE ~a.inserted
      <4>1. /\ Append(q, new) \in Seq(FileRange) /\ Canonical(Append(q, new))
            /\ \A b : InSome(b, Append(q, new)) <=> InSome(b, q) \/ In(b, new)
            /\ \A m : (\A j \in DOMAIN q : q[j].end < m) /\ new.end < m =>
                         \A j \in DOMAIN Append(q, new) : Append(q, new)[j].end < m
        BY <1>1, <1>3, <3>2, AppendRange
      <4>2. \A j \in DOMAIN Append(q, new) : Append(q, new)[j].end < c.start
        BY <1>3, <2>1, <4>1
      <4> QED BY <3>2, <4>1, <4>2
    <3> QED BY <3>1, <3>2
  <2> HIDE DEF p
  <2>5. \A j \in DOMAIN p : p[j].start \in Nat /\ p[j].end \in Nat
    BY <2>4, RangeFields
  <2>6. /\ Canonical(Append(p, c)) /\ \A b : InSome(b, Append(p, c)) <=> InSome(b, p) \/ In(b, c)
        /\ \A m : (\A j \in DOMAIN p : p[j].end < m) /\ c.end < m =>
                     \A j \in DOMAIN Append(p, c) : Append(p, c)[j].end < m
    BY <1>1, <2>4, AppendRange
  <2>7. k + 1 < Len(ranges) => \A j \in DOMAIN p : p[j].end < ranges[(k + 1) + 1].start
    BY <1>1, <1>4, <1>5, <2>4, <2>5
  <2>8. k + 1 < Len(ranges) =>
          \A j \in DOMAIN Append(p, c) : Append(p, c)[j].end < ranges[(k + 1) + 1].start
    BY <1>4, <2>6, <2>7
  <2>9. k + 1 < Len(ranges) => new.end < ranges[(k + 1) + 1].start
    BY <1>1, <1>4, <1>5, <2>1
  <2>10. \A b \in Nat : /\ InSome(b, Append(p, c)) \/ In(b, new) <=>
                            (\E j \in 1..(k + 1) : In(b, ranges[j])) \/ In(b, r)
                        /\ In(b, new) => InSome(b, Append(p, c))
    BY <1>3, <1>6, <2>4, <2>6
  <2>a. Canonical(z.merged) /\ z.new.start < z.new.end
    BY <1>1, <2>3, <2>6
  <2>b. \A b \in Nat : InSome(b, z.merged) \/ In(b, z.new) <=>
                         (\E j \in 1..(k + 1) : In(b, ranges[j])) \/ In(b, r)
    BY <2>3, <2>10
  <2>c. k + 1 < Len(ranges) =>
          \A j \in DOMAIN z.merged : z.merged[j].end < ranges[(k + 1) + 1].start
    BY <2>3, <2>8
  <2>d. ~z.inserted => \A j \in DOMAIN z.merged : z.merged[j].end < z.new.start
    BY <2>3
  <2>e. z.inserted => /\ \A b \in Nat : In(b, z.new) => InSome(b, z.merged)
                      /\ k + 1 < Len(ranges) => z.new.end < ranges[(k + 1) + 1].start
    BY <2>3, <2>9, <2>10
  <2> QED BY <2>a, <2>b, <2>c, <2>d, <2>e DEF Merged
<1>10. ASSUME ~Before(c, new) /\ ~Before(new, c) PROVE Merged(ranges, r, k + 1, z)
  <2>1. c.end >= new.start /\ new.end >= c.start /\ ~a.inserted
    BY <1>1, <1>3, <1>10 DEF Before
  <2>2. z = [a EXCEPT !.new.start = Min({@, c.start}), !.new.end = Max({@, c.end})]
    BY <1>10 DEF z, new, MergeOne
  <2> DEFINE s == IF new.start <= c.start THEN new.start ELSE c.start
             e == IF new.end >= c.end THEN new.end ELSE c.end
  <2>3. Min({new.start, c.start}) = s /\ Max({new.end, c.end}) = e
    BY <1>1 DEF Min, Max
  <2>4. z.merged = q /\ z.inserted = FALSE /\ z.new.start = s /\ z.new.end = e
    BY <1>1, <2>1, <2>2, <2>3 DEF Acc, FileRange, new, q
  <2>5. s \in Nat /\ e \in Nat /\ s < e
    BY <1>1
  <2>6. \A b \in Nat : In(b, z.new) <=> In(b, new) \/ In(b, c)
    BY <1>1, <2>1, <2>4 DEF In
  <2>7. \A j \in DOMAIN q : q[j].end < s
    BY <1>3, <2>1
  <2>8. k + 1 < Len(ranges) => \A j \in DOMAIN q : q[j].end < ranges[(k + 1) + 1].start
    BY <1>1, <1>2, <1>3, <1>4, <1>5
  <2>9. \A b \in Nat : InSome(b, q) \/ In(b, z.new) <=>
                         (\E j \in 1..(k + 1) : In(b, ranges[j])) \/ In(b, r)
    BY <1>3, <1>6, <2>6
  <2> HIDE DEF s, e
  <2>a. Canonical(z.merged) /\ z.new.start < z.new.end
    BY <1>3, <2>4, <2>5
  <2>b. \A b \in Nat : InSome(b, z.merged) \/ In(b, z.new) <=>
                         (\E j \in 1..(k + 1) : In(b, ranges[j])) \/ In(b, r)
    BY <2>4, <2>9
  <2>c. k + 1 < Len(ranges) =>
          \A j \in DOMAIN z.merged : z.merged[j].end < ranges[(k + 1) + 1].start
    BY <2>4, <2>8
  <2>d. ~z.inserted => \A j \in DOMAIN z.merged : z.merged[j].end < z.new.start
    BY <2>4, <2>7
  <2>e. z.inserted => /\ \A b \in Nat : In(b, z.new) => InSome(b, z.merged)
                      /\ k + 1 < Len(ranges) => z.new.end < ranges[(k + 1) + 1].start
    BY <2>4
  <2> QED BY <2>a, <2>b, <2>c, <2>d, <2>e DEF Merged
<1> QED BY <1>7, <1>8, <1>9, <1>10 DEF z, c

\* addRange: the list stays sorted with gaps, and covers what it did and the new range.
LEMMA AddRange ==
  ASSUME NEW ranges \in Seq(FileRange), Canonical(ranges), NEW r \in FileRange, r.start < r.end
  PROVE  /\ addRange(ranges, r) \in Seq(FileRange) /\ Canonical(addRange(ranges, r))
         /\ Covered(addRange(ranges, r)) = Covered(ranges) \cup ((r.start + 1)..r.end)
<1> DEFINE n == Len(ranges)
           acc == Turns(ranges, r)
           S == {k \in Nat : k <= n => Merged(ranges, r, k, acc[k])}
<1>1. n \in Nat /\ DOMAIN ranges = 1..n
  OBVIOUS
<1>2. /\ acc \in [0..n -> Acc] /\ acc[0] = [merged |-> <<>>, new |-> r, inserted |-> FALSE]
      /\ \A k \in 1..n : acc[k] = MergeOne(acc[k - 1], ranges[k])
  BY TurnsDefined
<1> HIDE DEF acc
<1>3. 0 \in S
  <2>1. acc[0].merged = <<>> /\ acc[0].new = r /\ acc[0].inserted = FALSE
    BY <1>2
  <2>2. Canonical(<<>>) /\ DOMAIN <<>> = {} /\ \A b : ~InSome(b, <<>>)
    BY DEF Canonical, InSome
  <2>3. 1..0 = {}
    OBVIOUS
  <2>4. Merged(ranges, r, 0, acc[0])
    BY <2>1, <2>2, <2>3 DEF Merged
  <2> QED BY <2>4
<1>4. ASSUME NEW k \in Nat, k \in S PROVE k + 1 \in S
  <2> SUFFICES ASSUME k + 1 <= n PROVE Merged(ranges, r, k + 1, acc[k + 1])
    OBVIOUS
  <2>1. k < n /\ k \in 0..n /\ k + 1 \in 1..n /\ (k + 1) - 1 = k
    BY <1>1
  <2>2. Merged(ranges, r, k, acc[k]) /\ acc[k] \in Acc
    BY <1>1, <1>2, <1>4, <2>1
  <2>3. acc[k + 1] = MergeOne(acc[k], ranges[k + 1])
    BY <1>2, <2>1
  <2> HIDE DEF S
  <2>4. Merged(ranges, r, k + 1, MergeOne(acc[k], ranges[k + 1]))
    BY <2>1, <2>2, MergeStep
  <2> QED BY <2>3, <2>4
<1> HIDE DEF S
<1>5. n \in S
  BY <1>1, <1>3, <1>4, Induction
<1> DEFINE a == acc[n]
<1>6. /\ a \in Acc /\ a.merged \in Seq(FileRange) /\ a.new \in FileRange /\ a.inserted \in BOOLEAN
  <2>1. a \in Acc
    BY <1>1, <1>2
  <2> QED BY <2>1 DEF Acc
<1>7. Merged(ranges, r, n, a)
  BY <1>1, <1>5 DEF S
<1>8. addRange(ranges, r) = IF a.inserted THEN a.merged ELSE Append(a.merged, a.new)
  BY DEF addRange, acc
<1> HIDE DEF a
<1>9. /\ Canonical(a.merged) /\ a.new.start < a.new.end
      /\ \A b \in Nat : InSome(b, a.merged) \/ In(b, a.new) <=>
                          (\E j \in 1..n : In(b, ranges[j])) \/ In(b, r)
      /\ ~a.inserted => \A j \in DOMAIN a.merged : a.merged[j].end < a.new.start
      /\ a.inserted => \A b \in Nat : In(b, a.new) => InSome(b, a.merged)
  BY <1>7 DEF Merged
<1> DEFINE q == addRange(ranges, r)
<1>10. /\ q \in Seq(FileRange) /\ Canonical(q)
       /\ \A b \in Nat : InSome(b, q) <=> InSome(b, a.merged) \/ In(b, a.new)
  <2>1. CASE a.inserted
    BY <1>6, <1>8, <1>9, <2>1
  <2>2. CASE ~a.inserted
    <3>1. /\ Append(a.merged, a.new) \in Seq(FileRange) /\ Canonical(Append(a.merged, a.new))
          /\ \A b : InSome(b, Append(a.merged, a.new)) <=> InSome(b, a.merged) \/ In(b, a.new)
      BY <1>6, <1>9, <2>2, AppendRange
    <3> QED BY <1>8, <2>2, <3>1
  <2> QED BY <2>1, <2>2
<1> HIDE DEF q
<1>11. \A b \in Nat : InSome(b, q) <=> InSome(b, ranges) \/ In(b, r)
  BY <1>1, <1>9, <1>10 DEF InSome
<1>12. \A b : b \in (r.start + 1)..r.end <=> b \in Nat /\ In(b, r)
  BY DEF In, FileRange
<1>13. /\ \A b : b \in Covered(q) <=> b \in Nat /\ InSome(b, q)
       /\ \A b : b \in Covered(ranges) <=> b \in Nat /\ InSome(b, ranges)
  BY <1>10, CoveredIs
<1>14. Covered(q) = Covered(ranges) \cup ((r.start + 1)..r.end)
  BY <1>11, <1>12, <1>13
<1> QED BY <1>10, <1>14 DEF q

\* The first of some ranges lies before all others.
LEMMA FirstRange ==
  ASSUME NEW q \in Seq(FileRange), Canonical(q), NEW j \in 2..Len(q)
  PROVE  q[1].end < q[j].start
<1> DEFINE S == {k \in Nat : k + 2 <= Len(q) => q[1].end < q[k + 2].start}
<1>1. \A k \in 1..Len(q) : q[k].start \in Nat /\ q[k].end \in Nat /\ q[k].start < q[k].end
  BY RangeFields DEF Canonical
<1>2. 0 \in S
  BY DEF Canonical
<1>3. ASSUME NEW k \in Nat, k \in S PROVE k + 1 \in S
  <2> SUFFICES ASSUME (k + 1) + 2 <= Len(q) PROVE q[1].end < q[(k + 1) + 2].start
    OBVIOUS
  <2>1. /\ k + 2 \in 1..(Len(q) - 1) /\ k + 2 \in 1..Len(q) /\ 1 \in 1..Len(q)
        /\ (k + 1) + 2 \in 1..Len(q) /\ (k + 2) + 1 = (k + 1) + 2
    OBVIOUS
  <2>2. q[k + 2].end < q[(k + 2) + 1].start
    BY <2>1 DEF Canonical
  <2>3. q[1].end < q[k + 2].start
    BY <1>3, <2>1
  <2> QED BY <1>1, <2>1, <2>2, <2>3
<1> HIDE DEF S
<1>4. \A k \in Nat : k \in S
  BY <1>2, <1>3, Induction
<1>5. j - 2 \in S /\ j - 2 \in Nat /\ (j - 2) + 2 = j /\ j <= Len(q)
  BY <1>4
<1> QED BY <1>5 DEF S

\* Ranges that cover the first n bytes are one range, and one range that does is no more.
LEMMA WholeRange ==
  ASSUME NEW q \in Seq(FileRange), Canonical(q), NEW n \in Nat \ {0}, Covered(q) = 1..n
  PROVE  Len(q) = 1 /\ q[1].start = 0 /\ q[1].end = n
<1>1. /\ Len(q) \in Nat /\ DOMAIN q = 1..Len(q)
      /\ \A k \in 1..Len(q) : q[k].start \in Nat /\ q[k].end \in Nat /\ q[k].start < q[k].end
  BY RangeFields DEF Canonical
<1>2. \A b \in Nat : b \in 1..n <=> \E j \in 1..Len(q) : In(b, q[j])
  BY <1>1, CoveredIs DEF InSome
<1>3. PICK f \in 1..Len(q) : In(1, q[f])
  BY <1>2
<1>4. q[f].start = 0
  BY <1>1, <1>3 DEF In
<1>5. f = 1
  <2> SUFFICES ASSUME f # 1 PROVE FALSE
    OBVIOUS
  <2>1. f \in 2..Len(q) /\ 1 \in 1..Len(q)
    BY <1>1
  <2>2. q[1].end < q[f].start
    BY <2>1, FirstRange
  <2> QED BY <1>1, <1>4, <2>1, <2>2
<1> DEFINE e == q[1].end
<1>6. e \in Nat /\ 0 < e /\ 1 <= Len(q)
  BY <1>1, <1>4, <1>5
<1>7. e <= n
  <2>1. In(e, q[1])
    BY <1>4, <1>5, <1>6 DEF In
  <2> QED BY <1>1, <1>2, <1>6, <2>1
<1>8. \A j \in 2..Len(q) : e < q[j].start
  BY FirstRange
<1>9. ~In(e + 1, q[1]) /\ \A j \in 2..Len(q) : ~In(e + 1, q[j])
  <2>1. ~In(e + 1, q[1])
    BY <1>6 DEF In
  <2>2. ASSUME NEW j \in 2..Len(q) PROVE ~In(e + 1, q[j])
    <3>1. j \in 1..Len(q) /\ e < q[j].start
      BY <1>1, <1>8
    <3> QED BY <1>1, <1>6, <3>1 DEF In
  <2> QED BY <2>1, <2>2
<1>10. \A j \in 1..Len(q) : ~In(e + 1, q[j])
  BY <1>1, <1>9
<1>11. e = n
  <2>1. e + 1 \notin 1..n
    BY <1>2, <1>6, <1>10
  <2> QED BY <1>6, <1>7, <2>1
<1>12. Len(q) = 1
  <2> SUFFICES ASSUME Len(q) # 1 PROVE FALSE
    OBVIOUS
  <2>1. 2 \in 1..Len(q) /\ e < q[2].start
    BY <1>1, <1>6, <1>8
  <2>2. In(q[2].end, q[2]) /\ q[2].end \in Nat /\ e < q[2].end
    BY <1>1, <1>6, <2>1 DEF In
  <2>3. q[2].end \in 1..n
    BY <1>2, <2>1, <2>2
  <2> QED BY <1>6, <1>11, <2>2, <2>3
<1> QED BY <1>4, <1>5, <1>11, <1>12

\* What coveredBytes and Covered are for a single range.
LEMMA OneRange ==
  ASSUME NEW q \in Seq(FileRange), Len(q) = 1
  PROVE  /\ coveredBytes(q) = q[1].end - q[1].start
         /\ Covered(q) = (q[1].start + 1)..q[1].end
<1>1. q[1].start \in Nat /\ q[1].end \in Nat /\ DOMAIN q = {1}
  BY RangeFields
<1> DEFINE F(f) == [k \in 0..Len(q) |-> IF k = 0 THEN 0 ELSE f[k - 1] + (q[k].end - q[k].start)]
           g == [k \in 0..1 |-> IF k = 0 THEN 0 ELSE q[1].end - q[1].start]
           sum == CHOOSE f : f = F(f)
<1>2. g = F(g)
  <2>1. \A k \in 0..1 : g[k] = F(g)[k]
    BY <1>1
  <2> QED BY <2>1
<1>3. sum = F(sum)
  <2> HIDE DEF F, g
  <2> QED BY <1>2
<1>4. coveredBytes(q) = sum[Len(q)]
  BY DEF coveredBytes
<1> HIDE DEF sum
<1>5. sum[0] = 0
  BY <1>3
<1>6. sum[1] = sum[0] + (q[1].end - q[1].start)
  BY <1>3
<1>7. Covered(q) = (q[1].start + 1)..q[1].end
  BY <1>1 DEF Covered
<1> QED BY <1>1, <1>4, <1>5, <1>6, <1>7
-----------------------------------------------------------------------------
\* Where a Send has the lock of its shard, and where it commits the file.
Holding == {"write", "remove", "rename", "cleanup"}
Committing == {"remove", "rename", "cleanup"}
\* What a Send works on; the files of the server.
Jobs == {j \in [transfer : Transfers, chunk : FileRange] : j.chunk \in Chunks[j.transfer]}
Files == Seq(Transfers \cup {None})

\* Types. A goroutine that is not idle has a chunk to send.
SftpType ==
  /\ transferShard \in [Transfers -> Shards \cup {None}] /\ nextIdx \in Shards
  /\ lock \in [Shards -> Workers \cup {None}]
  /\ states \in [Shards -> [Transfers -> States \cup {None}]]
  /\ pc \in [Workers -> {"idle", "connect", "lock"} \cup Holding]
  /\ job \in [Workers -> Jobs \cup {None}] /\ idx \in [Workers -> Shards]
  /\ \A w \in Workers : pc[w] # "idle" => job[w] \in Jobs
  /\ temp \in [Paths -> Files \cup {None}] /\ final \in [Paths -> Files \cup {None}]
  /\ committed \subseteq Paths

\* Who holds the lock of a shard.
LockInv ==
  \A w \in Workers, i \in Shards : lock[i] = w <=> pc[w] \in Holding /\ idx[w] = i

\* What a state says was received, its ranges are.
RangeInv ==
  \A i \in Shards, t \in Transfers : states[i][t] # None =>
    LET st == states[i][t] IN
    /\ st.totalSize = Size[t] /\ Canonical(st.ranges) /\ st.received = Covered(st.ranges)
    /\ st.received \subseteq 1..Size[t]
    /\ Size[t] \in st.received => st.eofSeen

\* Who is at work on a state has it, and commits it only when it is complete.
HeldInv ==
  \A w \in Workers :
    LET t == job[w].transfer  st == states[idx[w]][t] IN
    /\ pc[w] \in Holding => st # None
    /\ pc[w] \in Committing => st.received = 1..Size[t]

\* A complete state is being committed, or could not be.
DoneInv ==
  \A i \in Shards, t \in Transfers :
    states[i][t] # None /\ states[i][t].received = 1..Size[t] /\ t \notin renameFailed =>
      \E w \in Workers : pc[w] \in Committing /\ idx[w] = i /\ job[w].transfer = t

\* The inductive invariant of the assembly.
AssemblyInv == SftpType /\ LockInv /\ RangeInv /\ HeldInv /\ DoneInv

\* There is a shard: Send without concurrency uses it.
LEMMA ZeroShard == 0 \in Shards
  BY BoundsAssumption DEF Shards

\* nextShardIndex returns a shard.
LEMMA TurnShard ==
  ASSUME nextIdx \in Shards
  PROVE  Turn \in Shards
<1>1. CASE Concurrency = 1
  BY <1>1 DEF Turn
<1>2. CASE Concurrency \in {2, 4}
  BY <1>2 DEF Turn, Shards
<1> QED BY <1>1, <1>2, BoundsAssumption

\* A new sender satisfies the invariant,
LEMMA AssemblyInit == Init => AssemblyInv
<1> SUFFICES ASSUME Init PROVE AssemblyInv
  OBVIOUS
<1> USE DEF Init, Fresh
<1>1. SftpType
  BY ZeroShard DEF SftpType, NoStates
<1>2. LockInv
  BY BoundsAssumption DEF LockInv, Holding
<1>3. RangeInv /\ HeldInv /\ DoneInv
  BY DEF RangeInv, HeldInv, DoneInv, NoStates, Holding, Committing
<1> QED BY <1>1, <1>2, <1>3 DEF AssemblyInv

\* and so does the one after a restart.
LEMMA AssemblyRestart == AssemblyInv /\ Restart => AssemblyInv'
<1> SUFFICES ASSUME AssemblyInv, Restart PROVE AssemblyInv'
  OBVIOUS
<1>1. /\ transferShard' = [t \in Transfers |-> None] /\ nextIdx' = 0
      /\ lock' = [i \in Shards |-> None] /\ states' = [i \in Shards |-> [t \in Transfers |-> None]]
      /\ pc' = [w \in Workers |-> "idle"] /\ job' = [w \in Workers |-> None]
      /\ idx' = [w \in Workers |-> 0]
      /\ UNCHANGED <<temp, final, committed>>
  BY DEF Restart, Fresh, NoStates, server
<1>2. SftpType'
  BY <1>1, ZeroShard DEF AssemblyInv, SftpType
<1>3. LockInv'
  BY <1>1, BoundsAssumption DEF LockInv, Holding
<1>4. RangeInv' /\ HeldInv' /\ DoneInv'
  BY <1>1 DEF RangeInv, HeldInv, DoneInv, Holding, Committing
<1> QED BY <1>2, <1>3, <1>4 DEF AssemblyInv

\* Only one goroutine moves.
Only(w) == \A v \in Workers : v # w => pc'[v] = pc[v] /\ job'[v] = job[v] /\ idx'[v] = idx[v]
\* The part of SftpType about goroutines, in the next state.
WorkerTypes ==
  /\ lock' \in [Shards -> Workers \cup {None}]
  /\ pc' \in [Workers -> {"idle", "connect", "lock"} \cup Holding]
  /\ job' \in [Workers -> Jobs \cup {None}] /\ idx' \in [Workers -> Shards]
  /\ \A w \in Workers : pc'[w] # "idle" => job'[w] \in Jobs

\* Send returns: its goroutine is idle and lets go of the lock.
LEMMA Returns ==
  ASSUME AssemblyInv, NEW w \in Workers, Return(w)
  PROVE  WorkerTypes /\ LockInv' /\ Only(w) /\ pc'[w] = "idle"
<1>1. SftpType /\ LockInv
  BY DEF AssemblyInv
<1>2. /\ pc' = [pc EXCEPT ![w] = "idle"] /\ job' = [job EXCEPT ![w] = None]
      /\ idx' = [idx EXCEPT ![w] = 0]
      /\ lock' = [i \in Shards |-> IF lock[i] = w THEN None ELSE lock[i]]
  BY DEF Return
<1>3. WorkerTypes /\ Only(w) /\ pc'[w] = "idle"
  BY <1>1, <1>2, ZeroShard DEF SftpType, WorkerTypes, Only
<1>4. \A v \in Workers, i \in Shards : lock'[i] = v <=> v # w /\ lock[i] = v
  BY <1>2, BoundsAssumption
<1>5. LockInv'
  BY <1>1, <1>3, <1>4 DEF LockInv, Only, Holding
<1> QED BY <1>3, <1>5

\* Send goes on without taking or releasing the lock.
LEMMA GoesOn ==
  ASSUME AssemblyInv, NEW w \in Workers, NEW to \in {"connect", "lock"} \cup Holding, Goes(w, to),
         pc[w] # "idle", pc[w] \in Holding <=> to \in Holding, UNCHANGED lock
  PROVE  /\ WorkerTypes /\ LockInv' /\ Only(w)
         /\ pc'[w] = to /\ job'[w] = job[w] /\ idx'[w] = idx[w]
<1>1. SftpType /\ LockInv
  BY DEF AssemblyInv
<1>2. pc' = [pc EXCEPT ![w] = to] /\ UNCHANGED <<job, idx, lock>>
  BY DEF Goes
<1>3. WorkerTypes /\ Only(w) /\ pc'[w] = to /\ job'[w] = job[w] /\ idx'[w] = idx[w]
  BY <1>1, <1>2 DEF SftpType, WorkerTypes, Only
<1>4. LockInv'
  BY <1>1, <1>2, <1>3 DEF LockInv, Only
<1> QED BY <1>3, <1>4

\* Steps that leave the states alone.
LEMMA StatesSame ==
  ASSUME AssemblyInv, NEW w \in Workers, UNCHANGED states, Only(w),
         pc'[w] \in Holding => pc[w] \in Holding /\ job'[w] = job[w] /\ idx'[w] = idx[w],
         pc'[w] \in Committing => pc[w] \in Committing,
         renameFailed \subseteq renameFailed',
         pc[w] \in Committing /\ pc'[w] \notin Committing => job[w].transfer \in renameFailed'
  PROVE  RangeInv' /\ HeldInv' /\ DoneInv'
<1>1. RangeInv /\ HeldInv /\ DoneInv
  BY DEF AssemblyInv
<1>2. RangeInv'
  BY <1>1 DEF RangeInv
<1>3. HeldInv'
  BY <1>1 DEF HeldInv, Only, Holding, Committing
<1>4. DoneInv'
  <2> SUFFICES ASSUME NEW i \in Shards, NEW t \in Transfers, states[i][t] # None,
                      states[i][t].received = 1..Size[t], t \notin renameFailed'
               PROVE  \E v \in Workers : pc'[v] \in Committing /\ idx'[v] = i /\ job'[v].transfer = t
    BY DEF DoneInv
  <2>1. PICK v \in Workers : pc[v] \in Committing /\ idx[v] = i /\ job[v].transfer = t
    BY <1>1 DEF DoneInv
  <2>2. CASE v = w
    BY <2>1, <2>2 DEF Committing, Holding
  <2>3. CASE v # w
    BY <2>1, <2>3 DEF Only
  <2> QED BY <2>2, <2>3
<1> QED BY <1>2, <1>3, <1>4

\* pickShard assigns a shard that exists.
LEMMA PickStep ==
  ASSUME AssemblyInv, NEW w \in Workers, NEW t \in Transfers, NEW c \in Chunks[t], PickShard(w, t, c)
  PROVE  AssemblyInv'
<1>1. SftpType /\ LockInv
  BY DEF AssemblyInv
<1>2. /\ pc[w] = "idle" /\ job' = [job EXCEPT ![w] = [transfer |-> t, chunk |-> c]]
      /\ pc' = [pc EXCEPT ![w] = "connect"]
      /\ UNCHANGED <<lock, connReady, states, temp, final, committed, renameFailed, split>>
  BY DEF PickShard, server
<1>3. PICK i \in Shards : idx' = [idx EXCEPT ![w] = i]
  <2>1. CASE transferShard[t] # None /\ idx' = [idx EXCEPT ![w] = transferShard[t]]
    BY <1>1, <2>1 DEF SftpType
  <2>2. CASE idx' = [idx EXCEPT ![w] = Turn]
    BY <1>1, <2>2, TurnShard DEF SftpType
  <2> QED BY <2>1, <2>2 DEF PickShard
<1>4. transferShard' \in [Transfers -> Shards \cup {None}] /\ nextIdx' \in Shards
  BY <1>1, TurnShard DEF PickShard, assignment, SftpType
<1>5. [transfer |-> t, chunk |-> c] \in Jobs
  BY TransfersAssumption DEF Jobs
<1>6. WorkerTypes /\ Only(w) /\ pc'[w] = "connect"
  BY <1>1, <1>2, <1>3, <1>5 DEF WorkerTypes, Only, SftpType
<1>7. LockInv'
  BY <1>1, <1>2, <1>6 DEF LockInv, Only, Holding
<1>8. SftpType'
  BY <1>1, <1>2, <1>4, <1>6 DEF SftpType, WorkerTypes
<1>9. RangeInv' /\ HeldInv' /\ DoneInv'
  BY <1>2, <1>6, StatesSame DEF Holding, Committing
<1> QED BY <1>7, <1>8, <1>9 DEF AssemblyInv

\* ensureConnLocked before the lock changes no state.
LEMMA EnsureStep ==
  ASSUME AssemblyInv, NEW w \in Workers, EnsureConn(w)
  PROVE  AssemblyInv'
<1>1. SftpType /\ pc[w] = "connect"
  BY DEF AssemblyInv, EnsureConn
<1>2. UNCHANGED <<transferShard, nextIdx, states, temp, final, committed, renameFailed>>
  BY DEF EnsureConn, assignment, server, history
<1>3. WorkerTypes /\ LockInv' /\ Only(w) /\ pc'[w] \in {"idle", "lock"}
  <2>1. CASE Goes(w, "lock") /\ UNCHANGED lock
    BY <1>1, <2>1, GoesOn DEF Holding
  <2>2. CASE Return(w)
    BY <2>2, Returns
  <2> QED BY <2>1, <2>2 DEF EnsureConn
<1>4. SftpType'
  BY <1>1, <1>2, <1>3 DEF SftpType, WorkerTypes
<1>5. RangeInv' /\ HeldInv' /\ DoneInv'
  BY <1>1, <1>2, <1>3, StatesSame DEF Holding, Committing
<1> QED BY <1>3, <1>4, <1>5 DEF AssemblyInv

\* What is known of the goroutine that moves.
LEMMA AtWork ==
  ASSUME AssemblyInv, NEW w \in Workers, pc[w] # "idle"
  PROVE  /\ job[w].transfer \in Transfers /\ job[w].chunk \in Chunks[job[w].transfer]
         /\ job[w].chunk \in FileRange /\ job[w].chunk.start < job[w].chunk.end
         /\ job[w].chunk.end <= Size[job[w].transfer] /\ Size[job[w].transfer] \in Nat \ {0}
         /\ idx[w] \in Shards /\ PathOf[job[w].transfer] \in Paths
<1>1. job[w] \in Jobs /\ idx[w] \in Shards
  BY DEF AssemblyInv, SftpType
<1>2. job[w].transfer \in Transfers /\ job[w].chunk \in Chunks[job[w].transfer]
  BY <1>1 DEF Jobs
<1>3. PathOf[job[w].transfer] \in Paths
  BY <1>2 DEF Paths
<1> QED BY <1>1, <1>2, <1>3, TransfersAssumption

\* The fields of a state.
LEMMA StateFields ==
  ASSUME SftpType, NEW i \in Shards, NEW t \in Transfers, states[i][t] # None
  PROVE  LET st == states[i][t] IN
         /\ st \in States /\ st.totalSize \in Nat /\ st.eofSeen \in BOOLEAN
         /\ st.ranges \in Seq(FileRange) /\ st.received \subseteq Nat
<1>1. states[i][t] \in States
  BY DEF SftpType
<1> QED BY <1>1 DEF States

\* The state sendLocked makes has received nothing.
LEMMA NewStateIs ==
  ASSUME NEW t \in Transfers
  PROVE  LET st == NewState(t) IN
         /\ st \in States /\ st # None /\ st.totalSize = Size[t] /\ Canonical(st.ranges)
         /\ st.received = Covered(st.ranges) /\ st.received = {}
<1>1. NewState(t) \in States
  BY TransfersAssumption DEF NewState, States
<1>2. Canonical(<<>>) /\ Covered(<<>>) = {}
  BY DEF Canonical, Covered
<1> QED BY <1>1, <1>2, NoneAssumption DEF NewState

\* sendLocked takes a lock that is free: nobody else is at work on the state it finds or makes.
LEMMA LockStep ==
  ASSUME AssemblyInv, NEW w \in Workers, Lock(w)
  PROVE  AssemblyInv'
<1> DEFINE i == idx[w]
           t == job[w].transfer
<1>1. SftpType /\ LockInv /\ RangeInv /\ HeldInv /\ DoneInv
  BY DEF AssemblyInv
<1>2. pc[w] = "lock" /\ lock[i] = None
  BY DEF Lock
<1>3. i \in Shards /\ t \in Transfers /\ Size[t] \in Nat \ {0}
  BY <1>2, AtWork
<1>4. UNCHANGED <<transferShard, nextIdx, temp, final, committed, renameFailed>>
  BY DEF Lock, assignment, server
<1>5. CASE Return(w) /\ UNCHANGED states
  <2>1. WorkerTypes /\ LockInv' /\ Only(w) /\ pc'[w] = "idle"
    BY <1>5, Returns
  <2>2. SftpType'
    BY <1>1, <1>4, <1>5, <2>1 DEF SftpType, WorkerTypes
  <2>3. RangeInv' /\ HeldInv' /\ DoneInv'
    BY <1>2, <1>4, <1>5, <2>1, StatesSame DEF Holding, Committing
  <2> QED BY <2>1, <2>2, <2>3 DEF AssemblyInv
<1>6. CASE /\ lock' = [lock EXCEPT ![i] = w]
           /\ states' = [states EXCEPT ![i][t] = IF @ = None THEN NewState(t) ELSE @]
           /\ Goes(w, "write")
  <2> DEFINE st == IF states[i][t] = None THEN NewState(t) ELSE states[i][t]
  <2>1. pc' = [pc EXCEPT ![w] = "write"] /\ UNCHANGED <<job, idx>>
    BY <1>6 DEF Goes
  <2>2. /\ st \in States /\ st # None /\ st.totalSize = Size[t] /\ Canonical(st.ranges)
        /\ st.received = Covered(st.ranges) /\ st.received \subseteq 1..Size[t]
        /\ Size[t] \in st.received => st.eofSeen
    BY <1>1, <1>3, NewStateIs, StateFields DEF RangeInv
  <2>3. st.received = 1..Size[t] => states[i][t] # None /\ st = states[i][t]
    <3>1. 1..Size[t] # {}
      BY <1>3
    <3> QED BY <1>3, <3>1, NewStateIs
  <2>4. /\ states' \in [Shards -> [Transfers -> States \cup {None}]]
        /\ states'[i][t] = st
        /\ \A j \in Shards, u \in Transfers : j # i \/ u # t => states'[j][u] = states[j][u]
    <3> HIDE DEF i, t
    <3>1. states' = [states EXCEPT ![i] = [states[i] EXCEPT ![t] = st]]
      BY <1>6
    <3> HIDE DEF st
    <3> QED BY <1>1, <1>3, <2>2, <3>1 DEF SftpType
  <2> HIDE DEF st
  <2>5. WorkerTypes /\ Only(w) /\ pc'[w] = "write" /\ job'[w] = job[w] /\ idx'[w] = idx[w]
    BY <1>1, <1>2, <1>3, <1>6, <2>1 DEF SftpType, WorkerTypes, Only, Holding
  <2>6. LockInv'
    <3> SUFFICES ASSUME NEW v \in Workers, NEW j \in Shards
                 PROVE  lock'[j] = v <=> pc'[v] \in Holding /\ idx'[v] = j
      BY DEF LockInv
    <3>1. lock'[j] = IF j = i THEN w ELSE lock[j]
      BY <1>1, <1>6 DEF SftpType
    <3>2. v # None
      BY BoundsAssumption
    <3>3. lock[j] = v <=> pc[v] \in Holding /\ idx[v] = j
      BY <1>1 DEF LockInv
    <3>4. CASE v = w
      BY <1>2, <2>5, <3>1, <3>3, <3>4 DEF Holding
    <3>5. CASE v # w
      BY <1>2, <2>5, <3>1, <3>2, <3>3, <3>5 DEF Only
    <3> QED BY <3>4, <3>5
  <2>7. SftpType'
    BY <1>1, <1>4, <2>4, <2>5 DEF SftpType, WorkerTypes
  <2>8. RangeInv'
    <3> SUFFICES ASSUME NEW j \in Shards, NEW u \in Transfers, states'[j][u] # None
                 PROVE  LET x == states'[j][u] IN
                        /\ x.totalSize = Size[u] /\ Canonical(x.ranges) /\ x.received = Covered(x.ranges)
                        /\ x.received \subseteq 1..Size[u]
                        /\ Size[u] \in x.received => x.eofSeen
      BY DEF RangeInv
    <3>1. CASE j = i /\ u = t
      BY <2>2, <2>4, <3>1
    <3>2. CASE j # i \/ u # t
      BY <1>1, <2>4, <3>2 DEF RangeInv
    <3> QED BY <3>1, <3>2
  <2>9. HeldInv'
    <3> SUFFICES ASSUME NEW v \in Workers
                 PROVE  LET x == states'[idx'[v]][job'[v].transfer] IN
                        /\ pc'[v] \in Holding => x # None
                        /\ pc'[v] \in Committing => x.received = 1..Size[job'[v].transfer]
      BY DEF HeldInv
    <3>1. CASE v = w
      BY <2>2, <2>4, <2>5, <3>1 DEF Committing
    <3>2. CASE v # w
      <4>1. pc'[v] = pc[v] /\ job'[v] = job[v] /\ idx'[v] = idx[v]
        BY <2>5, <3>2 DEF Only
      <4>2. pc[v] \in Holding => lock[idx[v]] = v /\ v # None /\ idx[v] \in Shards /\ job[v].transfer \in Transfers
        BY <1>1, AtWork, BoundsAssumption DEF LockInv, SftpType, Holding
      <4>3. pc[v] \in Holding => idx[v] # i
        BY <1>2, <4>2
      <4>4. pc[v] \in Holding => states'[idx[v]][job[v].transfer] = states[idx[v]][job[v].transfer]
        BY <2>4, <4>2, <4>3
      <4> QED BY <1>1, <4>1, <4>4 DEF HeldInv, Committing, Holding
    <3> QED BY <3>1, <3>2
  <2>10. DoneInv'
    <3> SUFFICES ASSUME NEW j \in Shards, NEW u \in Transfers, states'[j][u] # None,
                        states'[j][u].received = 1..Size[u], u \notin renameFailed'
                 PROVE  \E v \in Workers : pc'[v] \in Committing /\ idx'[v] = j /\ job'[v].transfer = u
      BY DEF DoneInv
    <3>1. states[j][u] # None /\ states[j][u].received = 1..Size[u]
      BY <2>3, <2>4
    <3>2. PICK v \in Workers : pc[v] \in Committing /\ idx[v] = j /\ job[v].transfer = u
      BY <1>1, <1>4, <3>1 DEF DoneInv
    <3>3. v # w
      BY <1>2, <3>2 DEF Committing
    <3> QED BY <2>5, <3>2, <3>3 DEF Only
  <2> QED BY <2>6, <2>7, <2>8, <2>9, <2>10 DEF AssemblyInv
<1> QED BY <1>5, <1>6 DEF Lock

\* A state is ready exactly when every byte was received.
LEMMA ReadyIsWhole ==
  ASSUME NEW t \in Transfers, NEW st \in States, st.totalSize = Size[t], Canonical(st.ranges),
         st.received = Covered(st.ranges), st.received \subseteq 1..Size[t],
         Size[t] \in st.received => st.eofSeen
  PROVE  readyToCommit(st) <=> st.received = 1..Size[t]
<1> DEFINE q == st.ranges
           n == Size[t]
<1>1. n \in Nat \ {0} /\ q \in Seq(FileRange) /\ Canonical(q) /\ st.received = Covered(q)
  BY TransfersAssumption DEF States
<1>2. ASSUME st.received = 1..n PROVE readyToCommit(st)
  <2>0. Covered(q) = 1..n
    BY <1>1, <1>2
  <2>1. Len(q) = 1 /\ q[1].start = 0 /\ q[1].end = n
    <3> HIDE DEF q, n
    <3> QED BY <1>1, <2>0, WholeRange
  <2>2. coveredBytes(q) = n
    BY <1>1, <2>1, OneRange
  <2>3. st.eofSeen
    BY <1>1, <1>2
  <2> QED BY <1>1, <2>1, <2>2, <2>3 DEF readyToCommit
<1>3. ASSUME readyToCommit(st) PROVE st.received = 1..n
  <2>1. Len(q) = 1 /\ q[1].start = 0 /\ q[1].end >= n
    BY <1>1, <1>3 DEF readyToCommit
  <2>2. q[1].end \in Nat
    BY <1>1, <2>1, RangeFields
  <2>3. st.received = 1..q[1].end
    BY <1>1, <2>1, OneRange
  <2> HIDE DEF q, n
  <2>4. \A b \in 1..n : b \in 1..q[1].end
    BY <1>1, <2>1, <2>2
  <2> QED BY <2>3, <2>4 DEF n, q
<1> QED BY <1>2, <1>3

\* What one more chunk makes of a state.
LEMMA ReceivedIs ==
  ASSUME AssemblyInv, NEW i \in Shards, NEW t \in Transfers, states[i][t] # None, NEW c \in Chunks[t]
  PROVE  LET st == Received(states[i][t], t, c) IN
         /\ st \in States /\ st # None /\ st.totalSize = Size[t] /\ Canonical(st.ranges)
         /\ st.received = Covered(st.ranges) /\ st.received \subseteq 1..Size[t]
         /\ st.received = states[i][t].received \cup ((c.start + 1)..c.end)
         /\ Size[t] \in st.received => st.eofSeen
<1> DEFINE old == states[i][t]
           st == Received(old, t, c)
<1>1. /\ old \in States /\ old.totalSize = Size[t] /\ Canonical(old.ranges)
      /\ old.received = Covered(old.ranges) /\ old.received \subseteq 1..Size[t]
      /\ Size[t] \in old.received => old.eofSeen
      /\ old.ranges \in Seq(FileRange) /\ old.eofSeen \in BOOLEAN /\ old.received \subseteq Nat
  BY StateFields DEF AssemblyInv, RangeInv
<1>2. /\ c \in FileRange /\ c.start \in Nat /\ c.end \in Nat /\ c.start < c.end /\ c.end <= Size[t]
      /\ Size[t] \in Nat \ {0}
  BY TransfersAssumption DEF FileRange
<1>3. /\ addRange(old.ranges, c) \in Seq(FileRange) /\ Canonical(addRange(old.ranges, c))
      /\ Covered(addRange(old.ranges, c)) = Covered(old.ranges) \cup ((c.start + 1)..c.end)
  BY <1>1, <1>2, AddRange
<1> HIDE DEF old
<1>4. /\ st = [old EXCEPT !.ranges = addRange(@, c), !.eofSeen = @ \/ c.end = Size[t],
                          !.received = @ \cup ((c.start + 1)..c.end)]
  BY DEF Received
<1>5. /\ st.totalSize = old.totalSize /\ st.ranges = addRange(old.ranges, c)
      /\ st.eofSeen = (old.eofSeen \/ c.end = Size[t])
      /\ st.received = old.received \cup ((c.start + 1)..c.end)
      /\ st \in [totalSize : Nat, eofSeen : BOOLEAN, ranges : Seq(FileRange), received : SUBSET Nat]
  <2>1. old.received \cup ((c.start + 1)..c.end) \subseteq Nat
    BY <1>1, <1>2
  <2> HIDE DEF st
  <2> QED BY <1>1, <1>3, <1>4, <2>1 DEF States
<1> HIDE DEF st
<1>6. st \in States /\ st # None
  BY <1>5, NoneAssumption DEF States
<1>7. st.received \subseteq 1..Size[t]
  BY <1>1, <1>2, <1>5
<1>8. Size[t] \in st.received => st.eofSeen
  BY <1>1, <1>2, <1>5
<1> QED BY <1>1, <1>3, <1>5, <1>6, <1>7, <1>8 DEF st, old

\* A step that changes one state, of the shard whose lock w holds or of no interest to others.
LEMMA StateChanges ==
  ASSUME AssemblyInv, NEW w \in Workers, pc[w] \in Holding, Only(w),
         LET i == idx[w]  t == job[w].transfer IN
         \A j \in Shards, u \in Transfers : j # i \/ u # t => states'[j][u] = states[j][u]
  PROVE  \A v \in Workers : v # w =>
           LET x == states'[idx'[v]][job'[v].transfer] IN
           /\ pc'[v] \in Holding => x # None
           /\ pc'[v] \in Committing => x.received = 1..Size[job'[v].transfer]
<1>1. SftpType /\ LockInv /\ HeldInv
  BY DEF AssemblyInv
<1> SUFFICES ASSUME NEW v \in Workers, v # w, pc'[v] \in Holding
             PROVE  LET x == states'[idx'[v]][job'[v].transfer] IN
                    /\ x # None
                    /\ pc'[v] \in Committing => x.received = 1..Size[job'[v].transfer]
  BY DEF Holding, Committing
<1>2. pc'[v] = pc[v] /\ job'[v] = job[v] /\ idx'[v] = idx[v]
  BY DEF Only
<1>3. pc[v] # "idle" /\ pc[w] # "idle"
  BY <1>2 DEF Holding
<1>4. idx[v] \in Shards /\ idx[w] \in Shards /\ job[v].transfer \in Transfers
  BY <1>3, AtWork
<1>5. idx[v] # idx[w]
  BY <1>1, <1>2, <1>4 DEF LockInv
<1>6. states'[idx[v]][job[v].transfer] = states[idx[v]][job[v].transfer]
  BY <1>4, <1>5
<1> QED BY <1>1, <1>2, <1>6 DEF HeldInv

\* The temporary file after a write, in full or cut off after OpenFile.
LEMMA WrittenIs ==
  ASSUME SftpType, NEW t \in Transfers, NEW c \in Chunks[t]
  PROVE  LET f == PathOf[t]  file == Written(f, t, c)  old == Opened(f) IN
         /\ old \in Files /\ file \in Files
         /\ Len(file) = IF Len(old) >= c.end THEN Len(old) ELSE c.end
         /\ \A k \in 1..Len(file) :
              file[k] = IF k \in (c.start + 1)..c.end THEN t ELSE IF k <= Len(old) THEN old[k] ELSE None
<1> DEFINE f == PathOf[t]
           old == Opened(f)
           n == Max({Len(old), c.end})
<1>1. f \in Paths /\ c \in FileRange /\ c.start \in Nat /\ c.end \in Nat
  BY TransfersAssumption DEF Paths, FileRange
<1>2. old \in Files
  BY <1>1 DEF Opened, Files, SftpType
<1>3. Len(old) \in Nat /\ \A k \in 1..Len(old) : old[k] \in Transfers \cup {None}
  <2> HIDE DEF old
  <2> QED BY <1>2 DEF Files
<1>4. Written(f, t, c) = [k \in 1..n |-> IF k \in (c.start + 1)..c.end THEN t
                                         ELSE IF k <= Len(old) THEN old[k] ELSE None]
  BY DEF Written
<1> HIDE DEF old
<1>5. n = IF Len(old) >= c.end THEN Len(old) ELSE c.end
  <2> HIDE DEF f
  <2> QED BY <1>1, <1>3 DEF Max
<1> HIDE DEF n, f
<1>6. n \in Nat
  BY <1>1, <1>3, <1>5
<1>7. \A k \in 1..n : (IF k \in (c.start + 1)..c.end THEN t
                       ELSE IF k <= Len(old) THEN old[k] ELSE None) \in Transfers \cup {None}
  BY <1>3, <1>6
<1>8. Written(f, t, c) \in Files
  BY <1>4, <1>6, <1>7 DEF Files
<1>9. Len(Written(f, t, c)) = n
  BY <1>4, <1>6
<1>10. \A k \in 1..n : Written(f, t, c)[k] =
                         IF k \in (c.start + 1)..c.end THEN t ELSE IF k <= Len(old) THEN old[k] ELSE None
  BY <1>4
<1> QED BY <1>2, <1>5, <1>8, <1>9, <1>10 DEF f, old

\* A chunk is written and noted: Send goes on to the commit exactly when nothing is missing.
LEMMA WriteStep ==
  ASSUME AssemblyInv, NEW w \in Workers, WriteChunk(w)
  PROVE  AssemblyInv'
<1> DEFINE i == idx[w]
           t == job[w].transfer
           c == job[w].chunk
           f == PathOf[t]
           st == Received(states[i][t], t, c)
<1>1. SftpType /\ LockInv /\ RangeInv /\ HeldInv /\ DoneInv
  BY DEF AssemblyInv
<1>2. /\ pc[w] = "write" /\ temp' = [temp EXCEPT ![f] = Written(f, t, c)]
      /\ states' = [states EXCEPT ![i][t] = st]
      /\ \/ readyToCommit(st) /\ Goes(w, "remove") /\ UNCHANGED lock
         \/ ~readyToCommit(st) /\ Return(w)
      /\ UNCHANGED <<transferShard, nextIdx, connReady, final, committed, renameFailed>>
  BY DEF WriteChunk, assignment, history
<1>3. /\ i \in Shards /\ t \in Transfers /\ c \in Chunks[t] /\ Size[t] \in Nat \ {0} /\ f \in Paths
      /\ c \in FileRange /\ c.start < c.end /\ c.end <= Size[t]
  BY <1>2, AtWork
<1>4. states[i][t] # None
  BY <1>1, <1>2 DEF HeldInv, Holding
<1>5. /\ st \in States /\ st # None /\ st.totalSize = Size[t] /\ Canonical(st.ranges)
      /\ st.received = Covered(st.ranges) /\ st.received \subseteq 1..Size[t]
      /\ Size[t] \in st.received => st.eofSeen
  BY <1>3, <1>4, ReceivedIs
<1>6. readyToCommit(st) <=> st.received = 1..Size[t]
  <2> HIDE DEF st
  <2> QED BY <1>3, <1>5, ReadyIsWhole
<1>7. Written(f, t, c) \in Files
  BY <1>1, <1>3, WrittenIs
<1> HIDE DEF st
<1>8. /\ states' \in [Shards -> [Transfers -> States \cup {None}]]
      /\ states'[i][t] = st
      /\ \A j \in Shards, u \in Transfers : j # i \/ u # t => states'[j][u] = states[j][u]
  <2> HIDE DEF i, t
  <2>1. states' = [states EXCEPT ![i] = [states[i] EXCEPT ![t] = st]]
    BY <1>2
  <2> QED BY <1>1, <1>3, <1>5, <2>1 DEF SftpType
<1>9. /\ WorkerTypes /\ LockInv' /\ Only(w)
      /\ \/ pc'[w] = "remove" /\ job'[w] = job[w] /\ idx'[w] = idx[w] /\ st.received = 1..Size[t]
         \/ pc'[w] = "idle" /\ st.received # 1..Size[t]
  <2>1. CASE readyToCommit(st) /\ Goes(w, "remove") /\ UNCHANGED lock
    <3>1. /\ WorkerTypes /\ LockInv' /\ Only(w)
          /\ pc'[w] = "remove" /\ job'[w] = job[w] /\ idx'[w] = idx[w]
      BY <1>2, <2>1, GoesOn DEF Holding
    <3> QED BY <1>6, <2>1, <3>1
  <2>2. CASE ~readyToCommit(st) /\ Return(w)
    BY <1>6, <2>2, Returns
  <2> QED BY <1>2, <2>1, <2>2
<1>10. SftpType'
  <2>1. temp' \in [Paths -> Files \cup {None}]
    BY <1>1, <1>2, <1>3, <1>7 DEF SftpType
  <2> QED BY <1>1, <1>2, <1>8, <1>9, <2>1 DEF SftpType, WorkerTypes
<1>11. RangeInv'
  <2> SUFFICES ASSUME NEW j \in Shards, NEW u \in Transfers, states'[j][u] # None
               PROVE  LET x == states'[j][u] IN
                      /\ x.totalSize = Size[u] /\ Canonical(x.ranges) /\ x.received = Covered(x.ranges)
                      /\ x.received \subseteq 1..Size[u]
                      /\ Size[u] \in x.received => x.eofSeen
    BY DEF RangeInv
  <2>1. CASE j = i /\ u = t
    BY <1>5, <1>8, <2>1
  <2>2. CASE j # i \/ u # t
    BY <1>1, <1>8, <2>2 DEF RangeInv
  <2> QED BY <2>1, <2>2
<1>12. HeldInv'
  <2>1. \A v \in Workers : v # w =>
           LET x == states'[idx'[v]][job'[v].transfer] IN
           /\ pc'[v] \in Holding => x # None
           /\ pc'[v] \in Committing => x.received = 1..Size[job'[v].transfer]
    BY <1>2, <1>8, <1>9, StateChanges DEF Holding
  <2>2. LET x == states'[idx'[w]][job'[w].transfer] IN
        /\ pc'[w] \in Holding => x # None
        /\ pc'[w] \in Committing => x.received = 1..Size[job'[w].transfer]
    BY <1>5, <1>8, <1>9 DEF Holding, Committing
  <2> QED BY <2>1, <2>2 DEF HeldInv
<1>13. DoneInv'
  <2> SUFFICES ASSUME NEW j \in Shards, NEW u \in Transfers, states'[j][u] # None,
                      states'[j][u].received = 1..Size[u], u \notin renameFailed'
               PROVE  \E v \in Workers : pc'[v] \in Committing /\ idx'[v] = j /\ job'[v].transfer = u
    BY DEF DoneInv
  <2>1. CASE j = i /\ u = t
    BY <1>8, <1>9, <2>1 DEF Committing
  <2>2. CASE j # i \/ u # t
    <3>1. PICK v \in Workers : pc[v] \in Committing /\ idx[v] = j /\ job[v].transfer = u
      BY <1>1, <1>2, <1>8, <2>2 DEF DoneInv
    <3>2. v # w
      BY <1>2, <3>1 DEF Committing
    <3> QED BY <1>9, <3>1, <3>2 DEF Only
  <2> QED BY <2>1, <2>2
<1> QED BY <1>9, <1>10, <1>11, <1>12, <1>13 DEF AssemblyInv

\* A write that failed leaves the states alone.
LEMMA WriteFailsStep ==
  ASSUME AssemblyInv, NEW w \in Workers, WriteFails(w)
  PROVE  AssemblyInv'
<1> DEFINE t == job[w].transfer
           c == job[w].chunk
           f == PathOf[t]
<1>1. SftpType
  BY DEF AssemblyInv
<1>2. /\ pc[w] = "write" /\ Return(w)
      /\ \/ UNCHANGED temp
         \/ temp' = [temp EXCEPT ![f] = Opened(f)]
         \/ temp' = [temp EXCEPT ![f] = Written(f, t, c)]
      /\ UNCHANGED <<transferShard, nextIdx, states, final, committed, renameFailed>>
  BY DEF WriteFails, assignment, history
<1>3. WorkerTypes /\ LockInv' /\ Only(w) /\ pc'[w] = "idle"
  BY <1>2, Returns
<1>4. temp' \in [Paths -> Files \cup {None}]
  <2>1. t \in Transfers /\ c \in Chunks[t] /\ f \in Paths
    BY <1>2, AtWork
  <2>2. Opened(f) \in Files /\ Written(f, t, c) \in Files
    BY <1>1, <2>1, WrittenIs
  <2> QED BY <1>1, <1>2, <2>1, <2>2 DEF SftpType
<1>5. SftpType'
  BY <1>1, <1>2, <1>3, <1>4 DEF SftpType, WorkerTypes
<1>6. RangeInv' /\ HeldInv' /\ DoneInv'
  BY <1>2, <1>3, StatesSame DEF Holding, Committing
<1> QED BY <1>3, <1>5, <1>6 DEF AssemblyInv

\* The removal of the file at the final path leaves the states alone,
LEMMA RemoveFinalStep ==
  ASSUME AssemblyInv, NEW w \in Workers, RemoveFinal(w)
  PROVE  AssemblyInv'
<1> DEFINE f == PathOf[job[w].transfer]
<1>1. SftpType
  BY DEF AssemblyInv
<1>2. /\ pc[w] = "remove" /\ Goes(w, "rename")
      /\ final' = [final EXCEPT ![f] = None] \/ UNCHANGED final
      /\ UNCHANGED <<transferShard, nextIdx, lock, states, temp, committed, renameFailed>>
  BY DEF RemoveFinal, assignment, history
<1>3. /\ WorkerTypes /\ LockInv' /\ Only(w)
      /\ pc'[w] = "rename" /\ job'[w] = job[w] /\ idx'[w] = idx[w]
  BY <1>2, GoesOn DEF Holding
<1>4. SftpType'
  BY <1>1, <1>2, <1>3 DEF SftpType, WorkerTypes
<1>5. RangeInv' /\ HeldInv' /\ DoneInv'
  BY <1>2, <1>3, StatesSame DEF Holding, Committing
<1> QED BY <1>3, <1>4, <1>5 DEF AssemblyInv

\* The files after a rename.
LEMMA MovedType ==
  ASSUME SftpType, NEW f \in Paths, Moved(f)
  PROVE  /\ temp' \in [Paths -> Files \cup {None}] /\ final' \in [Paths -> Files \cup {None}]
         /\ committed' \subseteq Paths
  BY DEF SftpType, Moved

\* and so does the rename;
LEMMA RenameStep ==
  ASSUME AssemblyInv, NEW w \in Workers, Rename(w)
  PROVE  AssemblyInv'
<1> DEFINE f == PathOf[job[w].transfer]
<1>1. SftpType
  BY DEF AssemblyInv
<1>2. /\ pc[w] = "rename" /\ Goes(w, "cleanup") /\ Moved(f)
      /\ UNCHANGED <<transferShard, nextIdx, lock, states, renameFailed>>
  BY DEF Rename, assignment
<1>3. /\ WorkerTypes /\ LockInv' /\ Only(w)
      /\ pc'[w] = "cleanup" /\ job'[w] = job[w] /\ idx'[w] = idx[w]
  BY <1>2, GoesOn DEF Holding
<1>4. /\ temp' \in [Paths -> Files \cup {None}] /\ final' \in [Paths -> Files \cup {None}]
      /\ committed' \subseteq Paths
  BY <1>1, <1>2, AtWork, MovedType
<1>5. SftpType'
  BY <1>1, <1>2, <1>3, <1>4 DEF SftpType, WorkerTypes
<1>6. RangeInv' /\ HeldInv' /\ DoneInv'
  BY <1>2, <1>3, StatesSame DEF Holding, Committing
<1> QED BY <1>3, <1>5, <1>6 DEF AssemblyInv

\* when that fails the state stays complete, and the transfer is noted in renameFailed.
LEMMA RenameFailsStep ==
  ASSUME AssemblyInv, NEW w \in Workers, RenameFails(w)
  PROVE  AssemblyInv'
<1> DEFINE t == job[w].transfer
           f == PathOf[t]
<1>1. SftpType
  BY DEF AssemblyInv
<1>2. /\ pc[w] = "rename" /\ Return(w) /\ renameFailed' = renameFailed \cup {t}
      /\ UNCHANGED <<temp, final, committed>> \/ Moved(f)
      /\ UNCHANGED <<transferShard, nextIdx, states>>
  BY DEF RenameFails, KeepsFile, assignment, server
<1>3. WorkerTypes /\ LockInv' /\ Only(w) /\ pc'[w] = "idle"
  BY <1>2, Returns
<1>4. /\ temp' \in [Paths -> Files \cup {None}] /\ final' \in [Paths -> Files \cup {None}]
      /\ committed' \subseteq Paths
  <2>1. f \in Paths
    BY <1>2, AtWork
  <2>2. CASE UNCHANGED <<temp, final, committed>>
    BY <1>1, <2>2 DEF SftpType
  <2>3. CASE Moved(f)
    BY <1>1, <2>1, <2>3, MovedType
  <2> QED BY <1>2, <2>2, <2>3
<1>5. SftpType'
  BY <1>1, <1>2, <1>3, <1>4 DEF SftpType, WorkerTypes
<1>6. RangeInv' /\ HeldInv' /\ DoneInv'
  BY <1>2, <1>3, StatesSame DEF Holding, Committing
<1> QED BY <1>3, <1>5, <1>6 DEF AssemblyInv

\* cleanupCommittedTransferLocked gives up the one state that its goroutine works on.
LEMMA CleanupStep ==
  ASSUME AssemblyInv, NEW w \in Workers, cleanupCommittedTransfer(w)
  PROVE  AssemblyInv'
<1> DEFINE i == idx[w]
           t == job[w].transfer
<1>1. SftpType /\ RangeInv /\ DoneInv
  BY DEF AssemblyInv
<1>2. /\ pc[w] = "cleanup" /\ states' = [states EXCEPT ![i][t] = None]
      /\ transferShard' = [transferShard EXCEPT ![t] = None] /\ Return(w)
      /\ UNCHANGED <<nextIdx, temp, final, committed, renameFailed>>
  BY DEF cleanupCommittedTransfer, server, history
<1>3. i \in Shards /\ t \in Transfers
  BY <1>2, AtWork
<1>4. WorkerTypes /\ LockInv' /\ Only(w) /\ pc'[w] = "idle"
  BY <1>2, Returns
<1>5. /\ states' \in [Shards -> [Transfers -> States \cup {None}]] /\ states'[i][t] = None
      /\ \A j \in Shards, u \in Transfers : j # i \/ u # t => states'[j][u] = states[j][u]
  <2> HIDE DEF i, t
  <2>1. states' = [states EXCEPT ![i] = [states[i] EXCEPT ![t] = None]]
    BY <1>2
  <2> QED BY <1>1, <1>3, <2>1 DEF SftpType
<1>6. SftpType'
  BY <1>1, <1>2, <1>3, <1>4, <1>5 DEF SftpType, WorkerTypes
<1>7. \A j \in Shards, u \in Transfers : states'[j][u] # None =>
        (j # i \/ u # t) /\ states'[j][u] = states[j][u]
  BY <1>5
<1>8. RangeInv'
  BY <1>1, <1>7 DEF RangeInv
<1>9. HeldInv'
  <2>1. \A v \in Workers : v # w =>
           LET x == states'[idx'[v]][job'[v].transfer] IN
           /\ pc'[v] \in Holding => x # None
           /\ pc'[v] \in Committing => x.received = 1..Size[job'[v].transfer]
    BY <1>2, <1>4, <1>5, StateChanges DEF Holding
  <2> QED BY <1>4, <2>1 DEF HeldInv, Holding, Committing
<1>10. DoneInv'
  <2> SUFFICES ASSUME NEW j \in Shards, NEW u \in Transfers, states'[j][u] # None,
                      states'[j][u].received = 1..Size[u], u \notin renameFailed'
               PROVE  \E v \in Workers : pc'[v] \in Committing /\ idx'[v] = j /\ job'[v].transfer = u
    BY DEF DoneInv
  <2>1. PICK v \in Workers : pc[v] \in Committing /\ idx[v] = j /\ job[v].transfer = u
    BY <1>1, <1>2, <1>7 DEF DoneInv
  <2>2. v # w
    BY <1>7, <2>1
  <2> QED BY <1>4, <2>1, <2>2 DEF Only
<1> QED BY <1>4, <1>6, <1>8, <1>9, <1>10 DEF AssemblyInv

\* Every step keeps the invariant.
LEMMA AssemblyStep == AssemblyInv /\ [Next]_vars => AssemblyInv'
<1> SUFFICES ASSUME AssemblyInv, [Next]_vars PROVE AssemblyInv'
  OBVIOUS
<1>1. ASSUME UNCHANGED vars PROVE AssemblyInv'
  <2>1. UNCHANGED <<transferShard, nextIdx, lock, states, pc, job, idx, temp, final, committed,
                    renameFailed>>
    BY <1>1 DEF vars, assignment, worker, server, history
  <2>2. SftpType'
    BY <2>1 DEF AssemblyInv, SftpType
  <2>3. LockInv' /\ RangeInv' /\ HeldInv' /\ DoneInv'
    BY <2>1 DEF AssemblyInv, LockInv, RangeInv, HeldInv, DoneInv
  <2> QED BY <2>2, <2>3 DEF AssemblyInv
<1>2. CASE Restart
  BY <1>2, AssemblyRestart
<1>3. ASSUME NEW w \in Workers, SendStep(w) PROVE AssemblyInv'
  BY <1>3, EnsureStep, LockStep, WriteStep, WriteFailsStep, RemoveFinalStep, RenameStep,
     RenameFailsStep, CleanupStep DEF SendStep
<1>4. ASSUME NEW w \in Workers, NEW t \in Transfers, NEW c \in Chunks[t], PickShard(w, t, c)
      PROVE  AssemblyInv'
  BY <1>4, PickStep
<1> QED BY <1>1, <1>2, <1>3, <1>4 DEF Next

\* The states of the transfers, the locks and the goroutines in sendLocked fit together.
THEOREM AssemblyCorrect == Spec => []AssemblyInv
<1> QED BY AssemblyInit, AssemblyStep, PTL DEF Spec

\* The invariant implies ReceivedExact.
LEMMA AssemblyExact == AssemblyInv => ReceivedExact
<1> SUFFICES ASSUME AssemblyInv, NEW i \in Shards, NEW t \in Transfers, states[i][t] # None
             PROVE  LET st == states[i][t] IN
                    /\ Canonical(st.ranges)
                    /\ st.received = Covered(st.ranges)
                    /\ (st.received = 1..Size[t] /\ t \notin renameFailed) =>
                         lock[i] # None /\ job[lock[i]].transfer = t
  BY DEF ReceivedExact
<1>1. Canonical(states[i][t].ranges) /\ states[i][t].received = Covered(states[i][t].ranges)
  BY DEF AssemblyInv, RangeInv
<1>2. ASSUME states[i][t].received = 1..Size[t], t \notin renameFailed
      PROVE  lock[i] # None /\ job[lock[i]].transfer = t
  <2>1. PICK w \in Workers : pc[w] \in Committing /\ idx[w] = i /\ job[w].transfer = t
    BY <1>2 DEF AssemblyInv, DoneInv
  <2>2. lock[i] = w
    BY <2>1 DEF AssemblyInv, LockInv, Holding, Committing
  <2> QED BY <2>1, <2>2, BoundsAssumption
<1> QED BY <1>1, <1>2

\* addRange and readyToCommit are exact: whatever the order of the chunks, their overlaps and
\* repetitions, the sorted ranges are the bytes received, and a Send that finds nothing
\* missing is the one that commits, or a rename has failed.
THEOREM ReceivedIsExact == Spec => []ReceivedExact
<1> QED BY AssemblyCorrect, AssemblyExact, PTL
-----------------------------------------------------------------------------
\* Two transfers do not share a file.
PathsDiffer == \A t, u \in Transfers : PathOf[t] = PathOf[u] => t = u

\* A rename took the temporary file, the state is still there.
Cleaned(i, t) == \E w \in Workers : pc[w] = "cleanup" /\ idx[w] = i /\ job[w].transfer = t

\* The file has these bytes of the transfer.
Has(file, t, bytes) == file # None /\ \A b \in bytes : b \in 1..Len(file) /\ file[b] = t

\* The files of a transfer t. One shard has its state; its temporary file is not longer than it;
\* what its state says was received is there until the rename takes it; its final file is whole;
\* and once committed, one of the two is.
FileOk(t) ==
  LET f == PathOf[t] IN
  /\ \A i, j \in Shards : states[i][t] # None /\ states[j][t] # None => i = j
  /\ temp[f] # None => Len(temp[f]) <= Size[t]
  /\ \A i \in Shards : states[i][t] # None /\ ~Cleaned(i, t) /\ states[i][t].received # {} =>
       Has(temp[f], t, states[i][t].received)
  /\ final[f] # None => Whole(final[f], t)
  /\ f \in committed => Whole(final[f], t) \/ Whole(temp[f], t)

\* The inductive invariant of the files, together with AssemblyInv.
FileInv == \A t \in Transfers : t \notin split => FileOk(t)

\* No file, no state.
LEMMA FileInit == Init => FileInv
  BY DEF Init, Fresh, NoStates, FileInv, FileOk, Paths

\* A restart forgets the states and leaves the files.
LEMMA FileRestart == AssemblyInv /\ FileInv /\ Restart => FileInv'
<1> SUFFICES ASSUME FileInv, Restart, NEW t \in Transfers, t \notin split' PROVE FileOk(t)'
  BY DEF FileInv
<1>1. /\ states' = [i \in Shards |-> [u \in Transfers |-> None]]
      /\ UNCHANGED <<temp, final, committed, split>>
  BY DEF Restart, Fresh, NoStates, server
<1>2. FileOk(t)
  BY <1>1 DEF FileInv
<1> QED BY <1>1, <1>2 DEF FileOk

\* Every step of a Send is the step of one goroutine.
LEMMA OneMoves ==
  ASSUME AssemblyInv, NEW w \in Workers,
         SendStep(w) \/ \E t \in Transfers : \E c \in Chunks[t] : PickShard(w, t, c)
  PROVE  Only(w)
<1>1. SftpType
  BY DEF AssemblyInv
<1>2. ASSUME NEW to, Goes(w, to) PROVE Only(w)
  BY <1>1, <1>2 DEF Goes, Only, SftpType
<1>3. ASSUME Return(w) PROVE Only(w)
  BY <1>1, <1>3 DEF Return, Only, SftpType
<1>4. ASSUME NEW t \in Transfers, NEW c \in Chunks[t], PickShard(w, t, c) PROVE Only(w)
  BY <1>1, <1>4 DEF PickShard, Only, SftpType
<1>5. ASSUME SendStep(w) PROVE Only(w)
  BY <1>2, <1>3, <1>5 DEF SendStep, EnsureConn, Lock, WriteChunk, WriteFails, RemoveFinal, Rename,
     RenameFails, cleanupCommittedTransfer
<1> QED BY <1>4, <1>5

\* A transfer that waits for its clean-up does so until its goroutine moves.
LEMMA CleanedStays ==
  ASSUME NEW w \in Workers, Only(w), NEW u \in Transfers, pc[w] # "cleanup" \/ job[w].transfer # u,
         NEW i \in Shards, Cleaned(i, u)
  PROVE  Cleaned(i, u)'
<1>1. PICK v \in Workers : pc[v] = "cleanup" /\ idx[v] = i /\ job[v].transfer = u
  BY DEF Cleaned
<1>2. pc'[v] = "cleanup" /\ idx'[v] = i /\ job'[v].transfer = u
  BY <1>1 DEF Only
<1> QED BY <1>2 DEF Cleaned

\* A step that changes neither files nor states of a transfer keeps them in order.
LEMMA Untouched ==
  ASSUME NEW w \in Workers, Only(w), NEW u \in Transfers, FileOk(u),
         pc[w] # "cleanup" \/ job[w].transfer # u,
         \A i \in Shards : states'[i][u] = states[i][u],
         temp'[PathOf[u]] = temp[PathOf[u]], final'[PathOf[u]] = final[PathOf[u]],
         PathOf[u] \in committed' => PathOf[u] \in committed
  PROVE  FileOk(u)'
<1>1. \A i \in Shards : Cleaned(i, u) => Cleaned(i, u)'
  BY CleanedStays
<1> QED BY <1>1 DEF FileOk, Has, Whole

\* Who holds the lock is alone with the state.
LEMMA NoneCleans ==
  ASSUME AssemblyInv, NEW w \in Workers, pc[w] \in {"write", "remove", "rename"}
  PROVE  ~Cleaned(idx[w], job[w].transfer)
<1> SUFFICES ASSUME NEW v \in Workers, pc[v] = "cleanup", idx[v] = idx[w] PROVE FALSE
  BY DEF Cleaned
<1>1. idx[w] \in Shards
  BY AtWork
<1>2. lock[idx[w]] = v /\ lock[idx[w]] = w
  BY <1>1 DEF AssemblyInv, LockInv, Holding
<1> QED BY <1>2

\* A whole file, byte by byte.
LEMMA WholeIs ==
  ASSUME NEW t \in Transfers, NEW file \in Files
  PROVE  Whole(file, t) <=> Len(file) = Size[t] /\ \A b \in 1..Size[t] : file[b] = t
<1>1. Size[t] \in Nat
  BY TransfersAssumption
<1>2. ASSUME Len(file) = Size[t], \A b \in 1..Size[t] : file[b] = t PROVE Whole(file, t)
  <2>1. file = [b \in 1..Len(file) |-> file[b]]
    BY DEF Files
  <2> QED BY <1>2, <2>1 DEF Whole
<1>3. ASSUME Whole(file, t) PROVE Len(file) = Size[t] /\ \A b \in 1..Size[t] : file[b] = t
  BY <1>1, <1>3 DEF Whole, Files
<1> QED BY <1>2, <1>3

\* None is no file, and a whole one is a file.
LEMMA WholeFile ==
  ASSUME NEW t \in Transfers, NEW file, Whole(file, t)
  PROVE  file \in Files /\ file # None
<1>1. Size[t] \in Nat
  BY TransfersAssumption
<1>2. file \in Files
  BY <1>1 DEF Whole, Files
<1> QED BY <1>2, NoneAssumption DEF Files

\* What is complete is in the temporary file until it is renamed.
LEMMA CompleteIsWhole ==
  ASSUME AssemblyInv, FileInv, NEW w \in Workers, pc[w] \in {"remove", "rename"},
         job[w].transfer \notin split
  PROVE  LET t == job[w].transfer IN Whole(temp[PathOf[t]], t)
<1> DEFINE t == job[w].transfer
           f == PathOf[t]
           i == idx[w]
<1>1. i \in Shards /\ t \in Transfers /\ Size[t] \in Nat \ {0} /\ f \in Paths
  BY AtWork
<1>2. states[i][t] # None /\ states[i][t].received = 1..Size[t]
  BY DEF AssemblyInv, HeldInv, Holding, Committing
<1>3. ~Cleaned(i, t)
  BY NoneCleans
<1>4. 1 \in states[i][t].received
  BY <1>1, <1>2
<1> HIDE DEF t, f, i
<1>5. FileOk(t)
  BY <1>1 DEF FileInv, t
<1>6. Has(temp[f], t, 1..Size[t]) /\ Len(temp[f]) <= Size[t]
  BY <1>1, <1>2, <1>3, <1>4, <1>5 DEF FileOk, Has, f
<1>7. temp[f] \in Files
  BY <1>1, <1>6 DEF AssemblyInv, SftpType, Has
<1>8. Size[t] \in 1..Len(temp[f]) /\ \A b \in 1..Size[t] : temp[f][b] = t
  BY <1>1, <1>6 DEF Has
<1>9. Len(temp[f]) \in Nat
  BY <1>7 DEF Files
<1>10. Len(temp[f]) = Size[t]
  BY <1>1, <1>6, <1>8, <1>9
<1> QED BY <1>1, <1>7, <1>8, <1>10, WholeIs DEF t, f

\* A write loses nothing of the transfer.
LEMMA WriteKeeps ==
  ASSUME SftpType, NEW t \in Transfers, NEW c \in Chunks[t],
         LET f == PathOf[t] IN temp[f] # None => Len(temp[f]) <= Size[t]
  PROVE  LET f == PathOf[t]  file == Written(f, t, c) IN
         /\ file # None /\ Len(file) <= Size[t]
         /\ Whole(temp[f], t) => Whole(file, t)
         /\ Has(file, t, (c.start + 1)..c.end)
         /\ \A bytes : Has(temp[f], t, bytes) => Has(file, t, bytes)
<1> DEFINE f == PathOf[t]
           file == Written(f, t, c)
           old == Opened(f)
<1>1. /\ c \in FileRange /\ c.start \in Nat /\ c.end \in Nat /\ c.start < c.end /\ c.end <= Size[t]
      /\ Size[t] \in Nat \ {0}
  BY TransfersAssumption DEF FileRange
<1>2. /\ old \in Files /\ file \in Files
      /\ Len(file) = IF Len(old) >= c.end THEN Len(old) ELSE c.end
      /\ \A k \in 1..Len(file) :
           file[k] = IF k \in (c.start + 1)..c.end THEN t ELSE IF k <= Len(old) THEN old[k] ELSE None
  BY WrittenIs
<1>3. IF temp[f] = None THEN old = <<>> ELSE old = temp[f]
  BY DEF Opened
<1> HIDE DEF f, file, old
<1>4. Len(old) \in Nat /\ Len(old) <= Size[t]
  BY <1>1, <1>2, <1>3 DEF Files, f
<1>5. file # None /\ Len(file) <= Size[t] /\ Len(file) \in Nat
  BY <1>1, <1>2, <1>4, NoneAssumption DEF Files
<1>6. Has(file, t, (c.start + 1)..c.end)
  <2>1. \A b \in (c.start + 1)..c.end : b \in 1..Len(file)
    BY <1>1, <1>2, <1>4
  <2> QED BY <1>2, <1>5, <2>1 DEF Has
<1>7. ASSUME NEW bytes, Has(temp[f], t, bytes) PROVE Has(file, t, bytes)
  <2>1. old = temp[f] /\ \A b \in bytes : b \in 1..Len(old) /\ old[b] = t
    BY <1>3, <1>7 DEF Has
  <2>2. \A b \in 1..Len(old) : b \in 1..Len(file)
    BY <1>1, <1>2, <1>4
  <2>3. \A b \in bytes : file[b] = t
    <3> SUFFICES ASSUME NEW b \in bytes PROVE file[b] = t
      OBVIOUS
    <3>1. b \in 1..Len(old) /\ old[b] = t /\ b \in 1..Len(file) /\ b <= Len(old)
      BY <1>4, <2>1, <2>2
    <3> QED BY <1>2, <3>1
  <2> QED BY <1>5, <2>1, <2>2, <2>3 DEF Has
<1>8. ASSUME Whole(temp[f], t) PROVE Whole(file, t)
  <2>1. temp[f] \in Files /\ temp[f] # None
    BY <1>8, WholeFile
  <2>2. Len(temp[f]) = Size[t] /\ \A b \in 1..Size[t] : temp[f][b] = t
    BY <1>8, <2>1, WholeIs
  <2>3. Has(temp[f], t, 1..Size[t])
    BY <2>1, <2>2 DEF Has
  <2>4. Has(file, t, 1..Size[t])
    BY <1>7, <2>3
  <2>5. Len(file) = Size[t] /\ \A b \in 1..Size[t] : file[b] = t
    BY <1>1, <1>5, <2>4 DEF Has
  <2> QED BY <1>2, <2>5, WholeIs
<1> QED BY <1>5, <1>6, <1>7, <1>8 DEF f, file

\* A step that changes files and states of one transfer keeps those of the others in order.
LEMMA OthersOk ==
  ASSUME PathsDiffer, AssemblyInv, FileInv, NEW w \in Workers, Only(w),
         NEW t \in Transfers, pc[w] # "cleanup" \/ job[w].transfer = t,
         \A i \in Shards, u \in Transfers : u # t => states'[i][u] = states[i][u],
         \A g \in Paths : g # PathOf[t] => temp'[g] = temp[g] /\ final'[g] = final[g]
                                           /\ (g \in committed' => g \in committed),
         split \subseteq split',
         NEW u \in Transfers, u # t, u \notin split'
  PROVE  FileOk(u)'
<1>1. PathOf[u] \in Paths /\ PathOf[u] # PathOf[t]
  BY DEF PathsDiffer, Paths
<1>2. FileOk(u)
  BY DEF FileInv
<1> QED BY <1>1, <1>2, Untouched

\* A step that changes no file and no state at all.
LEMMA FilesSame ==
  ASSUME AssemblyInv, FileInv, NEW w \in Workers, Only(w), pc[w] # "cleanup",
         UNCHANGED <<states, temp, final, committed, split>>
  PROVE  FileInv'
<1> SUFFICES ASSUME NEW u \in Transfers, u \notin split' PROVE FileOk(u)'
  BY DEF FileInv
<1>1. FileOk(u)
  BY DEF FileInv
<1> QED BY <1>1, Untouched

\* sendLocked makes a state: either it is the only one of the transfer, or the transfer is split.
LEMMA FileLock ==
  ASSUME PathsDiffer, AssemblyInv, FileInv, NEW w \in Workers, Only(w), Lock(w)
  PROVE  FileInv'
<1>0. PICK i \in Shards, t \in Transfers : i = idx[w] /\ t = job[w].transfer
  BY AtWork DEF Lock
<1> DEFINE f == PathOf[t]
<1>1. pc[w] = "lock" /\ UNCHANGED <<temp, final, committed>>
  BY <1>0 DEF Lock, server
<1>2. i \in Shards /\ t \in Transfers
  BY <1>0, <1>1, AtWork DEF Paths
<1>3. CASE UNCHANGED <<states, split>>
  BY <1>1, <1>3, FilesSame
<1>4. CASE /\ states' = [states EXCEPT ![i][t] = IF @ = None THEN NewState(t) ELSE @]
           /\ split' = IF states[i][t] = None /\ \E j \in Shards : states[j][t] # None
                       THEN split \cup {t} ELSE split
  <2>1. /\ \A j \in Shards, u \in Transfers : j # i \/ u # t => states'[j][u] = states[j][u]
        /\ states'[i][t] = IF states[i][t] = None THEN NewState(t) ELSE states[i][t]
    <3> QED BY <1>2, <1>4 DEF AssemblyInv, SftpType
  <2>2. split \subseteq split'
    BY <1>4
  <2>3. ASSUME t \notin split' PROVE FileOk(t)'
    <3>1. FileOk(t)
      BY <1>2, <2>2, <2>3 DEF FileInv
    <3>2. states[i][t] = None => \A j \in Shards : states[j][t] = None
      BY <1>4, <2>3
    <3>3. \A j \in Shards : Cleaned(j, t) => Cleaned(j, t)'
      BY <1>1, <1>2, CleanedStays
    <3>4. NewState(t).received = {}
      BY DEF NewState
    <3>5. \A j, k \in Shards : states'[j][t] # None /\ states'[k][t] # None => j = k
      BY <1>2, <2>1, <3>1, <3>2 DEF FileOk
    <3>6. \A j \in Shards : states'[j][t] # None /\ ~Cleaned(j, t)' /\ states'[j][t].received # {} =>
            Has(temp[PathOf[t]], t, states'[j][t].received)
      BY <1>2, <2>1, <3>1, <3>3, <3>4 DEF FileOk
    <3> QED BY <1>1, <3>1, <3>5, <3>6 DEF FileOk, Has, Whole
  <2>4. ASSUME NEW u \in Transfers, u # t, u \notin split' PROVE FileOk(u)'
    BY <1>1, <1>2, <2>1, <2>2, <2>4, OthersOk, <1>0
  <2> QED BY <2>3, <2>4 DEF FileInv
<1> QED BY <1>0, <1>3, <1>4 DEF Lock

\* OpenFile, WriteAt and Close, whole or cut off: the file gains the chunk and loses nothing.
LEMMA FileWrite ==
  ASSUME PathsDiffer, AssemblyInv, FileInv, NEW w \in Workers, Only(w), WriteChunk(w) \/ WriteFails(w)
  PROVE  FileInv'
<1>0. PICK i \in Shards, t \in Transfers : i = idx[w] /\ t = job[w].transfer
  BY AtWork DEF WriteChunk, WriteFails
<1> DEFINE c == job[w].chunk
           f == PathOf[t]
           st == Received(states[i][t], t, c)
<1>1. /\ pc[w] = "write" /\ UNCHANGED <<final, committed, split>>
      /\ \/ temp' = [temp EXCEPT ![f] = Written(f, t, c)] /\ states' = [states EXCEPT ![i][t] = st]
         \/ /\ UNCHANGED states
            /\ \/ UNCHANGED temp
               \/ temp' = [temp EXCEPT ![f] = Opened(f)]
               \/ temp' = [temp EXCEPT ![f] = Written(f, t, c)]
  BY <1>0 DEF WriteChunk, WriteFails, history
<1>2. i \in Shards /\ t \in Transfers /\ c \in Chunks[t] /\ f \in Paths
  BY <1>0, <1>1, AtWork DEF Paths
<1>3. SftpType /\ states[i][t] # None /\ ~Cleaned(i, t)
  BY <1>0, <1>1, NoneCleans DEF AssemblyInv, HeldInv, Holding
<1>4. /\ \A j \in Shards, u \in Transfers : j # i \/ u # t => states'[j][u] = states[j][u]
      /\ \A g \in Paths : g # f => temp'[g] = temp[g]
      /\ \/ temp'[f] = Written(f, t, c) /\ states'[i][t] \in {st, states[i][t]}
         \/ temp'[f] = temp[f] /\ states'[i][t] = states[i][t]
         \/ temp'[f] = Opened(f) /\ states'[i][t] = states[i][t]
  <2> HIDE DEF f, st, c
  <2> QED BY <1>1, <1>2, <1>3 DEF SftpType
<1>5. st.received = states[i][t].received \cup ((c.start + 1)..c.end)
  BY DEF Received
<1>6. ASSUME t \notin split' PROVE FileOk(t)'
  <2> DEFINE file == temp[f]
             now == temp'[f]
  <2>1. FileOk(t)
    BY <1>1, <1>2, <1>6 DEF FileInv
  <2>2. file # None => Len(file) <= Size[t]
    BY <2>1 DEF FileOk
  <2>3. Len(<<>>) <= Size[t]
    BY <1>2, TransfersAssumption
  <2>4. LET new == Written(f, t, c) IN
         /\ new # None /\ Len(new) <= Size[t]
         /\ Whole(file, t) => Whole(new, t)
         /\ Has(new, t, (c.start + 1)..c.end)
         /\ \A bytes : Has(file, t, bytes) => Has(new, t, bytes)
    BY <1>2, <1>3, <2>2, WriteKeeps
  <2>5. Whole(file, t) => file # None
    BY <1>2, WholeFile
  <2>6. IF file = None THEN Opened(f) = <<>> ELSE Opened(f) = file
    BY DEF Opened
  <2>7. states[i][t].received # {} => Has(file, t, states[i][t].received)
    BY <1>2, <1>3, <2>1 DEF FileOk
  <2> HIDE DEF file, now, f, c, st
  <2>8. now # None => Len(now) <= Size[t]
    BY <1>4, <2>2, <2>3, <2>4, <2>6 DEF file, now
  <2>9. Whole(file, t) => Whole(now, t)
    BY <1>4, <2>4, <2>5, <2>6 DEF file, now
  <2>10. \A bytes : Has(file, t, bytes) => Has(now, t, bytes)
    BY <1>4, <2>4, <2>6 DEF file, now, Has
  <2>11. states'[i][t].received # {} => Has(now, t, states'[i][t].received)
    <3>1. CASE states'[i][t] = states[i][t]
      BY <2>7, <2>10, <3>1
    <3>2. CASE now = Written(f, t, c) /\ states'[i][t] = st
      <4>1. Has(now, t, (c.start + 1)..c.end)
        BY <2>4, <3>2
      <4>2. states[i][t].received # {} => Has(now, t, states[i][t].received)
        BY <2>7, <2>10
      <4> QED BY <1>5, <3>2, <4>1, <4>2 DEF Has
    <3> QED BY <1>4, <3>1, <3>2 DEF now
  <2>12. \A j \in Shards : states'[j][t] # None => j = i
    BY <1>2, <1>3, <1>4, <2>1 DEF FileOk
  <2>13. \A j, k \in Shards : states'[j][t] # None /\ states'[k][t] # None => j = k
    BY <2>12
  <2>14. \A j \in Shards : states'[j][t] # None /\ states'[j][t].received # {} =>
           Has(now, t, states'[j][t].received)
    BY <2>11, <2>12
  <2>15. /\ final'[f] # None => Whole(final'[f], t)
         /\ f \in committed' => Whole(final'[f], t) \/ Whole(now, t)
    BY <1>1, <2>1, <2>9 DEF FileOk, Whole, file, f
  <2> QED BY <2>8, <2>13, <2>14, <2>15 DEF FileOk, Has, Whole, now, f
<1>7. ASSUME NEW u \in Transfers, u # t, u \notin split' PROVE FileOk(u)'
  BY <1>1, <1>2, <1>4, <1>7, OthersOk, <1>0
<1> QED BY <1>6, <1>7 DEF FileInv

\* The file at the final path may go: the temporary one is whole.
LEMMA FileRemove ==
  ASSUME PathsDiffer, AssemblyInv, FileInv, NEW w \in Workers, Only(w), RemoveFinal(w)
  PROVE  FileInv'
<1>0. PICK i \in Shards, t \in Transfers : i = idx[w] /\ t = job[w].transfer
  BY AtWork DEF RemoveFinal
<1> DEFINE f == PathOf[t]
<1>1. /\ pc[w] = "remove" /\ UNCHANGED <<states, temp, committed, split>>
      /\ final' = [final EXCEPT ![f] = None] \/ UNCHANGED final
  BY <1>0 DEF RemoveFinal, history
<1>2. t \in Transfers /\ f \in Paths
  BY <1>0, <1>1, AtWork DEF Paths
<1>3. /\ final'[f] \in {None, final[f]}
      /\ \A g \in Paths : g # f => final'[g] = final[g]
  BY <1>1, <1>2 DEF AssemblyInv, SftpType
<1>4. ASSUME t \notin split' PROVE FileOk(t)'
  <2>1. FileOk(t) /\ Whole(temp[f], t)
    BY <1>1, <1>2, <1>4, <1>0, CompleteIsWhole DEF FileInv
  <2>2. \A j \in Shards : Cleaned(j, t) => Cleaned(j, t)'
    BY <1>1, <1>2, CleanedStays
  <2> QED BY <1>1, <1>3, <2>1, <2>2 DEF FileOk, Has, Whole
<1>5. ASSUME NEW u \in Transfers, u # t, u \notin split' PROVE FileOk(u)'
  BY <1>1, <1>2, <1>3, <1>5, OthersOk, <1>0
<1> QED BY <1>4, <1>5 DEF FileInv

\* The rename puts a whole file at the final path.
LEMMA FileRename ==
  ASSUME PathsDiffer, AssemblyInv, FileInv, NEW w \in Workers, Only(w), Rename(w)
  PROVE  FileInv'
<1>0. PICK i \in Shards, t \in Transfers : i = idx[w] /\ t = job[w].transfer
  BY AtWork DEF Rename
<1> DEFINE f == PathOf[t]
<1>1. /\ pc[w] = "rename" /\ UNCHANGED <<states, split>> /\ Moved(f) /\ Goes(w, "cleanup")
  BY <1>0 DEF Rename
<1>2. i \in Shards /\ t \in Transfers /\ f \in Paths
  BY <1>0, <1>1, AtWork DEF Paths
<1>3. /\ temp'[f] = None /\ final'[f] = temp[f] /\ committed' = committed \cup {f}
      /\ \A g \in Paths : g # f => temp'[g] = temp[g] /\ final'[g] = final[g]
  BY <1>1, <1>2 DEF AssemblyInv, SftpType, Moved
<1>4. ASSUME t \notin split' PROVE FileOk(t)'
  <2>1. FileOk(t) /\ Whole(temp[f], t)
    BY <1>1, <1>2, <1>4, <1>0, CompleteIsWhole DEF FileInv
  <2>2. pc'[w] = "cleanup" /\ job'[w] = job[w] /\ idx'[w] = idx[w]
    BY <1>1 DEF Goes, AssemblyInv, SftpType
  <2>3. Cleaned(i, t)'
    BY <1>0, <2>2 DEF Cleaned
  <2>4. states[i][t] # None
    BY <1>0, <1>1 DEF AssemblyInv, HeldInv, Holding
  <2> HIDE DEF f
  <2>5. \A j \in Shards : states[j][t] # None => j = i
    BY <1>2, <2>1, <2>4 DEF FileOk
  <2>6. \A j \in Shards : states'[j][t] # None => Cleaned(j, t)'
    BY <1>1, <2>3, <2>5
  <2>7. \A j, k \in Shards : states'[j][t] # None /\ states'[k][t] # None => j = k
    BY <1>1, <2>5
  <2> QED BY <1>3, <2>1, <2>6, <2>7 DEF FileOk, Has, Whole, f
<1>5. ASSUME NEW u \in Transfers, u # t, u \notin split' PROVE FileOk(u)'
  BY <1>1, <1>2, <1>3, <1>5, OthersOk, <1>0
<1> QED BY <1>4, <1>5 DEF FileInv

\* The clean-up gives up the only state, whose bytes the rename took.
LEMMA FileCleanup ==
  ASSUME PathsDiffer, AssemblyInv, FileInv, NEW w \in Workers, Only(w), cleanupCommittedTransfer(w)
  PROVE  FileInv'
<1>0. PICK i \in Shards, t \in Transfers : i = idx[w] /\ t = job[w].transfer
  BY AtWork DEF cleanupCommittedTransfer
<1> DEFINE f == PathOf[t]
<1>1. /\ pc[w] = "cleanup" /\ states' = [states EXCEPT ![i][t] = None]
      /\ UNCHANGED <<temp, final, committed, split>>
  BY <1>0 DEF cleanupCommittedTransfer, server, history
<1>2. i \in Shards /\ t \in Transfers /\ f \in Paths
  BY <1>0, <1>1, AtWork DEF Paths
<1>3. /\ states'[i][t] = None
      /\ \A j \in Shards, u \in Transfers : j # i \/ u # t => states'[j][u] = states[j][u]
  <2> QED BY <1>1, <1>2 DEF AssemblyInv, SftpType
<1>4. states[i][t] # None
  BY <1>0, <1>1 DEF AssemblyInv, HeldInv, Holding
<1>5. ASSUME t \notin split' PROVE FileOk(t)'
  <2>1. FileOk(t)
    BY <1>1, <1>2, <1>5 DEF FileInv
  <2>2. \A j \in Shards : states'[j][t] = None
    <3> QED BY <1>2, <1>3, <1>4, <2>1 DEF FileOk
  <2> QED BY <1>1, <2>1, <2>2 DEF FileOk, Has, Whole
<1>6. ASSUME NEW u \in Transfers, u # t, u \notin split' PROVE FileOk(u)'
  BY <1>1, <1>2, <1>3, <1>6, OthersOk, <1>0
<1> QED BY <1>5, <1>6 DEF FileInv

\* Every step keeps the files in order, if no answer of a rename is lost.
LEMMA FileStep ==
  ASSUME PathsDiffer, "answer" \notin Faults, AssemblyInv, FileInv, [Next]_vars
  PROVE  FileInv'
<1>1. ASSUME UNCHANGED vars PROVE FileInv'
  <2>1. UNCHANGED <<states, pc, job, idx, temp, final, committed, split>>
    BY <1>1 DEF vars, worker, server, history
  <2>2. \A j \in Shards, t \in Transfers : Cleaned(j, t)' <=> Cleaned(j, t)
    BY <2>1 DEF Cleaned
  <2> QED BY <2>1, <2>2 DEF FileInv, FileOk, Has, Whole
<1>2. CASE Restart
  BY <1>2, FileRestart
<1>3. ASSUME NEW w \in Workers, SendStep(w) PROVE FileInv'
  <2>1. Only(w)
    BY <1>3, OneMoves
  <2>2. CASE EnsureConn(w)
    BY <2>1, <2>2, FilesSame DEF EnsureConn, server, history
  <2>3. CASE RenameFails(w)
    <3>1. pc[w] = "rename" /\ UNCHANGED <<states, temp, final, committed, split>>
      BY <2>3 DEF RenameFails, KeepsFile, server
    <3> QED BY <2>1, <3>1, FilesSame
  <2> QED BY <1>3, <2>1, <2>2, <2>3, FileLock, FileWrite, FileRemove, FileRename, FileCleanup
          DEF SendStep
<1>4. ASSUME NEW w \in Workers, NEW t \in Transfers, NEW c \in Chunks[t], PickShard(w, t, c)
      PROVE  FileInv'
  <2>1. Only(w)
    BY <1>4, OneMoves
  <2> QED BY <1>4, <2>1, FilesSame DEF PickShard, server
<1> QED BY <1>1, <1>2, <1>3, <1>4 DEF Next

\* The files of transfers that were never assembled on two connections are in order.
THEOREM FilesCorrect ==
  ASSUME PathsDiffer, "answer" \notin Faults PROVE Spec => []FileInv
<1>1. AssemblyInv /\ FileInv /\ [Next]_vars => FileInv'
  BY FileStep
<1> QED BY <1>1, FileInit, AssemblyCorrect, PTL DEF Spec

\* Every path is that of a transfer, split or in order.
LEMMA OkAtPath ==
  ASSUME FileInv, NEW f \in Paths
  PROVE  \E t \in Transfers : PathOf[t] = f /\ (Split(f) \/ FileOk(t))
<1>1. PICK t \in Transfers : PathOf[t] = f
  BY DEF Paths
<1> QED BY <1>1 DEF FileInv, Split

\* A file at its final path is whole, in whatever order its chunks came, however often they were
\* sent, whichever calls failed and whenever the process restarted: readyToCommit and the
\* rename put no other file there.
THEOREM CommittedFilesIntact ==
  ASSUME PathsDiffer, "answer" \notin Faults PROVE Spec => []CommittedIntact
<1>1. FileInv => CommittedIntact
  BY OkAtPath DEF CommittedIntact, WholeAt, FileOk
<1> QED BY <1>1, FilesCorrect, PTL

\* And it is never lost again: Send removes it only when its own copy is whole, and that copy
\* stays until it takes the final path.
THEOREM CommittedFilesKept ==
  ASSUME PathsDiffer, "answer" \notin Faults PROVE Spec => []CommittedKept
<1>1. AssemblyInv /\ FileInv => CommittedKept
  BY OkAtPath DEF CommittedKept, WholeAt, FileOk, AssemblyInv, SftpType
<1> QED BY <1>1, AssemblyCorrect, FilesCorrect, PTL
=============================================================================
