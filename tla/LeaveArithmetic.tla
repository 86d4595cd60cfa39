--------------------------- MODULE LeaveArithmetic ---------------------------
(***************************************************************************)
(* Lemmas about what leave counts: finite sums, the calendar, the split of *)
(* a leave by years, the balance.  What a recursive definition computes is *)
(* proved without an induction rule: if it were wrong somewhere it would   *)
(* be so at a smallest set, or a least number, of which the definition     *)
(* makes one from a smaller one that is right.                             *)
(***************************************************************************)
EXTENDS LeaveBalance, Functions, FiniteSetTheorems, WellFoundedInduction, TLAPS

\* Among finite sets there is a smallest: what fails for some of them fails for a
\* smallest, of which every part is in order.
LEMMA LeastSubset ==
  ASSUME NEW S, NEW W, W \subseteq FiniteSubsetsOf(S), W # {}
  PROVE  \E A \in W : \A B \in W : B \subseteq A => B = A
<1>1. PICK A \in W : \A B \in W : <<B, A>> \notin StrictSubsetOrdering(S)
  BY FS_StrictSubsetOrderingWellFounded, WFMin
<1>2. \A B \in W : B \subseteq A /\ B # A => <<B, A>> \in StrictSubsetOrdering(S)
  BY DEF FiniteSubsetsOf, StrictSubsetOrdering
<1>3. \A B \in W : B \subseteq A => B = A
  BY <1>1, <1>2
<1> QED
  BY <1>3

\* A set of naturals has a least: the intervals up to its members have a smallest.
LEMMA LeastNatural ==
  ASSUME NEW T, T \subseteq Nat, T # {}
  PROVE  \E m \in T : \A k \in T : m <= k
<1> DEFINE W == {1..m : m \in T}
<1>1. W \subseteq FiniteSubsetsOf(Nat)
  BY FS_Interval DEF FiniteSubsetsOf
<1>2. W # {}
  OBVIOUS
<1>3. PICK A \in W : \A B \in W : B \subseteq A => B = A
  <2> HIDE DEF W
  <2> QED BY <1>1, <1>2, LeastSubset
<1>4. PICK m \in T : A = 1..m
  OBVIOUS
<1>5. ASSUME NEW k \in T PROVE m <= k
  <2> SUFFICES ASSUME k < m PROVE FALSE
    BY <1>4, <1>5
  <2>1. 1..k \subseteq 1..m /\ m \in 1..m /\ m \notin 1..k
    OBVIOUS
  <2>2. 1..k \in W
    OBVIOUS
  <2> QED BY <2>1, <2>2, <1>3, <1>4
<1> QED BY <1>5

-----------------------------------------------------------------------------
(* Sums over finite sets                                                   *)

Pick(s) == CHOOSE x \in s : TRUE

\* g sums F over every subset of S, one element at a time.
Sums(g, F, S) ==
  g = [s \in SUBSET S |-> IF s = {} THEN 0 ELSE F[Pick(s)] + g[s \ {Pick(s)}]]

\* A sum is the value at S of such a function.
LEMMA SumIsChosen ==
  ASSUME NEW F, NEW S
  PROVE  SumFunctionOnSet(F, S) = (CHOOSE g : Sums(g, F, S))[S]
BY Zenon DEF SumFunctionOnSet, FoldFunctionOnSet, MapThenFoldSet, Sums, Pick

\* Something is picked from what is not empty.
LEMMA PickIn == ASSUME NEW S, S # {} PROVE Pick(S) \in S
BY DEF Pick

\* Two that do so agree wherever both are defined.
LEMMA SumsAgree ==
  ASSUME NEW F, NEW S, NEW g, Sums(g, F, S), NEW T, NEW h, Sums(h, F, T),
         NEW A, IsFiniteSet(A), A \subseteq S, A \subseteq T
  PROVE  g[A] = h[A]
<1> DEFINE W == {B \in SUBSET A : g[B] # h[B]}
<1> SUFFICES ASSUME W # {} PROVE FALSE
  OBVIOUS
<1>1. W \subseteq FiniteSubsetsOf(A)
  BY FS_Subset DEF FiniteSubsetsOf
<1>2. PICK B \in W : \A C \in W : C \subseteq B => C = B
  <2> HIDE DEF W
  <2> QED BY <1>1, LeastSubset
<1>3. ASSUME NEW C, C \subseteq A
      PROVE  /\ C = {} => g[C] = 0 /\ h[C] = 0
             /\ C # {} => /\ g[C] = F[Pick(C)] + g[C \ {Pick(C)}]
                          /\ h[C] = F[Pick(C)] + h[C \ {Pick(C)}]
  BY <1>3 DEF Sums
<1>4. B # {} /\ B \ {Pick(B)} \notin W
  BY <1>2, <1>3, PickIn
<1> QED
  BY <1>2, <1>3, <1>4

\* So where such functions exist, a sum is one value more than the sum of the rest.
LEMMA SumStep ==
  ASSUME NEW F, NEW S, IsFiniteSet(S), S # {},
         \E g : Sums(g, F, S), \E g : Sums(g, F, S \ {Pick(S)})
  PROVE  SumFunctionOnSet(F, S) = F[Pick(S)] + SumFunctionOnSet(F, S \ {Pick(S)})
<1> DEFINE g == CHOOSE g : Sums(g, F, S)
           T == S \ {Pick(S)}
           h == CHOOSE h : Sums(h, F, T)
<1>1. Sums(g, F, S) /\ Sums(h, F, T)
  BY Zenon
<1>2. SumFunctionOnSet(F, S) = g[S] /\ SumFunctionOnSet(F, T) = h[T]
  BY SumIsChosen, Zenon
<1>3. IsFiniteSet(T)
  BY FS_Subset
<1>4. g[T] = h[T]
  <2> HIDE DEF g, h
  <2> QED BY <1>1, <1>3, SumsAgree
<1>5. g[S] = F[Pick(S)] + g[T]
  <2> HIDE DEF g
  <2> QED BY <1>1 DEF Sums
<1> HIDE DEF g, h
<1> QED
  BY <1>2, <1>4, <1>5

\* The sum of nothing.
LEMMA SumEmpty == ASSUME NEW F PROVE SumFunctionOnSet(F, {}) = 0
<1> DEFINE g == CHOOSE g : Sums(g, F, {})
<1>1. Sums([s \in SUBSET {} |-> 0], F, {})
  BY DEF Sums
<1>2. Sums(g, F, {})
  BY <1>1, Zenon
<1>3. SumFunctionOnSet(F, {}) = g[{}]
  BY SumIsChosen, Zenon
<1> HIDE DEF g
<1> QED
  BY <1>2, <1>3 DEF Sums

\* They exist for every finite set: on a smallest without one, the sums themselves are one.
LEMMA SumsExist ==
  ASSUME NEW F, NEW S, IsFiniteSet(S)
  PROVE  \E g : Sums(g, F, S)
<1> DEFINE W == {B \in SUBSET S : ~ \E g : Sums(g, F, B)}
<1> SUFFICES ASSUME W # {} PROVE FALSE
  OBVIOUS
<1>1. W \subseteq FiniteSubsetsOf(S)
  BY FS_Subset DEF FiniteSubsetsOf
<1>2. PICK A \in W : \A C \in W : C \subseteq A => C = A
  <2> HIDE DEF W
  <2> QED BY <1>1, LeastSubset
<1>3. IsFiniteSet(A)
  BY FS_Subset
<1>4. ASSUME NEW C, C \subseteq A, C # A
      PROVE  IsFiniteSet(C) /\ \E g : Sums(g, F, C)
  BY <1>2, <1>3, <1>4, FS_Subset
<1> DEFINE V(B) == SumFunctionOnSet(F, B)
           k == [s \in SUBSET A |-> IF s = {} THEN 0 ELSE F[Pick(s)] + V(s \ {Pick(s)})]
<1>5. ASSUME NEW B \in SUBSET A, B # A
      PROVE  k[B] = V(B)
  <2>1. CASE B = {}
    BY <2>1, SumEmpty
  <2>2. CASE B # {}
    <3>1. B \ {Pick(B)} \subseteq A /\ B \ {Pick(B)} # A
      BY <1>5, <2>2, PickIn
    <3>2. V(B) = F[Pick(B)] + V(B \ {Pick(B)})
      BY <1>4, <1>5, <2>2, <3>1, SumStep
    <3> HIDE DEF V
    <3> QED BY <2>2, <3>2
  <2> QED BY <2>1, <2>2
<1>6. ASSUME NEW B \in SUBSET A, B # {}
      PROVE  k[B \ {Pick(B)}] = V(B \ {Pick(B)})
  BY <1>5, <1>6, PickIn
<1>7. Sums(k, F, A)
  <2> HIDE DEF V
  <2>1. k = [s \in SUBSET A |-> IF s = {} THEN 0 ELSE F[Pick(s)] + k[s \ {Pick(s)}]]
    BY <1>6
  <2> HIDE DEF k
  <2> QED BY <2>1 DEF Sums
<1> QED
  BY <1>2, <1>7

\* The equation of a sum, without the condition.
LEMMA SumNonEmpty ==
  ASSUME NEW F, NEW S, IsFiniteSet(S), S # {}
  PROVE  SumFunctionOnSet(F, S) = F[Pick(S)] + SumFunctionOnSet(F, S \ {Pick(S)})
BY SumsExist, SumStep, FS_Subset

\* A finite sum of integers is an integer.
LEMMA SumInt ==
  ASSUME NEW F, NEW S, IsFiniteSet(S), \A x \in S : F[x] \in Int
  PROVE  SumFunctionOnSet(F, S) \in Int
<1> DEFINE W == {B \in SUBSET S : SumFunctionOnSet(F, B) \notin Int}
<1> SUFFICES ASSUME W # {} PROVE FALSE
  OBVIOUS
<1>1. W \subseteq FiniteSubsetsOf(S)
  BY FS_Subset DEF FiniteSubsetsOf
<1>2. PICK A \in W : \A C \in W : C \subseteq A => C = A
  <2> HIDE DEF W
  <2> QED BY <1>1, LeastSubset
<1>3. A # {} /\ IsFiniteSet(A)
  BY SumEmpty, FS_Subset
<1>4. Pick(A) \in A
  BY <1>3, PickIn
<1>5. SumFunctionOnSet(F, A \ {Pick(A)}) \in Int
  BY <1>2, <1>4
<1> QED
  BY <1>3, <1>4, <1>5, SumNonEmpty

\* The order does not matter: any member may be taken out first.
LEMMA SumRemove ==
  ASSUME NEW F, NEW S, IsFiniteSet(S), \A x \in S : F[x] \in Int, NEW x \in S
  PROVE  SumFunctionOnSet(F, S) = F[x] + SumFunctionOnSet(F, S \ {x})
<1> DEFINE Sum(B) == SumFunctionOnSet(F, B)
           W == {B \in SUBSET S : \E b \in B : Sum(B) # F[b] + Sum(B \ {b})}
<1> SUFFICES ASSUME W # {} PROVE FALSE
  OBVIOUS
<1>1. W \subseteq FiniteSubsetsOf(S)
  BY FS_Subset DEF FiniteSubsetsOf
<1>2. PICK A \in W : \A C \in W : C \subseteq A => C = A
  <2> HIDE DEF W
  <2> QED BY <1>1, LeastSubset
<1>3. PICK b \in A : Sum(A) # F[b] + Sum(A \ {b})
  OBVIOUS
<1>4. ASSUME NEW B \in SUBSET A, B # A, NEW y \in B
      PROVE  Sum(B) = F[y] + Sum(B \ {y})
  BY <1>2, <1>4
<1>5. ASSUME NEW B \in SUBSET S PROVE IsFiniteSet(B) /\ Sum(B) \in Int
  BY FS_Subset, SumInt
<1> DEFINE a == Pick(A)
<1>6. a \in A
  BY PickIn
<1>7. Sum(A) = F[a] + Sum(A \ {a})
  BY <1>5, SumNonEmpty
<1> HIDE DEF a, W, Sum
<1>8. a # b
  BY <1>3, <1>7
<1>9. Sum(A \ {a}) = F[b] + Sum((A \ {a}) \ {b})
  BY <1>4, <1>6, <1>8
<1>10. Sum(A \ {b}) = F[a] + Sum((A \ {b}) \ {a})
  BY <1>4, <1>6, <1>8
<1>11. (A \ {b}) \ {a} = (A \ {a}) \ {b}
  OBVIOUS
<1>12. A \in SUBSET S /\ F[a] \in Int /\ F[b] \in Int
  BY <1>6 DEF W
<1>13. Sum((A \ {a}) \ {b}) \in Int
  BY <1>5, <1>12
<1> DEFINE r == Sum((A \ {a}) \ {b})
<1>14. Sum(A) = F[a] + (F[b] + r)
  BY <1>7, <1>9
<1>15. F[b] + Sum(A \ {b}) = F[b] + (F[a] + r)
  BY <1>10, <1>11
<1> HIDE DEF r
<1>16. r \in Int
  BY <1>13 DEF r
<1> QED
  BY <1>3, <1>12, <1>14, <1>15, <1>16

\* A sum depends only on the values summed.
LEMMA SumCong ==
  ASSUME NEW F, NEW G, NEW S, IsFiniteSet(S), \A x \in S : F[x] = G[x]
  PROVE  SumFunctionOnSet(F, S) = SumFunctionOnSet(G, S)
<1> DEFINE W == {B \in SUBSET S : SumFunctionOnSet(F, B) # SumFunctionOnSet(G, B)}
<1> SUFFICES ASSUME W # {} PROVE FALSE
  OBVIOUS
<1>1. W \subseteq FiniteSubsetsOf(S)
  BY FS_Subset DEF FiniteSubsetsOf
<1>2. PICK A \in W : \A C \in W : C \subseteq A => C = A
  <2> HIDE DEF W
  <2> QED BY <1>1, LeastSubset
<1>3. A # {} /\ IsFiniteSet(A)
  BY SumEmpty, FS_Subset
<1>4. Pick(A) \in A
  BY <1>3, PickIn
<1>5. SumFunctionOnSet(F, A \ {Pick(A)}) = SumFunctionOnSet(G, A \ {Pick(A)})
  BY <1>2, <1>4
<1> QED
  BY <1>3, <1>4, <1>5, SumNonEmpty

-----------------------------------------------------------------------------
(* The calendar                                                            *)

\* A year has 365 days, and one more when it is a leap year.
LEMMA YearLeap ==
  ASSUME NEW y \in Int
  PROVE  /\ YearStart(y) \in Int
         /\ YearStart(y + 1) = YearStart(y) + 365 + LeapDay(y)
BY SMTT(60) DEF YearStart, LeapDay

\* A later year begins after the one before has ended.
LEMMA YearsGrow ==
  ASSUME NEW y \in Int, NEW z \in Int, y < z
  PROVE  YearStart(y + 1) <= YearStart(z)
BY SMTT(60) DEF YearStart

\* How early and how late a year can begin.
LEMMA YearBounds ==
  ASSUME NEW y \in Nat, y >= 1
  PROVE  365 * (y - 1) <= YearStart(y) /\ YearStart(y) <= 366 * (y - 1)
BY SMTT(60) DEF YearStart

\* Day d is a day of year y.
IsYearOf(d, y) == y \in Nat /\ y >= 1 /\ YearStart(y) <= d /\ d <= YearEnd(y)

\* Every day is a day of a year, in the range YearOf looks at.
LEMMA YearExists ==
  ASSUME NEW d \in Nat
  PROVE  \E y \in (d \div 366 + 1)..(d \div 365 + 1) : YearStart(y) <= d /\ d <= YearEnd(y)
<1> DEFINE T == {y \in Nat : d < YearStart(y + 1)}
<1>1. d + 1 \in T
  <2>1. 365 * ((d + 2) - 1) <= YearStart(d + 2)
    BY YearBounds
  <2>2. YearStart(d + 2) \in Int /\ (d + 1) + 1 = d + 2
    BY YearLeap
  <2> QED BY <2>1, <2>2
<1>2. PICK y \in T : \A z \in T : y <= z
  <2> HIDE DEF T
  <2>1. T \subseteq Nat
    BY DEF T
  <2> QED BY <1>1, <2>1, LeastNatural
<1>3. YearStart(1) = 0
  BY DEF YearStart
<1>4. y >= 1
  BY <1>3
<1>5. y - 1 \in Nat /\ y - 1 \notin T
  BY <1>2, <1>4
<1>6. YearStart(y) <= d
  BY <1>5, YearLeap, (y - 1) + 1 = y
<1>7. 365 * (y - 1) <= d /\ d < 366 * y
  <2>1. 365 * (y - 1) <= YearStart(y) /\ YearStart(y + 1) <= 366 * ((y + 1) - 1)
    BY <1>4, YearBounds
  <2>2. YearStart(y) \in Int /\ YearStart(y + 1) \in Int
    BY YearLeap
  <2> QED BY <1>6, <2>1, <2>2
<1>8. y \in (d \div 366 + 1)..(d \div 365 + 1)
  BY <1>7
<1>9. d <= YearEnd(y)
  BY YearLeap DEF YearEnd
<1> QED
  BY <1>6, <1>8, <1>9

\* The year of a day (getUTCFullYear) is one the day lies in.
LEMMA YearOfIs ==
  ASSUME NEW d \in Nat
  PROVE  IsYearOf(d, YearOf(d))
<1> DEFINE R == (d \div 366 + 1)..(d \div 365 + 1)
<1>1. YearOf(d) \in R /\ YearStart(YearOf(d)) <= d /\ d <= YearEnd(YearOf(d))
  BY YearExists, Zenon DEF YearOf
<1>2. \A y \in R : y \in Nat /\ y >= 1
  OBVIOUS
<1> QED
  BY <1>1, <1>2 DEF IsYearOf

\* A day lies in one year only.
LEMMA YearUnique ==
  ASSUME NEW d \in Int, NEW y, NEW z, IsYearOf(d, y), IsYearOf(d, z)
  PROVE  y = z
BY YearsGrow, YearLeap DEF IsYearOf, YearEnd

\* So it is the year of that day.
LEMMA YearOfOnly ==
  ASSUME NEW d \in Nat, NEW y, IsYearOf(d, y)
  PROVE  YearOf(d) = y
BY YearOfIs, YearUnique

\* 1 January is a day of the year it begins.
LEMMA FirstDay ==
  ASSUME NEW y \in Nat
  PROVE  YearStart(y + 1) \in Nat /\ YearOf(YearStart(y + 1)) = y + 1
<1>1. /\ YearStart(y + 1) \in Int /\ YearStart((y + 1) + 1) \in Int
      /\ YearStart((y + 1) + 1) = YearStart(y + 1) + 365 + LeapDay(y + 1)
  BY YearLeap
<1>2. YearStart(y + 1) \in Nat
  BY <1>1, YearBounds
<1>3. IsYearOf(YearStart(y + 1), y + 1)
  BY <1>1 DEF IsYearOf, YearEnd, LeapDay
<1> QED
  BY <1>2, <1>3, YearOfOnly

-----------------------------------------------------------------------------
(* The split by years                                                      *)

\* Of `days` days from start on, those that lie in year y; a part for each year.
DaysWithin(start, days, y) ==
  Greatest(0, Least(start + days - 1, YearEnd(y)) - Greatest(start, YearStart(y)) + 1)
Parts(start, days) ==
  {[year |-> y, days |-> DaysWithin(start, days, y)] :
     y \in YearOf(start)..YearOf(start + days - 1)}

Take(from, left) == Least(left, YearEnd(YearOf(from)) - from + 1)

\* g splits: the equation of SplitByYear.
Splits(g) ==
  g = [at \in Nat \X Int |->
         IF at[2] <= 0 THEN {}
         ELSE {[year |-> YearOf(at[1]), days |-> Take(at[1], at[2])]}
                \cup g[<<YearStart(YearOf(at[1]) + 1), at[2] - Take(at[1], at[2])>>]]

\* A split is the value of such a function.
LEMMA SplitIsChosen ==
  ASSUME NEW start, NEW days
  PROVE  SplitByYear(start, days) = (CHOOSE g : Splits(g))[<<start, days>>]
BY Zenon DEF SplitByYear, Splits, Take

\* A part has a day at least, and no more than are left.
LEMMA TakeIs ==
  ASSUME NEW from \in Nat, NEW left \in Nat, left >= 1
  PROVE  /\ Take(from, left) \in 1..left
         /\ YearStart(YearOf(from) + 1) \in Nat
<1> DEFINE y == YearOf(from)
<1>1. y \in Nat /\ YearStart(y) \in Int /\ YearStart(y + 1) \in Int
      /\ YearStart(y) <= from /\ from <= YearStart(y + 1) - 1
  BY YearOfIs, YearLeap DEF IsYearOf, YearEnd
<1> HIDE DEF y
<1>2. Take(from, left) = Least(left, YearStart(y + 1) - 1 - from + 1)
  BY DEF Take, YearEnd, y
<1> QED
  BY <1>1, <1>2 DEF Least, y

\* What is left over after 31 December is the leave from 1 January on.
LEMMA PartsStep ==
  ASSUME NEW from \in Nat, NEW left \in Nat, left >= 1
  PROVE  Parts(from, left) =
           {[year |-> YearOf(from), days |-> Take(from, left)]}
             \cup IF Take(from, left) = left THEN {}
                  ELSE Parts(YearStart(YearOf(from) + 1), left - Take(from, left))
<1> DEFINE y == YearOf(from)
           last == from + left - 1
           next == YearStart(y + 1)
<1>1. /\ last \in Nat /\ y \in Nat /\ YearOf(last) \in Nat /\ next \in Nat
      /\ IsYearOf(from, y) /\ IsYearOf(last, YearOf(last))
  BY YearOfIs, TakeIs DEF IsYearOf
<1>2. YearStart(y) \in Int /\ YearStart(y + 1) \in Int
  BY <1>1, YearLeap
<1> HIDE DEF y
<1>3. DaysWithin(from, left, y) = Take(from, left)
  BY <1>1, <1>2 DEF DaysWithin, Take, Least, Greatest, IsYearOf, YearEnd, y
<1>4. CASE last <= YearEnd(y)
  <2>0. IsYearOf(last, y)
    BY <1>1, <1>2, <1>4 DEF IsYearOf
  <2>1. YearOf(last) = y
    BY <1>1, <2>0, YearOfOnly
  <2>2. Take(from, left) = left
    BY <1>1, <1>2, <1>4 DEF Take, YearEnd, Least, y
  <2>3. y..YearOf(last) = {y}
    BY <1>1, <2>1
  <2> QED
    BY <1>3, <2>2, <2>3 DEF Parts, y
<1>5. CASE last > YearEnd(y)
  <2>1. Take(from, left) = next - from /\ Take(from, left) # left
    BY <1>1, <1>2, <1>5 DEF Take, YearEnd, Least, y
  <2>2. next + (left - Take(from, left)) - 1 = last
    BY <2>1, <1>1, <1>2
  <2>3. YearOf(next) = y + 1
    BY <1>1, FirstDay
  <2>4. y + 1 <= YearOf(last)
    <3> SUFFICES ASSUME YearOf(last) <= y PROVE FALSE
      BY <1>1
    <3>1. CASE YearOf(last) = y
      BY <1>1, <1>2, <1>5, <3>1 DEF IsYearOf, YearEnd
    <3>2. CASE YearOf(last) < y
      <4>1. YearStart(YearOf(last) + 1) <= YearStart(y)
        BY <1>1, <3>2, YearsGrow
      <4>2. YearStart(YearOf(last) + 1) \in Int
        BY <1>1, YearLeap
      <4> QED BY <1>1, <1>2, <1>5, <4>1, <4>2, YearLeap DEF IsYearOf, YearEnd, LeapDay
    <3> QED BY <3>1, <3>2, <1>1
  <2>5. ASSUME NEW z \in Int, y + 1 <= z
        PROVE  DaysWithin(next, left - Take(from, left), z) = DaysWithin(from, left, z)
    <3>1. YearStart(z) \in Int /\ next <= YearStart(z) /\ from <= YearStart(z)
      BY <1>1, <1>2, <2>5, YearsGrow, YearLeap DEF IsYearOf, YearEnd
    <3>2. Greatest(next, YearStart(z)) = Greatest(from, YearStart(z))
      BY <3>1, <1>1 DEF Greatest
    <3> QED BY <2>2, <3>2 DEF DaysWithin
  <2>6. y..YearOf(last) = {y} \cup (y + 1)..YearOf(last)
    BY <1>1, <2>4
  <2>7. Parts(next, left - Take(from, left)) =
          {[year |-> z, days |-> DaysWithin(from, left, z)] : z \in (y + 1)..YearOf(last)}
    BY <2>2, <2>3, <2>5 DEF Parts
  <2> HIDE DEF next
  <2> QED
    BY <1>3, <2>1, <2>6, <2>7 DEF Parts, y, next
<1> QED
  BY <1>1, <1>2, <1>4, <1>5 DEF YearEnd

\* The loop has a result: the parts by year are one.
LEMMA SplitsExist == \E g : Splits(g)
<1> DEFINE k == [at \in Nat \X Int |-> IF at[2] <= 0 THEN {} ELSE Parts(at[1], at[2])]
<1>1. ASSUME NEW from \in Nat, NEW left \in Int, ~(left <= 0)
      PROVE  Parts(from, left) =
               {[year |-> YearOf(from), days |-> Take(from, left)]}
                 \cup k[<<YearStart(YearOf(from) + 1), left - Take(from, left)>>]
  <2>1. left \in Nat /\ left >= 1
    BY <1>1
  <2>2. Take(from, left) \in 1..left /\ YearStart(YearOf(from) + 1) \in Nat
    BY <2>1, TakeIs
  <2>3. k[<<YearStart(YearOf(from) + 1), left - Take(from, left)>>] =
          IF Take(from, left) = left THEN {}
          ELSE Parts(YearStart(YearOf(from) + 1), left - Take(from, left))
    BY <2>1, <2>2
  <2>4. Parts(from, left) =
          {[year |-> YearOf(from), days |-> Take(from, left)]}
            \cup IF Take(from, left) = left THEN {}
                 ELSE Parts(YearStart(YearOf(from) + 1), left - Take(from, left))
    BY <2>1, PartsStep
  <2> HIDE DEF k
  <2> QED
    BY <2>3, <2>4
<1>2. k = [at \in Nat \X Int |->
             IF at[2] <= 0 THEN {}
             ELSE {[year |-> YearOf(at[1]), days |-> Take(at[1], at[2])]}
                    \cup k[<<YearStart(YearOf(at[1]) + 1), at[2] - Take(at[1], at[2])>>]]
  BY <1>1
<1> HIDE DEF k
<1> QED
  BY <1>2 DEF Splits

\* splitByYear (leave-balance.ts), for leave of any length from any day on: its loop
\* yields one part for each year the leave touches, with the days that lie in it.
THEOREM SplitIsParts ==
  ASSUME NEW start \in Nat, NEW days \in Nat, days >= 1
  PROVE  SplitByYear(start, days) = Parts(start, days)
<1> DEFINE g == CHOOSE g : Splits(g)
           T == {n \in Nat : n >= 1 /\ \E from \in Nat : g[<<from, n>>] # Parts(from, n)}
<1>1. Splits(g)
  BY SplitsExist, Zenon
<1> HIDE DEF g
<1>2. ASSUME NEW from \in Nat, NEW left \in Int
      PROVE  /\ left <= 0 => g[<<from, left>>] = {}
             /\ ~(left <= 0) =>
                  g[<<from, left>>] =
                    {[year |-> YearOf(from), days |-> Take(from, left)]}
                      \cup g[<<YearStart(YearOf(from) + 1), left - Take(from, left)>>]
  <2> DEFINE at == <<from, left>>
  <2>1. at \in Nat \X Int /\ at[1] = from /\ at[2] = left
    OBVIOUS
  <2>2. g[at] = IF at[2] <= 0 THEN {}
                ELSE {[year |-> YearOf(at[1]), days |-> Take(at[1], at[2])]}
                       \cup g[<<YearStart(YearOf(at[1]) + 1), at[2] - Take(at[1], at[2])>>]
    <3> HIDE DEF at
    <3> QED BY <1>1, <2>1 DEF Splits
  <2> QED
    BY <2>1, <2>2
<1>3. T = {}
  <2> SUFFICES ASSUME T # {} PROVE FALSE
    OBVIOUS
  <2>1. PICK n \in T : \A m \in T : n <= m
    <3>1. T \subseteq Nat
      OBVIOUS
    <3> HIDE DEF T
    <3> QED BY <3>1, LeastNatural
  <2>2. PICK from \in Nat : g[<<from, n>>] # Parts(from, n)
    OBVIOUS
  <2> DEFINE next == YearStart(YearOf(from) + 1)
             rest == n - Take(from, n)
  <2>3. n \in Nat /\ n >= 1 /\ next \in Nat /\ Take(from, n) \in 1..n
    BY TakeIs
  <2> HIDE DEF next
  <2>4. g[<<next, rest>>] = IF Take(from, n) = n THEN {} ELSE Parts(next, rest)
    <3>1. CASE Take(from, n) = n
      <4>1. rest \in Int /\ rest <= 0
        BY <2>3, <3>1
      <4> HIDE DEF rest
      <4> QED BY <1>2, <2>3, <3>1, <4>1
    <3>2. CASE Take(from, n) # n
      <4>1. rest \in Nat /\ rest >= 1 /\ rest < n
        BY <2>3, <3>2
      <4> HIDE DEF rest
      <4> QED BY <2>1, <2>3, <4>1, <3>2
    <3> QED BY <3>1, <3>2
  <2>5. g[<<from, n>>] = {[year |-> YearOf(from), days |-> Take(from, n)]} \cup g[<<next, rest>>]
    <3>1. n \in Int /\ ~(n <= 0)
      BY <2>3
    <3> QED BY <1>2, <3>1 DEF next
  <2>6. Parts(from, n) = {[year |-> YearOf(from), days |-> Take(from, n)]}
                           \cup IF Take(from, n) = n THEN {} ELSE Parts(next, rest)
    BY <2>3, PartsStep DEF next
  <2> HIDE DEF rest, T
  <2> QED
    BY <2>2, <2>4, <2>5, <2>6
<1> QED
  BY <1>3, SplitIsChosen DEF g

\* The parts: of a finite number, of at least a day each, one at least.
LEMMA PartsType ==
  ASSUME NEW start \in Nat, NEW days \in Nat, days >= 1
  PROVE  /\ Parts(start, days) \subseteq [year : Int, days : 1..days]
         /\ Parts(start, days) # {} /\ IsFiniteSet(Parts(start, days))
<1> DEFINE last == start + days - 1
           Y == YearOf(start)..YearOf(last)
<1>1. /\ last \in Nat /\ start <= last
      /\ IsYearOf(start, YearOf(start)) /\ IsYearOf(last, YearOf(last))
  BY YearOfIs
<1>2. YearOf(start) \in Nat /\ YearOf(last) \in Nat
  BY <1>1 DEF IsYearOf
<1>3. YearOf(start) <= YearOf(last)
  BY <1>1, <1>2, YearsGrow, YearLeap DEF IsYearOf, YearEnd
<1>4. ASSUME NEW y \in Y PROVE DaysWithin(start, days, y) \in 1..days
  <2>1. y \in Int /\ YearStart(y) \in Int /\ YearStart(y + 1) \in Int
        /\ YearStart(y + 1) >= YearStart(y) + 365
    <3>1. y \in Int /\ y + 1 \in Int
      BY <1>2
    <3> HIDE DEF Y
    <3>2. YearStart(y) \in Int /\ YearStart(y + 1) = YearStart(y) + 365 + LeapDay(y)
      BY <3>1, YearLeap
    <3> QED BY <3>1, <3>2 DEF LeapDay
  <2>2. YearStart(y) <= last
    <3>1. y = YearOf(last) \/ y < YearOf(last)
      BY <1>2
    <3>2. CASE y = YearOf(last)
      BY <1>1, <3>2 DEF IsYearOf
    <3>3. CASE y < YearOf(last)
      <4>1. YearStart(y + 1) <= YearStart(YearOf(last)) /\ YearStart(YearOf(last)) \in Int
        BY <1>2, <2>1, <3>3, YearsGrow, YearLeap
      <4> QED BY <1>1, <2>1, <4>1 DEF IsYearOf
    <3> QED BY <3>1, <3>2, <3>3
  <2>3. start <= YearStart(y + 1) - 1
    BY <1>1, <1>2, <2>1, YearsGrow, YearLeap DEF IsYearOf, YearEnd
  <2> QED
    BY <1>1, <2>1, <2>2, <2>3 DEF DaysWithin, Least, Greatest, YearEnd
<1>5. IsFiniteSet(Y)
  BY <1>2, FS_Interval
<1>6. YearOf(start) \in Y
  BY <1>2, <1>3
<1>7. IsFiniteSet({[year |-> y, days |-> DaysWithin(start, days, y)] : y \in Y})
  <2> DEFINE part == [y \in Y |-> [year |-> y, days |-> DaysWithin(start, days, y)]]
  <2> HIDE DEF Y
  <2>1. part \in Surjection(Y, {part[y] : y \in Y})
    BY DEF Surjection
  <2> HIDE DEF part
  <2>2. IsFiniteSet({part[y] : y \in Y})
    BY <1>5, <2>1, FS_Surjection
  <2> QED
    BY <2>2 DEF part
<1>8. Parts(start, days) = {[year |-> y, days |-> DaysWithin(start, days, y)] : y \in Y}
  BY DEF Parts
<1>9. \A y \in Y : y \in Int
  BY <1>2
<1> HIDE DEF Y
<1>10. Parts(start, days) \subseteq [year : Int, days : 1..days]
  BY <1>4, <1>8, <1>9
<1>11. Parts(start, days) # {}
  BY <1>6, <1>8
<1> QED
  BY <1>7, <1>8, <1>10, <1>11

\* What the parts of a year add up to are the days of the leave that lie in it.
LEMMA PartsSum ==
  ASSUME NEW start \in Nat, NEW days \in Nat, days >= 1, NEW y \in Int
  PROVE  SumFunctionOnSet([p \in Parts(start, days) |-> p.days],
                          {p \in Parts(start, days) : p.year = y})
           = DaysWithin(start, days, y)
<1> DEFINE last == start + days - 1
           P == Parts(start, days)
           F == [p \in P |-> p.days]
           S == {p \in P : p.year = y}
<1>1. /\ last \in Nat
      /\ IsYearOf(start, YearOf(start)) /\ IsYearOf(last, YearOf(last))
  BY YearOfIs
<1>2. YearOf(start) \in Nat /\ YearOf(last) \in Nat
  BY <1>1 DEF IsYearOf
<1>3. CASE y \in YearOf(start)..YearOf(last)
  <2> DEFINE p == [year |-> y, days |-> DaysWithin(start, days, y)]
  <2>1. S = {p} /\ F[p] = DaysWithin(start, days, y)
    BY <1>3 DEF Parts
  <2>2. IsFiniteSet(S) /\ \A x \in S : F[x] \in Int
    BY PartsType, FS_Subset
  <2> HIDE DEF S, F, p
  <2>3. SumFunctionOnSet(F, S) = F[p] + SumFunctionOnSet(F, S \ {p})
    BY <2>1, <2>2, SumRemove
  <2>4. S \ {p} = {} /\ F[p] \in Int
    BY <2>1, <2>2
  <2>5. SumFunctionOnSet(F, S) = DaysWithin(start, days, y)
    BY <2>1, <2>3, <2>4, SumEmpty
  <2> QED
    BY <2>5 DEF S, F
<1>4. CASE y \notin YearOf(start)..YearOf(last)
  <2>1. S = {}
    BY <1>4 DEF Parts
  <2>2. YearStart(y) \in Int /\ YearStart(y + 1) \in Int
    BY YearLeap
  <2>3. y < YearOf(start) \/ YearOf(last) < y
    BY <1>2, <1>4
  <2>4. YearEnd(y) < start \/ last < YearStart(y)
    BY <1>1, <1>2, <2>2, <2>3, YearsGrow, YearLeap DEF IsYearOf, YearEnd
  <2>5. DaysWithin(start, days, y) = 0
    BY <1>1, <2>2, <2>4, YearLeap DEF DaysWithin, Least, Greatest, YearEnd
  <2> HIDE DEF F
  <2>6. SumFunctionOnSet(F, S) = 0
    BY <2>1, SumEmpty
  <2> QED
    BY <2>5, <2>6 DEF F
<1> QED
  BY <1>3, <1>4

\* A split loses no day and counts none twice: its parts add up to the leave.
THEOREM SplitTotal ==
  ASSUME NEW start \in Nat, NEW days \in Nat, days >= 1
  PROVE  LET parts == SplitByYear(start, days)
         IN  SumFunctionOnSet([p \in parts |-> p.days], parts) = days
<1> DEFINE F(P) == [p \in P |-> p.days]
           Total(P) == SumFunctionOnSet(F(P), P)
           T == {n \in Nat : n >= 1 /\ \E from \in Nat : Total(Parts(from, n)) # n}
<1> SUFFICES T = {}
  BY SplitIsParts
<1> SUFFICES ASSUME T # {} PROVE FALSE
  OBVIOUS
<1>1. PICK n \in T : \A m \in T : n <= m
  <2>1. T \subseteq Nat
    OBVIOUS
  <2> HIDE DEF T
  <2> QED BY <2>1, LeastNatural
<1>2. PICK from \in Nat : Total(Parts(from, n)) # n
  OBVIOUS
<1>3. n \in Nat /\ n >= 1
  OBVIOUS
<1> DEFINE y == YearOf(from)
           next == YearStart(y + 1)
           take == Take(from, n)
           P == Parts(from, n)
           first == [year |-> y, days |-> take]
           Rest == P \ {first}
<1>4. take \in 1..n /\ next \in Nat /\ y \in Nat
  BY <1>3, TakeIs, YearOfIs DEF IsYearOf
<1>5. P = {first} \cup IF take = n THEN {} ELSE Parts(next, n - take)
  BY <1>3, PartsStep
<1>6. IsFiniteSet(P) /\ \A p \in P : F(P)[p] \in Int
  BY <1>3, PartsType
<1>7. first \in P /\ F(P)[first] = take
  BY <1>5
<1> HIDE DEF P, F
<1>8. Total(P) = take + SumFunctionOnSet(F(P), Rest)
  BY <1>6, <1>7, SumRemove
<1>9. SumFunctionOnSet(F(P), Rest) = n - take
  <2>1. CASE take = n
    <3>1. Rest = {}
      BY <1>5, <2>1
    <3> QED BY <1>3, <2>1, <3>1, SumEmpty
  <2>2. CASE take # n
    <3> DEFINE m == n - take
               Q == Parts(next, m)
    <3>1. m \in Nat /\ m >= 1 /\ m < n
      BY <1>3, <1>4, <2>2
    <3>2. next + m - 1 \in Nat /\ YearOf(next + m - 1) \in Nat /\ YearOf(next) = y + 1
      <4> HIDE DEF m
      <4> QED BY <1>4, <3>1, FirstDay, YearOfIs DEF IsYearOf
    <3>3. \A q \in Q : q.year # y
      BY <1>4, <3>2 DEF Parts
    <3>4. Rest = Q
      BY <1>5, <2>2, <3>3
    <3>5. Total(Q) = m
      <4> HIDE DEF m
      <4> QED BY <1>1, <1>4, <3>1
    <3>6. IsFiniteSet(Q)
      <4> HIDE DEF m
      <4> QED BY <1>4, <3>1, PartsType
    <3>7. \A q \in Q : F(P)[q] = F(Q)[q]
      BY <1>5, <2>2 DEF F
    <3> HIDE DEF m, Q
    <3>8. SumFunctionOnSet(F(P), Q) = SumFunctionOnSet(F(Q), Q)
      BY <3>6, <3>7, SumCong
    <3> QED
      BY <3>4, <3>5, <3>8 DEF m
  <2> QED
    BY <2>1, <2>2
<1> HIDE DEF T, take
<1> QED
  BY <1>2, <1>3, <1>4, <1>8, <1>9 DEF P

-----------------------------------------------------------------------------
(* Balances                                                                *)

\* What has accrued of the entitlement is a number of days.
LEMMA AccruedInt ==
  ASSUME NEW hired \in Nat \cup {NoDate}, NEW on \in Nat
  PROVE  Accrued(hired, on) \in Int
<1>1. YearStart(YearOf(on)) \in Int /\ hired \in Int
  BY YearOfIs, YearLeap DEF IsYearOf, NoDate
<1>2. MonthsAccrued(hired, on) \in Int
  BY <1>1 DEF MonthsAccrued, Greatest, Least
<1>3. EntitlementOn(hired, on) \in {21, 30}
  BY DEF EntitlementOn
<1> QED
  BY <1>2, <1>3 DEF Accrued

\* A year that has one before it in the calendar begins after it.
LEMMA YearEndNat == ASSUME NEW y \in Nat, y >= 1 PROVE YearEnd(y) \in Nat
BY YearBounds, YearLeap DEF YearEnd, LeapDay

\* Where a person's five years end: a day of the fifth calendar year after.
LEMMA AnniversaryIn ==
  ASSUME NEW hired \in Nat
  PROVE  /\ FifthAnniversary(hired) \in Nat
         /\ YearOf(FifthAnniversary(hired)) = YearOf(hired) + 5
<1> DEFINE y == YearOf(hired)
           k == hired - YearStart(y)
           j == IF k < 59 + LeapDay(y) THEN k ELSE k - LeapDay(y) + LeapDay(y + 5)
<1>1. IsYearOf(hired, y)
  BY YearOfIs
<1>2. y \in Nat /\ y + 5 \in Int
  BY <1>1 DEF IsYearOf
<1> HIDE DEF y
<1>3. /\ YearStart(y) \in Int /\ YearStart(y + 5) \in Int
      /\ YearStart(y + 1) = YearStart(y) + 365 + LeapDay(y)
      /\ YearStart((y + 5) + 1) = YearStart(y + 5) + 365 + LeapDay(y + 5)
  BY <1>2, YearLeap
<1>4. LeapDay(y) \in {0, 1} /\ LeapDay(y + 5) \in {0, 1}
  BY DEF LeapDay
<1>5. 0 <= k /\ k < 365 + LeapDay(y) /\ k \in Int
  BY <1>1, <1>3, <1>4 DEF IsYearOf, YearEnd
<1>6. 0 <= j /\ j < 365 + LeapDay(y + 5) /\ j \in Int
  <2> HIDE DEF k
  <2> QED BY <1>4, <1>5
<1>7. FifthAnniversary(hired) = YearStart(y + 5) + j
  BY DEF FifthAnniversary, y
<1>8. YearStart(y + 5) \in Nat
  <2>1. YearStart((y + 4) + 1) \in Nat
    BY <1>2, FirstDay
  <2>2. (y + 4) + 1 = y + 5
    BY <1>2
  <2> QED BY <2>1, <2>2
<1> HIDE DEF j
<1>9. FifthAnniversary(hired) \in Nat /\ IsYearOf(FifthAnniversary(hired), y + 5)
  BY <1>2, <1>3, <1>4, <1>6, <1>7, <1>8 DEF IsYearOf, YearEnd
<1> QED
  BY <1>9, YearOfOnly DEF y

\* floor(days / 30.44) + 1 (monthsAccrued) is never 13, not even on 31 December of a
\* leap year, and for whoever was there on 1 January it is then 12: the year accrues
\* the whole entitlement, rounding included.
THEOREM FullYearAccrues ==
  ASSUME NEW y \in Nat, y >= 1, NEW hired \in Nat \cup {NoDate}, hired <= YearStart(y)
  PROVE  Accrued(hired, YearEnd(y)) = EntitlementOn(hired, YearEnd(y))
<1>1. /\ YearStart(y) \in Int /\ LeapDay(y) \in {0, 1} /\ hired \in Int
      /\ YearEnd(y) = YearStart(y) + 364 + LeapDay(y)
  BY YearLeap DEF YearEnd, LeapDay, NoDate
<1>2. YearOf(YearEnd(y)) = y
  <2>1. IsYearOf(YearEnd(y), y) /\ YearEnd(y) \in Nat
    BY <1>1, YearEndNat DEF IsYearOf
  <2> QED BY <2>1, YearOfOnly
<1>3. MonthsAccrued(hired, YearEnd(y)) = 12
  <2>1. Greatest(YearStart(YearOf(YearEnd(y))), hired) = YearStart(y)
    BY <1>1, <1>2 DEF Greatest
  <2>2. YearEnd(y) - YearStart(y) \in {364, 365} /\ ~(YearStart(y) > YearEnd(y))
    BY <1>1
  <2>3. ((YearEnd(y) - YearStart(y)) * 100) \div 3044 + 1 = 12
    <3>1. (364 * 100) \div 3044 + 1 = 12 /\ (365 * 100) \div 3044 + 1 = 12
      OBVIOUS
    <3> QED BY <2>2, <3>1
  <2> QED
    BY <2>1, <2>2, <2>3 DEF MonthsAccrued, Least
<1>4. EntitlementOn(hired, YearEnd(y)) \in {21, 30}
  BY DEF EntitlementOn
<1> QED
  BY <1>3, <1>4 DEF Accrued

\* The months from `start` to a day, as `MonthsAccrued` counts them, and that a
\* later day has as many or more.
MonthsFrom(start, on) ==
  IF start > on THEN 0 ELSE Least(12, ((on - start) * 100) \div 3044 + 1)

LEMMA MonthsGrow ==
  ASSUME NEW start \in Int, NEW on \in Nat, NEW later \in Nat, on <= later
  PROVE  /\ MonthsFrom(start, on) \in 0..12
         /\ MonthsFrom(start, later) \in 0..12
         /\ MonthsFrom(start, on) <= MonthsFrom(start, later)
<1>1. ASSUME NEW a \in Nat, NEW b \in Nat, a <= b
      PROVE  /\ (a * 100) \div 3044 \in Nat
             /\ (a * 100) \div 3044 <= (b * 100) \div 3044
  BY <1>1
<1>2. ASSUME NEW x \in Nat, start <= x  PROVE  MonthsFrom(start, x) \in 1..12
  <2>1. x - start \in Nat
    BY <1>2
  <2>2. ((x - start) * 100) \div 3044 \in Nat
    BY <2>1, <1>1
  <2> QED BY <1>2, <2>2 DEF MonthsFrom, Least
<1>3. CASE start > on
  <2>1. MonthsFrom(start, on) = 0
    BY <1>3 DEF MonthsFrom
  <2>2. MonthsFrom(start, later) \in 0..12
    <3>1. CASE start > later
      BY <3>1 DEF MonthsFrom
    <3>2. CASE start <= later
      BY <3>2, <1>2
    <3> QED BY <3>1, <3>2
  <2> QED BY <2>1, <2>2
<1>4. CASE start <= on
  <2>1. on - start \in Nat /\ later - start \in Nat /\ on - start <= later - start /\ start <= later
    BY <1>4
  <2>2. ((on - start) * 100) \div 3044 <= ((later - start) * 100) \div 3044
    BY <2>1, <1>1
  <2>3. ((on - start) * 100) \div 3044 \in Nat /\ ((later - start) * 100) \div 3044 \in Nat
    BY <2>1, <1>1
  <2>4. MonthsFrom(start, on) <= MonthsFrom(start, later)
    BY <1>4, <2>1, <2>2, <2>3 DEF MonthsFrom, Least
  <2> QED BY <1>2, <1>4, <2>1, <2>4
<1> QED BY <1>3, <1>4

\* Within a year a balance only accrues: a later day has no fewer days, whatever the
\* month's length, and the rise of the entitlement on the fifth anniversary with it.
THEOREM AccruesMonotone ==
  ASSUME NEW hired \in Nat \cup {NoDate}, NEW on \in Nat, NEW later \in Nat,
         on <= later, YearOf(later) = YearOf(on)
  PROVE  /\ Accrued(hired, on) \in 0..30
         /\ Accrued(hired, on) <= Accrued(hired, later)
<1> DEFINE start == Greatest(YearStart(YearOf(on)), hired)
           m == MonthsAccrued(hired, on)
           n == MonthsAccrued(hired, later)
           d == EntitlementOn(hired, on)
           e == EntitlementOn(hired, later)
<1>1. start \in Int
  BY YearOfIs, YearLeap DEF IsYearOf, NoDate, Greatest
<1>2. m = MonthsFrom(start, on) /\ n = MonthsFrom(start, later)
  <2>1. start = Greatest(YearStart(YearOf(later)), hired)
    OBVIOUS
  <2> QED BY <2>1 DEF MonthsAccrued, MonthsFrom
<1> HIDE DEF start, m, n
<1>3. m \in 0..12 /\ n \in 0..12 /\ m <= n
  BY <1>1, <1>2, MonthsGrow
<1>4. d \in {21, 30} /\ e \in {21, 30} /\ d <= e
  <2>1. CASE hired = NoDate
    BY <2>1 DEF EntitlementOn
  <2>2. CASE hired # NoDate
    BY <2>2, AnniversaryIn DEF EntitlementOn
  <2> QED BY <2>1, <2>2
<1>5. Accrued(hired, on) = (2 * d * m + 12) \div 24 /\ Accrued(hired, later) = (2 * e * n + 12) \div 24
  BY DEF Accrued, m, n
<1> HIDE DEF d, e
<1>6. CASE d = 21 /\ e = 21
  BY <1>3, <1>5, <1>6
<1>7. CASE d = 21 /\ e = 30
  BY <1>3, <1>5, <1>7
<1>8. CASE d = 30 /\ e = 30
  BY <1>3, <1>5, <1>8
<1> QED
  BY <1>4, <1>6, <1>7, <1>8

\* "At most 10 days, never negative" (carryOverFrom), and what is carried, if
\* anything is, is what is left up to that cap.
THEOREM CarryOverCapped ==
  ASSUME NEW hired \in Nat \cup {NoDate}, NEW y \in Nat, y >= 1,
         NEW carried \in Int, NEW annual \in Int
  PROVE  LET unused == Accrued(hired, YearEnd(y)) + carried - annual
             over == CarryOverFrom(hired, y, carried, annual)
         IN /\ over \in 0..CARRY_CAP
            /\ over # 0 => over = IF unused > CARRY_CAP THEN CARRY_CAP ELSE unused
<1>1. Accrued(hired, YearEnd(y)) \in Int
  BY YearEndNat, AccruedInt
<1> QED
  BY <1>1 DEF CarryOverFrom, Least, Greatest, CARRY_CAP
=============================================================================
