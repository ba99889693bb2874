----------------------------- MODULE CoreProofs -----------------------------
(***************************************************************************)
(* Proofs about what a load resolves to: units, the difference of two      *)
(* snapshots, variables that are set to nothing, what explain says of a    *)
(* path, and what the aliases fill.  Most of it is about recursive         *)
(* definitions, so they begin with induction, in the form of a smallest    *)
(* number that fails.                                                      *)
(***************************************************************************)
EXTENDS MCCore, SequenceTheorems, FiniteSetTheorems, WellFoundedInduction,
        TLAPS

(***************************************************************************)
(* Induction over numbers, and the existence of a recursive function.      *)
(***************************************************************************)
\* A set of numbers has a smallest one.
LEMMA SmallestNat ==
  ASSUME NEW T \in SUBSET Nat, T # {}
  PROVE  \E m \in T : \A n \in T : m <= n
<1>. DEFINE R == {ss \in Nat \X Nat : ss[1] < ss[2]}
<1>1. IsWellFoundedOn(R, Nat)
  BY NatLessThanWellFounded DEF OpToRel
<1>2. \A m, n \in T : <<n, m>> \in R <=> n < m
  OBVIOUS
<1>. HIDE DEF R
<1>3. PICK m \in T : \A n \in T : ~(<<n, m>> \in R)
  BY <1>1, WFMin
<1>4. ASSUME NEW n \in T PROVE m <= n
  <2>1. n \in Nat /\ m \in Nat
    OBVIOUS
  <2>2. ~(n < m)
    BY <1>2, <1>3
  <2>. QED BY <2>1, <2>2
<1>. QED BY <1>4

\* Induction, for a set of numbers.
LEMMA NatInductionOnSet ==
  ASSUME NEW S, 0 \in S, \A n \in Nat : n \in S => n + 1 \in S
  PROVE  \A n \in Nat : n \in S
<1>. SUFFICES ASSUME Nat \ S # {} PROVE FALSE
  OBVIOUS
<1>1. PICK m \in Nat \ S : \A n \in Nat \ S : m <= n
  BY SmallestNat
<1>2. m # 0 /\ m - 1 \in Nat /\ m - 1 \notin Nat \ S
  BY <1>1
<1>. QED BY <1>1, <1>2

\* f takes the numbers up to len to values, each computed from the one before.
Iterates(f, len, S, base, step) ==
    /\ f \in [0..len -> S]
    /\ f[0] = base
    /\ \A n \in 1..len : f[n] = step[n][f[n - 1]]

\* There is such a function.
LEMMA RecursionExists ==
  ASSUME NEW len \in Nat, NEW S, NEW base \in S, NEW step \in [1..len -> [S -> S]]
  PROVE  \E f : Iterates(f, len, S, base, step)
<1>. DEFINE Ok(g, n) == /\ g \in [0..n -> S] /\ g[0] = base
                        /\ \A k \in 1..n : g[k] = step[k][g[k - 1]]
            T == {n \in Nat : n <= len => \E g : Ok(g, n)}
<1>1. 0 \in T
  <2>1. Ok([k \in 0..0 |-> base], 0)
    OBVIOUS
  <2>. QED BY <2>1
<1>2. ASSUME NEW n \in Nat, n \in T PROVE n + 1 \in T
  <2>. SUFFICES ASSUME n + 1 <= len PROVE \E g : Ok(g, n + 1)
    OBVIOUS
  <2>1. PICK g : Ok(g, n)
    BY <1>2
  <2>. DEFINE h == [k \in 0..(n + 1) |-> IF k = n + 1 THEN step[n + 1][g[n]] ELSE g[k]]
  <2>2. n + 1 \in 1..len /\ g[n] \in S
    BY <2>1
  <2>3. step[n + 1][g[n]] \in S
    BY <2>2
  <2>4. h \in [0..(n + 1) -> S]
    BY <2>1, <2>3
  <2>5. \A k \in 0..n : h[k] = g[k]
    OBVIOUS
  <2>6. h[n + 1] = step[n + 1][g[n]]
    OBVIOUS
  <2>. HIDE DEF h
  <2>7. \A k \in 1..n : k - 1 \in 0..n /\ k \in 0..n
    OBVIOUS
  <2>8. ASSUME NEW k \in 1..(n + 1) PROVE h[k] = step[k][h[k - 1]]
    <3>1. CASE k = n + 1
      <4>1. k - 1 = n /\ n \in 0..n
        BY <3>1
      <4>. QED BY <3>1, <4>1, <2>5, <2>6
    <3>2. CASE k # n + 1
      <4>1. k \in 1..n
        BY <3>2
      <4>. QED BY <4>1, <2>1, <2>5, <2>7
    <3>. QED BY <3>1, <3>2
  <2>9. h[0] = base
    BY <2>1, <2>5
  <2>. QED BY <2>4, <2>8, <2>9
<1>3. \E g : Ok(g, len)
  <2>1. len \in T
    <3>. HIDE DEF T
    <3>. QED BY <1>1, <1>2, NatInductionOnSet
  <2>. QED BY <2>1
<1>. QED BY <1>3 DEF Iterates

-----------------------------------------------------------------------------

(***************************************************************************)
(* Units: a text is read as what it says, or refused.                      *)
(***************************************************************************)

\* The units of a duration.
TimeUnits == {"ms", "s", "m", "h", "d"}

\* A text is a sequence of components whose numbers are numbers.
Readable(components) ==
    /\ Len(components) \in Nat
    /\ \A n \in 1..Len(components) : components[n].number \in Nat

\* checked and the factors of a component: what a component stands for, or
\* Invalid.
LEMMA ComponentIsExact ==
  ASSUME NEW c, c.number \in Nat
  PROVE  /\ Component(c) \in Nat \union {Invalid}
         /\ Component(c) # Invalid =>
              c.unit \in TimeUnits /\ Component(c) = Meant(c)
         /\ c.unit \in TimeUnits => Meant(c) \in Nat
<1>. DEFINE n == c.number
<1>1. n \in Nat
  OBVIOUS
<1>2. ASSUME NEW factor \in {60, 60 * 60, 24 * 60 * 60}
      PROVE  /\ checked(n, factor) \in Nat \union {Invalid}
             /\ checked(n, factor) # Invalid => checked(n, factor) = n * factor
  BY <1>1, <1>2 DEF checked, Invalid
<1>. HIDE DEF n
<1>3. CASE c.unit = "ms"
  BY <1>1, <1>3 DEF Component, Meant, TimeUnits, Invalid, split_unit, n
<1>4. CASE c.unit = "s"
  BY <1>1, <1>4 DEF Component, Meant, TimeUnits, Invalid, split_unit, n
<1>5. CASE c.unit = "m"
  <2>1. Seconds(c) = checked(n, 60)
    BY <1>5 DEF Seconds, n
  <2>2. Component(c) \in {Invalid, 1000 * checked(n, 60)}
        /\ (checked(n, 60) = Invalid => Component(c) = Invalid)
    BY <1>5, <2>1 DEF Component
  <2>3. Meant(c) = n * 60000 /\ c.unit \in TimeUnits
    BY <1>5 DEF Meant, n, TimeUnits
  <2>. QED BY <1>1, <1>2, <2>2, <2>3 DEF Invalid
<1>6. CASE c.unit = "h"
  <2>1. Seconds(c) = checked(n, 60 * 60)
    BY <1>6 DEF Seconds, n
  <2>2. Component(c) \in {Invalid, 1000 * checked(n, 60 * 60)}
        /\ (checked(n, 60 * 60) = Invalid => Component(c) = Invalid)
    BY <1>6, <2>1 DEF Component
  <2>3. Meant(c) = n * 3600000 /\ c.unit \in TimeUnits
    BY <1>6 DEF Meant, n, TimeUnits
  <2>. QED BY <1>1, <1>2, <2>2, <2>3 DEF Invalid
<1>7. CASE c.unit = "d"
  <2>1. Seconds(c) = checked(n, 24 * 60 * 60)
    BY <1>7 DEF Seconds, n
  <2>2. Component(c) \in {Invalid, 1000 * checked(n, 24 * 60 * 60)}
        /\ (checked(n, 24 * 60 * 60) = Invalid => Component(c) = Invalid)
    BY <1>7, <2>1 DEF Component
  <2>3. Meant(c) = n * 86400000 /\ c.unit \in TimeUnits
    BY <1>7 DEF Meant, n, TimeUnits
  <2>. QED BY <1>1, <1>2, <2>2, <2>3 DEF Invalid
<1>8. CASE c.unit \notin TimeUnits
  BY <1>8 DEF Component, TimeUnits
<1>. QED BY <1>3, <1>4, <1>5, <1>6, <1>7, <1>8 DEF TimeUnits

\* total is the running total of duration_parse.
Adding(sofar, component) ==
    IF \/ sofar = Invalid
       \/ Component(component) = Invalid
       \/ sofar + Component(component) > LongestDuration
    THEN Invalid
    ELSE sofar + Component(component)

\* The totals after each component.
IsTotal(total, components) ==
    total = [n \in 0..Len(components) |->
                IF n = 0 THEN 0 ELSE Adding(total[n - 1], components[n])]

\* duration_parse reads its result from such a total.
LEMMA ParseIsTotal ==
  ASSUME NEW components, Readable(components), components # <<>>
  PROVE  \E total : /\ IsTotal(total, components)
                    /\ total \in [0..Len(components) -> Int]
                    /\ duration_parse(components) = total[Len(components)]
<1>. DEFINE len == Len(components)
            step == [n \in 1..len |-> [b \in Int |-> Adding(b, components[n])]]
<1>1. len \in Nat /\ \A n \in 1..len : components[n].number \in Nat
  BY DEF Readable
<1>2. \A n \in 1..len : \A b \in Int : Adding(b, components[n]) \in Int
  BY <1>1, ComponentIsExact DEF Adding, Invalid
<1>. DEFINE Values == Int
<1>3. step \in [1..len -> [Values -> Values]]
  BY <1>2
<1>4. 0 \in Values
  OBVIOUS
<1>. HIDE DEF step, Values
<1>5. PICK f : Iterates(f, len, Values, 0, step)
  BY <1>1, <1>3, <1>4, RecursionExists
<1>. USE DEF Iterates, Values
<1>6. IsTotal(f, components)
  <2>1. ASSUME NEW n \in 1..len PROVE f[n] = Adding(f[n - 1], components[n])
    <3>1. n - 1 \in 0..len
      BY <2>1
    <3>. QED BY <3>1, <1>5 DEF step
  <2>2. \A n \in 0..len : f[n] = IF n = 0 THEN 0 ELSE Adding(f[n - 1], components[n])
    <3>1. \A n \in 0..len : n = 0 \/ n \in 1..len
      OBVIOUS
    <3>. QED BY <2>1, <3>1, <1>5
  <2>3. f = [n \in 0..len |-> f[n]]
    BY <1>5
  <2>. QED BY <2>2, <2>3 DEF IsTotal
<1>. DEFINE total == CHOOSE t : IsTotal(t, components)
<1>7. IsTotal(total, components)
  BY <1>6
<1>8. duration_parse(components) = total[len]
  BY DEF duration_parse, IsTotal, Adding
<1>. HIDE DEF total
<1>9. total \in [0..len -> Int]
  <2>. DEFINE T == {n \in Nat : n <= len => total[n] \in Int}
  <2>1. 0 \in T
    BY <1>7, <1>1 DEF IsTotal
  <2>2. ASSUME NEW n \in Nat, n \in T PROVE n + 1 \in T
    <3>. SUFFICES ASSUME n + 1 <= len PROVE total[n + 1] \in Int
      OBVIOUS
    <3>1. n + 1 \in 0..len /\ n + 1 \in 1..len /\ (n + 1) - 1 = n /\ total[n] \in Int
      BY <2>2, <1>1
    <3>2. total[n + 1] = Adding(total[n], components[n + 1])
      BY <3>1, <1>7 DEF IsTotal
    <3>. QED BY <3>1, <3>2, <1>2
  <2>3. \A n \in Nat : n \in T
    <3>. HIDE DEF T
    <3>. QED BY <2>1, <2>2, NatInductionOnSet
  <2>4. \A n \in 0..len : total[n] \in Int
    BY <2>3
  <2>5. total = [n \in 0..len |-> total[n]]
    BY <1>7 DEF IsTotal
  <2>. QED BY <2>4, <2>5
<1>. QED BY <1>7, <1>8, <1>9

\* MeantTotal reads its result from such a sum.
IsSum(upTo, components) ==
    upTo = [n \in 0..Len(components) |->
               IF n = 0 THEN 0 ELSE upTo[n - 1] + Meant(components[n])]

\* Such a sum exists, and MeantTotal is its last entry.
LEMMA MeantIsSum ==
  ASSUME NEW components, Readable(components),
         \A i \in 1..Len(components) : components[i].unit \in TimeUnits
  PROVE  \E upTo : /\ IsSum(upTo, components)
                   /\ MeantTotal(components) = upTo[Len(components)]
<1>. DEFINE len == Len(components)
            step == [n \in 1..len |-> [b \in Int |-> b + Meant(components[n])]]
<1>1. len \in Nat /\ \A n \in 1..len : components[n].number \in Nat
  BY DEF Readable
<1>2. \A n \in 1..len : Meant(components[n]) \in Int
  BY <1>1, ComponentIsExact
<1>. DEFINE Values == Int
<1>3. step \in [1..len -> [Values -> Values]]
  BY <1>2
<1>4. 0 \in Values
  OBVIOUS
<1>. HIDE DEF step, Values
<1>5. PICK f : Iterates(f, len, Values, 0, step)
  BY <1>1, <1>3, <1>4, RecursionExists
<1>. USE DEF Iterates, Values
<1>6. IsSum(f, components)
  <2>1. ASSUME NEW n \in 1..len PROVE f[n] = f[n - 1] + Meant(components[n])
    <3>1. n - 1 \in 0..len
      BY <2>1
    <3>. QED BY <3>1, <1>5 DEF step
  <2>2. \A n \in 0..len : f[n] = IF n = 0 THEN 0 ELSE f[n - 1] + Meant(components[n])
    <3>1. \A n \in 0..len : n = 0 \/ n \in 1..len
      OBVIOUS
    <3>. QED BY <2>1, <3>1, <1>5
  <2>3. f = [n \in 0..len |-> f[n]]
    BY <1>5
  <2>. QED BY <2>2, <2>3 DEF IsSum
<1>. DEFINE upTo == CHOOSE t : IsSum(t, components)
<1>7. IsSum(upTo, components)
  BY <1>6
<1>8. MeantTotal(components) = upTo[len]
  BY DEF MeantTotal, IsSum
<1>. QED BY <1>7, <1>8

\* A duration that is read is the sum of what its components stand for.
LEMMA ParseIsMeant ==
  ASSUME NEW components, Readable(components), duration_parse(components) # Invalid
  PROVE  /\ \A i \in 1..Len(components) : components[i].unit \in TimeUnits
         /\ duration_parse(components) = MeantTotal(components)
<1>. DEFINE len == Len(components)
<1>1. components # <<>>
  BY DEF duration_parse
<1>2. PICK total : /\ IsTotal(total, components)
                   /\ total \in [0..Len(components) -> Int]
                   /\ duration_parse(components) = total[Len(components)]
  BY <1>1, ParseIsTotal
<1>3. len \in Nat /\ \A n \in 1..len : components[n].number \in Nat
  BY DEF Readable
<1>4. ASSUME NEW n \in 1..len, total[n] # Invalid
      PROVE  /\ total[n - 1] # Invalid
             /\ components[n].unit \in TimeUnits
             /\ total[n] = total[n - 1] + Meant(components[n])
  <2>1. total[n] = Adding(total[n - 1], components[n])
    BY <1>2, <1>3 DEF IsTotal
  <2>. QED BY <2>1, <1>3, <1>4, ComponentIsExact DEF Adding
<1>5. \A n \in 0..len : total[n] # Invalid
  <2>. DEFINE T == {n \in Nat : n <= len => total[len - n] # Invalid}
  <2>1. 0 \in T
    BY <1>2, <1>3
  <2>2. ASSUME NEW n \in Nat, n \in T PROVE n + 1 \in T
    <3>. SUFFICES ASSUME n + 1 <= len PROVE total[len - (n + 1)] # Invalid
      OBVIOUS
    <3>1. len - n \in 1..len /\ (len - n) - 1 = len - (n + 1) /\ total[len - n] # Invalid
      BY <2>2, <1>3
    <3>. QED BY <3>1, <1>4
  <2>3. \A n \in Nat : n \in T
    <3>. HIDE DEF T
    <3>. QED BY <2>1, <2>2, NatInductionOnSet
  <2>4. ASSUME NEW n \in 0..len PROVE total[n] # Invalid
    <3>1. len - n \in T /\ len - n <= len /\ len - (len - n) = n
      BY <2>3, <1>3
    <3>. QED BY <3>1
  <2>. QED BY <2>4
<1>6. \A n \in 1..len : n \in 0..len
  OBVIOUS
<1>7. \A n \in 1..len : components[n].unit \in TimeUnits
  BY <1>4, <1>5, <1>6
<1>8. PICK upTo : /\ IsSum(upTo, components)
                  /\ MeantTotal(components) = upTo[Len(components)]
  BY <1>7, MeantIsSum
<1>9. \A n \in Nat : n <= len => total[n] = upTo[n]
  <2>. DEFINE T == {n \in Nat : n <= len => total[n] = upTo[n]}
  <2>1. 0 \in T
    BY <1>2, <1>8, <1>3 DEF IsTotal, IsSum
  <2>2. ASSUME NEW n \in Nat, n \in T PROVE n + 1 \in T
    <3>. SUFFICES ASSUME n + 1 <= len PROVE total[n + 1] = upTo[n + 1]
      OBVIOUS
    <3>1. n + 1 \in 1..len /\ n + 1 \in 0..len /\ (n + 1) - 1 = n /\ total[n] = upTo[n]
      BY <2>2, <1>3
    <3>2. total[n + 1] = total[n] + Meant(components[n + 1])
      BY <3>1, <1>4, <1>5
    <3>3. upTo[n + 1] = upTo[n] + Meant(components[n + 1])
      BY <3>1, <1>8 DEF IsSum
    <3>. QED BY <3>1, <3>2, <3>3
  <2>3. \A n \in Nat : n \in T
    <3>. HIDE DEF T
    <3>. QED BY <2>1, <2>2, NatInductionOnSet
  <2>. QED BY <2>3
<1>. QED BY <1>2, <1>3, <1>7, <1>8, <1>9

\* A text of one component.
LEMMA ParseOfOne ==
  ASSUME NEW c, c.number \in Nat, Component(c) # Invalid, Component(c) <= LongestDuration
  PROVE  duration_parse(<<c>>) = Component(c)
<1>1. Readable(<<c>>) /\ <<c>> # <<>> /\ Len(<<c>>) = 1 /\ <<c>>[1] = c
  BY DEF Readable
<1>2. PICK total : /\ IsTotal(total, <<c>>)
                   /\ duration_parse(<<c>>) = total[1]
  BY <1>1, ParseIsTotal
<1>3. total[0] = 0 /\ total[1] = Adding(total[0], c)
  BY <1>1, <1>2 DEF IsTotal
<1>4. Component(c) \in Int
  BY ComponentIsExact DEF Invalid
<1>5. LongestDuration \in Int
  BY UnitsAssumption DEF LongestDuration
<1>. QED BY <1>2, <1>3, <1>4, <1>5 DEF Adding, Invalid

\* Whatever the text: it is read as what it says or refused, and what was read
\* is read back (units.rs: duration::parse and serialize, bytes::parse).
THEOREM UnitsExact ==
  ASSUME Readable(text)
  PROVE  UnitsAreExact
<1>. USE UnitsAssumption
<1>. DEFINE d == duration_parse(text)
            whole == \A i \in 1..Len(text) : text[i].unit \in {"ms", "s", "m", "h", "d"}
<1>1. d # Invalid => whole /\ d = MeantTotal(text)
  BY ParseIsMeant DEF TimeUnits
<1>2. d \in 0..MaxCount => duration_parse(duration_serialize(d)) = d
  <2>. SUFFICES ASSUME NEW e \in 0..MaxCount
                PROVE  duration_parse(duration_serialize(e)) = e
    OBVIOUS
  <2>. DEFINE c == [number |-> e, unit |-> "ms"]
  <2>1. c.number = e /\ c.unit = "ms" /\ e \in Nat
    OBVIOUS
  <2>. HIDE DEF c
  <2>2. Component(c) = e
    BY <2>1 DEF Component, split_unit
  <2>3. e # Invalid /\ e <= LongestDuration
    BY DEF Invalid, LongestDuration
  <2>4. duration_parse(<<c>>) = e
    BY <2>1, <2>2, <2>3, ParseOfOne
  <2>. QED BY <2>4 DEF duration_serialize, c
<1>3. (Len(text) = 1 /\ bytes_parse(text[1]) # Invalid) =>
          bytes_parse(text[1]) = text[1].number * Multiplier(text[1].unit)
  BY DEF bytes_parse, checked
<1>4. ASSUME NEW n \in {0, MaxCount}
      PROVE  visit_number(n) = duration_parse(<<[number |-> n, unit |-> "s"]>>)
  <2>. DEFINE c == [number |-> n, unit |-> "s"]
  <2>1. c.number = n /\ c.unit = "s" /\ n \in Nat /\ n \in 0..MaxCount
    OBVIOUS
  <2>. HIDE DEF c
  <2>2. Component(c) = 1000 * n
    BY <2>1 DEF Component, split_unit
  <2>3. 1000 * n # Invalid /\ 1000 * n <= LongestDuration
    BY <2>1 DEF Invalid, LongestDuration
  <2>4. duration_parse(<<c>>) = 1000 * n
    BY <2>1, <2>2, <2>3, ParseOfOne
  <2>. QED BY <2>1, <2>4 DEF visit_number, c
<1>. QED BY <1>1, <1>2, <1>3, <1>4 DEF UnitsAreExact

\* The texts of the suite are readable, and stay.
THEOREM UnitsAreExactCorrect == MCSpec => []UnitsAreExact
<1>1. MCInit => Readable(text)
  <2>1. MCInit => text = <<>> \/ text \in UnitTexts
    BY DEF MCInit, StageInit, Loading, UnitsInit
  <2>2. Readable(<<>>)
    BY DEF Readable
  <2>3. ASSUME NEW t \in UnitTexts PROVE Readable(t)
    <3>1. t \in Seq([number : Nat, unit : STRING])
      BY UnitsAssumption
    <3>2. Len(t) \in Nat /\ \A n \in 1..Len(t) : t[n] \in [number : Nat, unit : STRING]
      BY <3>1, LenProperties, ElementOfSeq
    <3>3. \A c \in [number : Nat, unit : STRING] : c.number \in Nat
      OBVIOUS
    <3>. QED BY <3>2, <3>3 DEF Readable
  <2>. QED BY <2>1, <2>2, <2>3
<1>2. Readable(text) /\ [MCNext]_vars => Readable(text)'
  BY DEF MCNext, vars, Readable
<1>3. Readable(text) => UnitsAreExact
  BY UnitsExact
<1>. QED BY <1>1, <1>2, <1>3, PTL DEF MCSpec

-----------------------------------------------------------------------------

(***************************************************************************)
(* The difference of two snapshots.                                        *)
(***************************************************************************)
\* A tree whose paths are made of some names, and whose leaves are values and
\* nothing else.
PlainTree(t, Names) ==
    /\ DOMAIN t \subseteq PathsOf(Names)
    /\ \A p, q \in DOMAIN t : ~Under(p, q)
    /\ \A p \in DOMAIN t : t[p] = <<t[p][1]>>

\* The first n names of a path.
First(p, n) == SubSeq(p, 1, n)

\* The first names of a path are a path, and theirs are its own.
LEMMA FirstNames ==
  ASSUME NEW Names, NEW p \in PathsOf(Names)
  PROVE  /\ Len(p) \in Nat /\ Len(p) >= 1 /\ First(p, Len(p)) = p
         /\ \A n \in 1..Len(p) : First(p, n) \in PathsOf(Names) /\ Len(First(p, n)) = n
         /\ \A n \in 1..Len(p) : \A m \in 1..n : First(First(p, n), m) = First(p, m)
<1>1. p \in Seq(Names) /\ p # <<>>
  BY DEF PathsOf
<1>2. Len(p) \in Nat /\ Len(p) >= 1 /\ First(p, Len(p)) = p
  BY <1>1, EmptySeq, LenProperties, SubSeqFull DEF First
<1>3. ASSUME NEW n \in 1..Len(p)
      PROVE  First(p, n) \in PathsOf(Names) /\ Len(First(p, n)) = n
  <2>1. \A i \in 1..n : p[i] \in Names
    BY <1>1, <1>2, ElementOfSeq
  <2>2. SubSeq(p, 1, n) \in Seq(Names) /\ Len(SubSeq(p, 1, n)) = n
    BY <1>2, <2>1, SubSeqProperties
  <2>3. SubSeq(p, 1, n) # <<>>
    <3>1. Len(<<>>) = 0 /\ n # 0
      BY <1>2
    <3>. QED BY <2>2, <3>1
  <2>. QED BY <2>2, <2>3 DEF First, PathsOf
<1>4. ASSUME NEW n \in 1..Len(p), NEW m \in 1..n
      PROVE  First(First(p, n), m) = First(p, m)
  <2>1. /\ 1 \in 1..Len(p) /\ n \in 1..Len(p) /\ 1 \in 1..(n - 1 + 1) /\ m \in 1..(n - 1 + 1)
        /\ 1 + 1 - 1 = 1 /\ 1 + m - 1 = m
    BY <1>2
  <2>2. SubSeq(SubSeq(p, 1, n), 1, m) = SubSeq(p, 1 + 1 - 1, 1 + m - 1)
    BY <1>1, <2>1, SubSeqOfSubSeq
  <2>. QED BY <2>1, <2>2 DEF First
<1>. QED BY <1>2, <1>3, <1>4

\* p is inside or at q.
Below(p, q) == p = q \/ Under(p, q)

\* To be below a path is to begin with it.
LEMMA BelowIsFirst ==
  ASSUME NEW Names, NEW p \in PathsOf(Names), NEW q \in PathsOf(Names)
  PROVE  /\ Below(p, q) <=> Len(q) \in 1..Len(p) /\ First(p, Len(q)) = q
         /\ Under(p, q) <=> Below(p, q) /\ p # q
         /\ Under(p, q) <=> Len(q) \in 1..(Len(p) - 1) /\ First(p, Len(q)) = q
<1>1. /\ Len(p) \in Nat /\ Len(p) >= 1 /\ First(p, Len(p)) = p
      /\ Len(q) \in Nat /\ Len(q) >= 1
  BY FirstNames
<1>2. Under(p, q) <=> Len(q) < Len(p) /\ First(p, Len(q)) = q
  BY DEF Under, First
<1>. QED BY <1>1, <1>2 DEF Below

\* What is below what is below a path is below the path.
LEMMA BelowTransitive ==
  ASSUME NEW Names, NEW p \in PathsOf(Names), NEW q \in PathsOf(Names),
         NEW r \in PathsOf(Names), Below(p, q), Below(q, r)
  PROVE  Below(p, r)
<1>1. Len(q) \in 1..Len(p) /\ First(p, Len(q)) = q
  BY BelowIsFirst
<1>2. Len(r) \in 1..Len(q) /\ First(q, Len(r)) = r
  BY BelowIsFirst
<1>3. First(First(p, Len(q)), Len(r)) = First(p, Len(r))
  BY <1>1, <1>2, FirstNames
<1>4. Len(p) \in Nat /\ Len(q) \in Nat
  BY FirstNames
<1>5. Len(r) \in 1..Len(p)
  BY <1>1, <1>2, <1>4
<1>. QED BY <1>1, <1>2, <1>3, <1>5, BelowIsFirst

\* A node is where a leaf is, or a table with something in it.
LEMMA NodesHold ==
  ASSUME NEW Names, NEW t, PlainTree(t, Names)
  PROVE  \A c : c \in Nodes(t) <=>
           c \in PathsOf(Names) /\ \E q \in DOMAIN t : Below(q, c)
<1>1. ASSUME NEW c \in Nodes(t)
      PROVE  c \in PathsOf(Names) /\ \E q \in DOMAIN t : Below(q, c)
  <2>0. PICK q \in DOMAIN t : \E n \in 1..Len(q) : c = First(q, n)
    BY DEF Nodes, First
  <2>1. PICK n \in 1..Len(q) : c = First(q, n)
    BY <2>0
  <2>2. q \in PathsOf(Names)
    BY DEF PlainTree
  <2>3. c \in PathsOf(Names) /\ Len(c) = n
    BY <2>1, <2>2, FirstNames
  <2>4. Below(q, c)
    BY <2>1, <2>2, <2>3, BelowIsFirst
  <2>. QED BY <2>3, <2>4
<1>2. ASSUME NEW c \in PathsOf(Names), NEW q \in DOMAIN t, Below(q, c)
      PROVE  c \in Nodes(t)
  <2>1. q \in PathsOf(Names)
    BY DEF PlainTree
  <2>2. Len(c) \in 1..Len(q) /\ c = First(q, Len(c))
    BY <1>2, <2>1, BelowIsFirst
  <2>3. c \in {SubSeq(q, 1, n) : n \in 1..Len(q)}
    BY <2>2 DEF First
  <2>. QED BY <2>3 DEF Nodes
<1>. QED BY <1>1, <1>2

\* What is a table, and what is not, at a node.
LEMMA TableOrLeaf ==
  ASSUME NEW Names, NEW t, PlainTree(t, Names), NEW c \in Nodes(t)
  PROVE  /\ IsTable(t, c) <=> (c \notin DOMAIN t \/ t[c] = EmptyTable)
         /\ c \notin DOMAIN t => \E q \in DOMAIN t : Under(q, c)
<1>1. \E q \in DOMAIN t : Below(q, c)
  BY NodesHold
<1>. QED BY <1>1 DEF IsTable, Holds, Below

\* A change: a path that compare gets to, and what it finds there.
ChangeAt(a, b, p) ==
    /\ Reached(a, b, p)
    /\ \/ p \in Nodes(a) \ Nodes(b)
       \/ p \in Nodes(b) \ Nodes(a)
       \/ p \in Nodes(a) \intersect Nodes(b) /\ Differ(a, b, p)

\* What a change at p is called.
KindAt(a, b, p) ==
    IF p \notin Nodes(b) THEN "Removed"
    ELSE IF p \notin Nodes(a) THEN "Added" ELSE "Modified"

\* The result of diff is the changes, each with its kind.
LEMMA DiffMembers ==
  ASSUME NEW a, NEW b
  PROVE  \A c : c \in Diff(a, b) <=>
           \E p : ChangeAt(a, b, p) /\ c = [path |-> p, kind |-> KindAt(a, b, p)]
<1>. DEFINE change(p, kind) == [path |-> p, kind |-> kind]
<1>1. \A c : c \in Diff(a, b) <=>
        \/ \E p : p \in Nodes(a) \ Nodes(b) /\ Reached(a, b, p) /\ c = change(p, "Removed")
        \/ \E p : p \in Nodes(b) \ Nodes(a) /\ Reached(a, b, p) /\ c = change(p, "Added")
        \/ \E p : /\ p \in Nodes(a) \intersect Nodes(b)
                  /\ Reached(a, b, p) /\ Differ(a, b, p) /\ c = change(p, "Modified")
  BY DEF Diff
<1>2. ASSUME NEW p, ChangeAt(a, b, p)
      PROVE  \/ p \in Nodes(a) \ Nodes(b) /\ KindAt(a, b, p) = "Removed"
             \/ p \in Nodes(b) \ Nodes(a) /\ KindAt(a, b, p) = "Added"
             \/ /\ p \in Nodes(a) \intersect Nodes(b) /\ Differ(a, b, p)
                /\ KindAt(a, b, p) = "Modified"
  BY <1>2 DEF ChangeAt, KindAt
<1>3. ASSUME NEW c, NEW p, ChangeAt(a, b, p), c = change(p, KindAt(a, b, p))
      PROVE  c \in Diff(a, b)
  <2>1. Reached(a, b, p)
    BY <1>3 DEF ChangeAt
  <2>. QED BY <1>1, <1>2, <1>3, <2>1
<1>4. ASSUME NEW c \in Diff(a, b)
      PROVE  \E p : ChangeAt(a, b, p) /\ c = change(p, KindAt(a, b, p))
  <2>1. CASE \E p : p \in Nodes(a) \ Nodes(b) /\ Reached(a, b, p) /\ c = change(p, "Removed")
    BY <2>1 DEF ChangeAt, KindAt
  <2>2. CASE \E p : p \in Nodes(b) \ Nodes(a) /\ Reached(a, b, p) /\ c = change(p, "Added")
    BY <2>2 DEF ChangeAt, KindAt
  <2>3. CASE \E p : /\ p \in Nodes(a) \intersect Nodes(b)
                    /\ Reached(a, b, p) /\ Differ(a, b, p) /\ c = change(p, "Modified")
    BY <2>3 DEF ChangeAt, KindAt
  <2>. QED BY <1>1, <2>1, <2>2, <2>3
<1>. QED BY <1>3, <1>4

\* compare does not care which snapshot is the older one.
LEMMA ChangeIsSymmetric ==
  ASSUME NEW a, NEW b, NEW p
  PROVE  ChangeAt(a, b, p) <=> ChangeAt(b, a, p)
BY DEF ChangeAt, Reached, Differ

\* A leaf that is not the same in both is at, inside or above a change.
LEMMA MovedIsTouched ==
  ASSUME NEW Names, NEW a, NEW b, PlainTree(a, Names), PlainTree(b, Names),
         NEW p \in DOMAIN a, ~(p \in DOMAIN b /\ a[p] = b[p])
  PROVE  \E c : ChangeAt(a, b, c) /\ Touch(p, c)
<1>. DEFINE Tables(c) == IsTable(a, c) /\ IsTable(b, c)
            stops == {n \in 1..Len(p) : ~Tables(First(p, n))}
<1>0. p \in PathsOf(Names)
  BY DEF PlainTree
<1>1. /\ Len(p) \in Nat /\ Len(p) >= 1 /\ First(p, Len(p)) = p
      /\ \A n \in 1..Len(p) : /\ First(p, n) \in PathsOf(Names)
                              /\ Len(First(p, n)) = n
      /\ \A n \in 1..Len(p) : \A m \in 1..n : First(First(p, n), m) = First(p, m)
  BY <1>0, FirstNames
<1>2. \A n \in 1..Len(p) : First(p, n) \in Nodes(a) /\ Below(p, First(p, n))
  <2>. TAKE n \in 1..Len(p)
  <2>1. Below(p, First(p, n))
    BY <1>0, <1>1, BelowIsFirst
  <2>. QED BY <2>1, <1>1, NodesHold
<1>3. CASE stops = {}
  <2>1. \A n \in 1..Len(p) : Tables(First(p, n))
    BY <1>3
  <2>2. IsTable(a, p) /\ IsTable(b, p)
    <3>1. Len(p) \in 1..Len(p)
      BY <1>1
    <3>. QED BY <3>1, <2>1, <1>1
  <2>3. a[p] = EmptyTable
    BY <2>2 DEF IsTable
  <2>4. p \notin DOMAIN b
    BY <2>2, <2>3 DEF IsTable
  <2>5. PICK q \in DOMAIN b : Under(q, p)
    BY <2>2, <2>4 DEF IsTable, Holds
  <2>6. /\ q \in PathsOf(Names) /\ Len(q) \in Nat
        /\ Len(p) \in 1..(Len(q) - 1) /\ First(q, Len(p)) = p
    BY <2>5, <1>0, BelowIsFirst, FirstNames DEF PlainTree
  <2>. DEFINE k == Len(p) + 1  c == First(q, k)
  <2>7. k \in 1..Len(q) /\ k \in Nat /\ Len(p) \in 1..k
    BY <2>6, <1>1
  <2>8. /\ c \in PathsOf(Names) /\ Len(c) = k
        /\ \A m \in 1..k : First(c, m) = First(q, m)
    BY <2>6, <2>7, FirstNames
  <2>9. \A m \in 1..Len(p) : First(q, m) = First(p, m)
    BY <2>6, <1>1, FirstNames
  <2>. HIDE DEF c, k
  <2>10. Under(c, p)
    <3>1. First(c, Len(p)) = p /\ Len(p) \in 1..(Len(c) - 1)
      BY <2>6, <2>7, <2>8, <1>1 DEF k
    <3>. QED BY <3>1, <2>8, <1>0, BelowIsFirst
  <2>11. c \in Nodes(b)
    <3>1. Below(q, c)
      BY <2>6, <2>7, <2>8, BelowIsFirst DEF c
    <3>. QED BY <3>1, <2>8, NodesHold
  <2>12. c \notin Nodes(a)
    <3>. SUFFICES ASSUME c \in Nodes(a) PROVE FALSE
      OBVIOUS
    <3>1. PICK r \in DOMAIN a : Below(r, c)
      BY NodesHold
    <3>2. r \in PathsOf(Names) /\ Below(c, p)
      BY <2>10 DEF PlainTree, Below
    <3>3. Below(r, p)
      BY <3>1, <3>2, <2>8, <1>0, BelowTransitive
    <3>4. r = p
      BY <3>3 DEF Below, PlainTree
    <3>5. Len(p) \in 1..(Len(c) - 1) /\ Len(c) \in 1..Len(r)
      BY <3>1, <3>2, <2>8, <2>10, <1>0, BelowIsFirst
    <3>. QED BY <3>4, <3>5, <1>1, <2>7, <2>8
  <2>13. Reached(a, b, c)
    <3>1. ASSUME NEW m \in 1..(Len(c) - 1) PROVE Tables(First(c, m))
      <4>1. m \in 1..Len(p) /\ m \in 1..k
        BY <2>7, <2>8, <1>1 DEF k
      <4>2. First(c, m) = First(p, m)
        BY <4>1, <2>8, <2>9
      <4>. QED BY <4>1, <4>2, <2>1
    <3>. QED BY <3>1 DEF Reached, First
  <2>14. ChangeAt(a, b, c)
    BY <2>11, <2>12, <2>13 DEF ChangeAt
  <2>. QED BY <2>10, <2>14 DEF Touch
<1>4. CASE stops # {}
  <2>. HIDE DEF Tables
  <2>0. stops \in SUBSET Nat /\ stops # {}
    BY <1>4, <1>1
  <2>1. PICK n \in stops : \A m \in stops : n <= m
    <3>. HIDE DEF stops
    <3>. QED BY <2>0, SmallestNat
  <2>. DEFINE c == First(p, n)
  <2>2. n \in 1..Len(p) /\ n \in Nat
    BY <1>1
  <2>3. /\ c \in PathsOf(Names) /\ Len(c) = n /\ c \in Nodes(a) /\ Below(p, c)
        /\ ~Tables(c)
        /\ \A m \in 1..n : First(c, m) = First(p, m)
    BY <2>2, <1>1, <1>2
  <2>. HIDE DEF c
  <2>4. Reached(a, b, c)
    <3>1. ASSUME NEW m \in 1..(Len(c) - 1) PROVE Tables(First(c, m))
      <4>1. m \in 1..Len(p) /\ m \in 1..n /\ ~(n <= m)
        BY <2>2, <2>3, <1>1
      <4>2. m \notin stops
        BY <4>1, <2>1
      <4>. QED BY <4>1, <4>2, <2>3
    <3>. QED BY <3>1 DEF Reached, First, Tables
  <2>5. Touch(p, c)
    BY <2>3 DEF Touch, Below
  <2>6. CASE c \notin Nodes(b)
    BY <2>3, <2>4, <2>5, <2>6 DEF ChangeAt
  <2>7. CASE c \in Nodes(b)
    <3>1. Differ(a, b, c)
      <4>1. CASE IsTable(a, c) \/ IsTable(b, c)
        BY <4>1, <2>3 DEF Differ, Tables
      <4>2. CASE ~IsTable(a, c) /\ ~IsTable(b, c)
        <5>1. c \in DOMAIN a /\ c \in DOMAIN b
          BY <4>2, <2>3, <2>7, TableOrLeaf
        <5>2. c = p
          BY <5>1, <2>3 DEF Below, PlainTree
        <5>3. a[c] # b[c] /\ a[c] = <<a[c][1]>> /\ b[c] = <<b[c][1]>>
          BY <5>1, <5>2 DEF PlainTree
        <5>4. a[c][1] # b[c][1]
          BY <5>3
        <5>. QED BY <4>2, <5>4 DEF Differ
      <4>. QED BY <4>1, <4>2
    <3>. QED BY <3>1, <2>3, <2>4, <2>5, <2>7 DEF ChangeAt
  <2>. QED BY <2>6, <2>7
<1>. QED BY <1>3, <1>4

\* The same leaf in both.
Same(a, b, p) == p \in DOMAIN a /\ p \in DOMAIN b /\ a[p] = b[p]

\* At, inside or above a change there is a leaf that is not the same in both.
LEMMA ChangeTouchesMoved ==
  ASSUME NEW Names, NEW a, NEW b, PlainTree(a, Names), PlainTree(b, Names),
         NEW c, ChangeAt(a, b, c)
  PROVE  \E p \in DOMAIN a \union DOMAIN b : ~Same(a, b, p) /\ Touch(p, c)
<1>1. ASSUME NEW s, NEW t, PlainTree(s, Names), PlainTree(t, Names),
             c \in Nodes(s) \ Nodes(t)
      PROVE  \E p \in DOMAIN s : p \notin DOMAIN t /\ Touch(p, c)
  <2>1. c \in PathsOf(Names) /\ \E q \in DOMAIN s : Below(q, c)
    BY <1>1, NodesHold
  <2>2. PICK p \in DOMAIN s : Below(p, c)
    BY <2>1
  <2>3. p \notin DOMAIN t
    BY <1>1, <2>1, <2>2, NodesHold
  <2>. QED BY <2>2, <2>3 DEF Touch, Below
<1>2. CASE c \in Nodes(a) \ Nodes(b)
  BY <1>1, <1>2 DEF Same
<1>3. CASE c \in Nodes(b) \ Nodes(a)
  BY <1>1, <1>3 DEF Same
<1>4. CASE c \in Nodes(a) \intersect Nodes(b) /\ Differ(a, b, c)
  <2>1. /\ IsTable(a, c) <=> (c \notin DOMAIN a \/ a[c] = EmptyTable)
        /\ IsTable(b, c) <=> (c \notin DOMAIN b \/ b[c] = EmptyTable)
    BY <1>4, TableOrLeaf
  <2>2. (c \in DOMAIN a \/ c \in DOMAIN b) /\ ~Same(a, b, c)
    BY <1>4, <2>1 DEF Differ, Same
  <2>. QED BY <2>2 DEF Touch
<1>. QED BY <1>2, <1>3, <1>4 DEF ChangeAt

\* Below a change there is no other: compare stops there.
LEMMA ChangesApart ==
  ASSUME NEW Names, NEW a, NEW b, PlainTree(a, Names), PlainTree(b, Names),
         NEW c, NEW d, ChangeAt(a, b, c), ChangeAt(a, b, d)
  PROVE  ~Under(d, c)
<1>. SUFFICES ASSUME Under(d, c) PROVE FALSE
  OBVIOUS
<1>1. c \in PathsOf(Names) /\ d \in PathsOf(Names)
  BY NodesHold DEF ChangeAt
<1>2. Len(c) \in 1..(Len(d) - 1) /\ SubSeq(d, 1, Len(c)) = c
  BY <1>1, BelowIsFirst DEF First
<1>3. IsTable(a, c) /\ IsTable(b, c)
  BY <1>2 DEF ChangeAt, Reached
<1>4. c \in Nodes(a) /\ c \in Nodes(b)
  <2>1. ASSUME NEW t, PlainTree(t, Names), IsTable(t, c) PROVE c \in Nodes(t)
    BY <2>1, <1>1, NodesHold DEF IsTable, Holds, Below
  <2>. QED BY <2>1, <1>3
<1>. QED BY <1>3, <1>4 DEF ChangeAt, Differ


\* Whatever two snapshots are compared: what differs is said, once, and nothing
\* else; the other way round it is said with its inverse (snapshot.rs: diff,
\* compare_values, touches_secret).
THEOREM DiffExact ==
  ASSUME NEW Names, PlainTree(before, Names), PlainTree(after, Names)
  PROVE  DiffIsExact
<1>. DEFINE changes == Diff(before, after)
            paths == {c.path : c \in changes}
            moved == {p \in DOMAIN before \union DOMAIN after :
                         ~(p \in DOMAIN before /\ p \in DOMAIN after
                           /\ before[p] = after[p])}
<1>1. \A p : p \in paths <=> ChangeAt(before, after, p)
  <2>1. ASSUME NEW p \in paths PROVE ChangeAt(before, after, p)
    <3>1. PICK c \in changes : p = c.path
      OBVIOUS
    <3>2. PICK q : ChangeAt(before, after, q)
                   /\ c = [path |-> q, kind |-> KindAt(before, after, q)]
      BY <3>1, DiffMembers
    <3>. QED BY <3>1, <3>2
  <2>2. ASSUME NEW p, ChangeAt(before, after, p) PROVE p \in paths
    <3>. DEFINE c == [path |-> p, kind |-> KindAt(before, after, p)]
    <3>1. c \in changes
      BY <2>2, DiffMembers
    <3>2. c.path = p
      OBVIOUS
    <3>. HIDE DEF c, changes
    <3>. QED BY <3>1, <3>2
  <2>. QED BY <2>1, <2>2
<1>2. \A p \in moved : \E c \in paths : Touch(p, c)
  <2>. TAKE p \in moved
  <2>1. CASE p \in DOMAIN before
    <3>1. \E c : ChangeAt(before, after, c) /\ Touch(p, c)
      BY <2>1, MovedIsTouched
    <3>. QED BY <3>1, <1>1
  <2>2. CASE p \in DOMAIN after
    <3>1. \E c : ChangeAt(after, before, c) /\ Touch(p, c)
      BY <2>2, MovedIsTouched
    <3>. QED BY <3>1, <1>1, ChangeIsSymmetric
  <2>. QED BY <2>1, <2>2
<1>3. \A c \in paths : \E p \in moved : Touch(p, c)
  <2>. TAKE c \in paths
  <2>1. \E p \in DOMAIN before \union DOMAIN after : ~Same(before, after, p) /\ Touch(p, c)
    BY <1>1, ChangeTouchesMoved
  <2>. QED BY <2>1 DEF Same
<1>4. ASSUME NEW c \in changes, NEW d \in changes, Touch(c.path, d.path)
      PROVE  c = d
  <2>1. PICK p : ChangeAt(before, after, p)
                 /\ c = [path |-> p, kind |-> KindAt(before, after, p)]
    BY DiffMembers
  <2>2. PICK q : ChangeAt(before, after, q)
                 /\ d = [path |-> q, kind |-> KindAt(before, after, q)]
    BY DiffMembers
  <2>3. Touch(p, q)
    BY <1>4, <2>1, <2>2
  <2>4. ~Under(p, q) /\ ~Under(q, p)
    BY <2>1, <2>2, ChangesApart
  <2>. QED BY <2>1, <2>2, <2>3, <2>4 DEF Touch
<1>5. Diff(after, before) = {[c EXCEPT !.kind = Swapped(@)] : c \in changes}
  <2>. DEFINE said(p) == [path |-> p, kind |-> KindAt(before, after, p)]
              swap(c) == [c EXCEPT !.kind = Swapped(@)]
              back(p) == [path |-> p, kind |-> KindAt(after, before, p)]
  <2>1. ASSUME NEW p, ChangeAt(before, after, p) PROVE swap(said(p)) = back(p)
    <3>1. p \in Nodes(before) \/ p \in Nodes(after)
      BY <2>1 DEF ChangeAt
    <3>2. Swapped(KindAt(before, after, p)) = KindAt(after, before, p)
      BY <3>1 DEF KindAt, Swapped
    <3>. QED BY <3>2
  <2>2. \A c : c \in changes <=> \E p : ChangeAt(before, after, p) /\ c = said(p)
    BY DiffMembers
  <2>3. \A c : c \in Diff(after, before) <=> \E p : ChangeAt(before, after, p) /\ c = back(p)
    BY DiffMembers, ChangeIsSymmetric
  <2>. HIDE DEF said, swap, back, changes
  <2>4. ASSUME NEW c \in Diff(after, before) PROVE \E d \in changes : c = swap(d)
    BY <2>1, <2>2, <2>3
  <2>5. ASSUME NEW d \in changes PROVE swap(d) \in Diff(after, before)
    BY <2>1, <2>2, <2>3
  <2>6. Diff(after, before) = {swap(c) : c \in changes}
    BY <2>4, <2>5
  <2>. QED BY <2>6 DEF swap
<1>6. \A s \in moved : \E c \in paths : touches_secret(c, {s})
  BY <1>2 DEF touches_secret
<1>. HIDE DEF changes, paths, moved
<1>7. /\ \A p \in moved : \E c \in paths : Touch(p, c)
      /\ \A c \in paths : \E p \in moved : Touch(p, c)
      /\ \A c, d \in changes : Touch(c.path, d.path) => c = d
      /\ Diff(after, before) = {[c EXCEPT !.kind = Swapped(@)] : c \in changes}
      /\ \A s \in moved : \E c \in paths : touches_secret(c, {s})
  BY <1>2, <1>3, <1>4, <1>5, <1>6
<1>. QED BY <1>7 DEF DiffIsExact, changes, paths, moved

\* The snapshots of the suite are such trees, and stay.
THEOREM DiffIsExactCorrect == MCSpec => []DiffIsExact
<1>. DEFINE Names == {"a", "b", "c"}
            Snapshots == PlainTree(before, Names) /\ PlainTree(after, Names)
<1>1. PlainTree(EmptyTree, Names)
  BY DEF PlainTree, EmptyTree
<1>2. ASSUME NEW t \in SmallTrees PROVE PlainTree(t, Names)
  <2>. DEFINE All == {<<"a">>, <<"b">>, <<"a", "b">>, <<"a", "c">>}
  <2>1. PICK d \in SUBSET All : /\ \A p, q \in d : ~Under(p, q)
                                /\ t \in [d -> {<<"1">>, <<"2">>, EmptyTable}]
    BY DEF SmallTrees
  <2>2. All \subseteq PathsOf(Names)
    BY DEF PathsOf
  <2>3. ASSUME NEW p \in d PROVE t[p] = <<t[p][1]>>
    <3>1. t[p] \in {<<"1">>, <<"2">>, EmptyTable}
      BY <2>1
    <3>2. \E x : t[p] = <<x>>
      BY <3>1 DEF EmptyTable
    <3>3. PICK x : t[p] = <<x>>
      BY <3>2
    <3>4. t[p][1] = x
      BY <3>3
    <3>. QED BY <3>3, <3>4
  <2>4. DOMAIN t = d
    BY <2>1
  <2>. HIDE DEF All, Names
  <2>. QED BY <2>1, <2>2, <2>3, <2>4 DEF PlainTree
<1>3. MCInit => Snapshots
  <2>1. StageInit => (before = EmptyTree /\ after = EmptyTree)
                     \/ (before \in SmallTrees /\ after \in SmallTrees)
    BY DEF StageInit, Loading
  <2>. QED BY <1>1, <1>2, <2>1 DEF MCInit
<1>4. Snapshots /\ [MCNext]_vars => Snapshots'
  BY DEF MCNext, vars, PlainTree
<1>5. Snapshots => DiffIsExact
  BY DiffExact
<1>. QED BY <1>3, <1>4, <1>5, PTL DEF MCSpec

-----------------------------------------------------------------------------

(***************************************************************************)
(* Empty variables.                                                        *)
(***************************************************************************)
\* The variables without the empty ones.
Cleared(env) == [v \in DOMAIN env |-> IF env[v] = "" THEN Unset ELSE env[v]]

\* A text for every variable, and only those are bound.
EnvShape ==
    /\ DOMAIN environ = DOMAIN Variables
    /\ DOMAIN dotenv = DOMAIN Variables
    /\ \A p \in DOMAIN bound : bound[p] \in DOMAIN Variables

\* A text that counts is not cleared away, and clearing makes none count.
LEMMA ClearedCounts ==
  ASSUME NEW env, DOMAIN env = DOMAIN Variables, ~spec.allow_empty,
         NEW v \in DOMAIN Variables
  PROVE  /\ Counts(Cleared(env)[v]) <=> Counts(env[v])
         /\ Counts(env[v]) => Cleared(env)[v] = env[v]
         /\ Cleared(env)[v] \in Ambiguous <=> env[v] \in Ambiguous
         /\ Cleared(env)[v] = "not an entry" <=> env[v] = "not an entry"
BY DEF Counts, Cleared, Unset, Ambiguous

\* The prefixed variables spell the same tree.
LEMMA ClearedSpells ==
  ASSUME NEW env, DOMAIN env = DOMAIN Variables, ~spec.allow_empty
  PROVE  Spelled(Cleared(env)) = Spelled(env)
<1>. DEFINE said(e) == {Variables[v] : v \in {u \in Prefixed : Counts(e[u])}}
            text_at(e, p) == <<e[CHOOSE v \in Prefixed : Variables[v] = p]>>
<1>1. \A v \in Prefixed : v \in DOMAIN Variables /\ Variables[v] # <<>>
  BY DEF Prefixed
<1>2. said(Cleared(env)) = said(env)
  BY <1>1, ClearedCounts
<1>3. ASSUME NEW p \in said(env) PROVE text_at(Cleared(env), p) = text_at(env, p)
  <2>1. PICK u \in Prefixed : Counts(env[u]) /\ Variables[u] = p
    BY <1>3
  <2>. DEFINE w == CHOOSE v \in Prefixed : Variables[v] = p
  <2>2. w \in Prefixed /\ Variables[w] = p
    BY <2>1
  <2>. HIDE DEF w
  <2>3. w = u
    BY <1>1, <2>1, <2>2, ResolutionAssumption
  <2>4. Cleared(env)[w] = env[w]
    BY <1>1, <2>1, <2>3, ClearedCounts
  <2>. QED BY <2>4 DEF w
<1>4. \A e : Spelled(e) = [p \in said(e) |-> text_at(e, p)]
  BY DEF Spelled
<1>. HIDE DEF said, text_at
<1>. QED BY <1>2, <1>3, <1>4

\* The bound variables are read as the same.
LEMMA ClearedBinds ==
  ASSUME EnvShape, ~spec.allow_empty
  PROVE  merge_bindings(Cleared(environ), Cleared(dotenv))
           = merge_bindings(environ, dotenv)
<1>. DEFINE at(p, e, d) == resolve(bound[p], e, d)
            said(e, d) == {p \in DOMAIN bound : Counts(at(p, e, d))}
            texts(e, d) == [p \in said(e, d) |-> <<at(p, e, d)>>]
            refused(d) == \E v \in DOMAIN Variables : d[v] = "not an entry"
<1>1. ASSUME NEW p \in DOMAIN bound
      PROVE  /\ Counts(at(p, Cleared(environ), Cleared(dotenv)))
                  <=> Counts(at(p, environ, dotenv))
             /\ Counts(at(p, environ, dotenv)) =>
                  at(p, Cleared(environ), Cleared(dotenv)) = at(p, environ, dotenv)
  <2>. DEFINE v == bound[p]
  <2>1. /\ v \in DOMAIN Variables
        /\ DOMAIN environ = DOMAIN Variables /\ DOMAIN dotenv = DOMAIN Variables
    BY DEF EnvShape
  <2>. HIDE DEF v
  <2>2. /\ Counts(Cleared(environ)[v]) <=> Counts(environ[v])
        /\ Counts(environ[v]) => Cleared(environ)[v] = environ[v]
        /\ Counts(Cleared(dotenv)[v]) <=> Counts(dotenv[v])
        /\ Counts(dotenv[v]) => Cleared(dotenv)[v] = dotenv[v]
    BY <2>1, ClearedCounts
  <2>. QED BY <2>2 DEF resolve, v
<1>2. refused(Cleared(dotenv)) <=> refused(dotenv)
  BY ClearedCounts DEF EnvShape
<1>3. said(Cleared(environ), Cleared(dotenv)) = said(environ, dotenv)
  BY <1>1
<1>4. texts(Cleared(environ), Cleared(dotenv)) = texts(environ, dotenv)
  <2>. HIDE DEF at
  <2>. QED BY <1>1, <1>3
<1>5. \A e, d : merge_bindings(e, d) =
        IF refused(d) THEN Error ELSE InOwn(Dict(texts(e, d)), <<"binding", "">>)
  BY DEF merge_bindings
<1>. HIDE DEF texts, refused
<1>. QED BY <1>2, <1>4, <1>5

\* Every layer holds the same.
LEMMA ClearedLayers ==
  ASSUME EnvShape, ~spec.allow_empty, NEW layer
  PROVE  LayerFigment(layer, Cleared(environ), Cleared(dotenv))
           = LayerFigment(layer, environ, dotenv)
<1>1. merge_env_files(Cleared(dotenv)) = merge_env_files(dotenv)
  <2>1. Spelled(Cleared(dotenv)) = Spelled(dotenv)
    BY ClearedSpells DEF EnvShape
  <2>2. /\ (\E v \in DOMAIN Variables : Cleared(dotenv)[v] = "not an entry")
             <=> \E v \in DOMAIN Variables : dotenv[v] = "not an entry"
        /\ (\E v \in DOMAIN Variables : Cleared(dotenv)[v] \in Ambiguous)
             <=> \E v \in DOMAIN Variables : dotenv[v] \in Ambiguous
    BY ClearedCounts DEF EnvShape
  <2>. QED BY <2>1, <2>2 DEF merge_env_files
<1>2. merge_environment(Cleared(environ)) = merge_environment(environ)
  <2>1. Spelled(Cleared(environ)) = Spelled(environ)
    BY ClearedSpells DEF EnvShape
  <2>2. (\E v \in Prefixed : Cleared(environ)[v] \in Ambiguous)
             <=> \E v \in Prefixed : environ[v] \in Ambiguous
    BY ClearedCounts DEF EnvShape, Prefixed
  <2>. QED BY <2>1, <2>2 DEF merge_environment
<1>. QED BY <1>1, <1>2, ClearedBinds DEF LayerFigment

\* A load builds the same.
LEMMA ClearedBuilds ==
  ASSUME EnvShape, ~spec.allow_empty
  PROVE  build(Cleared(environ), Cleared(dotenv)) = build(environ, dotenv)
<1>1. LayerFigments(Cleared(environ), Cleared(dotenv)) = LayerFigments(environ, dotenv)
  BY ClearedLayers DEF LayerFigments
<1>. QED BY <1>1 DEF build

\* Neither the variables nor their bindings change.
EnvSame == UNCHANGED <<environ, dotenv, bound>>

\* An empty variable is no variable, after any calls and edits (environment.rs,
\* bindings.rs: resolve and the texts that count).
THEOREM EmptyIsUnsetCorrect == MCSpec => []EmptyIsUnset
<1>1. MCInit => EnvShape
  <2>1. MCInit => Fresh
    BY DEF MCInit
  <2>2. DOMAIN NoEntry = {}
    BY DEF NoEntry
  <2>. QED BY <2>1, <2>2 DEF Fresh, EnvShape
<1>2. EnvShape /\ [MCNext]_vars => EnvShape'
  <2>. SUFFICES ASSUME EnvShape, [MCNext]_vars PROVE EnvShape'
    OBVIOUS
  <2>1. ASSUME EnvSame PROVE EnvShape'
    BY <2>1 DEF EnvSame, EnvShape
  <2>2. CASE NamesNext
    BY <2>1, <2>2 DEF NamesNext, EnvSame, Set, unset, add, WriteFile
  <2>3. CASE EnvironmentNext
    <3>1. ASSUME NEW v \in DOMAIN Variables, NEW t \in EnvTexts, SetVariable(v, t)
          PROVE  EnvShape'
      BY <3>1 DEF SetVariable, EnvShape
    <3>2. ASSUME NEW v \in DOMAIN Variables, NEW t \in EnvTexts, WriteDotenv(v, t)
          PROVE  EnvShape'
      BY <3>2 DEF WriteDotenv, EnvShape
    <3>3. ASSUME NEW p, NEW v \in DOMAIN Variables, bind(p, v) PROVE EnvShape'
      BY <3>3 DEF bind, With, EnvShape
    <3>4. CASE Set("flag", <<"m">>, "2")
      BY <2>1, <3>4 DEF Set, EnvSame
    <3>. QED BY <2>3, <3>1, <3>2, <3>3, <3>4 DEF EnvironmentNext
  <2>4. CASE DocumentsNext
    BY <2>1, <2>4 DEF DocumentsNext, EnvSame, WriteFile, MountSecret
  <2>5. CASE Compose
    BY <2>1, <2>5 DEF Compose, EnvSame, sourceVars
  <2>6. CASE \E p \in {<<"m">>, <<"t", "x">>} : Walk(p)
    BY <2>1, <2>6 DEF Walk, EnvSame, sourceVars
  <2>7. CASE UNCHANGED vars
    BY <2>1, <2>7 DEF vars, resolutionVars, sourceVars, EnvSame
  <2>. QED BY <2>2, <2>3, <2>4, <2>5, <2>6, <2>7 DEF MCNext
<1>3. EnvShape => EmptyIsUnset
  <2>. SUFFICES ASSUME EnvShape, ~spec.allow_empty
                PROVE  build(environ, dotenv) = build(Cleared(environ), Cleared(dotenv))
    BY DEF EmptyIsUnset, Cleared
  <2>. QED BY ClearedBuilds
<1>. QED BY <1>1, <1>2, <1>3, PTL DEF MCSpec

-----------------------------------------------------------------------------
\* The values of a function on a finite set.
LEMMA FiniteValues ==
  ASSUME NEW S, IsFiniteSet(S), NEW f
  PROVE  /\ IsFiniteSet({f[x] : x \in S})
         /\ Cardinality({f[x] : x \in S}) <= Cardinality(S)
<1>. DEFINE T == {f[x] : x \in S}
            g == [x \in S |-> f[x]]
<1>1. g \in Surjection(S, T)
  BY DEF Surjection
<1>. HIDE DEF T, g
<1>2. IsFiniteSet(T) /\ Cardinality(T) <= Cardinality(S)
  BY <1>1, FS_Surjection
<1>. QED BY <1>2 DEF T

-----------------------------------------------------------------------------

(***************************************************************************)
(* Whole loads: the layers together, and the aliases after them.           *)
(***************************************************************************)
\* What one more layer, one alias and one round of aliases make of a result.
OneMore(kind, pairs, list, n, sofar) ==
    IF kind = 1 THEN MergeFigments(sofar, list[n])
    ELSE IF kind = 2 THEN Fill(sofar, pairs, list[n])
    ELSE IF kind = 3 THEN Round(sofar, pairs, list)
    ELSE IF sofar \in DOMAIN pairs THEN pairs[sofar] ELSE sofar

\* g has the results of the first len of them.
IsRun(g, kind, pairs, list, base, len) ==
    g = [n \in 0..len |-> IF n = 0 THEN base
                          ELSE OneMore(kind, pairs, list, n, g[n - 1])]

\* There are such results, of any length.
LEMMA RunExists ==
  ASSUME NEW kind, NEW pairs, NEW list, NEW base, NEW len \in Nat
  PROVE  \E g : IsRun(g, kind, pairs, list, base, len)
<1>. DEFINE S == {n \in Nat : \E g : IsRun(g, kind, pairs, list, base, n)}
            one(k, b) == OneMore(kind, pairs, list, k, b)
<1>1. 0 \in S
  <2>1. IsRun([k \in 0..0 |-> base], kind, pairs, list, base, 0)
    BY DEF IsRun
  <2>. QED BY <2>1
<1>2. ASSUME NEW n \in Nat, n \in S PROVE n + 1 \in S
  <2>1. PICK g : IsRun(g, kind, pairs, list, base, n)
    BY <1>2
  <2>. DEFINE h == [k \in 0..(n + 1) |-> IF k = n + 1 THEN one(k, g[n]) ELSE g[k]]
  <2>2. g = [k \in 0..n |-> IF k = 0 THEN base ELSE one(k, g[k - 1])]
    BY <2>1 DEF IsRun
  <2>. HIDE DEF one
  <2>3. \A k \in 0..n : g[k] = IF k = 0 THEN base ELSE one(k, g[k - 1])
    BY <2>2
  <2>4. /\ \A k \in 0..n : h[k] = g[k]
        /\ h[n + 1] = one(n + 1, g[n])
        /\ h = [k \in 0..(n + 1) |-> h[k]]
    OBVIOUS
  <2>. HIDE DEF h
  <2>5. ASSUME NEW k \in 0..(n + 1)
        PROVE  h[k] = IF k = 0 THEN base ELSE one(k, h[k - 1])
    <3>1. CASE k = n + 1
      <4>1. k # 0 /\ k - 1 = n /\ n \in 0..n
        BY <3>1
      <4>. QED BY <3>1, <4>1, <2>4
    <3>2. CASE k # n + 1
      <4>1. k \in 0..n /\ (k # 0 => k - 1 \in 0..n)
        BY <3>2
      <4>. QED BY <4>1, <2>3, <2>4
    <3>. QED BY <3>1, <3>2
  <2>6. h = [k \in 0..(n + 1) |-> IF k = 0 THEN base ELSE one(k, h[k - 1])]
    BY <2>4, <2>5
  <2>7. IsRun(h, kind, pairs, list, base, n + 1)
    BY <2>6 DEF IsRun, one
  <2>. QED BY <2>7
<1>3. len \in S
  <2>. HIDE DEF S
  <2>. QED BY <1>1, <1>2, NatInductionOnSet
<1>. QED BY <1>3

\* g has what each layer makes of the layers below it, each alias of what the
\* aliases before it left, and each round of the one before.
Layering(g, figments, len) ==
    g[0] = NoFigment /\ \A n \in 1..len : g[n] = MergeFigments(g[n - 1], figments[n])
Filling(g, s, pairs, order, len) ==
    g[0] = s /\ \A n \in 1..len : g[n] = Fill(g[n - 1], pairs, order[n])
Passing(g, f, pairs, order, len) ==
    /\ g[0] = [figment |-> f, filled |-> {}]
    /\ \A n \in 1..len : g[n] = Round(g[n - 1], pairs, order)

\* Together, Round and apply_aliases return the last of them.
LEMMA TogetherRuns ==
  ASSUME NEW figments, NEW len \in Nat, Len(figments) = len
  PROVE  \E g : /\ Layering(g, figments, len)
                /\ Together(figments) = g[len]
<1>. DEFINE Is(g) == g = [n \in 0..len |-> IF n = 0 THEN NoFigment
                                           ELSE MergeFigments(g[n - 1], figments[n])]
            up == CHOOSE g : Is(g)
<1>1. \E g : Is(g)
  <2>1. PICK g : IsRun(g, 1, {}, figments, NoFigment, len)
    BY RunExists
  <2>2. Is(g)
    BY <2>1 DEF IsRun, OneMore
  <2>. QED BY <2>2
<1>2. Is(up)
  <2>. HIDE DEF Is
  <2>. QED BY <1>1
<1>3. Together(figments) = up[len]
  BY DEF Together
<1>. HIDE DEF up
<1>4. Layering(up, figments, len)
  BY <1>2 DEF Layering
<1>. QED BY <1>3, <1>4

LEMMA RoundRuns ==
  ASSUME NEW s, NEW pairs, NEW order, NEW len \in Nat, Len(order) = len
  PROVE  \E g : /\ Filling(g, s, pairs, order, len)
                /\ Round(s, pairs, order) = g[len]
<1>. DEFINE Is(g) == g = [n \in 0..len |-> IF n = 0 THEN s
                                           ELSE Fill(g[n - 1], pairs, order[n])]
            up == CHOOSE g : Is(g)
<1>1. \E g : Is(g)
  <2>1. PICK g : IsRun(g, 2, pairs, order, s, len)
    BY RunExists
  <2>2. Is(g)
    BY <2>1 DEF IsRun, OneMore
  <2>. QED BY <2>2
<1>2. Is(up)
  <2>. HIDE DEF Is
  <2>. QED BY <1>1
<1>3. Round(s, pairs, order) = up[len]
  BY DEF Round
<1>. HIDE DEF up
<1>4. Filling(up, s, pairs, order, len)
  BY <1>2 DEF Filling
<1>. QED BY <1>3, <1>4

LEMMA AliasesRun ==
  ASSUME NEW f, f.status = "ok", NEW pairs, NEW order, NEW many \in Nat,
         many = Cardinality(DOMAIN pairs)
  PROVE  \E g : /\ Passing(g, f, pairs, order, many)
                /\ apply_aliases(f, pairs, order) = g[many].figment
<1>. DEFINE base == [figment |-> f, filled |-> {}]
            Is(g) == g = [n \in 0..many |-> IF n = 0 THEN base
                                            ELSE Round(g[n - 1], pairs, order)]
            up == CHOOSE g : Is(g)
<1>3. apply_aliases(f, pairs, order) = up[many].figment
  BY DEF apply_aliases
<1>. HIDE DEF base
<1>1. \E g : Is(g)
  <2>1. PICK g : IsRun(g, 3, pairs, order, base, many)
    BY RunExists
  <2>2. Is(g)
    BY <2>1 DEF IsRun, OneMore
  <2>. QED BY <2>2
<1>2. Is(up)
  <2>. HIDE DEF Is
  <2>. QED BY <1>1
<1>. HIDE DEF up
<1>4. up[0] = base /\ \A n \in 1..many : up[n] = Round(up[n - 1], pairs, order)
  BY <1>2
<1>5. Passing(up, f, pairs, order, many)
  BY <1>4 DEF base, Passing
<1>. QED BY <1>3, <1>5

-----------------------------------------------------------------------------
\* A path of two merged trees holds what the overlay holds there, or else what the
\* other held, and if nothing touches it it is there when one of them has it.
LEMMA MergedAt ==
  ASSUME NEW a, NEW b, NEW p, Len(p) \in Nat
  PROVE  LET m == MergeTrees(a, b)
         IN  /\ p \in DOMAIN m => p \in DOMAIN a \union DOMAIN b
             /\ p \in DOMAIN m /\ p \in DOMAIN b => m[p] = b[p]
             /\ p \in DOMAIN m /\ p \notin DOMAIN b => m[p] = a[p]
             /\ /\ p \in DOMAIN a \union DOMAIN b
                /\ \A q \in DOMAIN a \union DOMAIN b : q = p \/ ~Touch(p, q)
                => p \in DOMAIN m
<1>. DEFINE kept == {r \in DOMAIN a :
                        \A q \in DOMAIN b :
                            Touch(r, q) => Under(r, q) /\ b[q] = EmptyTable}
            laid == {q \in DOMAIN b :
                        ~(b[q] = EmptyTable /\ \E r \in DOMAIN a : Under(r, q))}
            m == MergeTrees(a, b)
<1>1. /\ DOMAIN m = kept \union laid
      /\ \A r \in laid : m[r] = b[r]
      /\ \A r \in kept \ laid : m[r] = a[r]
  BY DEF MergeTrees
<1>2. ~Under(p, p) /\ Touch(p, p)
  BY DEF Under, Touch
<1>3. p \in DOMAIN b => p \notin kept
  BY <1>2
<1>4. /\ p \in DOMAIN a \union DOMAIN b
      /\ \A q \in DOMAIN a \union DOMAIN b : q = p \/ ~Touch(p, q)
      => p \in kept \union laid
  <2>. SUFFICES ASSUME p \in DOMAIN a \union DOMAIN b,
                       \A q \in DOMAIN a \union DOMAIN b : q = p \/ ~Touch(p, q)
                PROVE  p \in kept \union laid
    OBVIOUS
  <2>1. CASE p \in DOMAIN b
    <3>1. \A r \in DOMAIN a : ~Under(r, p)
      BY <1>2 DEF Touch
    <3>. QED BY <2>1, <3>1
  <2>2. CASE p \notin DOMAIN b
    BY <2>2
  <2>. QED BY <2>1, <2>2
<1>. HIDE DEF m
<1>5. /\ p \in DOMAIN m => p \in DOMAIN a \union DOMAIN b
      /\ p \in DOMAIN m /\ p \in DOMAIN b => m[p] = b[p]
      /\ p \in DOMAIN m /\ p \notin DOMAIN b => m[p] = a[p]
  BY <1>1, <1>3
<1>. QED BY <1>1, <1>4, <1>5 DEF m

\* Only the last layer that has a path may be what the layers together have there.
Alone(p, dom) == \A q \in dom : q = p \/ ~Touch(p, q)

LastOf(said, p, i, n) ==
    /\ i \in 1..n /\ p \in DOMAIN said[i].own
    /\ \A j \in 1..n : i < j => p \notin DOMAIN said[j].own

ComposedAt(p, said, len, f) ==
    /\ p \in DOMAIN f.own => \E i : LastOf(said, p, i, len) /\ f.own[p] = said[i].own[p]
    /\ (\A i \in 1..len : Alone(p, DOMAIN said[i].own)) =>
          /\ Alone(p, DOMAIN f.own)
          /\ (\E i \in 1..len : p \in DOMAIN said[i].own) => p \in DOMAIN f.own
    /\ f.status \notin {"error", "poisoned"} =>
          \A i \in 1..len : said[i].status \notin {"error", "poisoned"}

LEMMA TogetherAt ==
  ASSUME NEW said, NEW len \in Nat, Len(said) = len, NEW p, Len(p) \in Nat
  PROVE  ComposedAt(p, said, len, Together(said))
<1>1. PICK g : /\ Layering(g, said, len)
               /\ Together(said) = g[len]
  BY TogetherRuns
<1>. USE DEF Layering
<1>. DEFINE Apart(n) == \A i \in 1..n : Alone(p, DOMAIN said[i].own)
            Right(n) ==
              /\ p \in DOMAIN g[n].own =>
                    \E i : LastOf(said, p, i, n) /\ g[n].own[p] = said[i].own[p]
              /\ Apart(n) => Alone(p, DOMAIN g[n].own)
              /\ (\E i \in 1..n : p \in DOMAIN said[i].own) /\ Apart(n) => p \in DOMAIN g[n].own
              /\ g[n].status \notin {"error", "poisoned"} =>
                    \A i \in 1..n : said[i].status \notin {"error", "poisoned"}
            S == {n \in Nat : n <= len => Right(n)}
<1>2. 0 \in S
  <2>1. DOMAIN g[0].own = {} /\ 1..0 = {}
    BY <1>1 DEF NoFigment, EmptyTree
  <2>. QED BY <2>1 DEF Alone
<1>3. ASSUME NEW n \in Nat, n \in S PROVE n + 1 \in S
  <2>. SUFFICES ASSUME n + 1 <= len PROVE Right(n + 1)
    OBVIOUS
  <2>. DEFINE k == n + 1  a == g[n].own  b == said[k].own  m == g[k].own
  <2>1. k \in 1..len /\ k - 1 = n /\ n <= len /\ k \in 1..k
        /\ (\A i \in 1..k : i = k \/ i \in 1..n) /\ (\A i \in 1..n : i \in 1..k)
    OBVIOUS
  <2>2. g[k] = MergeFigments(g[n], said[k])
    BY <1>1, <2>1
  <2>3. m = MergeTrees(a, b) /\ g[k].status = Worse(g[n].status, said[k].status)
    BY <2>2 DEF MergeFigments
  <2>4. Right(n)
    BY <1>3, <2>1
  <2>5. p \in DOMAIN m => \E i : LastOf(said, p, i, k) /\ m[p] = said[i].own[p]
    <3>1. CASE p \in DOMAIN m /\ p \in DOMAIN b
      <4>1. m[p] = b[p]
        BY <2>3, <3>1, MergedAt
      <4>2. LastOf(said, p, k, k)
        BY <2>1, <3>1 DEF LastOf
      <4>. QED BY <4>1, <4>2
    <3>2. CASE p \in DOMAIN m /\ p \notin DOMAIN b
      <4>1. p \in DOMAIN a /\ m[p] = a[p]
        BY <2>3, <3>2, MergedAt
      <4>2. PICK i : LastOf(said, p, i, n) /\ a[p] = said[i].own[p]
        BY <2>4, <4>1
      <4>3. LastOf(said, p, i, k)
        BY <2>1, <3>2, <4>2 DEF LastOf
      <4>. QED BY <4>1, <4>2, <4>3
    <3>. QED BY <3>1, <3>2
  <2>6. ASSUME Apart(k)
        PROVE  /\ Alone(p, DOMAIN m)
               /\ (\E i \in 1..k : p \in DOMAIN said[i].own) => p \in DOMAIN m
    <3>1. Apart(n) /\ \A q \in DOMAIN b : q = p \/ ~Touch(p, q)
      BY <2>1, <2>6 DEF Alone
    <3>2. \A q \in DOMAIN a : q = p \/ ~Touch(p, q)
      BY <2>4, <3>1 DEF Alone
    <3>3. DOMAIN m \subseteq DOMAIN a \union DOMAIN b
      BY <2>3 DEF MergeTrees
    <3>4. (\E i \in 1..k : p \in DOMAIN said[i].own) => p \in DOMAIN a \union DOMAIN b
      BY <2>1, <2>4, <3>1
    <3>5. p \in DOMAIN a \union DOMAIN b => p \in DOMAIN m
      BY <2>3, <3>1, <3>2, MergedAt
    <3>. QED BY <3>1, <3>2, <3>3, <3>4, <3>5 DEF Alone
  <2>7. g[k].status \notin {"error", "poisoned"} =>
            \A i \in 1..k : said[i].status \notin {"error", "poisoned"}
    <3>1. g[k].status \notin {"error", "poisoned"} => g[n].status \notin {"error", "poisoned"}
                                /\ said[k].status \notin {"error", "poisoned"}
      BY <2>3 DEF Worse
    <3>. QED BY <2>1, <2>4, <3>1
  <2>. QED BY <2>5, <2>6, <2>7
<1>4. len \in S
  <2>. HIDE DEF S
  <2>. QED BY <1>2, <1>3, NatInductionOnSet
<1>5. Right(len)
  BY <1>4
<1>. QED BY <1>1, <1>5 DEF ComposedAt

\* The layers, and what a load composes of them, change with the sources only.
LEMMA LayersFollowSources ==
  ASSUME UNCHANGED sourceVars
  PROVE  /\ layer_figments' = layer_figments
         /\ merged' = merged
<1>1. /\ spec' = spec /\ set' = set /\ files' = files /\ environ' = environ
      /\ dotenv' = dotenv /\ secrets' = secrets /\ bound' = bound /\ aliases' = aliases
  BY DEF sourceVars
<1>2. \A d, b : Sections(d, b)' = Sections(d, b)
  BY <1>1 DEF Sections
<1>3. \A e : Spelled(e)' = Spelled(e)
  BY <1>1 DEF Spelled, Counts, Prefixed, Unset
<1>4. \A n : WithVariant(n)' = WithVariant(n)
  <2>1. \A d, b : merge_encrypted_file(d, b)' = merge_encrypted_file(d, b)
    BY <1>1, <1>2 DEF merge_encrypted_file
  <2>2. \A n, v : merge_source(n, v)' = merge_source(n, v)
    BY <1>1, <1>2, <2>1 DEF merge_source
  <2>3. \A n : merge_profile_variant(n)' = merge_profile_variant(n)
    BY <1>1, <2>2 DEF merge_profile_variant
  <2>. QED BY <2>2, <2>3 DEF WithVariant
<1>5. merge_discovered' = merge_discovered
  <2>1. resolve_search' = resolve_search
    BY <1>1 DEF resolve_search
  <2>. QED BY <1>4, <2>1 DEF merge_discovered
<1>6. merge_listed' = merge_listed
  BY <1>4 DEF merge_listed
<1>7. merge_remote' = merge_remote
  BY <1>1, <1>2 DEF merge_remote
<1>8. merge_env_files(dotenv)' = merge_env_files(dotenv)
  BY <1>1, <1>3 DEF merge_env_files
<1>9. merge_environment(environ)' = merge_environment(environ)
  BY <1>1, <1>3 DEF merge_environment, Prefixed
<1>10. merge_bindings(environ, dotenv)' = merge_bindings(environ, dotenv)
  BY <1>1 DEF merge_bindings, resolve, Counts
<1>11. \A l : LayerFigment(l, environ, dotenv)' = LayerFigment(l, environ, dotenv)
  BY <1>1, <1>5, <1>6, <1>7, <1>8, <1>9, <1>10
  DEF LayerFigment, merge_defaults, merge_flags, merge_overrides, merge_secrets_dir
<1>12. layer_figments' = layer_figments
  BY <1>11 DEF layer_figments, LayerFigments
<1>13. build(environ, dotenv)' = build(environ, dotenv)
  BY <1>1, <1>12 DEF build, layer_figments, validated_profile
<1>. QED BY <1>1, <1>12, <1>13 DEF merged

Targets(pairs) == {pairs[q] : q \in DOMAIN pairs}

IsFigment(f) == f = [status |-> f.status, own |-> f.own, other |-> f.other]

\* Every leaf has a value.
Solid(f) == /\ \A q \in DOMAIN f.own : f.own[q] # NoRow
            /\ \A q \in DOMAIN f.other : f.other[q] # NoRow

\* What the alias pass has left of f at p.
LeftAt(p, f, pairs, s) ==
    /\ IsFigment(s.figment) /\ s.figment.status = f.status
    /\ p \in DOMAIN s.figment.own /\ p \notin Targets(pairs) =>
          p \in DOMAIN f.own /\ s.figment.own[p] = f.own[p]
    /\ Alone(p, DOMAIN f.own \union Targets(pairs)) =>
          /\ Alone(p, DOMAIN s.figment.own)
          /\ p \in DOMAIN f.own => p \in DOMAIN s.figment.own
    /\ Solid(f) => Solid(s.figment)

\* One alias, one round of them and the whole pass leave that.
LEMMA FillLeaves ==
  ASSUME NEW p, Len(p) \in Nat, NEW f, NEW pairs, NEW s, NEW from, LeftAt(p, f, pairs, s)
  PROVE  LeftAt(p, f, pairs, Fill(s, pairs, from))
<1>. DEFINE to == pairs[from]
            one == [t \in {to} |-> ValueAt(s.figment, from)]
            own == s.figment.own
            z == Fill(s, pairs, from)
            m == MergeTrees(own, one)
<1>1. CASE z = s
  BY <1>1
<1>2. CASE z # s
  <2>1. /\ from \in DOMAIN pairs
        /\ z = [figment |-> [s.figment EXCEPT !.own = m], filled |-> s.filled \union {to}]
        /\ Found(s.figment, from)
    BY <1>2 DEF Fill
  <2>2. /\ [s.figment EXCEPT !.own = m].status = s.figment.status
        /\ [s.figment EXCEPT !.own = m].own = m
        /\ [s.figment EXCEPT !.own = m].other = s.figment.other
        /\ IsFigment([s.figment EXCEPT !.own = m])
    <3>1. s.figment = [status |-> s.figment.status, own |-> own, other |-> s.figment.other]
      BY DEF LeftAt, IsFigment
    <3>. HIDE DEF m
    <3>2. [s.figment EXCEPT !.own = m]
             = [status |-> s.figment.status, own |-> m, other |-> s.figment.other]
      BY <3>1
    <3>. QED BY <3>2 DEF IsFigment
  <2>b. Solid(s.figment) => \A q \in DOMAIN one : one[q] # NoRow
    BY <2>1 DEF Solid, Found, ValueAt
  <2>3. to \in Targets(pairs) /\ DOMAIN one = {to}
    BY <2>1 DEF Targets
  <2>a. z.figment = [s.figment EXCEPT !.own = m]
    BY <2>1
  <2>. HIDE DEF one, to, z
  <2>4. DOMAIN m \subseteq DOMAIN own \union {to}
    BY <2>3 DEF MergeTrees
  <2>5. /\ p \in DOMAIN m => p \in DOMAIN own \union {to}
        /\ p \in DOMAIN m /\ p \notin {to} => m[p] = own[p]
        /\ /\ p \in DOMAIN own \union {to}
           /\ \A q \in DOMAIN own \union {to} : q = p \/ ~Touch(p, q)
           => p \in DOMAIN m
    BY <2>3, MergedAt
  <2>c. Solid(s.figment) => \A q \in DOMAIN m : m[q] # NoRow
    BY <2>b DEF Solid, MergeTrees
  <2>. HIDE DEF m
  <2>6. /\ z.figment.own = m /\ z.figment.status = s.figment.status
        /\ z.figment.other = s.figment.other /\ IsFigment(z.figment)
    BY <2>2, <2>a
  <2>7. p \in DOMAIN m /\ p \notin Targets(pairs) => p \in DOMAIN f.own /\ m[p] = f.own[p]
    BY <2>3, <2>5 DEF LeftAt
  <2>8. ASSUME Alone(p, DOMAIN f.own \union Targets(pairs))
        PROVE  Alone(p, DOMAIN m) /\ (p \in DOMAIN f.own => p \in DOMAIN m)
    <3>1. Alone(p, DOMAIN own) /\ (p \in DOMAIN f.own => p \in DOMAIN own)
      BY <2>8 DEF LeftAt
    <3>2. to = p \/ ~Touch(p, to)
      BY <2>3, <2>8 DEF Alone
    <3>3. \A q \in DOMAIN own \union {to} : q = p \/ ~Touch(p, q)
      BY <3>1, <3>2 DEF Alone
    <3>4. Alone(p, DOMAIN m)
      BY <2>4, <3>3 DEF Alone
    <3>5. p \in DOMAIN f.own => p \in DOMAIN m
      BY <2>5, <3>1, <3>3
    <3>. QED BY <3>4, <3>5
  <2>d. Solid(f) => Solid(z.figment)
    BY <2>6, <2>c DEF LeftAt, Solid
  <2>9. LeftAt(p, f, pairs, z)
    BY <2>6, <2>7, <2>8, <2>d DEF LeftAt
  <2>. QED BY <2>9 DEF z
<1>. QED BY <1>1, <1>2

LEMMA RoundLeaves ==
  ASSUME NEW p, Len(p) \in Nat, NEW f, NEW pairs, NEW s, NEW order,
         NEW len \in Nat, Len(order) = len,
         LeftAt(p, f, pairs, s)
  PROVE  LeftAt(p, f, pairs, Round(s, pairs, order))
<1>1. PICK g : /\ Filling(g, s, pairs, order, len)
               /\ Round(s, pairs, order) = g[len]
  BY RoundRuns
<1>. USE DEF Filling
<1>. DEFINE S == {n \in Nat : n <= len => LeftAt(p, f, pairs, g[n])}
<1>2. 0 \in S
  BY <1>1
<1>3. ASSUME NEW n \in Nat, n \in S PROVE n + 1 \in S
  <2>. SUFFICES ASSUME n + 1 <= len PROVE LeftAt(p, f, pairs, g[n + 1])
    OBVIOUS
  <2>1. n + 1 \in 1..len /\ n + 1 - 1 = n /\ n <= len
    OBVIOUS
  <2>2. g[n + 1] = Fill(g[n], pairs, order[n + 1]) /\ LeftAt(p, f, pairs, g[n])
    BY <1>1, <1>3, <2>1
  <2>. QED BY <2>2, FillLeaves
<1>4. len \in S
  <2>. HIDE DEF S
  <2>. QED BY <1>2, <1>3, NatInductionOnSet
<1>. QED BY <1>1, <1>4

LEMMA PassLeaves ==
  ASSUME NEW p, Len(p) \in Nat, NEW f, IsFigment(f), f.status = "ok",
         NEW pairs, IsFiniteSet(DOMAIN pairs),
         NEW order, NEW len \in Nat, Len(order) = len
  PROVE  LET left == apply_aliases(f, pairs, order)
         IN  LeftAt(p, f, pairs, [figment |-> left, filled |-> {}])
<1>. DEFINE many == Cardinality(DOMAIN pairs)
<1>0. many \in Nat
  BY FS_CardinalityType
<1>1. PICK g : /\ Passing(g, f, pairs, order, many)
               /\ apply_aliases(f, pairs, order) = g[many].figment
  BY <1>0, AliasesRun
<1>. USE DEF Passing
<1>. HIDE DEF many
<1>. DEFINE S == {n \in Nat : n <= many => LeftAt(p, f, pairs, g[n])}
<1>2. 0 \in S
  <2>1. g[0].figment = f
    BY <1>1
  <2>2. LeftAt(p, f, pairs, g[0])
    BY <2>1 DEF LeftAt, Alone
  <2>. QED BY <2>2
<1>3. ASSUME NEW n \in Nat, n \in S PROVE n + 1 \in S
  <2>. SUFFICES ASSUME n + 1 <= many PROVE LeftAt(p, f, pairs, g[n + 1])
    OBVIOUS
  <2>1. n + 1 \in 1..many /\ n + 1 - 1 = n /\ n <= many
    BY <1>0
  <2>2. g[n + 1] = Round(g[n], pairs, order) /\ LeftAt(p, f, pairs, g[n])
    BY <1>1, <1>3, <2>1
  <2>. QED BY <2>2, RoundLeaves
<1>4. many \in S
  <2>. HIDE DEF S
  <2>. QED BY <1>0, <1>2, <1>3, NatInductionOnSet
<1>. QED BY <1>0, <1>1, <1>4 DEF LeftAt

\* What every provider makes.
Provided(f) == /\ IsFigment(f) /\ Solid(f)
               /\ f.status \in {"ok", "poisoned", "error"}

\* Every provider does.
LEMMA PlainProvided ==
  /\ Provided(NoFigment) /\ Provided(Poisoned) /\ Provided(Error)
  /\ DOMAIN NoFigment.own = {}
<1>1. NoFigment = [status |-> "ok", own |-> EmptyTree, other |-> EmptyTree]
      /\ Poisoned = [status |-> "poisoned", own |-> EmptyTree, other |-> EmptyTree]
      /\ Error = [status |-> "error", own |-> EmptyTree, other |-> EmptyTree]
  BY DEF NoFigment, Poisoned, Error
<1>2. DOMAIN EmptyTree = {}
  BY DEF EmptyTree
<1>. QED BY <1>1, <1>2 DEF Provided, IsFigment, Solid

LEMMA TaggedSolid ==
  ASSUME NEW t, NEW by
  PROVE  DOMAIN Tagged(t, by) = DOMAIN t /\ \A q \in DOMAIN t : Tagged(t, by)[q] # NoRow
BY DEF Tagged, EmptyTable, NoRow

LEMMA InOwnProvided ==
  ASSUME NEW t, NEW by
  PROVE  Provided(InOwn(t, by)) /\ DOMAIN InOwn(t, by).own = DOMAIN t
<1>1. InOwn(t, by) = [status |-> "ok", own |-> Tagged(t, by), other |-> EmptyTree]
  BY DEF InOwn, NoFigment
<1>2. DOMAIN EmptyTree = {}
  BY DEF EmptyTree
<1>. QED BY <1>1, <1>2, TaggedSolid DEF Provided, IsFigment, Solid

\* What is merged from such figments is one, too.
LEMMA MergeProvided ==
  ASSUME NEW f, NEW g, Provided(f), Provided(g)
  PROVE  Provided(MergeFigments(f, g))
<1>. DEFINE m == MergeFigments(f, g)
<1>1. /\ IsFigment(m) /\ m.status = Worse(f.status, g.status)
      /\ m.own = MergeTrees(f.own, g.own) /\ m.other = MergeTrees(f.other, g.other)
  BY DEF MergeFigments, IsFigment
<1>2. Worse(f.status, g.status) \in {"ok", "poisoned", "error"}
  BY DEF Worse
<1>3. ASSUME NEW a, NEW b, \A q \in DOMAIN a : a[q] # NoRow, \A q \in DOMAIN b : b[q] # NoRow
      PROVE  \A q \in DOMAIN MergeTrees(a, b) : MergeTrees(a, b)[q] # NoRow
  BY <1>3 DEF MergeTrees
<1>. HIDE DEF m
<1>4. Solid(m)
  BY <1>1, <1>3 DEF Solid, Provided
<1>. QED BY <1>1, <1>2, <1>4 DEF Provided, m

LEMMA SectionsProvided ==
  ASSUME NEW doc, NEW by
  PROVE  Provided(Sections(doc, by)) /\ (doc = Missing => Sections(doc, by) = NoFigment)
<1>. DEFINE named == WithoutTopLevel(doc, SCHEMA_KEY[1])
            both == [status |-> "ok",
                     own |-> Tagged(Sub(named, <<Own>>), by),
                     other |-> Tagged(Sub(named, <<Other>>), by)]
<1>1. Missing # Unreadable
  <2>1. Missing[<<>>] = <<"missing">> /\ Unreadable[<<>>] = <<"unreadable">>
    BY DEF Missing, Unreadable
  <2>2. <<"missing">> # <<"unreadable">>
    OBVIOUS
  <2>. QED BY <2>1, <2>2
<1>2. Sections(doc, by) \in {NoFigment, Poisoned, InOwn(named, by), both}
      /\ (doc = Missing => Sections(doc, by) = NoFigment)
  BY <1>1 DEF Sections
<1>3. Provided(both)
  BY TaggedSolid DEF Provided, IsFigment, Solid
<1>. HIDE DEF both, named
<1>. QED BY <1>2, <1>3, PlainProvided, InOwnProvided

\* A layer by itself, and one that is not active has nothing at all.
LEMMA LayerProvided ==
  ASSUME NEW i \in 1..10
  PROVE  /\ Provided(layer_figments[i])
         /\ ~Active(LAYERS[i]) => DOMAIN layer_figments[i].own = {}
<1>. DEFINE l == LAYERS[i]
            x == LayerFigment(l, environ, dotenv)
<1>0. layer_figments[i] = x
  BY DEF layer_figments, LayerFigments, LAYERS
<1>1. l \in {"default", "discovered", "file", "remote", "secrets", ".env",
             "environment", "binding", "flag", "override"}
  BY DEF LAYERS
<1>2. DOMAIN Dict(NoEntry) = {}
  BY DEF Dict, NoEntry
<1>3. \A n : Provided(WithVariant(n))
  <2>1. \A d, b : Provided(merge_encrypted_file(d, b))
    BY PlainProvided, SectionsProvided DEF merge_encrypted_file
  <2>2. \A n, v : Provided(merge_source(n, v))
    BY <2>1, SectionsProvided DEF merge_source
  <2>3. \A n : Provided(merge_profile_variant(n))
    BY <2>2, PlainProvided DEF merge_profile_variant
  <2>. QED BY <2>2, <2>3, MergeProvided DEF WithVariant
<1>. HIDE DEF l
<1>4. CASE l \in {"default", "flag", "override"}
  <2>1. \/ l = "default" /\ x = merge_defaults
        \/ l = "flag" /\ x = merge_flags
        \/ l = "override" /\ x = merge_overrides
    BY <1>4 DEF LayerFigment
  <2>2. ~Active(l) => \/ l = "default" /\ set.default = NoEntry
                      \/ l = "flag" /\ set.flag = NoEntry
                      \/ l = "override" /\ set.override = NoEntry
    BY <1>4 DEF Active
  <2>. HIDE DEF x
  <2>3. Provided(x)
    BY <2>1, InOwnProvided DEF merge_defaults, merge_flags, merge_overrides
  <2>4. ~Active(l) => DOMAIN x.own = {}
    BY <1>2, <2>1, <2>2, InOwnProvided DEF merge_defaults, merge_flags, merge_overrides
  <2>. QED BY <1>0, <2>3, <2>4 DEF l
<1>5. CASE l = "discovered"
  <2>1. x = merge_discovered
    BY <1>5 DEF LayerFigment
  <2>2. Active(l)
    BY <1>5 DEF Active
  <2>3. Provided(merge_discovered)
    BY <1>3, PlainProvided DEF merge_discovered
  <2>. QED BY <1>0, <2>1, <2>2, <2>3 DEF l
<1>6. CASE l = "file"
  <2>1. x = merge_listed
    BY <1>6 DEF LayerFigment
  <2>2. Active(l)
    BY <1>6 DEF Active
  <2>3. Provided(merge_listed)
    BY <1>3, MergeProvided DEF merge_listed
  <2>. QED BY <1>0, <2>1, <2>2, <2>3 DEF l
<1>7. CASE l = "remote"
  <2>1. x = merge_remote
    BY <1>7 DEF LayerFigment
  <2>2. ~Active(l) => files[<<"remote", "">>] = Missing
    BY <1>7 DEF Active
  <2>. QED BY <1>0, <2>1, <2>2, SectionsProvided, PlainProvided DEF l, merge_remote
<1>8. CASE l = "secrets"
  <2>1. x = merge_secrets_dir
    BY <1>8 DEF LayerFigment
  <2>2. Active(l)
    BY <1>8 DEF Active
  <2>. QED BY <1>0, <2>1, <2>2, InOwnProvided DEF l, merge_secrets_dir
<1>9. CASE l = ".env"
  <2>1. x = merge_env_files(dotenv)
    BY <1>9 DEF LayerFigment
  <2>2. Active(l)
    BY <1>9 DEF Active
  <2>3. merge_env_files(dotenv) = Error \/ \E t, b : merge_env_files(dotenv) = InOwn(t, b)
    BY DEF merge_env_files
  <2>. HIDE DEF x
  <2>4. Provided(x)
    BY <2>1, <2>3, InOwnProvided, PlainProvided
  <2>. QED BY <1>0, <2>2, <2>4 DEF l
<1>10. CASE l = "environment"
  <2>1. x = merge_environment(environ)
    BY <1>10 DEF LayerFigment
  <2>2. Active(l)
    BY <1>10 DEF Active
  <2>3. merge_environment(environ) = Error \/ \E t, b : merge_environment(environ) = InOwn(t, b)
    BY DEF merge_environment
  <2>. HIDE DEF x
  <2>4. Provided(x)
    BY <2>1, <2>3, InOwnProvided, PlainProvided
  <2>. QED BY <1>0, <2>2, <2>4 DEF l
<1>11. CASE l = "binding"
  <2>1. x = IF bound = NoEntry THEN NoFigment ELSE merge_bindings(environ, dotenv)
    BY <1>11 DEF LayerFigment
  <2>2. ~Active(l) => bound = NoEntry
    BY <1>11 DEF Active
  <2>3. Provided(merge_bindings(environ, dotenv))
    BY InOwnProvided, PlainProvided DEF merge_bindings
  <2>. QED BY <1>0, <2>1, <2>2, <2>3, PlainProvided DEF l
<1>. QED BY <1>1, <1>4, <1>5, <1>6, <1>7, <1>8, <1>9, <1>10, <1>11

\* The layers together are such a figment too.
LEMMA TogetherProvided ==
  ASSUME NEW said, NEW len \in Nat, Len(said) = len, \A i \in 1..len : Provided(said[i])
  PROVE  Provided(Together(said))
<1>1. PICK g : /\ Layering(g, said, len)
               /\ Together(said) = g[len]
  BY TogetherRuns
<1>. USE DEF Layering
<1>. DEFINE S == {n \in Nat : n <= len => Provided(g[n])}
<1>2. 0 \in S
  BY <1>1, PlainProvided
<1>3. ASSUME NEW n \in Nat, n \in S PROVE n + 1 \in S
  <2>. SUFFICES ASSUME n + 1 <= len PROVE Provided(g[n + 1])
    OBVIOUS
  <2>1. n + 1 \in 1..len /\ n + 1 - 1 = n /\ n <= len
    OBVIOUS
  <2>. QED BY <1>1, <1>3, <2>1, MergeProvided
<1>4. len \in S
  <2>. HIDE DEF S
  <2>. QED BY <1>2, <1>3, NatInductionOnSet
<1>. QED BY <1>1, <1>4

LEMMA BuildProvided == Provided(build(environ, dotenv))
<1>1. Len(layer_figments) = 10
  BY DEF layer_figments, LayerFigments, LAYERS
<1>2. Provided(Together(layer_figments))
  BY <1>1, LayerProvided, TogetherProvided
<1>. QED BY <1>2, PlainProvided DEF build, layer_figments

AliasShape == DOMAIN aliases \subseteq Paths

\* aliased_from finds an alias exactly when one leads to the path.
LEMMA FromIsFound ==
  ASSUME AliasShape, NEW p
  PROVE  (aliased_from(p) # <<>>) <=> p \in Targets(aliases)
<1>. DEFINE leading == {i \in 1..Len(PathOrder) :
                           PathOrder[i] \in DOMAIN aliases /\ aliases[PathOrder[i]] = p}
            first == CHOOSE i \in leading : \A j \in leading : i <= j
<1>1. Len(PathOrder) \in Nat /\ \A i \in 1..Len(PathOrder) : PathOrder[i] # <<>>
  BY ResolutionAssumption DEF PathsOf
<1>2. leading = {} => p \notin Targets(aliases)
  BY DEF AliasShape, Paths, Targets
<1>3. leading # {} => first \in leading
  <2>1. leading \in SUBSET Nat
    BY <1>1
  <2>. HIDE DEF leading
  <2>. QED BY <2>1, SmallestNat
<1>4. leading # {} => p \in Targets(aliases)
  BY DEF Targets
<1>5. aliased_from(p) = IF leading = {} THEN <<>> ELSE PathOrder[first]
  BY DEF aliased_from
<1>6. \A i \in leading : PathOrder[i] # <<>>
  BY <1>1
<1>. HIDE DEF leading, first
<1>. QED BY <1>2, <1>3, <1>4, <1>5, <1>6

\* What explain says of p, of sources as they are now, is what a load finds there.
LEMMA SaidIsLoaded ==
  ASSUME AliasShape, IsFiniteSet(DOMAIN aliases), NEW p, Len(p) \in Nat
  PROVE  LET whole == merged
             loaded == IF p \in DOMAIN whole.own THEN whole.own[p] ELSE NoRow
             row == AliasRow(p, Rows(p))
             walk == WalkWinner(Rows(p))
             winner == IF row # NoRow THEN row ELSE walk
             displaced == \/ \E i \in 1..Len(LAYERS) :
                                \E q \in DOMAIN layer_figments[i].own :
                                    q # p /\ Touch(p, q)
                          \/ \E q \in DOMAIN aliases :
                                aliases[q] # p /\ Touch(aliases[q], p)
             same == /\ aliased_from(p) # <<>>
                     /\ walk # NoRow /\ loaded # NoRow
                     /\ walk[2] = loaded[2]
         IN  /\ winner = loaded \/ displaced \/ same \/ whole.status # "ok"
             /\ row # NoRow => aliased_from(p) # <<>>
<1>. DEFINE said == layer_figments
            f == build(environ, dotenv)
            whole == merged
            rows == Rows(p)
            walk == WalkWinner(rows)
            row == AliasRow(p, rows)
            displaced == \/ \E i \in 1..Len(LAYERS) :
                               \E q \in DOMAIN said[i].own : q # p /\ Touch(p, q)
                         \/ \E q \in DOMAIN aliases : aliases[q] # p /\ Touch(aliases[q], p)
<1>1. Len(LAYERS) = 10 /\ Len(said) = 10
  BY DEF layer_figments, LayerFigments, LAYERS
<1>2. Provided(f)
  BY BuildProvided
<1>3. Len(PathOrder) \in Nat
  BY ResolutionAssumption
<1>4. f.status = "ok" => LeftAt(p, f, aliases, [figment |-> whole, filled |-> {}])
  BY <1>2, <1>3, PassLeaves DEF merged, Provided
<1>5. f.status # "ok" => whole.status # "ok"
  BY DEF merged, apply_aliases
<1>6. p \in Targets(aliases) <=> aliased_from(p) # <<>>
  BY FromIsFound
<1>7. row = IF /\ whole.status = "ok" /\ p \in DOMAIN whole.own
               /\ walk = NoRow \/ walk[2] # whole.own[p][2]
            THEN whole.own[p] ELSE NoRow
  BY DEF AliasRow
<1>. HIDE DEF row
<1>8. CASE whole.status # "ok"
  BY <1>7, <1>8 DEF row
<1>9. CASE whole.status = "ok"
  <2>1. f.status = "ok"
    BY <1>5, <1>9
  <2>2. f = Together(said)
    <3>1. validated_profile \/ f = Error
      BY DEF build
    <3>2. Error.status = "error"
      BY DEF Error, NoFigment
    <3>. QED BY <2>1, <3>1, <3>2 DEF build, layer_figments
  <2>a. ComposedAt(p, said, 10, f)
    BY <1>1, <2>2, TogetherAt
  <2>3. /\ p \in DOMAIN f.own => \E i : LastOf(said, p, i, 10) /\ f.own[p] = said[i].own[p]
        /\ (\A i \in 1..10 : Alone(p, DOMAIN said[i].own)) =>
              /\ Alone(p, DOMAIN f.own)
              /\ (\E i \in 1..10 : p \in DOMAIN said[i].own) => p \in DOMAIN f.own
        /\ \A i \in 1..10 : said[i].status \notin {"error", "poisoned"}
    BY <2>1, <2>a DEF ComposedAt
  <2>4. \A i \in 1..10 : said[i].status = "ok"
    BY <2>3, LayerProvided DEF Provided
  <2>5. /\ DOMAIN rows = {i \in 1..10 : p \in DOMAIN said[i].own}
        /\ \A i \in DOMAIN rows : rows[i] = said[i].own[p]
    BY <1>1, <2>4, LayerProvided DEF Rows
  <2>6. p \in DOMAIN f.own => walk = f.own[p]
    <3>. SUFFICES ASSUME p \in DOMAIN f.own PROVE walk = f.own[p]
      OBVIOUS
    <3>1. PICK i : LastOf(said, p, i, 10) /\ f.own[p] = said[i].own[p]
      BY <2>3
    <3>2. i \in DOMAIN rows /\ \A j \in DOMAIN rows : j <= i
      BY <2>5, <3>1 DEF LastOf
    <3>3. DOMAIN rows \subseteq Nat
      BY <2>5
    <3>. HIDE DEF rows
    <3>4. (CHOOSE k \in DOMAIN rows : \A j \in DOMAIN rows : j <= k) = i
      BY <3>2, <3>3
    <3>5. walk = rows[i]
      BY <3>2, <3>4 DEF WalkWinner
    <3>. QED BY <2>5, <3>1, <3>2, <3>5
  <2>7. DOMAIN rows = {} => walk = NoRow
    BY DEF WalkWinner
  <2>8. Solid(whole)
    BY <1>2, <1>4, <2>1 DEF LeftAt, Provided
  <2>9. p \in DOMAIN whole.own => whole.own[p] # NoRow
    BY <2>8 DEF Solid
  <2>10. p \notin Targets(aliases) /\ p \in DOMAIN whole.own =>
            p \in DOMAIN f.own /\ whole.own[p] = f.own[p]
    BY <1>4, <2>1 DEF LeftAt
  <2>11. p \notin DOMAIN whole.own /\ DOMAIN rows # {} => displaced
    <3>. SUFFICES ASSUME ~displaced, DOMAIN rows # {} PROVE p \in DOMAIN whole.own
      OBVIOUS
    <3>1. \A i \in 1..10 : Alone(p, DOMAIN said[i].own)
      BY <1>1 DEF Alone
    <3>2. \A t \in Targets(aliases) : t = p \/ ~Touch(p, t)
      BY DEF Targets, Touch
    <3>3. p \in DOMAIN f.own /\ Alone(p, DOMAIN f.own)
      BY <2>3, <2>5, <3>1
    <3>4. Alone(p, DOMAIN f.own \union Targets(aliases))
      BY <3>2, <3>3 DEF Alone
    <3>. QED BY <1>4, <2>1, <3>3, <3>4 DEF LeftAt
  <2>. HIDE DEF walk, rows, whole, f, said, displaced
  <2>12. p \in DOMAIN whole.own => \/ row = whole.own[p]
                                  \/ walk = whole.own[p]
                                  \/ /\ p \in Targets(aliases)
                                     /\ walk # NoRow /\ walk[2] = whole.own[p][2]
    BY <1>7, <1>9, <2>6, <2>10
  <2>13. LET loaded == IF p \in DOMAIN whole.own THEN whole.own[p] ELSE NoRow
             winner == IF row # NoRow THEN row ELSE walk
         IN  /\ \/ winner = loaded \/ displaced
                \/ /\ aliased_from(p) # <<>> /\ walk # NoRow /\ loaded # NoRow
                   /\ walk[2] = loaded[2]
             /\ row # NoRow => aliased_from(p) # <<>>
    BY <1>6, <1>7, <1>9, <2>6, <2>7, <2>9, <2>10, <2>11, <2>12
  <2>. QED BY <2>13 DEF walk, row, rows, whole, displaced, said
<1>. QED BY <1>8, <1>9

WalkedPaths == {<<"m">>, <<"t", "x">>}

\* What the two reads of an explanation have found, of sources that have not changed.
ExplainInv ==
    /\ AliasShape /\ ops \in Nat
    /\ walked # NotExplained =>
          /\ walked.path \in WalkedPaths /\ walked.at \in Nat /\ walked.at <= ops
          /\ walked.at = ops => walked.rows = Rows(walked.path)
    /\ (explained # NotExplained /\ explained.undisturbed) =>
          /\ explained.path \in WalkedPaths
          /\ explained.walk = WalkWinner(Rows(explained.path))
          /\ explained.alias = AliasRow(explained.path, Rows(explained.path))
          /\ explained.from = aliased_from(explained.path)

\* A call or an edit.
ExplainGone == /\ Changed /\ walked' = walked /\ AliasShape'

\* So does what explain says of a path.
LEMMA RowsFollowSources ==
  ASSUME UNCHANGED sourceVars
  PROVE  /\ \A p : Rows(p)' = Rows(p)
         /\ \A p, r : AliasRow(p, r)' = AliasRow(p, r)
         /\ \A p : aliased_from(p)' = aliased_from(p)
         /\ AliasShape' = AliasShape
<1>1. layer_figments' = layer_figments /\ merged' = merged
  BY LayersFollowSources
<1>2. set' = set /\ files' = files /\ bound' = bound /\ aliases' = aliases
  BY DEF sourceVars
<1>3. \A l : Active(l)' = Active(l)
  BY <1>2 DEF Active
<1>. QED BY <1>1, <1>2, <1>3 DEF Rows, AliasRow, aliased_from, AliasShape

LEMMA ExplainStep ==
  ASSUME ExplainInv, [MCNext]_vars
  PROVE  ExplainInv'
<1>1. ASSUME ExplainGone PROVE ExplainInv'
  <2>1. ops' = ops + 1 /\ explained' = NotExplained /\ walked' = walked /\ AliasShape'
    BY <1>1 DEF ExplainGone, Changed
  <2>. QED BY <2>1 DEF ExplainInv, NotExplained
<1>2. ASSUME UNCHANGED sourceVars, UNCHANGED ops, UNCHANGED walked, UNCHANGED explained
      PROVE  ExplainInv'
  <2>. HIDE DEF NotExplained
  <2>. QED BY <1>2, RowsFollowSources DEF ExplainInv, WalkedPaths
<1>3. ASSUME Changed, UNCHANGED walked, UNCHANGED aliases PROVE ExplainInv'
  BY <1>1, <1>3 DEF ExplainGone, AliasShape, ExplainInv
<1>4. CASE NamesNext
  <2>1. ASSUME NEW l, NEW p, NEW v, Set(l, p, v) PROVE ExplainInv'
    BY <1>3, <2>1 DEF Set
  <2>2. ASSUME NEW l, NEW p, unset(l, p) PROVE ExplainInv'
    BY <1>3, <2>2 DEF unset
  <2>3. ASSUME NEW p \in Scalars, NEW q \in Scalars, add(p, q) PROVE ExplainInv'
    <3>1. DOMAIN aliases' = DOMAIN aliases \union {p} /\ p \in Paths
      BY <2>3 DEF add, With, Scalars
    <3>2. AliasShape'
      BY <3>1 DEF AliasShape, ExplainInv
    <3>. QED BY <1>1, <2>3, <3>2 DEF add, ExplainGone
  <2>4. ASSUME NEW n, NEW d, WriteFile(n, d) PROVE ExplainInv'
    BY <1>3, <2>4 DEF WriteFile
  <2>. QED BY <1>4, <2>1, <2>2, <2>3, <2>4 DEF NamesNext
<1>5. CASE EnvironmentNext
  <2>1. ASSUME NEW v, NEW t, SetVariable(v, t) \/ WriteDotenv(v, t) PROVE ExplainInv'
    BY <1>3, <2>1 DEF SetVariable, WriteDotenv
  <2>2. ASSUME NEW p, NEW v, bind(p, v) PROVE ExplainInv'
    BY <1>3, <2>2 DEF bind
  <2>3. ASSUME NEW l, NEW p, NEW v, Set(l, p, v) PROVE ExplainInv'
    BY <1>3, <2>3 DEF Set
  <2>. QED BY <1>5, <2>1, <2>2, <2>3 DEF EnvironmentNext
<1>6. CASE DocumentsNext
  <2>1. ASSUME NEW n, NEW d, WriteFile(n, d) PROVE ExplainInv'
    BY <1>3, <2>1 DEF WriteFile
  <2>2. ASSUME NEW p, NEW t, MountSecret(p, t) PROVE ExplainInv'
    BY <1>3, <2>2 DEF MountSecret
  <2>. QED BY <1>6, <2>1, <2>2 DEF DocumentsNext
<1>7. CASE Compose
  <2>1. UNCHANGED sourceVars /\ ops' = ops /\ walked' = NotExplained /\ walked # NotExplained
    BY <1>7 DEF Compose
  <2>2. CASE explained' = NotExplained
    BY <2>1, <2>2, RowsFollowSources DEF ExplainInv
  <2>3. CASE explained' = [path |-> walked.path, walk |-> WalkWinner(walked.rows),
                           alias |-> AliasRow(walked.path, walked.rows),
                           from |-> aliased_from(walked.path),
                           undisturbed |-> walked.at = ops]
    <3>1. /\ explained'.path = walked.path
          /\ explained'.walk = WalkWinner(walked.rows)
          /\ explained'.alias = AliasRow(walked.path, walked.rows)
          /\ explained'.from = aliased_from(walked.path)
          /\ explained'.undisturbed => walked.at = ops
      BY <2>3
    <3>2. AliasShape' /\ ops' \in Nat
      BY <2>1, RowsFollowSources DEF ExplainInv
    <3>3. explained'.undisturbed =>
             /\ walked.path \in WalkedPaths
             /\ walked.rows = Rows(walked.path)
      BY <2>1, <3>1 DEF ExplainInv
    <3>4. \A p : /\ Rows(p)' = Rows(p) /\ aliased_from(p)' = aliased_from(p)
                 /\ AliasRow(p, Rows(p))' = AliasRow(p, Rows(p))
      BY <2>1, RowsFollowSources DEF AliasRow
    <3>. QED BY <2>1, <3>1, <3>2, <3>3, <3>4 DEF ExplainInv
  <2>. QED BY <1>7, <2>2, <2>3 DEF Compose
<1>8. CASE \E p \in {<<"m">>, <<"t", "x">>} : Walk(p)
  <2>1. PICK p \in WalkedPaths : Walk(p)
    BY <1>8 DEF WalkedPaths
  <2>2. /\ UNCHANGED sourceVars /\ ops' = ops /\ explained' = NotExplained
        /\ walked' = [path |-> p, rows |-> Rows(p), at |-> ops]
    BY <2>1 DEF Walk
  <2>3. walked'.path = p /\ walked'.rows = Rows(p) /\ walked'.at = ops
    BY <2>2
  <2>4. AliasShape' /\ ops' \in Nat /\ ops' <= ops /\ Rows(p)' = Rows(p)
    BY <2>2, RowsFollowSources DEF ExplainInv
  <2>. QED BY <2>2, <2>3, <2>4 DEF ExplainInv
<1>9. CASE UNCHANGED vars
  BY <1>2, <1>9 DEF vars, resolutionVars
<1>. QED BY <1>4, <1>5, <1>6, <1>7, <1>8, <1>9 DEF MCNext

\* explain's winner is what a load finds, but for the exceptions named (explain.rs:
\* explain, Explanation::winner and aliased_from).
THEOREM ExplainedIsLoadedCorrect == MCSpec => []ExplainedIsLoaded
<1>1. MCInit => ExplainInv
  <2>1. MCInit => Fresh
    BY DEF MCInit
  <2>2. DOMAIN NoEntry = {}
    BY DEF NoEntry
  <2>. QED BY <2>1, <2>2 DEF Fresh, ExplainInv, AliasShape
<1>2. ExplainInv /\ [MCNext]_vars => ExplainInv'
  BY ExplainStep
<1>3. ExplainInv => ExplainedIsLoaded
  <2>. SUFFICES ASSUME ExplainInv, explained # NotExplained, explained.undisturbed
                PROVE  ExplainedIsLoaded
    BY DEF ExplainedIsLoaded
  <2>. DEFINE p == explained.path
  <2>1. Len(p) \in Nat
    BY DEF ExplainInv, WalkedPaths
  <2>2. IsFiniteSet(DOMAIN aliases)
    <3>1. IsFiniteSet(1..Len(PathOrder))
      BY ResolutionAssumption, FS_Interval
    <3>2. IsFiniteSet(Paths)
      BY <3>1, FiniteValues DEF Paths
    <3>. QED BY <3>2, FS_Subset DEF ExplainInv, AliasShape
  <2>3. /\ explained.walk = WalkWinner(Rows(p))
        /\ explained.alias = AliasRow(p, Rows(p))
        /\ explained.from = aliased_from(p)
        /\ AliasShape
    BY DEF ExplainInv
  <2>. HIDE DEF p
  <2>. QED BY <2>1, <2>2, <2>3, SaidIsLoaded DEF ExplainedIsLoaded, p
<1>. QED BY <1>1, <1>2, <1>3, PTL DEF MCSpec

-----------------------------------------------------------------------------
(***************************************************************************)
(* The aliases.                                                            *)
(***************************************************************************)

\* Every alias leads to a path of a lower rank.
Ranks(r) == /\ r \in [Paths -> Nat]
            /\ \A p \in DOMAIN aliases : r[aliases[p]] < r[p]

\* The aliases are a set of chains.
Chained == /\ DOMAIN aliases \subseteq Paths
           /\ \A p \in DOMAIN aliases : aliases[p] \in Paths
           /\ \E r : Ranks(r)

\* walk has the paths that the aliases lead to from p.
Walks(walk, p, many) ==
    walk = [n \in 0..many |->
               IF n = 0 THEN p
               ELSE IF walk[n - 1] \in DOMAIN aliases
               THEN aliases[walk[n - 1]] ELSE walk[n - 1]]

\* Leads has such a walk's paths.
LEMMA LeadsWalks ==
  ASSUME NEW p, NEW many \in Nat, many = Cardinality(DOMAIN aliases)
  PROVE  \E walk : Walks(walk, p, many) /\ Leads(p) = {walk[n] : n \in 0..many}
<1>. DEFINE Is(g) == g = [n \in 0..many |-> IF n = 0 THEN p
                                           ELSE IF g[n - 1] \in DOMAIN aliases
                                           THEN aliases[g[n - 1]] ELSE g[n - 1]]
            up == CHOOSE g : Is(g)
<1>1. \E g : Is(g)
  <2>1. PICK g : IsRun(g, 4, aliases, {}, p, many)
    BY RunExists
  <2>2. Is(g)
    BY <2>1 DEF IsRun, OneMore
  <2>. QED BY <2>2
<1>2. Is(up)
  <2>. HIDE DEF Is
  <2>. QED BY <1>1
<1>3. Leads(p) = {up[n] : n \in DOMAIN up}
  BY DEF Leads
<1>. HIDE DEF up
<1>4. DOMAIN up = 0..many /\ Walks(up, p, many)
  BY <1>2 DEF Walks
<1>. QED BY <1>3, <1>4

\* There are finitely many aliases.
LEMMA FiniteAliases ==
  ASSUME DOMAIN aliases \subseteq Paths
  PROVE  IsFiniteSet(DOMAIN aliases) /\ Cardinality(DOMAIN aliases) \in Nat
<1>1. IsFiniteSet(1..Len(PathOrder))
  BY ResolutionAssumption, FS_Interval
<1>2. IsFiniteSet(Paths)
  BY <1>1, FiniteValues DEF Paths
<1>. QED BY <1>2, FS_Subset, FS_CardinalityType

\* On the way the ranks fall.
LEMMA WalkFalls ==
  ASSUME Chained, NEW r, Ranks(r), NEW p \in Paths, NEW many \in Nat,
         NEW walk, Walks(walk, p, many)
  PROVE  \A n \in 0..many :
            /\ walk[n] \in Paths /\ r[walk[n]] <= r[p]
            /\ walk[n] \in DOMAIN aliases =>
                  \A k \in 0..many : k < n => walk[k] \in DOMAIN aliases
                                              /\ r[walk[n]] < r[walk[k]]
<1>. DEFINE Right(n) ==
            /\ walk[n] \in Paths /\ r[walk[n]] <= r[p]
            /\ walk[n] \in DOMAIN aliases =>
                  \A k \in 0..many : k < n => walk[k] \in DOMAIN aliases
                                              /\ r[walk[n]] < r[walk[k]]
            S == {n \in Nat : n <= many => Right(n)}
<1>1. /\ walk[0] = p
      /\ \A n \in 1..many : walk[n] = IF walk[n - 1] \in DOMAIN aliases
                                      THEN aliases[walk[n - 1]] ELSE walk[n - 1]
  BY DEF Walks
<1>2. \A q \in Paths : r[q] \in Nat
  BY DEF Ranks
<1>3. 0 \in S
  BY <1>1, <1>2
<1>4. ASSUME NEW n \in Nat, n \in S PROVE n + 1 \in S
  <2>. SUFFICES ASSUME n + 1 <= many PROVE Right(n + 1)
    OBVIOUS
  <2>1. n + 1 \in 1..many /\ n + 1 - 1 = n /\ n <= many /\ n \in 0..many
    OBVIOUS
  <2>2. Right(n)
    BY <1>4, <2>1
  <2>3. walk[n + 1] = IF walk[n] \in DOMAIN aliases THEN aliases[walk[n]] ELSE walk[n]
    BY <1>1, <2>1
  <2>4. CASE walk[n] \in DOMAIN aliases
    <3>1. /\ walk[n + 1] \in Paths /\ walk[n] \in Paths /\ p \in Paths
          /\ r[walk[n + 1]] < r[walk[n]] /\ r[walk[n]] <= r[p]
      BY <2>2, <2>3, <2>4 DEF Chained, Ranks
    <3>2. \A k \in 0..many : k < n + 1 => walk[k] \in DOMAIN aliases /\ r[walk[n + 1]] < r[walk[k]]
      <4>. SUFFICES ASSUME NEW k \in 0..many, k < n + 1
                    PROVE  walk[k] \in DOMAIN aliases /\ r[walk[n + 1]] < r[walk[k]]
        OBVIOUS
      <4>1. CASE k = n
        BY <2>4, <3>1, <4>1
      <4>2. CASE k # n
        <5>1. k < n
          BY <4>2
        <5>2. walk[k] \in DOMAIN aliases /\ r[walk[n]] < r[walk[k]]
          BY <2>2, <2>4, <5>1
        <5>3. r[walk[k]] \in Nat /\ r[walk[n]] \in Nat /\ r[walk[n + 1]] \in Nat
          BY <1>2, <3>1, <5>2 DEF Chained
        <5>. QED BY <3>1, <5>2, <5>3
      <4>. QED BY <4>1, <4>2
    <3>3. r[walk[n + 1]] <= r[p]
      BY <1>2, <3>1
    <3>. QED BY <3>1, <3>2, <3>3
  <2>5. CASE walk[n] \notin DOMAIN aliases
    BY <2>2, <2>3, <2>5
  <2>. QED BY <2>4, <2>5
<1>. HIDE DEF Right
<1>5. \A n \in Nat : n \in S
  <2>. HIDE DEF S
  <2>. QED BY <1>3, <1>4, NatInductionOnSet
<1>6. \A n \in 0..many : Right(n)
  BY <1>5
<1>. QED BY <1>6 DEF Right

\* Where the aliases lead to is closed under them: the walk is long enough.
LEMMA LeadsClosed ==
  ASSUME Chained, NEW r, Ranks(r), NEW p \in Paths
  PROVE  /\ p \in Leads(p)
         /\ \A q \in Leads(p) : q \in Paths /\ r[q] <= r[p]
         /\ \A q \in Leads(p) : q \in DOMAIN aliases => aliases[q] \in Leads(p)
<1>. DEFINE many == Cardinality(DOMAIN aliases)
<1>1. IsFiniteSet(DOMAIN aliases) /\ many \in Nat
  BY FiniteAliases DEF Chained
<1>. HIDE DEF many
<1>2. PICK walk : Walks(walk, p, many) /\ Leads(p) = {walk[n] : n \in 0..many}
  BY <1>1, LeadsWalks DEF many
<1>3. \A n \in 0..many :
          /\ walk[n] \in Paths /\ r[walk[n]] <= r[p]
          /\ walk[n] \in DOMAIN aliases =>
                \A k \in 0..many : k < n => walk[k] \in DOMAIN aliases
                                            /\ r[walk[n]] < r[walk[k]]
  BY <1>1, <1>2, WalkFalls
<1>4. walk[0] = p /\ 0 \in 0..many /\ many \in 0..many
  BY <1>1, <1>2 DEF Walks
<1>5. walk[many] \notin DOMAIN aliases
  <2>. SUFFICES ASSUME walk[many] \in DOMAIN aliases PROVE FALSE
    OBVIOUS
  <2>1. \A k \in 0..many : walk[k] \in DOMAIN aliases
    BY <1>1, <1>3, <1>4
  <2>. DEFINE g == [k \in 0..many |-> walk[k]]
  <2>2. g \in [0..many -> DOMAIN aliases]
    BY <2>1
  <2>3. IsFiniteSet(0..many) /\ Cardinality(0..many) = many + 1
    BY <1>1, FS_Interval
  <2>4. PICK j \in 0..many, k \in 0..many : j # k /\ g[j] = g[k]
    <3>. HIDE DEF g
    <3>. QED BY <1>1, <2>2, <2>3, FS_PigeonHole DEF many
  <2>5. walk[j] = walk[k] /\ r[walk[j]] \in Nat
    BY <1>3, <2>4 DEF Ranks
  <2>6. j < k \/ k < j
    BY <1>1, <2>4
  <2>7. r[walk[j]] < r[walk[k]] \/ r[walk[k]] < r[walk[j]]
    BY <1>3, <2>1, <2>4, <2>6
  <2>. QED BY <2>5, <2>7
<1>6. ASSUME NEW n \in 0..many, walk[n] \in DOMAIN aliases
      PROVE  \E k \in 0..many : aliases[walk[n]] = walk[k]
  <2>1. n # many /\ n + 1 \in 1..many /\ n + 1 \in 0..many /\ n + 1 - 1 = n
    BY <1>1, <1>5, <1>6
  <2>2. walk[n + 1] = aliases[walk[n]]
    BY <1>2, <1>6, <2>1 DEF Walks
  <2>. QED BY <2>1, <2>2
<1>. QED BY <1>2, <1>3, <1>4, <1>6

\* An alias never leads back to where it comes from.
LEMMA ChainsDoNotClose ==
  ASSUME Chained, NEW p \in DOMAIN aliases
  PROVE  p \notin Leads(aliases[p])
<1>1. PICK r : Ranks(r)
  BY DEF Chained
<1>2. aliases[p] \in Paths /\ p \in Paths
  BY DEF Chained
<1>3. \A q \in Leads(aliases[p]) : q \in Paths /\ r[q] <= r[aliases[p]]
  BY <1>1, <1>2, LeadsClosed
<1>4. r[aliases[p]] < r[p] /\ r[p] \in Nat /\ r[aliases[p]] \in Nat
  BY <1>1, <1>2 DEF Ranks
<1>. QED BY <1>3, <1>4

\* An alias that add accepts does not make them anything else.
LEMMA AddChains ==
  ASSUME Chained, NEW from \in Paths, NEW to \in Paths, from \notin Leads(to),
         aliases' = With(aliases, from, to)
  PROVE  Chained'
<1>1. PICK r : Ranks(r)
  BY DEF Chained
<1>. DEFINE L == Leads(to)
            up == [q \in Paths |-> IF q \in L THEN r[q] ELSE r[q] + r[to] + 1]
<1>2. /\ to \in L
      /\ \A q \in L : q \in Paths /\ r[q] <= r[to]
      /\ \A q \in L : q \in DOMAIN aliases => aliases[q] \in L
  BY <1>1, LeadsClosed
<1>3. /\ DOMAIN aliases' = DOMAIN aliases \union {from}
      /\ aliases'[from] = to
      /\ \A q \in DOMAIN aliases' : q # from => q \in DOMAIN aliases /\ aliases'[q] = aliases[q]
  BY DEF With
<1>4. /\ DOMAIN aliases \subseteq Paths
      /\ \A q \in DOMAIN aliases : aliases[q] \in Paths /\ r[aliases[q]] < r[q]
      /\ \A q \in Paths : r[q] \in Nat
  BY <1>1 DEF Chained, Ranks
<1>5. up \in [Paths -> Nat]
  BY <1>4
<1>6. /\ \A q \in L : up[q] = r[q]
      /\ \A q \in Paths : q \notin L => up[q] = r[q] + r[to] + 1
  BY <1>2
<1>. HIDE DEF L, up
<1>7. ASSUME NEW q \in DOMAIN aliases' PROVE aliases'[q] \in Paths /\ up[aliases'[q]] < up[q]
  <2>1. CASE q = from
    BY <1>2, <1>3, <1>4, <1>6, <2>1 DEF L
  <2>2. CASE q # from
    <3>1. q \in DOMAIN aliases /\ q \in Paths /\ aliases'[q] = aliases[q]
      BY <1>3, <1>4, <2>2
    <3>2. aliases[q] \in Paths /\ r[aliases[q]] < r[q]
      BY <1>4, <3>1
    <3>3. r[aliases[q]] \in Nat /\ r[q] \in Nat /\ r[to] \in Nat
      BY <1>4, <3>1, <3>2
    <3>4. CASE q \in L
      BY <1>2, <1>6, <3>1, <3>2, <3>4
    <3>5. CASE q \notin L
      BY <1>2, <1>6, <3>1, <3>2, <3>3, <3>5
    <3>. QED BY <3>4, <3>5
  <2>. QED BY <2>1, <2>2
<1>8. DOMAIN aliases' \subseteq Paths
  BY <1>3, <1>4
<1>. QED BY <1>5, <1>7, <1>8 DEF Chained, Ranks

(***************************************************************************)
(* What the pass fills.                                                    *)
(***************************************************************************)

\* m is a with v at t.
PutAt(m, a, t, v) ==
    /\ DOMAIN m = DOMAIN a \union {t}
    /\ m[t] = v
    /\ \A q \in DOMAIN a : q # t => m[q] = a[q]

\* Into a tree where nothing touches t but t itself, a leaf at t is put and
\* nothing else changes.
LEMMA MergeOne ==
  ASSUME NEW a, NEW t, Len(t) \in Nat, NEW v, Alone(t, DOMAIN a),
         NEW one, one = [x \in {t} |-> v]
  PROVE  PutAt(MergeTrees(a, one), a, t, v)
<1>. DEFINE kept == {r \in DOMAIN a :
                        \A q \in DOMAIN one :
                            Touch(r, q) => Under(r, q) /\ one[q] = EmptyTable}
            laid == {q \in DOMAIN one :
                        ~(one[q] = EmptyTable /\ \E r \in DOMAIN a : Under(r, q))}
            m == MergeTrees(a, one)
<1>1. m = [p \in kept \union laid |-> IF p \in laid THEN one[p] ELSE a[p]]
  BY DEF MergeTrees
<1>2. /\ ~Under(t, t) /\ Touch(t, t)
      /\ \A q \in DOMAIN a : q = t \/ ~Touch(q, t)
  BY DEF Under, Touch, Alone
<1>3. laid = {t}
  BY <1>2 DEF Touch
<1>4. kept = DOMAIN a \ {t}
  BY <1>2
<1>5. one[t] = v
  OBVIOUS
<1>. HIDE DEF m, kept, laid
<1>6. /\ DOMAIN m = DOMAIN a \union {t}
      /\ m[t] = v
      /\ \A q \in DOMAIN a : q # t => m[q] = a[q]
  BY <1>1, <1>3, <1>4, <1>5
<1>. QED BY <1>6 DEF m, PutAt

\* Where the pass over f is: what is filled was a gap, and holds what the path
\* before it holds; the rest is as it was.
Filled(f, s) ==
    /\ IsFigment(s.figment) /\ s.figment.status = f.status /\ s.figment.other = f.other
    /\ s.filled \subseteq Targets(aliases)
    /\ DOMAIN s.figment.own = DOMAIN f.own \union s.filled
    /\ \A p \in DOMAIN f.own : p \notin s.filled => s.figment.own[p] = f.own[p]
    /\ \A p \in s.filled : ~supplied_above_defaults(f, p)
    /\ (OneAliasPerPath /\ ~DefaultInTheMiddle(f)) =>
          \A q \in DOMAIN aliases : aliases[q] \in s.filled =>
              /\ Found(s.figment, q)
              /\ s.figment.own[aliases[q]] = ValueAt(s.figment, q)

\* An alias has nothing more to fill.
Done(s, from) == \/ aliases[from] \in s.filled
                 \/ supplied_above_defaults(s.figment, aliases[from])
                 \/ ~Found(s.figment, from)

\* An alias that has something to fill fills it, and one that has not does nothing.
LEMMA FillFills ==
  ASSUME Chained, NEW f, AliasesLeadToLeaves(f), NEW s, Filled(f, s),
         NEW from \in DOMAIN aliases, ~Done(s, from)
  PROVE  LET z == Fill(s, aliases, from)
         IN  /\ z.filled = s.filled \union {aliases[from]}
             /\ Filled(f, z)
<1>. DEFINE to == aliases[from]
            own == s.figment.own
            v == ValueAt(s.figment, from)
            one == [x \in {to} |-> v]
            m == MergeTrees(own, one)
            z == Fill(s, aliases, from)
<1>1. z = [figment |-> [s.figment EXCEPT !.own = m], filled |-> s.filled \union {to}]
  BY DEF Fill, Done
<1>2. to \in Paths /\ from \in Paths /\ from # to
  <2>1. PICK r : Ranks(r)
    BY DEF Chained
  <2>2. r[to] < r[from] /\ r[to] \in Nat /\ to \in Paths /\ from \in Paths
    BY <2>1 DEF Ranks, Chained
  <2>. QED BY <2>2
<1>3. Len(to) \in Nat
  BY <1>2, ResolutionAssumption DEF Paths, PathsOf
<1>4. to \in Targets(aliases)
  BY DEF Targets
<1>5. Alone(to, DOMAIN own)
  <2>1. \A q \in DOMAIN f.own \union Targets(aliases) : ~Under(to, q) /\ ~Under(q, to)
    BY DEF AliasesLeadToLeaves, Targets
  <2>. QED BY <2>1 DEF Filled, Touch, Alone
<1>6. /\ DOMAIN m = DOMAIN own \union {to}
      /\ m[to] = v
      /\ \A q \in DOMAIN own : q # to => m[q] = own[q]
  <2>1. one = [x \in {to} |-> v]
    OBVIOUS
  <2>. HIDE DEF one, to, v, own
  <2>2. PutAt(MergeTrees(own, one), own, to, v)
    BY <1>3, <1>5, <2>1, MergeOne
  <2>. QED BY <2>2 DEF PutAt
<1>. HIDE DEF m
<1>7. [s.figment EXCEPT !.own = m]
         = [status |-> s.figment.status, own |-> m, other |-> s.figment.other]
  BY DEF Filled, IsFigment
<1>8. /\ IsFigment(z.figment) /\ z.figment.status = f.status /\ z.figment.other = f.other
      /\ z.figment.own = m /\ z.filled = s.filled \union {to}
  BY <1>1, <1>7 DEF Filled, IsFigment
<1>9. to \notin s.filled /\ ~supplied_above_defaults(s.figment, to) /\ Found(s.figment, from)
  BY DEF Done
<1>10. ~supplied_above_defaults(f, to)
  BY <1>9 DEF supplied_above_defaults, Filled
<1>. HIDE DEF z
<1>11. /\ z.filled \subseteq Targets(aliases)
       /\ DOMAIN z.figment.own = DOMAIN f.own \union z.filled
       /\ \A p \in DOMAIN f.own : p \notin z.filled => z.figment.own[p] = f.own[p]
       /\ \A p \in z.filled : ~supplied_above_defaults(f, p)
  BY <1>4, <1>6, <1>8, <1>10 DEF Filled
<1>12. ASSUME OneAliasPerPath, ~DefaultInTheMiddle(f),
              NEW q \in DOMAIN aliases, aliases[q] \in z.filled
       PROVE  Found(z.figment, q) /\ z.figment.own[aliases[q]] = ValueAt(z.figment, q)
  <2>1. Found(s.figment, q) /\ m[aliases[q]] = ValueAt(s.figment, q)
    <3>1. CASE aliases[q] = to
      <4>1. q = from
        BY <1>12, <3>1 DEF OneAliasPerPath
      <4>. QED BY <1>6, <1>9, <3>1, <4>1
    <3>2. CASE aliases[q] # to
      <4>1. aliases[q] \in s.filled
        BY <1>8, <1>12, <3>2
      <4>2. Found(s.figment, q) /\ own[aliases[q]] = ValueAt(s.figment, q)
        BY <1>12, <4>1 DEF Filled
      <4>3. aliases[q] \in DOMAIN own
        BY <4>1 DEF Filled
      <4>. QED BY <1>6, <3>2, <4>2, <4>3
    <3>. QED BY <3>1, <3>2
  <2>2. CASE q[1] = SECTION
    BY <1>8, <2>1, <2>2 DEF Found, ValueAt, Filled
  <2>3. CASE q[1] # SECTION
    <3>1. q \in DOMAIN own
      BY <2>1, <2>3 DEF Found
    <3>2. q # to
      <4>. SUFFICES ASSUME q = to PROVE FALSE
        OBVIOUS
      <4>1. q \in DOMAIN f.own
        BY <1>9, <3>1 DEF Filled
      <4>2. Found(f, q)
        BY <2>3, <4>1 DEF Found
      <4>. QED BY <1>10, <1>12, <4>2 DEF DefaultInTheMiddle
    <3>3. m[q] = own[q] /\ q \in DOMAIN m
      BY <1>6, <3>1, <3>2
    <3>. QED BY <1>8, <2>1, <2>3, <3>3 DEF Found, ValueAt
  <2>. QED BY <2>2, <2>3
<1>13. Filled(f, z)
  BY <1>8, <1>11, <1>12 DEF Filled
<1>. QED BY <1>8, <1>13 DEF z

LEMMA DoneFills ==
  ASSUME NEW s, NEW from, from \notin DOMAIN aliases \/ Done(s, from)
  PROVE  Fill(s, aliases, from) = s
BY DEF Fill, Done

AllDone(s) == \A q \in DOMAIN aliases : Done(s, q)

\* What the first n aliases of a round make of s.
Rounded(f, s, z, n) ==
    /\ Filled(f, z)
    /\ s.filled \subseteq z.filled
    /\ AllDone(s) => z = s
    /\ z.filled = s.filled =>
          /\ z = s
          /\ \A k \in 1..n : PathOrder[k] \in DOMAIN aliases => Done(s, PathOrder[k])

\* A round that fills nothing has nothing left to fill.
LEMMA RoundFills ==
  ASSUME Chained, NEW f, AliasesLeadToLeaves(f), NEW s, Filled(f, s)
  PROVE  LET z == Round(s, aliases, PathOrder)
         IN  /\ Filled(f, z)
             /\ s.filled \subseteq z.filled
             /\ AllDone(s) => z = s
             /\ z.filled = s.filled => AllDone(s)
<1>. DEFINE len == Len(PathOrder)
<1>0. len \in Nat /\ Len(PathOrder) = len
  BY ResolutionAssumption
<1>. HIDE DEF len
<1>1. PICK g : /\ Filling(g, s, aliases, PathOrder, len)
               /\ Round(s, aliases, PathOrder) = g[len]
  BY <1>0, RoundRuns
<1>2. g[0] = s /\ \A n \in 1..len : g[n] = Fill(g[n - 1], aliases, PathOrder[n])
  BY <1>1 DEF Filling
<1>. DEFINE S == {n \in Nat : n <= len => Rounded(f, s, g[n], n)}
<1>3. 0 \in S
  <2>1. 1..0 = {}
    OBVIOUS
  <2>. QED BY <1>2, <2>1 DEF Rounded
<1>4. ASSUME NEW n \in Nat, n \in S PROVE n + 1 \in S
  <2>. SUFFICES ASSUME n + 1 <= len PROVE Rounded(f, s, g[n + 1], n + 1)
    OBVIOUS
  <2>. DEFINE from == PathOrder[n + 1]
  <2>1. /\ n + 1 \in 1..len /\ n + 1 - 1 = n /\ n <= len
        /\ \A k \in 1..(n + 1) : k = n + 1 \/ k \in 1..n
    BY <1>0
  <2>2. Rounded(f, s, g[n], n)
    BY <1>4, <2>1
  <2>3. g[n + 1] = Fill(g[n], aliases, from)
    BY <1>2, <2>1
  <2>. HIDE DEF from
  <2>4. CASE from \notin DOMAIN aliases \/ Done(g[n], from)
    <3>1. g[n + 1] = g[n]
      BY <2>3, <2>4, DoneFills
    <3>2. g[n].filled = s.filled =>
            \A k \in 1..(n + 1) : PathOrder[k] \in DOMAIN aliases => Done(s, PathOrder[k])
      BY <2>1, <2>2, <2>4 DEF Rounded, from
    <3>. QED BY <2>2, <3>1, <3>2 DEF Rounded
  <2>5. CASE from \in DOMAIN aliases /\ ~Done(g[n], from)
    <3>1. Filled(f, g[n])
      BY <2>2 DEF Rounded
    <3>2. Filled(f, g[n + 1]) /\ g[n + 1].filled = g[n].filled \union {aliases[from]}
      BY <2>3, <2>5, <3>1, FillFills
    <3>3. aliases[from] \notin g[n].filled
      BY <2>5 DEF Done
    <3>4. ~AllDone(s)
      BY <2>2, <2>5 DEF Rounded, AllDone
    <3>5. s.filled \subseteq g[n + 1].filled /\ g[n + 1].filled # s.filled
      BY <2>2, <3>2, <3>3 DEF Rounded
    <3>. QED BY <3>2, <3>4, <3>5 DEF Rounded
  <2>. QED BY <2>4, <2>5
<1>5. Rounded(f, s, g[len], len)
  <2>1. len \in S
    <3>. HIDE DEF S
    <3>. QED BY <1>0, <1>3, <1>4, NatInductionOnSet
  <2>. QED BY <2>1
<1>6. g[len].filled = s.filled => AllDone(s)
  <2>. SUFFICES ASSUME g[len].filled = s.filled, NEW q \in DOMAIN aliases PROVE Done(s, q)
    BY DEF AllDone
  <2>1. PICK k \in 1..len : q = PathOrder[k]
    BY <1>0 DEF Chained, Paths
  <2>. QED BY <1>5, <2>1 DEF Rounded
<1>. QED BY <1>1, <1>5, <1>6 DEF Rounded

\* After the pass nothing is left to fill.
LEMMA PassFills ==
  ASSUME Chained, NEW f, IsFigment(f), f.status = "ok", AliasesLeadToLeaves(f)
  PROVE  \E s : /\ Filled(f, s) /\ AllDone(s)
                /\ apply_aliases(f, aliases, PathOrder) = s.figment
<1>. DEFINE many == Cardinality(DOMAIN aliases)
<1>1. IsFiniteSet(DOMAIN aliases) /\ many \in Nat /\ many = Cardinality(DOMAIN aliases)
  BY FiniteAliases DEF Chained
<1>2. IsFiniteSet(Targets(aliases)) /\ Cardinality(Targets(aliases)) <= many
  BY <1>1, FiniteValues DEF Targets
<1>. HIDE DEF many
<1>3. PICK g : /\ Passing(g, f, aliases, PathOrder, many)
               /\ apply_aliases(f, aliases, PathOrder) = g[many].figment
  BY <1>1, AliasesRun
<1>4. /\ g[0] = [figment |-> f, filled |-> {}]
      /\ \A n \in 1..many : g[n] = Round(g[n - 1], aliases, PathOrder)
  BY <1>3 DEF Passing
<1>5. \A T : T \subseteq Targets(aliases) => IsFiniteSet(T) /\ Cardinality(T) \in Nat
                                             /\ Cardinality(T) <= Cardinality(Targets(aliases))
  BY <1>2, FS_Subset, FS_CardinalityType
<1>. DEFINE Right(n) == /\ Filled(f, g[n])
                        /\ AllDone(g[n]) \/ Cardinality(g[n].filled) >= n
            S == {n \in Nat : n <= many => Right(n)}
<1>6. 0 \in S
  <2>1. g[0].figment = f /\ g[0].filled = {}
    BY <1>4
  <2>2. Filled(f, g[0])
    BY <2>1 DEF Filled
  <2>3. Cardinality(g[0].filled) >= 0
    BY <2>1, FS_EmptySet
  <2>. QED BY <2>2, <2>3
<1>7. ASSUME NEW n \in Nat, n \in S PROVE n + 1 \in S
  <2>. SUFFICES ASSUME n + 1 <= many PROVE Right(n + 1)
    OBVIOUS
  <2>1. n + 1 \in 1..many /\ n + 1 - 1 = n /\ n <= many
    BY <1>1
  <2>2. Right(n)
    BY <1>7, <2>1
  <2>3. g[n + 1] = Round(g[n], aliases, PathOrder)
    BY <1>4, <2>1
  <2>4. /\ Filled(f, g[n + 1])
        /\ g[n].filled \subseteq g[n + 1].filled
        /\ AllDone(g[n]) => g[n + 1] = g[n]
        /\ g[n + 1].filled = g[n].filled => AllDone(g[n])
    BY <2>2, <2>3, RoundFills
  <2>5. CASE AllDone(g[n])
    BY <2>4, <2>5
  <2>6. CASE ~AllDone(g[n])
    <3>1. g[n].filled # g[n + 1].filled /\ Cardinality(g[n].filled) >= n
      BY <2>2, <2>4, <2>6
    <3>2. g[n + 1].filled \subseteq Targets(aliases)
      BY <2>4 DEF Filled
    <3>3. /\ IsFiniteSet(g[n + 1].filled) /\ Cardinality(g[n + 1].filled) \in Nat
          /\ Cardinality(g[n].filled) \in Nat
      BY <1>5, <2>4, <3>2
    <3>4. Cardinality(g[n].filled) <= Cardinality(g[n + 1].filled)
          /\ Cardinality(g[n].filled) # Cardinality(g[n + 1].filled)
      BY <2>4, <3>1, <3>3, FS_Subset
    <3>5. Cardinality(g[n + 1].filled) >= n + 1
      BY <3>1, <3>3, <3>4
    <3>. QED BY <2>4, <3>5
  <2>. QED BY <2>5, <2>6
<1>8. Right(many)
  <2>1. many \in S
    <3>. HIDE DEF S
    <3>. QED BY <1>1, <1>6, <1>7, NatInductionOnSet
  <2>. QED BY <2>1
<1>9. AllDone(g[many])
  <2>. SUFFICES ASSUME Cardinality(g[many].filled) >= many PROVE AllDone(g[many])
    BY <1>8
  <2>1. g[many].filled \subseteq Targets(aliases)
    BY <1>8 DEF Filled
  <2>2. /\ Cardinality(g[many].filled) \in Nat /\ Cardinality(Targets(aliases)) \in Nat
        /\ Cardinality(g[many].filled) <= Cardinality(Targets(aliases))
    BY <1>5, <2>1
  <2>3. Cardinality(g[many].filled) = Cardinality(Targets(aliases))
    BY <1>1, <1>2, <2>2
  <2>4. g[many].filled = Targets(aliases)
    BY <1>2, <2>1, <2>3, FS_Subset
  <2>. QED BY <2>4 DEF AllDone, Done, Targets
<1>. QED BY <1>3, <1>8, <1>9

\* What the pass leaves is what AliasesOnlyFillGaps asks of it.
LEMMA PassOnlyFillsGaps ==
  ASSUME Chained PROVE AliasesOnlyFillGaps
<1>. DEFINE f == build(environ, dotenv)
            z == apply_aliases(f, aliases, PathOrder)
            same(p) == IF p \in DOMAIN f.own
                       THEN p \in DOMAIN z.own /\ z.own[p] = f.own[p]
                       ELSE p \notin DOMAIN z.own
            carried(q, p) == p \in DOMAIN z.own /\ z.own[p] = ValueAt(z, q)
<1>1. \A p \in DOMAIN aliases : p \notin Leads(aliases[p])
  BY ChainsDoNotClose
<1>2. ASSUME f.status = "ok", AliasesLeadToLeaves(f)
      PROVE  /\ \A p \in DOMAIN f.own \union DOMAIN z.own :
                   (\/ supplied_above_defaults(f, p)
                    \/ \A q \in DOMAIN aliases : aliases[q] # p) => same(p)
             /\ (OneAliasPerPath /\ ~DefaultInTheMiddle(f)) =>
                   \A q \in DOMAIN aliases :
                      IF supplied_above_defaults(f, aliases[q]) \/ ~Found(z, q)
                      THEN same(aliases[q]) ELSE carried(q, aliases[q])
  <2>1. IsFigment(f)
    BY BuildProvided DEF Provided
  <2>. HIDE DEF f
  <2>2. PICK s : Filled(f, s) /\ AllDone(s) /\ z = s.figment
    BY <1>2, <2>1, PassFills
  <2>. HIDE DEF z
  <2>3. \A p : p \notin s.filled => same(p)
    BY <2>2 DEF Filled
  <2>4. \A p : supplied_above_defaults(f, p) => p \notin s.filled
    BY <2>2 DEF Filled
  <2>5. \A p : (\A q \in DOMAIN aliases : aliases[q] # p) => p \notin s.filled
    BY <2>2 DEF Filled, Targets
  <2>6. ASSUME OneAliasPerPath, ~DefaultInTheMiddle(f), NEW q \in DOMAIN aliases
        PROVE  IF supplied_above_defaults(f, aliases[q]) \/ ~Found(z, q)
               THEN same(aliases[q]) ELSE carried(q, aliases[q])
    <3>1. aliases[q] \in s.filled => Found(z, q) /\ z.own[aliases[q]] = ValueAt(z, q)
                                     /\ aliases[q] \in DOMAIN z.own
      BY <2>2, <2>6 DEF Filled
    <3>2. aliases[q] \notin s.filled /\ Found(z, q) => supplied_above_defaults(z, aliases[q])
      BY <2>2 DEF AllDone, Done
    <3>3. aliases[q] \notin s.filled /\ Found(z, q) => supplied_above_defaults(f, aliases[q])
      BY <2>2, <3>2 DEF Filled, supplied_above_defaults
    <3>. HIDE DEF same
    <3>. QED BY <2>3, <2>4, <3>1, <3>3
  <2>. HIDE DEF same, carried
  <2>. QED BY <2>3, <2>4, <2>5, <2>6
<1>. QED BY <1>1, <1>2 DEF AliasesOnlyFillGaps

\* The aliases stay a set of chains, and the pass fills gaps and does nothing else
\* (aliases.rs: add; aliases_pass.rs: apply_aliases).
THEOREM AliasesOnlyFillGapsCorrect == MCSpec => []AliasesOnlyFillGaps
<1>1. MCInit => Chained
  <2>. SUFFICES ASSUME MCInit PROVE Chained
    OBVIOUS
  <2>1. DOMAIN aliases = {}
    BY DEF MCInit, Fresh, NoEntry
  <2>2. Ranks([p \in Paths |-> 0])
    BY <2>1 DEF Ranks
  <2>. QED BY <2>1, <2>2 DEF Chained
<1>2. Chained /\ [MCNext]_vars => Chained'
  <2>. SUFFICES ASSUME Chained, [MCNext]_vars PROVE Chained'
    OBVIOUS
  <2>1. ASSUME UNCHANGED aliases PROVE Chained'
    BY <2>1 DEF Chained, Ranks
  <2>2. CASE NamesNext
    <3>1. ASSUME NEW p \in Scalars, NEW q \in Scalars, add(p, q) PROVE Chained'
      <4>1. p \in Paths /\ q \in Paths /\ p \notin Leads(q) /\ aliases' = With(aliases, p, q)
        BY <3>1 DEF add, Scalars
      <4>. QED BY <4>1, AddChains
    <3>. QED BY <2>1, <2>2, <3>1 DEF NamesNext, Set, unset, WriteFile
  <2>3. CASE EnvironmentNext
    BY <2>1, <2>3 DEF EnvironmentNext, SetVariable, WriteDotenv, bind, Set
  <2>4. CASE DocumentsNext
    BY <2>1, <2>4 DEF DocumentsNext, WriteFile, MountSecret
  <2>5. CASE Compose
    BY <2>1, <2>5 DEF Compose, sourceVars
  <2>6. CASE \E p \in {<<"m">>, <<"t", "x">>} : Walk(p)
    BY <2>1, <2>6 DEF Walk, sourceVars
  <2>7. CASE UNCHANGED vars
    BY <2>1, <2>7 DEF vars, resolutionVars, sourceVars
  <2>. QED BY <2>2, <2>3, <2>4, <2>5, <2>6, <2>7 DEF MCNext
<1>3. Chained => AliasesOnlyFillGaps
  BY PassOnlyFillsGaps
<1>. QED BY <1>1, <1>2, <1>3, PTL DEF MCSpec
=============================================================================
