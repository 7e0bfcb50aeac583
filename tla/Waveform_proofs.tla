-------------------------- MODULE Waveform_proofs ---------------------------
(***************************************************************************)
(* What is read out of a VCD file, for every trace: the picture of a       *)
(* signal has no gap and shows what the signal was, and an assertion about *)
(* a known value says of the file what is true of the trace.               *)
(***************************************************************************)
EXTENDS Waveform, WellFoundedInduction, TLAPS

\* The values a signal can have.
Value == Seq(Bit) \ {<<>>}

\* From time 0 to end, each segment begins where the one before it ends.
Seamless(drawn, end) ==
  /\ Len(drawn) >= 1 /\ drawn[1].t0 = 0 /\ drawn[Len(drawn)].t1 = end
  /\ \A i \in 2..Len(drawn) : drawn[i].t0 = drawn[i - 1].t1

\* What is drawn at each time is the value that an assertion reads there, or
\* unknown where it finds none.
ShowsValueAt(drawn, changes) ==
  \A i \in DOMAIN drawn : \A t \in drawn[i].t0..(drawn[i].t1 - 1) :
    drawn[i].value = IF ValueAt(changes, t) = <<>> THEN <<"x">> ELSE ValueAt(changes, t)

-----------------------------------------------------------------------------
(* Recursion over 1..n; the provers know of no induction over data *)

\* A set of numbers has a least one.
LEMMA LeastOf ==
  ASSUME NEW T \in SUBSET Nat, T # {}
  PROVE  \E x \in T : \A y \in T : x <= y
<1> DEFINE R == OpToRel(<, Nat)
<1>1. IsWellFoundedOn(R, Nat)
  BY NatLessThanWellFounded
<1>2. R = {p \in Nat \X Nat : p[1] < p[2]}
  BY DEF OpToRel
<1> HIDE DEF R
<1>3. PICK x \in T : \A y \in T : ~(<<y, x>> \in R)
  BY <1>1, WFMin
<1>4. ASSUME NEW y \in T PROVE x <= y
  <2>1. <<y, x>> \in Nat \X Nat /\ <<y, x>>[1] = y /\ <<y, x>>[2] = x
    OBVIOUS
  <2> QED
    BY <1>2, <1>3, <2>1
<1> QED
  BY <1>4

\* Induction, for a property given as the set of numbers that have it.
LEMMA Induction ==
  ASSUME NEW T, 0 \in T, \A i \in Nat : i \in T => i + 1 \in T
  PROVE  Nat \subseteq T
<1> SUFFICES ASSUME Nat \ T # {} PROVE FALSE
  OBVIOUS
<1>1. PICK x \in Nat \ T : \A y \in Nat \ T : x <= y
  BY LeastOf
<1>2. x # 0 /\ x - 1 \in Nat /\ x - 1 \notin Nat \ T
  BY <1>1
<1>3. (x - 1) + 1 \in T
  BY <1>2
<1> QED
  BY <1>1, <1>3

\* f goes from base through the steps 1 to n, in S.
Follows(f, S, base, n, step) ==
  f \in [0..n -> S] /\ f[0] = base /\ \A i \in 1..n : f[i] = step[i][f[i - 1]]

\* g does so as long as it stays in S: what is known of a recursive function.
Obeys(g, S, base, n, step) ==
  /\ g = [i \in 0..n |-> g[i]] /\ g[0] = base
  /\ \A i \in 1..n : g[i - 1] \in S => g[i] = step[i][g[i - 1]]

\* A recursion along 1..n, each step of which is a function of the value before it.
LEMMA Recursion ==
  ASSUME NEW S, NEW base \in S, NEW n \in Nat, NEW step \in [1..n -> [S -> S]]
  PROVE  \E f : Follows(f, S, base, n, step)
<1> DEFINE Good(f, m) == f \in [0..m -> S] /\ f[0] = base /\ \A i \in 1..m : f[i] = step[i][f[i - 1]]
           T == {m \in Nat : m <= n => \E f : Good(f, m)}
<1>1. 0 \in T
  <2>1. Good([i \in 0..0 |-> base], 0)
    OBVIOUS
  <2> QED
    BY <2>1
<1>2. ASSUME NEW m \in Nat, m \in T PROVE m + 1 \in T
  <2>1. CASE m + 1 <= n
    <3>1. PICK f : Good(f, m)
      BY <1>2, <2>1
    <3> DEFINE g == [i \in 0..(m + 1) |-> IF i <= m THEN f[i] ELSE step[m + 1][f[m]]]
    <3>2. m + 1 \in 1..n /\ f[m] \in S /\ step[m + 1][f[m]] \in S
      BY <2>1, <3>1
    <3>3. g \in [0..(m + 1) -> S]
      BY <3>1, <3>2
    <3>4. g[0] = base
      BY <3>1
    <3>5. ASSUME NEW i \in 1..(m + 1) PROVE g[i] = step[i][g[i - 1]]
      <4>1. CASE i <= m
        <5>1. i \in 1..m /\ i \in 0..(m + 1) /\ i - 1 \in 0..(m + 1) /\ i - 1 <= m
          BY <4>1
        <5>2. g[i] = f[i] /\ g[i - 1] = f[i - 1]
          BY <4>1, <5>1
        <5> QED
          BY <3>1, <5>1, <5>2
      <4>2. CASE i = m + 1
        <5>1. g[i] = step[m + 1][f[m]] /\ g[i - 1] = f[m] 
          BY <4>2
        <5> QED
          BY <4>2, <5>1
      <4> QED
        BY <4>1, <4>2
    <3> HIDE DEF g
    <3>6. Good(g, m + 1)
      BY <3>3, <3>4, <3>5
    <3> HIDE DEF Good
    <3>7. m + 1 \in Nat /\ \E h : Good(h, m + 1)
      BY <3>6
    <3> QED
      BY <3>7
  <2> QED
    BY <2>1
<1> HIDE DEF T
<1>3. n \in T
  BY <1>1, <1>2, Induction
<1> QED
  BY <1>3 DEF T, Follows

\* Whatever follows that recursion is that function.
LEMMA OneRecursion ==
  ASSUME NEW S, NEW base, NEW n \in Nat, NEW step, NEW f, Follows(f, S, base, n, step),
         NEW g, Obeys(g, S, base, n, step)
  PROVE  g = f
<1> USE DEF Follows, Obeys
<1> DEFINE T == {i \in Nat : i <= n => g[i] = f[i]}
<1>1. 0 \in T
  OBVIOUS
<1>2. ASSUME NEW i \in Nat, i \in T PROVE i + 1 \in T
  <2>1. CASE i + 1 <= n
    <3>1. i \in 0..n /\ i + 1 \in 1..n /\ (i + 1) - 1 = i
      BY <2>1
    <3>2. g[i] = f[i] /\ f[i] \in S
      BY <1>2, <3>1
    <3>3. g[i + 1] = step[i + 1][g[i]] /\ f[i + 1] = step[i + 1][f[i]]
      BY <3>1, <3>2
    <3> QED
      BY <3>2, <3>3
  <2> QED
    BY <2>1
<1> HIDE DEF T
<1>3. Nat \subseteq T
  BY <1>1, <1>2, Induction
<1>4. \A i \in 0..n : g[i] = f[i]
  BY <1>3 DEF T
<1> QED
  BY <1>4

\* The greatest number of a set.
LEMMA GreatestOf ==
  ASSUME NEW n \in Nat, NEW T \in SUBSET (0..n), T # {}
  PROVE  Max(T) \in T /\ \A y \in T : y <= Max(T)
<1> DEFINE U == {n - x : x \in T}
<1>1. U \in SUBSET Nat /\ U # {}
  <2>1. \A x \in T : n - x \in Nat
    OBVIOUS
  <2>2. PICK x \in T : TRUE
    OBVIOUS
  <2>3. n - x \in U
    BY <2>2
  <2> QED
    BY <2>1, <2>3
<1>2. PICK u \in U : \A y \in U : u <= y
  BY <1>1, LeastOf
<1>3. PICK x \in T : u = n - x
  BY <1>2
<1>4. \A y \in T : n - y \in U
  OBVIOUS
<1>5. \A y \in T : x >= y
  BY <1>2, <1>3, <1>4
<1> QED
  BY <1>3, <1>5 DEF Max

-----------------------------------------------------------------------------
(* Reading a list of changes *)

\* The greatest of 1..i and of two numbers.
LEMMA MaxOfFirst ==
  ASSUME NEW i \in Nat \ {0}
  PROVE  Max(1..i) = i
<1>1. i \in 1..i /\ \A y \in 1..i : i >= y
  OBVIOUS
<1>2. \A x \in 1..i : (\A y \in 1..i : x >= y) => x = i
  OBVIOUS
<1> QED
  BY <1>1, <1>2 DEF Max

LEMMA MaxOfTwo ==
  ASSUME NEW a \in Nat, NEW b \in Nat, b <= a
  PROVE  Max({a, b}) = a
<1>1. a \in {a, b} /\ \A y \in {a, b} : a >= y
  OBVIOUS
<1>2. \A x \in {a, b} : (\A y \in {a, b} : x >= y) => x = a
  OBVIOUS
<1> QED
  BY <1>1, <1>2 DEF Max

\* The changes of a signal, in their order.
LEMMA ChangeTypes ==
  ASSUME NEW changes, InOrder(changes)
  PROVE  /\ Len(changes) \in Nat /\ DOMAIN changes = 1..Len(changes)
         /\ \A i \in 1..Len(changes) : changes[i].time \in Nat /\ changes[i].value # <<>>
         /\ \A i, j \in 1..Len(changes) : i < j => changes[i].time <= changes[j].time
         /\ changes # <<>> <=> Len(changes) >= 1
<1>1. changes \in Seq(Change)
  BY DEF InOrder
<1>2. Len(changes) \in Nat /\ DOMAIN changes = 1..Len(changes) /\ \A i \in 1..Len(changes) : changes[i] \in Change
  BY <1>1
<1>3. \A c \in Change : c.time \in Nat /\ c.value # <<>>
  BY DEF Change
<1>4. changes # <<>> <=> Len(changes) >= 1
  BY <1>1
<1> QED
  BY <1>2, <1>3, <1>4 DEF InOrder

\* Between a change and the next one, its value is the one that is read.
LEMMA ReadBetween ==
  ASSUME NEW changes, InOrder(changes), NEW i \in DOMAIN changes, NEW t \in Nat,
         changes[i].time <= t, i < Len(changes) => t < changes[i + 1].time
  PROVE  ValueAt(changes, t) = changes[i].value
<1>1. /\ Len(changes) \in Nat /\ DOMAIN changes = 1..Len(changes)
      /\ \A k, j \in 1..Len(changes) : k < j => changes[k].time <= changes[j].time
  BY ChangeTypes
<1>2. \A j \in 1..Len(changes) : changes[j].time \in Nat
  BY ChangeTypes
<1>3. ASSUME NEW j \in DOMAIN changes PROVE changes[j].time <= t <=> j <= i
  <2>1. CASE j <= i
    <3>1. changes[j].time <= changes[i].time
      BY <1>1, <1>2, <2>1
    <3> QED
      BY <1>1, <1>2, <2>1, <3>1
  <2>2. CASE j > i
    <3>1. i < Len(changes) /\ i + 1 \in DOMAIN changes /\ (j = i + 1 \/ i + 1 < j)
      BY <1>1, <2>2
    <3>2. changes[i + 1].time <= changes[j].time
      BY <1>1, <1>2, <3>1
    <3> QED
      BY <1>1, <1>2, <2>2, <3>1, <3>2
  <2> QED
    BY <1>1, <2>1, <2>2
<1>4. {j \in DOMAIN changes : changes[j].time <= t} = 1..i
  BY <1>1, <1>3
<1>5. 1..i # {} /\ Max(1..i) = i
  BY <1>1, MaxOfFirst
<1> QED
  BY <1>4, <1>5 DEF ValueAt

\* Before the first change nothing is read.
LEMMA ReadBefore ==
  ASSUME NEW changes, InOrder(changes), NEW t \in Nat, changes # <<>> => t < changes[1].time
  PROVE  ValueAt(changes, t) = <<>>
<1>1. DOMAIN changes = 1..Len(changes) /\ Len(changes) \in Nat
  BY ChangeTypes
<1>2. ASSUME NEW j \in DOMAIN changes PROVE ~(changes[j].time <= t)
  <2>1. 1 \in 1..Len(changes) /\ j \in 1..Len(changes)
    BY <1>1, <1>2
  <2>2. changes # <<>> /\ changes[1].time \in Nat /\ changes[j].time \in Nat /\ changes[1].time <= changes[j].time
    BY <1>1, <2>1, ChangeTypes
  <2> QED
    BY <2>1, <2>2
<1> QED
  BY <1>2 DEF ValueAt

\* The picture of a signal has no gap between 0 and its end, and shows at every
\* time what an assertion about that time reads: assertion and picture of one
\* file agree, whichever simulator wrote it.
THEOREM PicturesAgreeWithAssertions ==
  ASSUME NEW changes, InOrder(changes), NEW end \in Nat,
         \A i \in DOMAIN changes : changes[i].time <= end
  PROVE  Seamless(Segments(changes, end), end) /\ ShowsValueAt(Segments(changes, end), changes)
<1> DEFINE n == Len(changes)
           from(i) == changes[i].time
           to(i) == IF i < n THEN from(i + 1) ELSE end
           drawn == [i \in DOMAIN changes |-> [t0 |-> from(i), t1 |-> to(i), value |-> changes[i].value]]
<1>1. n \in Nat /\ DOMAIN changes = 1..n /\ \A i \in 1..n : from(i) \in Nat /\ from(i) <= end /\ changes[i].value # <<>>
  BY ChangeTypes
<1>2. CASE changes = <<>>
  <2>1. Segments(changes, end) = <<[t0 |-> 0, t1 |-> end, value |-> <<"x">>]>>
    BY <1>2 DEF Segments
  <2>2. \A t \in 0..(end - 1) : ValueAt(changes, t) = <<>>
    BY <1>2, ReadBefore
  <2> QED
    BY <2>1, <2>2 DEF Seamless, ShowsValueAt
<1>3. CASE changes # <<>>
  <2>1. n >= 1 /\ Len(drawn) = n /\ DOMAIN drawn = 1..n
    BY <1>1, <1>3, ChangeTypes
  <2>2. Segments(changes, end) = IF from(1) > 0 THEN <<[t0 |-> 0, t1 |-> from(1), value |-> <<"x">>]>> \o drawn ELSE drawn
    <3>1. \A i \in 1..n : (IF i < n THEN from(i + 1) ELSE Max({end, from(i)})) = to(i)
      BY <1>1, MaxOfTwo
    <3> QED
      BY <1>1, <1>3, <3>1 DEF Segments
  <2>3. \A i \in 1..n : drawn[i].t0 = from(i) /\ drawn[i].t1 = to(i) /\ drawn[i].value = changes[i].value
    BY <1>1
  <2>4. ASSUME NEW i \in 1..n, NEW t \in from(i)..(to(i) - 1) PROVE ValueAt(changes, t) = changes[i].value
    <3>1. t \in Nat /\ from(i) <= t /\ (i < n => t < from(i + 1))
      BY <1>1, <2>4
    <3> QED
      BY <1>1, <3>1, ReadBetween
  <2>5. /\ \A i \in 1..n : from(i) \in Nat
        /\ \A i \in 1..n : i < n => to(i) = from(i + 1)
        /\ to(n) = end
    BY <1>1
  <2>6. \A S : drawn \in Seq([t0 : Nat, t1 : Nat, value : {changes[i].value : i \in 1..n} \union S])
    BY <1>1, <2>1
  <2> HIDE DEF drawn, to
  <2>7. \A i \in 2..n : drawn[i].t0 = drawn[i - 1].t1
    <3>1. ASSUME NEW i \in 2..n PROVE drawn[i].t0 = drawn[i - 1].t1
      <4>1. i \in 1..n /\ i - 1 \in 1..n /\ i - 1 < n /\ (i - 1) + 1 = i
        BY <1>1, <3>1
      <4>2. drawn[i].t0 = from(i) /\ drawn[i - 1].t1 = to(i - 1) /\ to(i - 1) = from((i - 1) + 1)
        BY <2>3, <2>5, <4>1
      <4> QED
        BY <4>1, <4>2
    <3> QED
      BY <3>1
  <2>8. drawn[1].t0 = from(1) /\ drawn[n].t1 = end
    BY <1>1, <2>1, <2>3, <2>5
  <2>9. ASSUME NEW i \in 1..n, NEW t \in drawn[i].t0..(drawn[i].t1 - 1)
        PROVE  drawn[i].value = IF ValueAt(changes, t) = <<>> THEN <<"x">> ELSE ValueAt(changes, t)
    BY <1>1, <2>3, <2>4, <2>9
  <2>10. CASE ~(from(1) > 0)
    <3>1. Segments(changes, end) = drawn /\ from(1) = 0
      <4>1. from(1) \in Nat
        BY <1>1, <2>1
      <4>2. Segments(changes, end) = drawn
        BY <2>2, <2>10, Zenon
      <4> QED
        BY <2>10, <4>1, <4>2
    <3>2. Seamless(drawn, end)
      BY <2>1, <2>7, <2>8, <3>1 DEF Seamless
    <3>3. ShowsValueAt(drawn, changes)
      BY <2>1, <2>9 DEF ShowsValueAt
    <3> QED
      BY <3>1, <3>2, <3>3
  <2>11. CASE from(1) > 0
    <3> DEFINE T == [t0 : Nat, t1 : Nat, value : {changes[i].value : i \in 1..n} \union {<<"x">>}]
               first == [t0 |-> 0, t1 |-> from(1), value |-> <<"x">>]
               all == <<first>> \o drawn
    <3>1. first \in T /\ drawn \in Seq(T)
      <4>1. drawn \in Seq(T)
        BY <2>6, Zenon
      <4>2. from(1) \in Nat
        BY <1>1, <2>1
      <4>3. first \in T
        BY <4>2
      <4> QED
        BY <4>1, <4>3
    <3> HIDE DEF T
    <3>2. /\ Segments(changes, end) = all
          /\ all[1].t0 = 0 /\ all[1].t1 = from(1) /\ all[1].value = <<"x">>
      <4> HIDE DEF first
      <4>1. all[1] = first
        BY <2>1, <3>1
      <4> QED
        BY <2>2, <2>11, <4>1 DEF first
    <3> HIDE DEF first
    <3>3. Len(all) = n + 1 /\ DOMAIN all = 1..(n + 1) /\ \A i \in 2..(n + 1) : all[i] = drawn[i - 1]
      BY <1>1, <2>1, <3>1
    <3> HIDE DEF all
    <3>4. \A t \in 0..(from(1) - 1) : ValueAt(changes, t) = <<>>
      <4>1. from(1) \in Nat
        BY <1>1, <2>1
      <4>2. ASSUME NEW t \in 0..(from(1) - 1) PROVE ValueAt(changes, t) = <<>>
        <5>1. t \in Nat /\ t < changes[1].time
          BY <4>1, <4>2
        <5> QED
          BY <5>1, ReadBefore
      <4> QED
        BY <4>2
    <3>5. Seamless(all, end)
      <4>1. all[n + 1] = drawn[n] /\ all[2] = drawn[1]
        BY <1>1, <2>1, <3>3
      <4>2. ASSUME NEW i \in 2..(n + 1) PROVE all[i].t0 = all[i - 1].t1
        <5>1. CASE i = 2
          BY <2>8, <3>2, <4>1, <5>1
        <5>2. CASE i # 2
          <6>1. i - 1 \in 2..n /\ i - 1 \in 2..(n + 1)
            BY <1>1, <4>2, <5>2
          <6>2. all[i] = drawn[i - 1] /\ all[i - 1] = drawn[(i - 1) - 1]
            BY <3>3, <4>2, <6>1
          <6> QED
            BY <2>7, <6>1, <6>2
        <5> QED
          BY <5>1, <5>2
      <4> QED
        BY <1>1, <2>8, <3>2, <3>3, <4>1, <4>2 DEF Seamless
    <3>6. ASSUME NEW i \in 1..(n + 1), NEW t \in all[i].t0..(all[i].t1 - 1)
          PROVE  all[i].value = IF ValueAt(changes, t) = <<>> THEN <<"x">> ELSE ValueAt(changes, t)
      <4>1. CASE i = 1
        BY <3>2, <3>4, <3>6, <4>1
      <4>2. CASE i # 1
        <5>1. i - 1 \in 1..n /\ all[i] = drawn[i - 1]
          BY <1>1, <3>3, <3>6, <4>2
        <5> QED
          BY <2>9, <3>6, <5>1
      <4> QED
        BY <4>1, <4>2
    <3>7. ShowsValueAt(all, changes)
      BY <3>3, <3>6 DEF ShowsValueAt
    <3> QED
      BY <3>2, <3>5, <3>7
  <2> QED
    BY <2>10, <2>11
<1> QED
  BY <1>2, <1>3

-----------------------------------------------------------------------------
(* The lists of changes that simulators write *)

\* A list of changes with one more, later than the others.
LEMMA ReadAppended ==
  ASSUME NEW c, InOrder(c), NEW e \in Change, \A k \in DOMAIN c : c[k].time < e.time, NEW t \in Nat
  PROVE  /\ InOrder(Append(c, e)) /\ Len(Append(c, e)) = Len(c) + 1
         /\ ValueAt(Append(c, e), t) = IF t < e.time THEN ValueAt(c, t) ELSE e.value
<1> DEFINE n == Len(c)
           a == Append(c, e)
<1>1. /\ n \in Nat /\ DOMAIN c = 1..n /\ c \in Seq(Change)
      /\ \A i, j \in 1..n : i < j => c[i].time <= c[j].time
      /\ \A i \in 1..n : c[i].time \in Nat
  BY ChangeTypes DEF InOrder
<1>2. e.time \in Nat
  BY DEF Change
<1>3. a \in Seq(Change) /\ Len(a) = n + 1 /\ DOMAIN a = 1..(n + 1)
  BY <1>1
<1>4. a[n + 1] = e /\ \A i \in 1..n : a[i] = c[i]
  BY <1>1
<1> HIDE DEF a
<1>5. InOrder(a)
  <2>1. ASSUME NEW i \in 1..(n + 1), NEW j \in 1..(n + 1), i < j PROVE a[i].time <= a[j].time
    <3>1. i \in 1..n /\ a[i] = c[i] /\ c[i].time \in Nat
      BY <1>1, <1>4, <2>1
    <3>2. CASE j = n + 1
      BY <1>1, <1>2, <1>4, <3>1, <3>2
    <3>3. CASE j # n + 1
      <4>0. j \in 1..n
        BY <1>1, <2>1, <3>3
      <4>1. a[j] = c[j]
        BY <1>4, <4>0
      <4> QED
        BY <1>1, <2>1, <3>1, <4>0, <4>1
    <3> QED
      BY <3>2, <3>3
  <2> QED
    BY <1>3, <2>1 DEF InOrder
<1>6. CASE t >= e.time
  <2>1. n + 1 \in DOMAIN a /\ a[n + 1].time <= t /\ ~(n + 1 < Len(a))
    BY <1>1, <1>2, <1>3, <1>4, <1>6
  <2>2. ValueAt(a, t) = a[n + 1].value
    BY <1>5, <2>1, ReadBetween
  <2> QED
    BY <1>2, <1>3, <1>4, <1>5, <1>6, <2>2 DEF a
<1>7. CASE t < e.time
  <2> DEFINE seen == {i \in DOMAIN c : c[i].time <= t}
  <2>1. {i \in DOMAIN a : a[i].time <= t} = seen
    <3>1. ASSUME NEW i \in 1..(n + 1) PROVE a[i].time <= t <=> i \in 1..n /\ c[i].time <= t
      <4>1. CASE i = n + 1
        BY <1>1, <1>2, <1>4, <1>7, <4>1
      <4>2. CASE i # n + 1
        BY <1>1, <1>4, <4>2
      <4> QED
        BY <4>1, <4>2
    <3> QED
      BY <1>1, <1>3, <3>1
  <2>2. seen # {} => Max(seen) \in 1..n
    <3>1. seen \in SUBSET (0..n)
      BY <1>1
    <3> QED
      BY <1>1, <3>1, GreatestOf
  <2> HIDE DEF seen
  <2>3. seen # {} => a[Max(seen)] = c[Max(seen)]
    BY <1>4, <2>2
  <2>4. ValueAt(a, t) = ValueAt(c, t)
    BY <2>1, <2>3 DEF ValueAt, seen
  <2> QED
    BY <1>3, <1>5, <1>7, <2>4 DEF a
<1> QED
  BY <1>2, <1>6, <1>7

\* A time after the last change reads what the time before it reads.
\* After the last change nothing else is read.
LEMMA ReadAfter ==
  ASSUME NEW c, \A k \in DOMAIN c : c[k].time \in Nat, NEW s \in Nat, NEW t \in Nat, s <= t,
         \A k \in DOMAIN c : c[k].time <= s
  PROVE  ValueAt(c, t) = ValueAt(c, s)
<1>1. {k \in DOMAIN c : c[k].time <= t} = {k \in DOMAIN c : c[k].time <= s}
  OBVIOUS
<1> QED
  BY <1>1 DEF ValueAt
\* The list of changes, value after value.
LEMMA ChangesSteps ==
  ASSUME NEW values \in Seq(Value)
  PROVE  \E f : /\ f \in [0..Len(values) -> Seq(Change)]
                /\ f[0] = <<>> /\ Changes(values) = f[Len(values)]
                /\ \A i \in 1..Len(values) :
                     f[i] = IF i = 1 \/ values[i] # values[i - 1]
                            THEN Append(f[i - 1], [time |-> i - 1, value |-> values[i]]) ELSE f[i - 1]
<1> DEFINE n == Len(values)
           new(i) == [time |-> i - 1, value |-> values[i]]
           next(c, i) == IF i = 1 \/ values[i] # values[i - 1] THEN Append(c, new(i)) ELSE c
           rec(f) == [i \in 0..n |-> IF i = 0 THEN <<>> ELSE next(f[i - 1], i)]
           F == CHOOSE f : f = rec(f)
           step == [i \in 1..n |-> [c \in Seq(Change) |-> next(c, i)]]
<1>0. n \in Nat /\ Changes(values) = F[n]
  BY DEF Changes
<1>1. step \in [1..n -> [Seq(Change) -> Seq(Change)]]
  <2>1. ASSUME NEW i \in 1..n, NEW c \in Seq(Change) PROVE next(c, i) \in Seq(Change)
    <3>1. new(i) \in Change
      BY <1>0 DEF Change, Value
    <3> QED
      BY <3>1
  <2> HIDE DEF next
  <2> QED
    BY <2>1
<1>a. \A i \in 1..n, c \in Seq(Change) : step[i][c] = next(c, i)
  OBVIOUS
<1> HIDE DEF step, n
<1>2. PICK f : Follows(f, Seq(Change), <<>>, n, step)
  <2>1. n \in Nat /\ <<>> \in Seq(Change)
    BY <1>0
  <2> QED
    BY <1>1, <2>1, Recursion, Zenon
<1> HIDE DEF next
<1>b. f \in [0..n -> Seq(Change)] /\ f[0] = <<>> /\ \A i \in 1..n : f[i] = step[i][f[i - 1]]
  BY <1>2 DEF Follows
<1>3. ASSUME NEW i \in 1..n PROVE f[i] = next(f[i - 1], i)
  <2>1. f[i - 1] \in Seq(Change)
    BY <1>0, <1>b
  <2> QED
    BY <1>b, <1>a, <2>1
<1>4. f = rec(f)
  BY <1>0, <1>b, <1>3
<1>5. F = rec(F)
  BY <1>4
<1> HIDE DEF F
<1>6. F = f
  <2>1. DOMAIN F = 0..n /\ F[0] = <<>> /\ \A i \in 1..n : F[i] = next(F[i - 1], i)
    BY <1>0, <1>5
  <2>2. \A i \in 1..n : F[i - 1] \in Seq(Change) => F[i] = step[i][F[i - 1]]
    BY <1>a, <2>1
  <2>3. F = [i \in 0..n |-> F[i]]
    BY <1>5
  <2>4. n \in Nat /\ Obeys(F, Seq(Change), <<>>, n, step)
    BY <1>0, <2>1, <2>2, <2>3 DEF Obeys
  <2> QED
    BY <1>2, <2>4, OneRecursion, Zenon
<1> QED
  BY <1>0, <1>b, <1>3, <1>6 DEF n, next

\* c lists the changes of the first n values.
Lists(c, values, n) ==
  /\ InOrder(c) /\ c # <<>> /\ c[1].time = 0
  /\ \A k \in DOMAIN c : c[k].time < n /\ c[k].value = values[c[k].time + 1]
  /\ \A t \in 0..(n - 1) : ValueAt(c, t) = values[t + 1]

\* The first value is a change.
LEMMA ListsOne ==
  ASSUME NEW values \in Seq(Value), Len(values) >= 1
  PROVE  Lists(Append(<<>>, [time |-> 0, value |-> values[1]]), values, 1)
<1> DEFINE e == [time |-> 0, value |-> values[1]]
<1>1. e \in Change /\ e.time = 0 /\ e.value = values[1]
  BY DEF Change, Value
<1> HIDE DEF e
<1>2. InOrder(<<>>)
  BY DEF InOrder
<1>3. InOrder(Append(<<>>, e)) /\ ValueAt(Append(<<>>, e), 0) = e.value
  <2>1. 0 \in Nat /\ ~(0 < e.time) /\ \A k \in DOMAIN <<>> : (<<>>)[k].time < e.time
    BY <1>1
  <2> QED
    BY <1>1, <1>2, <2>1, ReadAppended
<1>4. Append(<<>>, e) = <<e>>
  OBVIOUS
<1> QED
  BY <1>1, <1>3, <1>4 DEF Lists, e

\* So is a value that differs from the one before it.
LEMMA ListsMore ==
  ASSUME NEW values \in Seq(Value), NEW n \in Nat \ {0}, n < Len(values), NEW c, Lists(c, values, n)
  PROVE  Lists(IF values[n + 1] # values[n] THEN Append(c, [time |-> n, value |-> values[n + 1]]) ELSE c,
               values, n + 1)
<1>1. /\ Len(c) \in Nat /\ DOMAIN c = 1..Len(c) /\ Len(c) >= 1 /\ InOrder(c) /\ c \in Seq(Change)
      /\ \A k \in 1..Len(c) : c[k].time \in Nat /\ c[k].time < n /\ c[k].value = values[c[k].time + 1]
      /\ c[1].time = 0
      /\ \A t \in 0..(n - 1) : ValueAt(c, t) = values[t + 1]
  BY ChangeTypes DEF Lists, InOrder
<1>2. CASE values[n + 1] = values[n]
  <2>1. ValueAt(c, n) = ValueAt(c, n - 1)
    <3>1. \A k \in DOMAIN c : c[k].time \in Nat /\ c[k].time <= n - 1
      BY <1>1
    <3>2. n - 1 \in Nat /\ n - 1 <= n
      OBVIOUS
    <3> QED
      BY <3>1, <3>2, ReadAfter
  <2>2. ValueAt(c, n - 1) = values[n]
    BY <1>1
  <2>3. \A t \in 0..n : ValueAt(c, t) = values[t + 1]
    <3>1. ASSUME NEW t \in 0..n PROVE ValueAt(c, t) = values[t + 1]
      <4>1. CASE t = n
        BY <1>2, <2>1, <2>2, <4>1
      <4>2. CASE t # n
        BY <1>1, <4>2
      <4> QED
        BY <4>1, <4>2
    <3> QED
      BY <3>1
  <2>4. \A k \in DOMAIN c : c[k].time < n + 1 /\ c[k].value = values[c[k].time + 1]
    BY <1>1
  <2>5. Lists(c, values, n + 1)
    BY <1>1, <2>3, <2>4 DEF Lists
  <2> QED
    BY <1>2, <2>5
<1>3. CASE values[n + 1] # values[n]
  <2> DEFINE e == [time |-> n, value |-> values[n + 1]]
             a == Append(c, e)
  <2>1. e \in Change /\ e.time = n /\ e.value = values[n + 1]
    BY DEF Change, Value
  <2> HIDE DEF e
  <2>2. \A k \in DOMAIN c : c[k].time < e.time
    BY <1>1, <2>1
  <2>3. InOrder(a) /\ Len(a) = Len(c) + 1 /\ DOMAIN a = 1..(Len(c) + 1)
    <3>1. InOrder(a) /\ Len(a) = Len(c) + 1
      BY <1>1, <2>1, <2>2, ReadAppended
    <3> QED
      BY <3>1, ChangeTypes
  <2>4. a[Len(c) + 1] = e /\ \A k \in 1..Len(c) : a[k] = c[k]
    BY <1>1
  <2>5. \A t \in Nat : ValueAt(a, t) = IF t < e.time THEN ValueAt(c, t) ELSE e.value
    BY <1>1, <2>1, <2>2, ReadAppended
  <2> HIDE DEF a
  <2>6. \A t \in 0..n : ValueAt(a, t) = values[t + 1]
    BY <1>1, <2>1, <2>5
  <2>7. ASSUME NEW k \in DOMAIN a PROVE a[k].time < n + 1 /\ a[k].value = values[a[k].time + 1]
    <3>1. CASE k = Len(c) + 1
      BY <2>1, <2>4, <3>1
    <3>2. CASE k # Len(c) + 1
      <4>1. k \in 1..Len(c) /\ a[k] = c[k]
        BY <1>1, <2>3, <2>4, <3>2
      <4> QED
        BY <1>1, <4>1
    <3> QED
      BY <3>1, <3>2
  <2>8. a # <<>> /\ a[1].time = 0
    <3>1. a[1] = c[1]
      BY <1>1, <2>4
    <3> QED
      BY <1>1, <2>3, <3>1, ChangeTypes
  <2>9. Lists(a, values, n + 1)
    BY <2>3, <2>6, <2>7, <2>8 DEF Lists
  <2> QED
    BY <1>3, <2>9 DEF a, e
<1> QED
  BY <1>2, <1>3

\* No change is lost: the changes of a signal give its value back at each time.
LEMMA ChangesTell ==
  ASSUME NEW values \in Seq(Value), values # <<>>
  PROVE  Lists(Changes(values), values, Len(values))
<1>1. PICK f : /\ f \in [0..Len(values) -> Seq(Change)]
               /\ f[0] = <<>> /\ Changes(values) = f[Len(values)]
               /\ \A i \in 1..Len(values) :
                    f[i] = IF i = 1 \/ values[i] # values[i - 1]
                           THEN Append(f[i - 1], [time |-> i - 1, value |-> values[i]]) ELSE f[i - 1]
  BY ChangesSteps
<1> DEFINE n == Len(values)
           T == {i \in Nat : i + 1 <= n => Lists(f[i + 1], values, i + 1)}
<1>2. n \in Nat /\ n >= 1
  OBVIOUS
<1>3. 0 \in T
  <2>1. 1 \in 1..Len(values)
    BY <1>2
  <2>2. f[1] = Append(f[1 - 1], [time |-> 1 - 1, value |-> values[1]])
    BY <1>1, <2>1
  <2>3. f[1] = Append(<<>>, [time |-> 0, value |-> values[1]])
    BY <1>1, <2>2
  <2>4. Lists(f[1], values, 1) /\ 0 + 1 = 1
    BY <1>2, <2>3, ListsOne
  <2> QED
    BY <2>4
<1>4. ASSUME NEW i \in Nat, i \in T PROVE i + 1 \in T
  <2>1. CASE i + 2 <= n
    <3>1. Lists(f[i + 1], values, i + 1)
      BY <1>4, <2>1, <1>2
    <3>2. i + 2 \in 1..Len(values) /\ i + 2 # 1 /\ (i + 2) - 1 = i + 1
      BY <2>1, <1>2
    <3>3. f[i + 2] = IF values[i + 2] # values[i + 1]
                     THEN Append(f[i + 1], [time |-> i + 1, value |-> values[i + 2]]) ELSE f[i + 1]
      BY <1>1, <3>2
    <3>4. i + 1 \in Nat \ {0} /\ i + 1 < Len(values) /\ (i + 1) + 1 = i + 2
      BY <1>2, <2>1
    <3>5. Lists(f[i + 2], values, i + 2)
      BY <3>1, <3>3, <3>4, ListsMore
    <3> QED
      BY <3>4, <3>5
  <2>2. CASE ~(i + 2 <= n)
    BY <1>2, <2>2
  <2> QED
    BY <2>1, <2>2
<1> HIDE DEF T
<1>5. n - 1 \in T
  <2>1. n - 1 \in Nat
    BY <1>2
  <2> QED
    BY <1>3, <1>4, <2>1, Induction
<1>6. n - 1 \in Nat /\ (n - 1) + 1 = n
  BY <1>2
<1> QED
  BY <1>1, <1>5, <1>6 DEF T

-----------------------------------------------------------------------------
(* Numbers and spare bits *)

\* What a text of bits counts, bit after bit.
LEMMA NumberSteps ==
  ASSUME NEW v \in Seq(Bit)
  PROVE  \E f \in [0..Len(v) -> Nat] :
           /\ f[0] = 0 /\ Number(v) = f[Len(v)]
           /\ \A i \in 1..Len(v) : f[i] = 2 * f[i - 1] + (IF v[i] = "1" THEN 1 ELSE 0)
<1> DEFINE n == Len(v)
           bit(i) == IF v[i] = "1" THEN 1 ELSE 0
           rec(f) == [i \in 0..n |-> IF i = 0 THEN 0 ELSE 2 * f[i - 1] + bit(i)]
           F == CHOOSE f : f = rec(f)
           step == [i \in 1..n |-> [x \in Nat |-> 2 * x + bit(i)]]
<1>0. n \in Nat /\ Number(v) = F[n]
  BY DEF Number, Numeral
<1>1. step \in [1..n -> [Nat -> Nat]]
  BY <1>0
<1>a. \A i \in 1..n, x \in Nat : step[i][x] = 2 * x + bit(i)
  OBVIOUS
<1> HIDE DEF step, n
<1>2. PICK f : Follows(f, Nat, 0, n, step)
  <2>1. n \in Nat /\ 0 \in Nat
    BY <1>0
  <2> QED
    BY <1>1, <2>1, Recursion, Zenon
<1> HIDE DEF bit
<1>b. f \in [0..n -> Nat] /\ f[0] = 0 /\ \A i \in 1..n : f[i] = step[i][f[i - 1]]
  BY <1>2 DEF Follows
<1>3. ASSUME NEW i \in 1..n PROVE f[i] = 2 * f[i - 1] + bit(i)
  <2>1. f[i - 1] \in Nat
    BY <1>0, <1>b
  <2> QED
    BY <1>b, <1>a, <2>1
<1>4. f = rec(f)
  BY <1>0, <1>b, <1>3
<1>5. F = rec(F)
  BY <1>4
<1> HIDE DEF F
<1>6. F = f
  <2>1. DOMAIN F = 0..n /\ F[0] = 0 /\ \A i \in 1..n : F[i] = 2 * F[i - 1] + bit(i)
    BY <1>0, <1>5
  <2>2. \A i \in 1..n : F[i - 1] \in Nat => F[i] = step[i][F[i - 1]]
    BY <1>a, <2>1
  <2>3. F = [i \in 0..n |-> F[i]]
    BY <1>5
  <2>4. n \in Nat /\ Obeys(F, Nat, 0, n, step)
    BY <1>0, <2>1, <2>2, <2>3 DEF Obeys
  <2> QED
    BY <1>2, <2>4, OneRecursion, Zenon
<1> QED
  BY <1>0, <1>b, <1>3, <1>6 DEF n, bit

\* What is cut off a value: its first m - 1 bits, all of them spare, and no other is.
LEMMA ShortenedAt ==
  ASSUME NEW v \in Value
  PROVE  \E m \in 1..Len(v) :
           /\ Shortened(v) = SubSeq(v, m, Len(v))
           /\ \A j \in 1..(m - 1) : Spare(v, j)
           /\ m < Len(v) => ~Spare(v, m)
<1> DEFINE n == Len(v)
           S == {i \in DOMAIN v : \A j \in 1..(i - 1) : Spare(v, j)}
           m == Max(S)
<1>1. n \in Nat /\ n >= 1 /\ DOMAIN v = 1..n
  BY DEF Value
<1>2. 1 \in S /\ S \in SUBSET (0..n)
  BY <1>1
<1>3. m \in S /\ \A i \in S : i <= m
  <2> HIDE DEF S
  <2> QED
    BY <1>1, <1>2, GreatestOf
<1>4. Shortened(v) = SubSeq(v, m, Len(v))
  BY DEF Shortened
<1>5. m \in 1..n /\ \A j \in 1..(m - 1) : Spare(v, j)
  BY <1>1, <1>3
<1> HIDE DEF m
<1>6. ASSUME m < n, Spare(v, m) PROVE FALSE
  <2>1. m + 1 \in DOMAIN v
    BY <1>1, <1>5, <1>6
  <2>2. \A j \in 1..((m + 1) - 1) : Spare(v, j)
    <3>1. ASSUME NEW j \in 1..((m + 1) - 1) PROVE Spare(v, j)
      <4>1. j = m \/ j \in 1..(m - 1)
        BY <1>1, <1>5
      <4> QED
        BY <1>5, <1>6, <4>1
    <3> QED
      BY <3>1
  <2>3. m + 1 \in S
    BY <2>1, <2>2
  <2> QED
    BY <1>1, <1>3, <1>5, <2>3
<1> QED
  BY <1>1, <1>4, <1>5, <1>6

\* The rest of a value from its m-th bit on.
LEMMA RestOf ==
  ASSUME NEW v \in Value, NEW m \in 1..Len(v)
  PROVE  /\ SubSeq(v, m, Len(v)) \in Value
         /\ Len(SubSeq(v, m, Len(v))) = Len(v) - m + 1
         /\ \A i \in 1..(Len(v) - m + 1) : SubSeq(v, m, Len(v))[i] = v[m + i - 1]
<1> DEFINE w == SubSeq(v, m, Len(v))
<1>1. v \in Seq(Bit) /\ Len(v) \in Nat /\ m \in Nat /\ m >= 1 /\ m <= Len(v)
  BY DEF Value
<1>2. Len(w) = Len(v) - m + 1 /\ \A i \in 1..(Len(v) - m + 1) : w[i] = v[m + i - 1]
  BY <1>1
<1>3. w \in Seq(Bit)
  BY <1>1
<1> HIDE DEF w
<1>4. w # <<>>
  <2>1. Len(w) >= 1 /\ Len(<<>>) = 0
    BY <1>1, <1>2
  <2> QED
    BY <2>1
<1>5. w \in Value
  BY <1>3, <1>4 DEF Value
<1> QED
  BY <1>2, <1>5 DEF w

\* Something is left of a value, and nothing more is cut off it.
LEMMA ShortenedValue == ASSUME NEW v \in Value PROVE Shortened(v) \in Value
BY ShortenedAt, RestOf

LEMMA ShortenedTwice == ASSUME NEW v \in Value PROVE Shortened(Shortened(v)) = Shortened(v)
<1> DEFINE w == Shortened(v)
           n == Len(v)
<1>0. PICK m \in 1..n :
        /\ w = SubSeq(v, m, n) /\ \A j \in 1..(m - 1) : Spare(v, j)
        /\ m < n => ~Spare(v, m)
  BY ShortenedAt
<1>1. w \in Value /\ Len(w) = n - m + 1 /\ \A i \in 1..(n - m + 1) : w[i] = v[m + i - 1]
  BY <1>0, RestOf
<1>n. n \in Nat /\ n >= 1
  BY DEF Value
<1> HIDE DEF w, n
<1>2. PICK k \in 1..Len(w) :
        /\ Shortened(w) = SubSeq(w, k, Len(w)) /\ \A j \in 1..(k - 1) : Spare(w, j)
  BY <1>1, ShortenedAt
<1>3. k = 1
  <2> SUFFICES ASSUME k # 1 PROVE FALSE
    OBVIOUS
  <2>1. Spare(w, 1) /\ Len(w) >= 2
    BY <1>1, <1>2, <1>n
  <2>2. w[1] = v[m] /\ w[1 + 1] = v[m + 1] /\ m < n
    <3>1. n - m + 1 >= 2 /\ 1 \in 1..(n - m + 1) /\ 2 \in 1..(n - m + 1)
      BY <1>1, <1>n, <2>1
    <3>2. w[1] = v[m + 1 - 1] /\ w[2] = v[m + 2 - 1]
      BY <1>1, <3>1
    <3>3. m + 1 - 1 = m /\ m + 2 - 1 = m + 1 /\ 1 + 1 = 2
      BY <1>n
    <3> QED
      BY <1>n, <3>1, <3>2, <3>3
  <2>3. Spare(v, m)
    BY <2>1, <2>2 DEF Spare
  <2> QED
    BY <1>0, <2>2, <2>3
<1>4. SubSeq(w, 1, Len(w)) = w
  <2>1. w \in Seq(Bit)
    BY <1>1 DEF Value
  <2> QED
    BY <2>1
<1> QED
  BY <1>2, <1>3, <1>4 DEF w

\* An unknown bit that is spare is followed by one.
LEMMA ShortenedKnown == ASSUME NEW v \in Value PROVE HasX(Shortened(v)) <=> HasX(v)
<1> DEFINE n == Len(v)
           w == Shortened(v)
<1>0. PICK m \in 1..n : w = SubSeq(v, m, n) /\ \A j \in 1..(m - 1) : Spare(v, j)
  BY ShortenedAt
<1>1. w \in Value /\ Len(w) = n - m + 1 /\ \A i \in 1..(n - m + 1) : w[i] = v[m + i - 1]
  BY <1>0, RestOf
<1>2. /\ n \in Nat /\ n >= 1 /\ DOMAIN v = 1..n /\ DOMAIN w = 1..(n - m + 1)
  BY <1>1 DEF Value
<1> HIDE DEF w, n
<1>3. ASSUME HasX(w) PROVE HasX(v)
  <2>1. PICK i \in 1..(n - m + 1) : w[i] = "x"
    BY <1>2, <1>3 DEF HasX
  <2>2. m + i - 1 \in 1..n /\ v[m + i - 1] = "x"
    BY <1>1, <1>2, <2>1
  <2> QED
    BY <1>2, <2>2 DEF HasX
<1>4. ASSUME HasX(v) PROVE HasX(w)
  <2> DEFINE X == {k \in 1..n : v[k] = "x"}
  <2>1. X # {} /\ X \in SUBSET (0..n)
    BY <1>2, <1>4 DEF HasX
  <2>2. PICK k \in X : \A y \in X : y <= k
    <3> HIDE DEF X
    <3> QED
      BY <1>2, <2>1, GreatestOf
  <2>3. k >= m
    <3> SUFFICES ASSUME k < m PROVE FALSE
      BY <1>2, <2>2
    <3>1. k \in 1..(m - 1) /\ k + 1 \in 1..n /\ v[k] = "x"
      BY <1>2, <2>2
    <3>2. v[k + 1] = "x"
      BY <1>0, <3>1 DEF Spare
    <3>3. k + 1 \in X
      BY <3>1, <3>2
    <3> QED
      BY <1>2, <2>2, <3>3
  <2>4. k - m + 1 \in 1..(n - m + 1) /\ m + (k - m + 1) - 1 = k
    BY <1>2, <2>2, <2>3
  <2>5. w[k - m + 1] = "x"
    BY <1>1, <2>2, <2>4
  <2> QED
    BY <1>2, <2>4, <2>5 DEF HasX
<1> QED
  BY <1>3, <1>4 DEF w

\* The spare bits of a known value are zeros, and count nothing.
LEMMA ShortenedCounts == ASSUME NEW v \in Value, ~HasX(v) PROVE Number(Shortened(v)) = Number(v)
<1> DEFINE n == Len(v)
           w == Shortened(v)
           bit(u, i) == IF u[i] = "1" THEN 1 ELSE 0
<1>0. PICK m \in 1..n : w = SubSeq(v, m, n) /\ \A j \in 1..(m - 1) : Spare(v, j)
  BY ShortenedAt
<1>1. w \in Value /\ Len(w) = n - m + 1 /\ \A i \in 1..(n - m + 1) : w[i] = v[m + i - 1]
  BY <1>0, RestOf
<1>2. n \in Nat /\ n >= 1 /\ v \in Seq(Bit) /\ w \in Seq(Bit)
  BY <1>1 DEF Value
<1>3. PICK f \in [0..n -> Nat] :
        f[0] = 0 /\ Number(v) = f[n] /\ \A i \in 1..n : f[i] = 2 * f[i - 1] + bit(v, i)
  BY <1>2, NumberSteps
<1>4. PICK g \in [0..(n - m + 1) -> Nat] :
        g[0] = 0 /\ Number(w) = g[n - m + 1] /\ \A i \in 1..(n - m + 1) : g[i] = 2 * g[i - 1] + bit(w, i)
  <2> HIDE DEF w, n
  <2>1. PICK h \in [0..Len(w) -> Nat] :
        h[0] = 0 /\ Number(w) = h[Len(w)] /\ \A i \in 1..Len(w) : h[i] = 2 * h[i - 1] + bit(w, i)
    BY <1>2, NumberSteps
  <2> QED
    BY <1>1, <2>1
<1> HIDE DEF w, n
<1> DEFINE Z == {i \in Nat : i <= m - 1 => f[i] = 0}
<1>5. \A i \in 0..(m - 1) : f[i] = 0
  <2>1. 0 \in Z
    BY <1>3
  <2>2. ASSUME NEW i \in Nat, i \in Z PROVE i + 1 \in Z
    <3>1. CASE i + 1 <= m - 1
      <4>1. i + 1 \in 1..(m - 1) /\ i + 1 \in 1..n /\ (i + 1) - 1 = i /\ f[i] = 0
        BY <1>2, <2>2, <3>1
      <4>2. bit(v, i + 1) = 0
        BY <1>0, <4>1 DEF Spare
      <4>3. f[i + 1] = 2 * f[i] + bit(v, i + 1)
        BY <1>3, <4>1
      <4> QED
        BY <4>1, <4>2, <4>3
    <3> QED
      BY <1>2, <3>1
  <2> HIDE DEF Z
  <2>3. Nat \subseteq Z
    BY <2>1, <2>2, Induction
  <2> QED
    BY <2>3 DEF Z
<1> DEFINE T == {i \in Nat : i <= n - m + 1 => g[i] = f[m - 1 + i]}
<1>6. 0 \in T
  <2>1. m - 1 \in 0..(m - 1) /\ m - 1 + 0 = m - 1
    BY <1>2
  <2> QED
    BY <1>4, <1>5, <2>1
<1>7. ASSUME NEW i \in Nat, i \in T PROVE i + 1 \in T
  <2>1. CASE i + 1 <= n - m + 1
    <3>1. /\ i + 1 \in 1..(n - m + 1) /\ m + i \in 1..n /\ (i + 1) - 1 = i /\ m + (i + 1) - 1 = m + i
          /\ m - 1 + (i + 1) = m + i /\ (m + i) - 1 = m - 1 + i
      BY <1>2, <2>1
    <3>2. g[i] = f[m - 1 + i]
      BY <1>2, <1>7, <2>1
    <3>3. g[i + 1] = 2 * g[i] + bit(w, i + 1)
      BY <1>4, <3>1
    <3>4. f[m + i] = 2 * f[m - 1 + i] + bit(v, m + i)
      BY <1>3, <3>1
    <3>5. bit(w, i + 1) = bit(v, m + i)
      BY <1>1, <3>1
    <3> HIDE DEF bit
    <3>6. g[i + 1] = f[m - 1 + (i + 1)]
      BY <3>1, <3>2, <3>3, <3>4, <3>5
    <3> QED
      BY <3>6
  <2> QED
    BY <1>2, <2>1
<1> HIDE DEF T, Z
<1>8. n - m + 1 \in T
  <2>1. n - m + 1 \in Nat
    BY <1>2
  <2> QED
    BY <1>6, <1>7, <2>1, Induction
<1>9. m - 1 + (n - m + 1) = n /\ n - m + 1 \in Nat
  BY <1>2
<1>10. g[n - m + 1] = f[n]
  BY <1>8, <1>9 DEF T
<1> QED
  BY <1>3, <1>4, <1>10 DEF w

\* Known values of one width that count the same are the same.
LEMMA NumbersTellValues ==
  ASSUME NEW v \in Seq(Bit), NEW w \in Seq(Bit), Len(v) = Len(w), ~HasX(v), ~HasX(w), Number(v) = Number(w)
  PROVE  v = w
<1> DEFINE n == Len(v)
           bit(u, i) == IF u[i] = "1" THEN 1 ELSE 0
<1>1. n \in Nat /\ \A i \in 1..n : v[i] \in {"0", "1"} /\ w[i] \in {"0", "1"}
  BY DEF HasX, Bit
<1>2. PICK f \in [0..n -> Nat] : Number(v) = f[n] /\ \A i \in 1..n : f[i] = 2 * f[i - 1] + bit(v, i)
  BY NumberSteps
<1>3. PICK g \in [0..n -> Nat] : Number(w) = g[n] /\ \A i \in 1..n : g[i] = 2 * g[i - 1] + bit(w, i)
  BY NumberSteps
<1> HIDE DEF n
<1> DEFINE T == {i \in Nat : i <= n => (f[i] = g[i] => \A j \in 1..i : v[j] = w[j])}
<1>4. 0 \in T
  OBVIOUS
<1>5. ASSUME NEW i \in Nat, i \in T PROVE i + 1 \in T
  <2> SUFFICES ASSUME i + 1 <= n, f[i + 1] = g[i + 1], NEW j \in 1..(i + 1) PROVE v[j] = w[j]
    OBVIOUS
  <2>1. i + 1 \in 1..n /\ (i + 1) - 1 = i /\ i \in 0..n
    BY <1>1
  <2>2. f[i + 1] = 2 * f[i] + bit(v, i + 1) /\ g[i + 1] = 2 * g[i] + bit(w, i + 1)
    BY <1>2, <1>3, <2>1
  <2>3. bit(v, i + 1) \in {0, 1} /\ bit(w, i + 1) \in {0, 1} /\ f[i] \in Nat /\ g[i] \in Nat
    BY <2>1
  <2>4. f[i] = g[i] /\ bit(v, i + 1) = bit(w, i + 1)
    <3> HIDE DEF bit
    <3>1. f[i + 1] = g[i + 1] /\ f[i] \in Nat /\ g[i] \in Nat
      BY <2>3
    <3>2. \A a, b \in Nat, x, y \in {0, 1} : 2 * a + x = 2 * b + y => a = b /\ x = y
      OBVIOUS
    <3>3. 2 * f[i] + bit(v, i + 1) = 2 * g[i] + bit(w, i + 1)
      BY <2>2, <3>1
    <3> QED
      BY <2>3, <3>2, <3>3
  <2>5. v[i + 1] = w[i + 1]
    BY <1>1, <2>1, <2>4
  <2>6. CASE j = i + 1
    BY <2>5, <2>6
  <2>7. CASE j # i + 1
    <3>1. j \in 1..i /\ i <= n
      BY <1>1, <2>7
    <3> QED
      BY <1>5, <2>4, <3>1
  <2> QED
    BY <2>6, <2>7
<1> HIDE DEF T
<1>6. n \in T
  BY <1>1, <1>4, <1>5, Induction
<1>7. \A j \in 1..n : v[j] = w[j]
  <2>1. f[n] = g[n]
    BY <1>2, <1>3
  <2> QED
    BY <1>1, <1>6, <2>1 DEF T
<1> QED
  BY <1>7 DEF n

\* A value that is asked for bit by bit is found equal exactly to itself, with
\* unknown bits or without: compareLogicValue tells the values of a signal apart.
THEOREM LogicEqualTellsValues ==
  ASSUME NEW v \in Seq(Bit), NEW w \in Seq(Bit), Len(v) = Len(w),
         NEW e, e = [form |-> "bits", bits |-> w]
  PROVE  LogicEqual(v, e) <=> v = w
<1>0. e.form = "bits" /\ Text(e) = w
  BY DEF Text
<1>1. CASE HasX(v) \/ HasX(w)
  BY <1>0, <1>1 DEF LogicEqual
<1>2. CASE ~HasX(v) /\ ~HasX(w)
  <2>1. LogicEqual(v, e) <=> Number(v) = Number(w)
    BY <1>0, <1>2 DEF LogicEqual
  <2>2. Number(v) = Number(w) => v = w
    BY <1>2, NumbersTellValues
  <2> QED
    BY <2>1, <2>2
<1> QED
  BY <1>1, <1>2

\* Nothing is lost with the spare bits: values of one width that are written alike
\* are the same, so that a picture leaves no doubt about what it shows.
THEOREM ShortenedTellsValues ==
  ASSUME NEW v \in Value, NEW w \in Value, Len(v) = Len(w), Shortened(v) = Shortened(w)
  PROVE  v = w
<1> DEFINE n == Len(v)
<1>1. n \in Nat /\ n >= 1 /\ n = Len(w) /\ \A i \in 1..n : v[i] \in Bit /\ w[i] \in Bit
  BY DEF Value
<1>2. PICK m \in 1..n : Shortened(v) = SubSeq(v, m, n) /\ \A j \in 1..(m - 1) : Spare(v, j)
  BY ShortenedAt
<1>3. PICK k \in 1..n : Shortened(w) = SubSeq(w, k, n) /\ \A j \in 1..(k - 1) : Spare(w, j)
  BY <1>1, ShortenedAt
<1>4. /\ Len(SubSeq(v, m, n)) = n - m + 1 /\ \A i \in 1..(n - m + 1) : SubSeq(v, m, n)[i] = v[m + i - 1]
      /\ Len(SubSeq(w, k, n)) = n - k + 1 /\ \A i \in 1..(n - k + 1) : SubSeq(w, k, n)[i] = w[k + i - 1]
  BY <1>1, RestOf
<1>5. k = m
  <2>1. Len(SubSeq(v, m, n)) = Len(SubSeq(w, k, n))
    BY <1>2, <1>3
  <2> HIDE DEF n
  <2> QED
    BY <1>1, <1>4, <2>1
<1> HIDE DEF n
<1>6. ASSUME NEW i \in m..n PROVE v[i] = w[i]
  <2>1. i - m + 1 \in 1..(n - m + 1) /\ m + (i - m + 1) - 1 = i
    BY <1>1
  <2>2. SubSeq(v, m, n)[i - m + 1] = SubSeq(w, m, n)[i - m + 1]
    BY <1>2, <1>3, <1>5
  <2> QED
    BY <1>4, <1>5, <2>1, <2>2
<1> DEFINE T == {d \in Nat : d < m => v[m - d] = w[m - d]}
<1>7. 0 \in T
  BY <1>1, <1>6
<1>8. ASSUME NEW d \in Nat, d \in T PROVE d + 1 \in T
  <2> DEFINE j == m - (d + 1)
  <2>1. CASE d + 1 < m
    <3>1. j \in 1..(m - 1) /\ j \in 1..n /\ j + 1 \in 1..n /\ j + 1 = m - d /\ d < m
      BY <1>1, <2>1
    <3> HIDE DEF j
    <3>2. Spare(v, j) /\ Spare(w, j) /\ v[j + 1] = w[j + 1]
      BY <1>2, <1>3, <1>5, <1>8, <3>1
    <3>3. v[j] \in Bit /\ w[j] \in Bit
      BY <1>1, <3>1
    <3>4. v[j] = w[j]
      BY <3>2, <3>3 DEF Spare, Bit
    <3> QED
      BY <3>4 DEF j
  <2> QED
    BY <2>1
<1> HIDE DEF T
<1>9. Nat \subseteq T
  BY <1>7, <1>8, Induction
<1>10. ASSUME NEW i \in 1..n PROVE v[i] = w[i]
  <2>1. CASE i >= m
    BY <1>1, <1>6, <2>1
  <2>2. CASE i < m
    <3>1. m - i \in Nat /\ m - i < m /\ m - (m - i) = i
      BY <1>1, <2>2
    <3> QED
      BY <1>9, <3>1 DEF T
  <2> QED
    BY <1>1, <2>1, <2>2
<1>11. v = [i \in 1..n |-> v[i]] /\ w = [i \in 1..n |-> w[i]]
  BY <1>1 DEF n, Value
<1> QED
  BY <1>10, <1>11

-----------------------------------------------------------------------------
(* Pictures *)

\* A trace has a value at each of its times.
LEMMA TraceTypes ==
  ASSUME NEW values, IsTrace(values)
  PROVE  /\ values \in Seq(Value) /\ Len(values) \in Nat /\ Len(values) >= 1 /\ DOMAIN values = 1..Len(values)
         /\ Len(values[1]) \in Nat /\ Len(values[1]) >= 1
         /\ \A i \in 1..Len(values) :
              values[i] \in Value /\ values[i] \in [1..Len(values[1]) -> Bit] /\ Len(values[i]) = Len(values[1])
<1>1. /\ values \in Seq(Seq(Bit)) /\ Len(values) \in Nat /\ Len(values) >= 1 /\ DOMAIN values = 1..Len(values)
      /\ values[1] \in Seq(Bit) /\ Len(values[1]) \in Nat /\ Len(values[1]) >= 1
      /\ \A i \in 1..Len(values) : Len(values[i]) = Len(values[1])
  BY DEF IsTrace
<1>2. ASSUME NEW i \in 1..Len(values)
      PROVE  values[i] \in Value /\ values[i] \in [1..Len(values[1]) -> Bit]
  <2>1. values[i] \in Seq(Bit) /\ Len(values[i]) = Len(values[1])
    BY <1>1
  <2>2. values[i] # <<>>
    BY <1>1, <2>1
  <2>3. values[i] \in [1..Len(values[1]) -> Bit]
    BY <2>1
  <2> QED
    BY <2>1, <2>2, <2>3 DEF Value
<1>3. values \in Seq(Value)
  <2>1. \A i \in 1..Len(values) : values[i] \in Value
    BY <1>2
  <2> QED
    BY <1>1, <2>1
<1> QED
  BY <1>1, <1>2, <1>3

\* c tells what values are at each time, but for spare bits.
Tells(c, values) ==
  /\ InOrder(c) /\ \A k \in DOMAIN c : c[k].time <= Len(values) - 1
  /\ \A t \in 0..(Len(values) - 1) : ValueAt(c, t) # <<>> /\ Shortened(ValueAt(c, t)) = Shortened(values[t + 1])

\* The list of the values themselves.
LEMMA ListsTell ==
  ASSUME NEW values, IsTrace(values), NEW c, Lists(c, values, Len(values))
  PROVE  Tells(c, values)
<1>1. /\ Len(values) \in Nat /\ Len(values) >= 1 /\ \A i \in 1..Len(values) : values[i] # <<>>
  BY TraceTypes DEF Value
<1>2. /\ \A k \in DOMAIN c : c[k].time \in Nat /\ c[k].time < Len(values)
      /\ \A t \in 0..(Len(values) - 1) : ValueAt(c, t) = values[t + 1]
      /\ InOrder(c)
  BY ChangeTypes DEF Lists
<1>3. \A k \in DOMAIN c : c[k].time <= Len(values) - 1
  BY <1>1, <1>2
<1>4. \A t \in 0..(Len(values) - 1) : t + 1 \in 1..Len(values)
  BY <1>1
<1> QED
  BY <1>1, <1>2, <1>3, <1>4 DEF Tells

\* A vector.
LEMMA VectorTells ==
  ASSUME NEW values, IsTrace(values)
  PROVE  LET short == [i \in DOMAIN values |-> Shortened(values[i])] IN
         /\ Parsed(values, FALSE) = <<Changes(short)>>
         /\ short \in Seq(Value) /\ Len(short) = Len(values)
         /\ Lists(Changes(short), short, Len(values)) /\ Tells(Changes(short), values)
<1> DEFINE short == [i \in DOMAIN values |-> Shortened(values[i])]
           n == Len(values)
           c == Changes(short)
<1>1. n \in Nat /\ n >= 1 /\ DOMAIN values = 1..n /\ \A i \in 1..n : values[i] \in Value
  BY TraceTypes
<1>2. \A i \in 1..n : Shortened(values[i]) \in Value
  BY <1>1, ShortenedValue
<1>3. Parsed(values, FALSE) = <<c>>
  BY DEF Parsed
<1>4. short \in Seq(Value) /\ Len(short) = n /\ short # <<>> /\ \A i \in 1..n : short[i] = Shortened(values[i])
  <2> HIDE DEF n
  <2>1. short \in [1..n -> Value] /\ DOMAIN short = 1..n
    BY <1>1, <1>2
  <2>2. short \in Seq(Value) /\ Len(short) = n
    BY <1>1, <2>1
  <2> QED
    BY <1>1, <2>2
<1> HIDE DEF short
<1>5. Lists(c, short, n)
  BY <1>4, ChangesTell
<1> HIDE DEF c, n
<1>6. /\ \A k \in DOMAIN c : c[k].time \in Nat /\ c[k].time < n
      /\ \A t \in 0..(n - 1) : ValueAt(c, t) = short[t + 1]
      /\ InOrder(c)
  BY <1>5, ChangeTypes DEF Lists
<1>7. \A k \in DOMAIN c : c[k].time <= n - 1
  BY <1>1, <1>6
<1>8. ASSUME NEW t \in 0..(n - 1)
      PROVE  ValueAt(c, t) # <<>> /\ Shortened(ValueAt(c, t)) = Shortened(values[t + 1])
  <2>1. t + 1 \in 1..n
    BY <1>1
  <2>2. ValueAt(c, t) = Shortened(values[t + 1]) /\ Shortened(values[t + 1]) \in Value
    BY <1>2, <1>4, <1>6, <2>1
  <2> QED
    BY <1>1, <2>1, <2>2, ShortenedTwice DEF Value
<1>9. Tells(c, values)
  BY <1>6, <1>7, <1>8 DEF Tells, n
<1> QED
  BY <1>3, <1>4, <1>5, <1>9 DEF short, n, c

\* The bits of a bus, each a signal of its own.
LEMMA BitsTell ==
  ASSUME NEW values, IsTrace(values)
  PROVE  LET bits == Parsed(values, TRUE)  w == Len(values[1]) IN
         /\ bits \in Seq(Seq(Change)) /\ Len(bits) = w
         /\ \A b \in 1..w : /\ Lists(bits[b], [i \in 1..Len(values) |-> <<values[i][b]>>], Len(values))
                            /\ \A t \in 0..(Len(values) - 1) : ValueAt(bits[b], t) = <<values[t + 1][b]>>
<1> DEFINE n == Len(values)
           w == Len(values[1])
           bit(b) == [i \in 1..n |-> <<values[i][b]>>]
           bits == Parsed(values, TRUE)
<1>1. /\ n \in Nat /\ n >= 1 /\ DOMAIN values = 1..n /\ w \in Nat /\ w >= 1
      /\ \A i \in 1..n : values[i] \in [1..w -> Bit]
  BY TraceTypes
<1>2. DOMAIN values[1] = 1..w
  <2>1. values[1] \in [1..w -> Bit]
    BY <1>1
  <2> QED
    BY <2>1
<1>3. bits = [b \in 1..w |-> Changes(bit(b))]
  BY <1>1, <1>2 DEF Parsed
<1> HIDE DEF bits, n, w
<1>4. ASSUME NEW b \in 1..w PROVE Lists(Changes(bit(b)), bit(b), n)
  <2>1. \A i \in 1..n : <<values[i][b]>> \in Value
    <3>1. ASSUME NEW i \in 1..n PROVE <<values[i][b]>> \in Value
      <4>1. values[i][b] \in Bit
        BY <1>1
      <4> QED
        BY <4>1 DEF Value
    <3> QED
      BY <3>1
  <2>2. bit(b) \in Seq(Value) /\ Len(bit(b)) = n /\ bit(b) # <<>>
    <3>1. bit(b) \in [1..n -> Value]
      BY <2>1
    <3>2. bit(b) \in Seq(Value) /\ Len(bit(b)) = n
      BY <1>1, <3>1
    <3>3. bit(b) # <<>>
      <4> HIDE DEF bit
      <4> QED
        BY <1>1, <3>2
    <3> QED
      BY <3>2, <3>3
  <2> QED
    BY <2>2, ChangesTell
<1>5. ASSUME NEW b \in 1..w PROVE /\ bits[b] \in Seq(Change) /\ Lists(bits[b], bit(b), n)
                                  /\ \A t \in 0..(n - 1) : ValueAt(bits[b], t) = <<values[t + 1][b]>>
  <2>1. bits[b] = Changes(bit(b))
    BY <1>3
  <2>2. Lists(bits[b], bit(b), n)
    BY <1>4, <2>1
  <2>3. bits[b] \in Seq(Change)
    BY <2>2 DEF Lists, InOrder
  <2>4. ASSUME NEW t \in 0..(n - 1) PROVE ValueAt(bits[b], t) = <<values[t + 1][b]>>
    <3>1. ValueAt(bits[b], t) = bit(b)[t + 1]
      BY <2>2 DEF Lists
    <3>2. t + 1 \in 1..n
      BY <1>1
    <3> QED
      BY <3>1, <3>2
  <2> QED
    BY <2>2, <2>3, <2>4
<1>6. bits \in Seq(Seq(Change)) /\ Len(bits) = w
  <2>1. DOMAIN bits = 1..w /\ bits \in [1..w -> Seq(Change)]
    BY <1>3, <1>5
  <2> QED
    BY <1>1, <2>1
<1> QED
  BY <1>5, <1>6 DEF bits, n, w

\* The first bit of a bus is a signal of its own.
LEMMA FirstBitLists ==
  ASSUME NEW values, IsTrace(values)
  PROVE  /\ IsTrace(FirstBit(values)) /\ Len(FirstBit(values)) = Len(values)
         /\ Lists(Parsed(values, TRUE)[1], FirstBit(values), Len(values))
<1> DEFINE n == Len(values)
           ones == [i \in 1..n |-> <<values[i][1]>>]
<1>1. /\ n \in Nat /\ n >= 1 /\ DOMAIN values = 1..n /\ 1 \in 1..Len(values[1])
      /\ \A i \in 1..n : values[i] \in [1..Len(values[1]) -> Bit]
  BY TraceTypes
<1>2. FirstBit(values) = ones
  BY <1>1 DEF FirstBit
<1>3. Lists(Parsed(values, TRUE)[1], ones, n)
  BY <1>1, BitsTell
<1>4. \A i \in 1..n : ones[i] \in Seq(Bit) /\ Len(ones[i]) = 1 /\ ones[i] # <<>>
  <2>1. \A i \in 1..n : values[i][1] \in Bit
    BY <1>1
  <2> HIDE DEF n
  <2> QED
    BY <2>1
<1> HIDE DEF n
<1>5. ones \in Seq(Seq(Bit)) /\ Len(ones) = n /\ DOMAIN ones = 1..n
  <2>1. ones \in [1..n -> Seq(Bit)]
    BY <1>4
  <2> QED
    BY <1>1, <2>1
<1> HIDE DEF ones
<1>6. IsTrace(ones)
  <2>1. 1 \in 1..n /\ ones # <<>>
    BY <1>1, <1>5
  <2> QED
    BY <1>4, <1>5, <2>1 DEF IsTrace
<1> QED
  BY <1>2, <1>3, <1>5, <1>6 DEF n

\* A bus put together again.
LEMMA CombinedTells ==
  ASSUME NEW values, IsTrace(values)
  PROVE  Tells(Combined(Parsed(values, TRUE)), values)
<1> DEFINE n == Len(values)
           w == Len(values[1])
           bits == Parsed(values, TRUE)
           times == {0} \union UNION {{bits[b][i].time : i \in DOMAIN bits[b]} : b \in DOMAIN bits}
           At(t) == [b \in DOMAIN bits |-> LET v == ValueAt(bits[b], t) IN IF v = <<>> THEN "x" ELSE v[1]]
           last == Max(times)
           bus == [i \in 1..(last + 1) |-> At(i - 1)]
           c == Changes(bus)
<1>1. /\ n \in Nat /\ n >= 1 /\ w \in Nat /\ w >= 1
      /\ \A i \in 1..n : values[i] \in Value /\ values[i] \in [1..w -> Bit]
  BY TraceTypes
<1>2. /\ bits \in Seq(Seq(Change)) /\ Len(bits) = w
      /\ \A b \in 1..w : /\ Lists(bits[b], [i \in 1..n |-> <<values[i][b]>>], n)
                         /\ \A t \in 0..(n - 1) : ValueAt(bits[b], t) = <<values[t + 1][b]>>
  BY BitsTell
<1>3. Combined(bits) = c
  BY DEF Combined
<1> HIDE DEF n, w, bits
<1>4. DOMAIN bits = 1..w
  BY <1>1, <1>2
<1>5. ASSUME NEW b \in 1..w, NEW i \in DOMAIN bits[b] PROVE bits[b][i].time \in 0..(n - 1)
  <2>1. bits[b][i].time \in Nat /\ bits[b][i].time < n
    BY <1>2, ChangeTypes DEF Lists
  <2> QED
    BY <1>1, <2>1
<1>6. last \in 0..(n - 1) /\ \A s \in times : s <= last
  <2>1. times \in SUBSET (0..(n - 1)) /\ 0 \in times
    BY <1>1, <1>4, <1>5
  <2> HIDE DEF times
  <2>2. n - 1 \in Nat /\ times # {}
    BY <1>1, <2>1
  <2>3. last \in times /\ \A s \in times : s <= last
    BY <2>1, <2>2, GreatestOf
  <2> QED
    BY <2>1, <2>3
<1>7. ASSUME NEW b \in 1..w, NEW i \in DOMAIN bits[b] PROVE bits[b][i].time <= last
  <2>1. bits[b][i].time \in times
    BY <1>4
  <2> QED
    BY <1>6, <2>1
<1> HIDE DEF last, times
<1>8. ASSUME NEW t \in 0..(n - 1) PROVE At(t) = values[t + 1]
  <2>1. t + 1 \in 1..n
    BY <1>1
  <2>2. ASSUME NEW b \in 1..w PROVE At(t)[b] = values[t + 1][b]
    <3>1. ValueAt(bits[b], t) = <<values[t + 1][b]>>
      BY <1>2
    <3>2. At(t)[b] = (LET v == ValueAt(bits[b], t) IN IF v = <<>> THEN "x" ELSE v[1])
      BY <1>4
    <3> HIDE DEF At
    <3> QED
      BY <3>1, <3>2
  <2>3. DOMAIN At(t) = 1..w
    BY <1>4
  <2> HIDE DEF At
  <2>4. values[t + 1] \in [1..w -> Bit] /\ At(t) = [b \in 1..w |-> At(t)[b]]
    BY <1>1, <1>4, <2>1 DEF At
  <2> QED
    BY <2>2, <2>4
<1>9. ASSUME NEW t \in last..(n - 1) PROVE values[t + 1] = values[last + 1]
  <2>1. t \in Nat /\ last \in Nat /\ last <= t /\ t \in 0..(n - 1) /\ t + 1 \in 1..n /\ last + 1 \in 1..n
    BY <1>1, <1>6
  <2>2. ASSUME NEW b \in 1..w PROVE values[t + 1][b] = values[last + 1][b]
    <3>1. \A k \in DOMAIN bits[b] : bits[b][k].time \in Nat /\ bits[b][k].time <= last
      BY <1>5, <1>7
    <3>2. ValueAt(bits[b], t) = ValueAt(bits[b], last)
      BY <2>1, <3>1, ReadAfter
    <3>3. ValueAt(bits[b], t) = <<values[t + 1][b]>> /\ ValueAt(bits[b], last) = <<values[last + 1][b]>>
      BY <1>2, <1>6, <2>1
    <3>4. <<values[t + 1][b]>> = <<values[last + 1][b]>>
      BY ONLY <3>2, <3>3
    <3> QED
      BY ONLY <3>4
  <2>3. values[t + 1] \in [1..w -> Bit] /\ values[last + 1] \in [1..w -> Bit]
    BY <1>1, <2>1
  <2>4. /\ values[t + 1] = [b \in 1..w |-> values[t + 1][b]]
        /\ values[last + 1] = [b \in 1..w |-> values[last + 1][b]]
    BY <2>3
  <2>5. [b \in 1..w |-> values[t + 1][b]] = [b \in 1..w |-> values[last + 1][b]]
    BY <2>2, Zenon
  <2> QED
    BY <2>4, <2>5
<1> HIDE DEF At
<1>10. \A i \in 1..(last + 1) : i - 1 \in 0..(n - 1) /\ bus[i] = values[i]
  <2>1. ASSUME NEW i \in 1..(last + 1) PROVE i - 1 \in 0..(n - 1) /\ bus[i] = values[i]
    <3>1. i - 1 \in 0..(n - 1) /\ (i - 1) + 1 = i
      BY <1>1, <1>6
    <3> QED
      BY <1>8, <3>1
  <2> QED
    BY <2>1
<1>11. bus \in Seq(Value) /\ Len(bus) = last + 1 /\ bus # <<>>
  <2>0. last \in Nat /\ last + 1 <= n
    BY <1>1, <1>6
  <2>1. last \in Nat /\ \A i \in 1..(last + 1) : bus[i] \in Value
    <3>1. ASSUME NEW i \in 1..(last + 1) PROVE bus[i] \in Value
      <4>1. i \in 1..n
        BY <1>1, <2>0
      <4> HIDE DEF bus
      <4> QED
        BY <1>1, <1>10, <4>1
    <3> QED
      BY <2>0, <3>1
  <2>2. bus \in [1..(last + 1) -> Value]
    BY <2>1
  <2>3. bus \in Seq(Value) /\ Len(bus) = last + 1
    BY <2>1, <2>2
  <2> QED
    BY <2>1, <2>3
<1>12. Lists(c, bus, last + 1)
  BY <1>11, ChangesTell
<1> HIDE DEF bus, c
<1>13. /\ InOrder(c) /\ \A k \in DOMAIN c : c[k].time \in Nat /\ c[k].time <= last
       /\ \A t \in 0..last : ValueAt(c, t) = bus[t + 1]
  <2>1. /\ InOrder(c) /\ \A k \in DOMAIN c : c[k].time \in Nat /\ c[k].time < last + 1
        /\ \A t \in 0..((last + 1) - 1) : ValueAt(c, t) = bus[t + 1]
    BY <1>12, ChangeTypes DEF Lists
  <2>2. (last + 1) - 1 = last /\ last \in Nat
    BY <1>6
  <2> QED
    BY <2>1, <2>2
<1>14. \A k \in DOMAIN c : c[k].time <= n - 1
  BY <1>1, <1>6, <1>13
<1>15. ASSUME NEW t \in 0..(n - 1) PROVE ValueAt(c, t) = values[t + 1]
  <2>1. CASE t <= last
    <3>1. t \in 0..last /\ t + 1 \in 1..(last + 1)
      BY <1>6, <2>1
    <3> QED
      BY <1>10, <1>13, <3>1
  <2>2. CASE t > last
    <3>1. last \in Nat /\ t \in Nat /\ last <= t /\ t \in last..(n - 1) /\ last \in 0..last /\ last + 1 \in 1..(last + 1)
      BY <1>1, <1>6, <2>2
    <3>2. ValueAt(c, t) = ValueAt(c, last)
      BY <1>13, <3>1, ReadAfter
    <3>3. ValueAt(c, last) = values[last + 1]
      BY <1>10, <1>13, <3>1
    <3> QED
      BY <1>9, <3>1, <3>2, <3>3
  <2> QED
    BY <1>6, <2>1, <2>2
<1>16. \A t \in 0..(n - 1) : t + 1 \in 1..n /\ values[t + 1] # <<>>
  BY <1>1 DEF Value
<1>17. Tells(c, values)
  BY <1>13, <1>14, <1>15, <1>16 DEF Tells, n
<1> QED
  BY <1>3, <1>17 DEF bits, c

\* What is drawn of a signal tells what was simulated.
LEMMA TrackTells ==
  ASSUME NEW values, IsTrace(values), NEW blasted \in BOOLEAN, NEW filtered \in BOOLEAN
  PROVE  Tells(Track(Parsed(values, blasted), filtered), Seen(values, blasted /\ filtered))
<1>1. CASE ~blasted
  <2> DEFINE c == Changes([i \in DOMAIN values |-> Shortened(values[i])])
  <2>1. Parsed(values, FALSE) = <<c>> /\ Tells(c, values)
    BY VectorTells
  <2> HIDE DEF c
  <2>2. Track(<<c>>, filtered) = c
    BY DEF Track
  <2>3. blasted = FALSE /\ Seen(values, blasted /\ filtered) = values
    BY <1>1 DEF Seen
  <2> QED
    BY <2>1, <2>2, <2>3
<1> DEFINE bits == Parsed(values, TRUE)
<1>2. Tells(bits[1], FirstBit(values))
  <2>1. IsTrace(FirstBit(values)) /\ Lists(bits[1], FirstBit(values), Len(FirstBit(values)))
    BY FirstBitLists
  <2> HIDE DEF bits
  <2> QED
    BY <2>1, ListsTell
<1>3. CASE blasted /\ filtered
  <2>1. Track(bits, filtered) = bits[1] /\ Seen(values, blasted /\ filtered) = FirstBit(values) /\ blasted = TRUE
    BY <1>3 DEF Track, Seen
  <2> QED
    BY <1>2, <2>1
<1>4. CASE blasted /\ ~filtered /\ Len(values[1]) # 1
  <2>1. Len(bits) # 1
    BY <1>4, BitsTell
  <2>2. Track(bits, filtered) = Combined(bits) /\ Seen(values, blasted /\ filtered) = values /\ blasted = TRUE
    BY <1>4, <2>1 DEF Track, Seen
  <2> QED
    BY <1>4, <2>2, CombinedTells
<1>5. CASE blasted /\ ~filtered /\ Len(values[1]) = 1
  <2>1. Len(bits) = 1
    BY <1>5, BitsTell
  <2>2. Track(bits, filtered) = bits[1] /\ Seen(values, blasted /\ filtered) = values /\ blasted = TRUE
    BY <1>5, <2>1 DEF Track, Seen
  <2>3. FirstBit(values) = values
    <3>1. DOMAIN values = 1..Len(values) /\ \A i \in 1..Len(values) : values[i] \in [1..1 -> Bit]
      BY <1>5, TraceTypes
    <3>2. \A i \in 1..Len(values) : values[i] = <<values[i][1]>>
      BY <3>1
    <3>3. values = [i \in DOMAIN values |-> values[i]]
      BY TraceTypes
    <3> QED
      BY <3>1, <3>2, <3>3 DEF FirstBit
  <2> QED
    BY <1>2, <2>2, <2>3
<1> QED
  BY <1>1, <1>3, <1>4, <1>5

\* Nothing is drawn outside 0..end.
LEMMA SegmentsWithin ==
  ASSUME NEW changes, InOrder(changes), NEW end \in Nat,
         \A k \in DOMAIN changes : changes[k].time <= end
  PROVE  \A i \in DOMAIN Segments(changes, end) :
           Segments(changes, end)[i].t0 \in 0..end /\ Segments(changes, end)[i].t1 \in 0..end
<1> DEFINE n == Len(changes)
           from(i) == changes[i].time
           to(i) == IF i < n THEN from(i + 1) ELSE Max({end, from(i)})
           drawn == [i \in DOMAIN changes |-> [t0 |-> from(i), t1 |-> to(i), value |-> changes[i].value]]
           unknown == <<[t0 |-> 0, t1 |-> from(1), value |-> <<"x">>]>>
<1>1. n \in Nat /\ DOMAIN changes = 1..n /\ \A i \in 1..n : from(i) \in 0..end
  BY ChangeTypes
<1>2. CASE changes = <<>>
  <2>1. Segments(changes, end) = <<[t0 |-> 0, t1 |-> end, value |-> <<"x">>]>>
    BY <1>2 DEF Segments
  <2> QED
    BY <2>1
<1>3. CASE changes # <<>>
  <2>1. n >= 1
    BY <1>1, <1>3, ChangeTypes
  <2>2. ASSUME NEW i \in 1..n PROVE to(i) \in 0..end
    <3>1. from(i) \in Nat /\ from(i) <= end
      BY <1>1
    <3>2. Max({end, from(i)}) = end
      BY <3>1, MaxOfTwo
    <3>3. i < n => i + 1 \in 1..n
      BY <1>1
    <3> QED
      BY <1>1, <3>2, <3>3
  <2>3. Segments(changes, end) = IF from(1) > 0 THEN unknown \o drawn ELSE drawn
    BY <1>3 DEF Segments
  <2>4. DOMAIN drawn = 1..n /\ \A i \in 1..n : drawn[i].t0 \in 0..end /\ drawn[i].t1 \in 0..end
    BY <1>1, <2>2
  <2> DEFINE R == [t0 : 0..end, t1 : 0..end, value : {changes[i].value : i \in 1..n} \union {<<"x">>}]
  <2>5. drawn \in Seq(R)
    <3> HIDE DEF to
    <3>1. drawn \in [1..n -> R]
      BY <1>1, <2>2
    <3> HIDE DEF drawn, R, n
    <3> QED
      BY <1>1, <3>1
  <2>6. unknown \in Seq(R)
    <3>1. [t0 |-> 0, t1 |-> from(1), value |-> <<"x">>] \in R
      BY <1>1, <2>1
    <3> HIDE DEF R
    <3> QED
      BY <3>1
  <2> HIDE DEF drawn, unknown
  <2>7. Segments(changes, end) \in Seq(R)
    <3>1. drawn \in Seq(R) /\ unknown \in Seq(R)
      BY <2>5, <2>6
    <3> HIDE DEF R
    <3>2. unknown \o drawn \in Seq(R)
      BY <3>1
    <3> QED
      BY <2>3, <3>1, <3>2
  <2>8. \A x \in R : x.t0 \in 0..end /\ x.t1 \in 0..end
    OBVIOUS
  <2> HIDE DEF R
  <2> QED
    BY <2>7, <2>8
<1> QED
  BY <1>2, <1>3

\* The picture of a signal shows at every time the value that it had in the
\* simulation, for every trace, as a vector and bit by bit; only of a bus that is
\* written bit by bit and asked for by its name it shows the first bit.
THEOREM PicturesShowTraces ==
  ASSUME NEW trace, NEW s, IsTrace(trace[s]), NEW blasted \in BOOLEAN, NEW filtered \in BOOLEAN
  PROVE  DrawsTrace(trace, s, blasted, filtered)
<1> DEFINE values == Seen(trace[s], blasted /\ filtered)
           n == Len(trace[s])
           c == Track(Parsed(trace[s], blasted), filtered)
           end == n - 1
           drawn == Segments(c, end)
<1>1. n \in Nat /\ n >= 1 /\ end \in Nat
  BY TraceTypes
<1>a. n = Len(values)
  BY FirstBitLists DEF Seen
<1>2. Tells(c, values)
  BY TrackTells
<1> HIDE DEF c, values
<1>3. InOrder(c) /\ \A k \in DOMAIN c : c[k].time <= end
  BY <1>a, <1>2 DEF Tells
<1>4. Seamless(drawn, end) /\ ShowsValueAt(drawn, c)
  BY <1>1, <1>3, PicturesAgreeWithAssertions
<1> HIDE DEF drawn
<1>5. ASSUME NEW i \in DOMAIN drawn, NEW t \in drawn[i].t0..(drawn[i].t1 - 1), t \in 0..end
      PROVE  Shortened(drawn[i].value) = Shortened(values[t + 1])
  <2>1. ValueAt(c, t) # <<>> /\ Shortened(ValueAt(c, t)) = Shortened(values[t + 1])
    BY <1>a, <1>2, <1>5 DEF Tells
  <2> QED
    BY <1>4, <1>5, <2>1 DEF ShowsValueAt
<1>6. \A i \in DOMAIN drawn : drawn[i].t0 \in 0..end /\ drawn[i].t1 \in 0..end
  BY <1>1, <1>3, SegmentsWithin DEF drawn
<1>7. ASSUME NEW i \in DOMAIN drawn, NEW t \in drawn[i].t0..(drawn[i].t1 - 1)
      PROVE  Shortened(drawn[i].value) = Shortened(values[t + 1])
  <2>1. t \in 0..end
    <3>1. drawn[i].t0 \in 0..end /\ drawn[i].t1 \in 0..end
      BY <1>6
    <3> QED
      BY <1>1, <3>1
  <2> QED
    BY <1>5, <2>1
<1> QED
  BY <1>4, <1>7 DEF DrawsTrace, Seamless, drawn, c, values

-----------------------------------------------------------------------------
(* Assertions *)

\* What counts as much as the number that is meant, and is known.
Counts(v, e) == ~HasX(v) /\ Number(v) = Meant(e)

\* A value is compared as what it counts, with its spare bits and without.
LEMMA LogicEqualCounts ==
  ASSUME NEW v \in Value, NEW e, ReadAsMeant(e)
  PROVE  /\ LogicEqual(v, e) <=> Counts(v, e)
         /\ LogicEqual(Shortened(v), e) <=> Counts(v, e)
<1>1. e.form # "text" /\ Text(e) = e.bits /\ ~HasX(e.bits) /\ Number(e.bits) = Meant(e)
  BY DEF ReadAsMeant, Text
<1>2. \A u : HasX(u) => u # e.bits
  BY <1>1
<1>3. \A u : LogicEqual(u, e) <=> Counts(u, e)
  BY <1>1, <1>2 DEF LogicEqual, Counts
<1>4. Counts(Shortened(v), e) <=> Counts(v, e)
  BY ShortenedKnown, ShortenedCounts DEF Counts
<1> QED
  BY <1>3, <1>4

\* What an assertion finds is the changes of values that compare as those of the
\* signal do, or as its first bit does.
LEMMA FoundLists ==
  ASSUME NEW values, IsTrace(values), NEW blasted \in BOOLEAN, NEW e, ReadAsMeant(e)
  PROVE  \E seen : /\ seen \in Seq(Value) /\ Len(seen) = Len(values)
                   /\ Lists(Found(Parsed(values, blasted)), seen, Len(values))
                   /\ \A i \in 1..Len(values) : LogicEqual(seen[i], e) <=> Counts(Seen(values, blasted)[i], e)
<1>0. /\ values \in Seq(Value) /\ Len(values) \in Nat /\ DOMAIN values = 1..Len(values)
      /\ \A i \in 1..Len(values) : values[i] \in Value
  BY TraceTypes
<1>1. CASE ~blasted
  <2> DEFINE short == [i \in DOMAIN values |-> Shortened(values[i])]
             c == Changes(short)
  <2>1. Parsed(values, FALSE) = <<c>> /\ short \in Seq(Value) /\ Len(short) = Len(values) /\ Lists(c, short, Len(values))
    BY VectorTells
  <2>2. \A i \in 1..Len(values) : short[i] = Shortened(values[i])
    BY <1>0
  <2> HIDE DEF c, short
  <2>3. Found(<<c>>) = c /\ blasted = FALSE /\ Seen(values, blasted) = values
    BY <1>1 DEF Found, Seen
  <2>4. \A i \in 1..Len(values) : LogicEqual(short[i], e) <=> Counts(values[i], e)
    BY <1>0, <2>2, LogicEqualCounts
  <2> QED
    BY <2>1, <2>3, <2>4
<1>2. CASE blasted
  <2> DEFINE ones == FirstBit(values)
  <2>1. Lists(Parsed(values, TRUE)[1], ones, Len(values)) /\ IsTrace(ones) /\ Len(ones) = Len(values)
    BY FirstBitLists
  <2>2. Found(Parsed(values, blasted)) = Parsed(values, TRUE)[1] /\ Seen(values, blasted) = ones
    BY <1>2 DEF Found, Seen
  <2> HIDE DEF ones
  <2>3. ones \in Seq(Value) /\ \A i \in 1..Len(values) : ones[i] \in Value
    BY <2>1, TraceTypes
  <2>4. \A i \in 1..Len(values) : LogicEqual(ones[i], e) <=> Counts(ones[i], e)
    BY <2>3, LogicEqualCounts
  <2> QED
    BY <2>1, <2>2, <2>3, <2>4
<1> QED
  BY <1>1, <1>2

\* What is read at a time is in the list, the last change at the end.
LEMMA ReadIsListed ==
  ASSUME NEW c, InOrder(c), NEW t \in Nat, ValueAt(c, t) # <<>>
  PROVE  \E k \in DOMAIN c : ValueAt(c, t) = c[k].value
<1> DEFINE seen == {i \in DOMAIN c : c[i].time <= t}
<1>1. seen # {} /\ ValueAt(c, t) = c[Max(seen)].value
  BY DEF ValueAt
<1>2. Max(seen) \in seen
  <2>1. Len(c) \in Nat /\ seen \in SUBSET (0..Len(c))
    BY ChangeTypes
  <2> HIDE DEF seen
  <2> QED
    BY <1>1, <2>1, GreatestOf
<1> QED
  BY <1>1, <1>2

\* An assertion whose value is read as it is meant holds exactly if it is true of
\* the signal, for every trace; of a bus that is written bit by bit it is one
\* about the first bit.
THEOREM AssertionsReadTraces ==
  ASSUME NEW trace, NEW a, a.type \in AssertionTypes, a.time \in Nat, ReadAsMeant(a.value),
         IsTrace(trace[a.signal]), NEW blasted \in BOOLEAN
  PROVE  Evaluate(a, trace, blasted) = TrueOf(a, Seen(trace[a.signal], blasted))
<1> DEFINE values == Seen(trace[a.signal], blasted)
           e == a.value
           n == Len(values)
           c == Found(Parsed(trace[a.signal], blasted))
           Is(v) == v # <<>> /\ LogicEqual(v, e)
           final == values[IF a.time < n THEN a.time + 1 ELSE n]
<1>1. n = Len(trace[a.signal]) /\ n \in Nat /\ n >= 1 /\ DOMAIN values = 1..n
  <2>1. IsTrace(values) /\ Len(values) = Len(trace[a.signal])
    BY FirstBitLists DEF Seen
  <2> QED
    BY <2>1, TraceTypes
<1>2. PICK seen : /\ seen \in Seq(Value) /\ Len(seen) = n /\ Lists(c, seen, n)
                  /\ \A i \in 1..n : LogicEqual(seen[i], e) <=> Counts(values[i], e)
  BY <1>1, FoundLists
<1>3. /\ Evaluate(a, trace, blasted) =
           CASE a.type = "vcd_never_eq" -> \A i \in DOMAIN c : ~Is(c[i].value)
             [] a.type = "vcd_final_eq" -> Is(c[Len(c)].value)
             [] a.type = "vcd_at_eq" -> Is(ValueAt(c, a.time))
      /\ TrueOf(a, values) =
           CASE a.type = "vcd_never_eq" -> \A i \in DOMAIN values : ~Counts(values[i], e)
             [] a.type = "vcd_final_eq" -> Counts(values[n], e)
             [] a.type = "vcd_at_eq" -> Counts(final, e)
  BY DEF Evaluate, TrueOf, Counts
<1> HIDE DEF values, n, c
<1>4. /\ InOrder(c) /\ Len(c) \in Nat /\ Len(c) >= 1 /\ DOMAIN c = 1..Len(c)
      /\ \A k \in 1..Len(c) : c[k].time \in Nat /\ c[k].time < n /\ c[k].value = seen[c[k].time + 1]
      /\ \A t \in 0..(n - 1) : ValueAt(c, t) = seen[t + 1]
  BY <1>2, ChangeTypes DEF Lists
<1>5. \A i \in 1..n : seen[i] \in Value /\ seen[i] # <<>> /\ (Is(seen[i]) <=> Counts(values[i], e))
  BY <1>2 DEF Value
<1>6. (\A i \in DOMAIN c : ~Is(c[i].value)) <=> (\A i \in DOMAIN values : ~Counts(values[i], e))
  <2>1. ASSUME NEW i \in 1..n, \A k \in DOMAIN c : ~Is(c[k].value) PROVE ~Counts(values[i], e)
    <3>1. i - 1 \in 0..(n - 1) /\ (i - 1) + 1 = i /\ i - 1 \in Nat
      BY <1>1
    <3>2. ValueAt(c, i - 1) = seen[i] /\ seen[i] # <<>>
      BY <1>4, <1>5, <3>1
    <3>3. InOrder(c) /\ i - 1 \in Nat /\ ValueAt(c, i - 1) # <<>>
      BY <1>4, <3>1, <3>2
    <3>4. PICK k \in DOMAIN c : ValueAt(c, i - 1) = c[k].value
      BY <3>3, ReadIsListed
    <3> HIDE DEF Is
    <3> QED
      BY <1>5, <2>1, <3>2, <3>4
  <2>2. ASSUME NEW k \in DOMAIN c, \A i \in 1..n : ~Counts(values[i], e) PROVE ~Is(c[k].value)
    <3>1. c[k].time + 1 \in 1..n /\ c[k].value = seen[c[k].time + 1]
      BY <1>1, <1>4
    <3> HIDE DEF Is
    <3> QED
      BY <1>5, <2>2, <3>1
  <2> HIDE DEF Is
  <2> QED
    BY <1>1, <2>1, <2>2
<1>7. Is(c[Len(c)].value) <=> Counts(values[n], e)
  <2>1. n - 1 \in Nat /\ Len(c) \in DOMAIN c /\ c[Len(c)].time <= n - 1 /\ ~(Len(c) < Len(c))
    BY <1>1, <1>4
  <2>2. ValueAt(c, n - 1) = c[Len(c)].value
    BY <1>4, <2>1, ReadBetween
  <2>3. n - 1 \in 0..(n - 1) /\ (n - 1) + 1 = n /\ n \in 1..n
    BY <1>1
  <2> HIDE DEF Is
  <2> QED
    BY <1>4, <1>5, <2>2, <2>3
<1>8. Is(ValueAt(c, a.time)) <=> Counts(final, e)
  <2>1. CASE a.time < n
    <3>1. a.time \in 0..(n - 1) /\ a.time + 1 \in 1..n
      BY <1>1, <2>1
    <3> HIDE DEF Is
    <3> QED
      BY <1>4, <1>5, <2>1, <3>1
  <2>2. CASE ~(a.time < n)
    <3>1. n - 1 \in Nat /\ n - 1 <= a.time /\ n - 1 \in 0..(n - 1) /\ (n - 1) + 1 = n /\ n \in 1..n
      BY <1>1, <2>2
    <3>2. \A k \in DOMAIN c : c[k].time \in Nat /\ c[k].time <= n - 1
      BY <1>1, <1>4
    <3>3. ValueAt(c, a.time) = ValueAt(c, n - 1)
      BY <3>1, <3>2, ReadAfter
    <3> HIDE DEF Is
    <3> QED
      BY <1>4, <1>5, <2>2, <3>1, <3>3
  <2> QED
    BY <2>1, <2>2
<1>9. /\ (\A i \in DOMAIN c : ~Is(c[i].value)) = (\A i \in DOMAIN values : ~Counts(values[i], e))
      /\ Is(c[Len(c)].value) = Counts(values[n], e)
      /\ Is(ValueAt(c, a.time)) = Counts(final, e)
  <2>1. \A v : Is(v) \in BOOLEAN /\ Counts(v, e) \in BOOLEAN
    BY DEF Counts
  <2> HIDE DEF Is
  <2> QED
    BY <1>6, <1>7, <1>8, <2>1, Zenon
<1> HIDE DEF Is, final
<1>10. a.type = "vcd_never_eq" => Evaluate(a, trace, blasted) = TrueOf(a, values)
  BY <1>3, <1>9
<1>11. a.type = "vcd_final_eq" => Evaluate(a, trace, blasted) = TrueOf(a, values)
  BY <1>3, <1>9
<1>12. a.type = "vcd_at_eq" => Evaluate(a, trace, blasted) = TrueOf(a, values)
  BY <1>3, <1>9
<1> QED
  BY <1>10, <1>11, <1>12 DEF AssertionTypes, values
=============================================================================
