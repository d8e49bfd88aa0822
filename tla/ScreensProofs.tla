----------------------------- MODULE ScreensProofs -----------------------------
(***************************************************************************)
(* Proofs about Screens, for any number of rows, of calls under way, of    *)
(* photos and of listeners.                                                *)
(***************************************************************************)
EXTENDS Screens, SequenceTheorems, FiniteSetTheorems, TLAPS

(* What becomes of the calls in a step, whatever the page: those of R end  *)
(* or are answered, those of more are new, and the others go on, overtaken *)
(* or not.                                                                 *)

Same(c, d) == c = d \/ c = [d EXCEPT !.old = TRUE]

Becomes(new, cs, R, more) ==
    \E m \in [DOMAIN new -> Nat] :
        /\ \A j \in DOMAIN new :
             \/ m[j] \in DOMAIN cs \ R /\ Same(new[j], cs[m[j]])
             \/ \E k \in DOMAIN more : m[j] = Len(cs) + k /\ new[j] = more[k]
        /\ \A j, k \in DOMAIN new : m[j] = m[k] => j = k
        /\ \A k \in DOMAIN cs \ R : \E j \in DOMAIN new : m[j] = k
        /\ \A k \in DOMAIN more : \E j \in DOMAIN new : m[j] = Len(cs) + k

\* The calls of a page: any of them may be overtaken.
CanBeOld(S) ==
    \A c \in S : /\ DOMAIN c = {"op", "arg", "then", "state", "data", "old"}
                 /\ [c EXCEPT !.old = TRUE] \in S

LEMMA RemoveAtIs ==
    ASSUME NEW S, NEW cs \in Seq(S), NEW i \in DOMAIN cs
    PROVE  /\ RemoveAt(cs, i) \in Seq(S) /\ Len(RemoveAt(cs, i)) = Len(cs) - 1
           /\ \A j \in 1 .. (Len(cs) - 1) :
                RemoveAt(cs, i)[j] = IF j < i THEN cs[j] ELSE cs[j + 1]
<1> DEFINE a == SubSeq(cs, 1, i - 1)
           b == SubSeq(cs, i + 1, Len(cs))
<1>1. i \in 1 .. Len(cs) /\ Len(cs) \in Nat
  BY LenProperties
<1>2. a \in Seq(S) /\ Len(a) = i - 1 /\ \A j \in 1 .. (i - 1) : a[j] = cs[j]
  BY <1>1, SubSeqProperties, 1 .. (i - 1) \subseteq DOMAIN cs
<1>3. b \in Seq(S) /\ Len(b) = Len(cs) - i /\ \A j \in 1 .. (Len(cs) - i) : b[j] = cs[i + j]
  <2>1. CASE i = Len(cs)
    BY <1>1, <2>1, SubSeqProperties
  <2>2. CASE i < Len(cs)
    <3>1. i + 1 \in DOMAIN cs /\ Len(cs) \in DOMAIN cs
      BY <1>1, <2>2
    <3> QED BY <1>1, <2>2, <3>1, SubSeqProperties
  <2> QED BY <1>1, <2>1, <2>2
<1>4. RemoveAt(cs, i) = a \o b
  BY DEF RemoveAt
<1> HIDE DEF a, b
<1>5. /\ a \o b \in Seq(S) /\ Len(a \o b) = Len(a) + Len(b)
      /\ \A j \in 1 .. Len(a) + Len(b) : (a \o b)[j] = IF j <= Len(a) THEN a[j] ELSE b[j - Len(a)]
  BY <1>2, <1>3, ConcatProperties
<1>6. Len(a) + Len(b) = Len(cs) - 1
  BY <1>1, <1>2, <1>3
<1>7. ASSUME NEW j \in 1 .. (Len(cs) - 1)
      PROVE  (a \o b)[j] = IF j < i THEN cs[j] ELSE cs[j + 1]
  <2>1. CASE j < i
    BY <1>1, <1>2, <1>5, <1>6, <2>1
  <2>2. CASE ~(j < i)
    <3>1. (a \o b)[j] = b[j - (i - 1)] /\ j - (i - 1) \in 1 .. (Len(cs) - i)
      BY <1>1, <1>2, <1>5, <1>6, <2>2
    <3>2. b[j - (i - 1)] = cs[i + (j - (i - 1))] /\ i + (j - (i - 1)) = j + 1
      BY <1>1, <1>3, <3>1
    <3> QED BY <2>2, <3>1, <3>2
  <2> QED BY <2>1, <2>2
<1> QED BY <1>4, <1>5, <1>6, <1>7

LEMMA OutdatedIs ==
    ASSUME NEW S, NEW cs \in Seq(S), CanBeOld(S), NEW J
    PROVE  /\ Outdated(cs, J) \in Seq(S) /\ Len(Outdated(cs, J)) = Len(cs)
           /\ DOMAIN Outdated(cs, J) = DOMAIN cs
           /\ \A j \in DOMAIN cs :
                Outdated(cs, J)[j] = IF j \in J THEN [cs[j] EXCEPT !.old = TRUE] ELSE cs[j]
<1>1. DOMAIN cs = 1 .. Len(cs) /\ Len(cs) \in Nat /\ \A j \in DOMAIN cs : cs[j] \in S
  BY LenProperties, ElementOfSeq
<1>2. Outdated(cs, J) = [j \in 1 .. Len(cs) |-> IF j \in J THEN [cs[j] EXCEPT !.old = TRUE] ELSE cs[j]]
  BY <1>1 DEF Outdated
<1>3. \A j \in 1 .. Len(cs) : (IF j \in J THEN [cs[j] EXCEPT !.old = TRUE] ELSE cs[j]) \in S
  BY <1>1 DEF CanBeOld
<1> QED BY <1>1, <1>2, <1>3, IsASeq, LenProperties

\* The same calls at the same places, but for i.
AsBefore(new, cs, i) == Len(new) = Len(cs) /\ \A j \in DOMAIN cs \ {i} : Same(new[j], cs[j])

LEMMA Dropped ==
    ASSUME NEW S, NEW cs \in Seq(S), NEW old \in Seq(S), NEW more \in Seq(S),
           NEW i \in DOMAIN cs, AsBefore(old, cs, i)
    PROVE  RemoveAt(old, i) \o more \in Seq(S) /\ Becomes(RemoveAt(old, i) \o more, cs, {i}, more)
<1> DEFINE r == RemoveAt(old, i)
           new == r \o more
           n == Len(cs)
           m == [j \in DOMAIN new |-> IF j < i THEN j ELSE IF j < n THEN j + 1 ELSE j + 1]
<1>1. /\ DOMAIN cs = 1 .. n /\ DOMAIN old = 1 .. n /\ n \in Nat /\ n > 0 /\ i \in 1 .. n
      /\ DOMAIN more = 1 .. Len(more) /\ Len(more) \in Nat
  BY LenProperties DEF AsBefore
<1>2. /\ r \in Seq(S) /\ Len(r) = n - 1
      /\ \A j \in 1 .. (n - 1) : r[j] = IF j < i THEN old[j] ELSE old[j + 1]
  <2>1. i \in DOMAIN old /\ Len(old) = n
    BY <1>1, LenProperties
  <2> QED BY <2>1, RemoveAtIs
<1> HIDE DEF r
<1>3. /\ new \in Seq(S) /\ Len(new) = Len(r) + Len(more)
      /\ \A j \in 1 .. Len(r) + Len(more) : new[j] = IF j <= Len(r) THEN r[j] ELSE more[j - Len(r)]
  BY <1>2, ConcatProperties
<1>4. /\ DOMAIN new = 1 .. ((n - 1) + Len(more))
      /\ \A j \in 1 .. ((n - 1) + Len(more)) :
           new[j] = IF j <= n - 1 THEN IF j < i THEN old[j] ELSE old[j + 1] ELSE more[j - (n - 1)]
  BY <1>1, <1>2, <1>3, LenProperties
<1> HIDE DEF new
<1>5. m \in [DOMAIN new -> Nat]
  BY <1>1, <1>4
<1>6. \A j \in DOMAIN new : m[j] = IF j < i THEN j ELSE j + 1
  BY <1>1, <1>4
<1> HIDE DEF m, n
<1>7. ASSUME NEW j \in DOMAIN new
      PROVE  \/ m[j] \in DOMAIN cs \ {i} /\ Same(new[j], cs[m[j]])
             \/ \E k \in DOMAIN more : m[j] = Len(cs) + k /\ new[j] = more[k]
  <2>1. CASE j <= n - 1
    BY <1>1, <1>4, <1>6, <2>1 DEF AsBefore, n
  <2>2. CASE ~(j <= n - 1)
    <3>1. j \in Nat /\ j >= n /\ j <= (n - 1) + Len(more)
      BY <1>1, <1>4, <2>2
    <3>2. m[j] = n + (j - (n - 1))
      BY <1>1, <1>6, <3>1
    <3>3. new[j] = more[j - (n - 1)]
      BY <1>4, <2>2
    <3>4. j - (n - 1) \in DOMAIN more
      BY <1>1, <3>1
    <3> QED BY <3>2, <3>3, <3>4 DEF n
  <2> QED BY <2>1, <2>2
<1>8. \A j, k \in DOMAIN new : m[j] = m[k] => j = k
  <2> TAKE j, k \in DOMAIN new
  <2>1. j \in Nat /\ k \in Nat /\ i \in Nat
    BY <1>1, <1>4
  <2> QED BY <1>6, <2>1
<1>9. \A k \in DOMAIN cs \ {i} : \E j \in DOMAIN new : m[j] = k
  <2> TAKE k \in DOMAIN cs \ {i}
  <2>1. CASE k < i
    BY <1>1, <1>4, <1>6, <2>1
  <2>2. CASE k > i
    <3>1. k - 1 \in DOMAIN new /\ m[k - 1] = k
      BY <1>1, <1>4, <1>6, <2>2
    <3> QED BY <3>1
  <2> QED BY <1>1, <2>1, <2>2
<1>10. \A k \in DOMAIN more : \E j \in DOMAIN new : m[j] = Len(cs) + k
  <2> TAKE k \in DOMAIN more
  <2>1. (n - 1) + k \in DOMAIN new /\ m[(n - 1) + k] = n + k
    BY <1>1, <1>4, <1>6
  <2> QED BY <2>1 DEF n
<1>11. new = RemoveAt(old, i) \o more
  BY DEF new, r
<1>12. Becomes(new, cs, {i}, more)
  BY <1>5, <1>7, <1>8, <1>9, <1>10 DEF Becomes
<1>13. new \in Seq(S)
  BY <1>3
<1> QED BY <1>11, <1>12, <1>13

LEMMA Started ==
    ASSUME NEW S, NEW cs \in Seq(S), NEW more \in Seq(S)
    PROVE  cs \o more \in Seq(S) /\ Becomes(cs \o more, cs, {}, more)
<1> DEFINE new == cs \o more
           m == [j \in DOMAIN new |-> j]
<1>1. /\ new \in Seq(S) /\ DOMAIN new = 1 .. Len(cs) + Len(more)
      /\ DOMAIN cs = 1 .. Len(cs) /\ DOMAIN more = 1 .. Len(more) /\ Len(cs) \in Nat /\ Len(more) \in Nat
      /\ \A j \in 1 .. Len(cs) + Len(more) : new[j] = IF j <= Len(cs) THEN cs[j] ELSE more[j - Len(cs)]
  BY ConcatProperties, LenProperties
<1>2. m \in [DOMAIN new -> Nat] /\ \A j \in DOMAIN new : m[j] = j
  BY <1>1
<1> HIDE DEF new, m
<1>3. ASSUME NEW j \in DOMAIN new
      PROVE  \/ m[j] \in DOMAIN cs \ {} /\ Same(new[j], cs[m[j]])
             \/ \E k \in DOMAIN more : m[j] = Len(cs) + k /\ new[j] = more[k]
  <2>1. CASE j <= Len(cs)
    BY <1>1, <1>2, <2>1 DEF Same
  <2>2. CASE ~(j <= Len(cs))
    <3>1. j - Len(cs) \in DOMAIN more /\ m[j] = Len(cs) + (j - Len(cs)) /\ new[j] = more[j - Len(cs)]
      BY <1>1, <1>2, <2>2
    <3> QED BY <3>1
  <2> QED BY <2>1, <2>2
<1>4. \A k \in DOMAIN more : \E j \in DOMAIN new : m[j] = Len(cs) + k
  <2> TAKE k \in DOMAIN more
  <2>1. Len(cs) + k \in DOMAIN new /\ m[Len(cs) + k] = Len(cs) + k
    BY <1>1, <1>2
  <2> QED BY <2>1
<1>5. /\ \A j, k \in DOMAIN new : m[j] = m[k] => j = k
      /\ \A k \in DOMAIN cs \ {} : \E j \in DOMAIN new : m[j] = k
  BY <1>1, <1>2
<1>6. Becomes(new, cs, {}, more)
  BY <1>2, <1>3, <1>4, <1>5 DEF Becomes
<1> QED BY <1>1, <1>6 DEF new

LEMMA Changed ==
    ASSUME NEW S, NEW cs \in Seq(S), NEW new \in Seq(S), NEW i \in DOMAIN cs, AsBefore(new, cs, i)
    PROVE  Becomes(new, cs, {i}, << new[i] >>)
<1> DEFINE n == Len(cs)
           m == [j \in DOMAIN new |-> IF j = i THEN n + 1 ELSE j]
<1>1. DOMAIN cs = 1 .. n /\ DOMAIN new = 1 .. n /\ n \in Nat /\ i \in 1 .. n
  BY LenProperties DEF AsBefore
<1>2. m \in [DOMAIN new -> Nat] /\ \A j \in DOMAIN new : m[j] = IF j = i THEN n + 1 ELSE j
  BY <1>1
<1>3. DOMAIN << new[i] >> = {1} /\ << new[i] >>[1] = new[i]
  OBVIOUS
<1> HIDE DEF m
<1>4. \A j \in DOMAIN new : \/ m[j] \in DOMAIN cs \ {i} /\ Same(new[j], cs[m[j]])
                            \/ \E k \in DOMAIN << new[i] >> : m[j] = Len(cs) + k /\ new[j] = << new[i] >>[k]
  BY <1>1, <1>2, <1>3 DEF AsBefore
<1>5. /\ \A j, k \in DOMAIN new : m[j] = m[k] => j = k
      /\ \A k \in DOMAIN cs \ {i} : \E j \in DOMAIN new : m[j] = k
      /\ \A k \in DOMAIN << new[i] >> : \E j \in DOMAIN new : m[j] = Len(cs) + k
  BY <1>1, <1>2, <1>3
<1> QED BY <1>2, <1>4, <1>5 DEF Becomes

LEMMA Overtaken ==
    ASSUME NEW S, NEW cs \in Seq(S), CanBeOld(S), NEW J, NEW i
    PROVE  AsBefore(Outdated(cs, J), cs, i) /\ AsBefore(cs, cs, i)
<1>1. /\ Len(Outdated(cs, J)) = Len(cs)
      /\ \A j \in DOMAIN cs :
           Outdated(cs, J)[j] = IF j \in J THEN [cs[j] EXCEPT !.old = TRUE] ELSE cs[j]
  BY OutdatedIs
<1> QED BY <1>1 DEF AsBefore, Same

LEMMA PerhapsOutdated ==
    ASSUME NEW S, CanBeOld(S), NEW cs \in Seq(S), NEW new, new = cs \/ \E J : new = Outdated(cs, J)
    PROVE  /\ new \in Seq(S) /\ DOMAIN new = DOMAIN cs
           /\ \A j \in DOMAIN cs : Same(new[j], cs[j])
<1>1. CASE new = cs
  BY <1>1 DEF Same
<1>2. ASSUME NEW J, new = Outdated(cs, J)
      PROVE  /\ new \in Seq(S) /\ DOMAIN new = DOMAIN cs
             /\ \A j \in DOMAIN cs : Same(new[j], cs[j])
  <2>1. /\ Outdated(cs, J) \in Seq(S) /\ DOMAIN Outdated(cs, J) = DOMAIN cs
        /\ \A j \in DOMAIN cs :
             Outdated(cs, J)[j] = IF j \in J THEN [cs[j] EXCEPT !.old = TRUE] ELSE cs[j]
    BY OutdatedIs
  <2> QED BY <1>2, <2>1 DEF Same
<1> QED BY <1>1, <1>2

LEMMA AllGoOn ==
    ASSUME NEW S, NEW cs \in Seq(S), NEW new \in Seq(S), AsBefore(new, cs, 0)
    PROVE  Becomes(new, cs, {}, << >>)
<1> DEFINE m == [j \in DOMAIN new |-> j]
<1>1. DOMAIN cs = DOMAIN new /\ DOMAIN new = 1 .. Len(cs) /\ Len(cs) \in Nat
  BY LenProperties DEF AsBefore
<1>2. m \in [DOMAIN new -> Nat] /\ \A j \in DOMAIN new : m[j] = j
  BY <1>1
<1>3. \A j \in DOMAIN new : Same(new[j], cs[j])
  BY <1>1 DEF AsBefore
<1> HIDE DEF m
<1> QED BY <1>1, <1>2, <1>3 DEF Becomes

\* An overtaken call is what it was, but for that.
Alike(c, d) ==
    c.op = d.op /\ c.arg = d.arg /\ c.then = d.then /\ c.state = d.state /\ c.data = d.data

LEMMA SameAreAlike ==
    ASSUME NEW S, CanBeOld(S), NEW c, NEW d \in S, Same(c, d)
    PROVE  Alike(c, d) /\ (c.old = d.old \/ c.old = TRUE)
BY DEF CanBeOld, Same, Alike

LEMMA GoesOn ==
    ASSUME NEW S, CanBeOld(S), NEW cs \in Seq(S), NEW more \in Seq(S), NEW new, NEW R,
           Becomes(new, cs, R, more), NEW k \in DOMAIN cs \ R
    PROVE  \E j \in DOMAIN new : Alike(new[j], cs[k])
<1>1. /\ \A j \in DOMAIN cs : cs[j] \in S
      /\ DOMAIN cs = 1 .. Len(cs) /\ Len(cs) \in Nat /\ DOMAIN more = 1 .. Len(more) /\ Len(more) \in Nat
  BY ElementOfSeq, LenProperties
<1>2. PICK m : /\ \A j \in DOMAIN new :
                    \/ m[j] \in DOMAIN cs \ R /\ Same(new[j], cs[m[j]])
                    \/ \E l \in DOMAIN more : m[j] = Len(cs) + l /\ new[j] = more[l]
               /\ \A l \in DOMAIN cs \ R : \E j \in DOMAIN new : m[j] = l
  BY DEF Becomes
<1>3. PICK j \in DOMAIN new : m[j] = k
  BY <1>2
<1>4. \A l \in DOMAIN more : k # Len(cs) + l
  BY <1>1
<1>5. Same(new[j], cs[k])
  BY <1>2, <1>3, <1>4
<1>6. Alike(new[j], cs[k])
  BY <1>1, <1>5, SameAreAlike
<1> QED BY <1>6

LEMMA Appears ==
    ASSUME NEW new, NEW cs, NEW R, NEW more, Becomes(new, cs, R, more), NEW k \in DOMAIN more,
           NEW S, cs \in Seq(S), more \in Seq(S)
    PROVE  \E j \in DOMAIN new : new[j] = more[k]
<1>1. DOMAIN cs = 1 .. Len(cs) /\ Len(cs) \in Nat /\ DOMAIN more = 1 .. Len(more) /\ Len(more) \in Nat
  BY LenProperties
<1>2. PICK m : /\ \A j \in DOMAIN new :
                    \/ m[j] \in DOMAIN cs \ R /\ Same(new[j], cs[m[j]])
                    \/ \E l \in DOMAIN more : m[j] = Len(cs) + l /\ new[j] = more[l]
               /\ \A l \in DOMAIN more : \E j \in DOMAIN new : m[j] = Len(cs) + l
  BY DEF Becomes
<1>3. PICK j \in DOMAIN new : m[j] = Len(cs) + k
  BY <1>2
<1>4. Len(cs) + k \notin DOMAIN cs
  BY <1>1
<1>5. PICK l \in DOMAIN more : m[j] = Len(cs) + l /\ new[j] = more[l]
  BY <1>2, <1>3, <1>4
<1>6. l = k
  BY <1>1, <1>3, <1>5
<1> QED BY <1>5, <1>6

CameFrom(c, cs, R, more) ==
    \/ \E k \in DOMAIN cs \ R : Alike(c, cs[k]) /\ (c.old = cs[k].old \/ c.old = TRUE)
    \/ \E k \in DOMAIN more : c = more[k]

LEMMA ComesFrom ==
    ASSUME NEW S, CanBeOld(S), NEW cs \in Seq(S), NEW new, NEW R, NEW more,
           Becomes(new, cs, R, more), NEW j \in DOMAIN new
    PROVE  CameFrom(new[j], cs, R, more)
<1>1. \A k \in DOMAIN cs : cs[k] \in S
  BY ElementOfSeq, LenProperties
<1>2. PICK m : \A i \in DOMAIN new :
                    \/ m[i] \in DOMAIN cs \ R /\ Same(new[i], cs[m[i]])
                    \/ \E l \in DOMAIN more : m[i] = Len(cs) + l /\ new[i] = more[l]
  BY DEF Becomes
<1>3. CASE m[j] \in DOMAIN cs \ R /\ Same(new[j], cs[m[j]])
  <2>1. Alike(new[j], cs[m[j]]) /\ (new[j].old = cs[m[j]].old \/ new[j].old = TRUE)
    BY <1>1, <1>3, SameAreAlike
  <2> QED BY <1>3, <2>1 DEF CameFrom
<1> QED BY <1>2, <1>3 DEF CameFrom

\* A call that goes on, overtaken or not.
Follows(c, d) == Alike(c, d) /\ (c.old = d.old \/ c.old = TRUE)

\* Two calls come from two calls.
LEMMA PairFrom ==
    ASSUME NEW S, CanBeOld(S), NEW cs \in Seq(S), NEW new, NEW R, NEW more,
           Becomes(new, cs, R, more), NEW j \in DOMAIN new, NEW k \in DOMAIN new, j # k
    PROVE  \/ \E l, n \in DOMAIN cs \ R : l # n /\ Follows(new[j], cs[l]) /\ Follows(new[k], cs[n])
           \/ \E l \in DOMAIN cs \ R, n \in DOMAIN more : Follows(new[j], cs[l]) /\ new[k] = more[n]
           \/ \E l \in DOMAIN more, n \in DOMAIN cs \ R : new[j] = more[l] /\ Follows(new[k], cs[n])
           \/ \E l, n \in DOMAIN more : l # n /\ new[j] = more[l] /\ new[k] = more[n]
<1>1. \A l \in DOMAIN cs : cs[l] \in S
  BY ElementOfSeq, LenProperties
<1>2. PICK m : /\ \A i \in DOMAIN new :
                    \/ m[i] \in DOMAIN cs \ R /\ Same(new[i], cs[m[i]])
                    \/ \E l \in DOMAIN more : m[i] = Len(cs) + l /\ new[i] = more[l]
               /\ \A i, l \in DOMAIN new : m[i] = m[l] => i = l
  BY DEF Becomes
<1>3. m[j] # m[k]
  BY <1>2
<1>4. ASSUME NEW n \in DOMAIN new
      PROVE  \/ m[n] \in DOMAIN cs \ R /\ Follows(new[n], cs[m[n]])
             \/ \E l \in DOMAIN more : m[n] = Len(cs) + l /\ new[n] = more[l]
  <2>1. CASE m[n] \in DOMAIN cs \ R /\ Same(new[n], cs[m[n]])
    <3>1. Follows(new[n], cs[m[n]])
      BY <1>1, <2>1, SameAreAlike DEF Follows
    <3> QED BY <2>1, <3>1
  <2> QED BY <1>2, <2>1
<1>5. /\ \/ m[j] \in DOMAIN cs \ R /\ Follows(new[j], cs[m[j]])
         \/ \E l \in DOMAIN more : m[j] = Len(cs) + l /\ new[j] = more[l]
      /\ \/ m[k] \in DOMAIN cs \ R /\ Follows(new[k], cs[m[k]])
         \/ \E l \in DOMAIN more : m[k] = Len(cs) + l /\ new[k] = more[l]
  BY <1>4
<1> QED BY <1>3, <1>5

\* There is at most one call of some kinds.
Of(c, Ops, Thens) == c.op \in Ops /\ c.then \in Thens
Alone(cs, Ops, Thens) ==
    \A i, j \in DOMAIN cs : Of(cs[i], Ops, Thens) /\ Of(cs[j], Ops, Thens) => i = j

LEMMA StaysAlone ==
    ASSUME NEW S, CanBeOld(S), NEW cs \in Seq(S), NEW new, NEW R, NEW more,
           Becomes(new, cs, R, more), NEW Ops, NEW Thens, Alone(cs, Ops, Thens),
           \/ \A k \in DOMAIN more : ~Of(more[k], Ops, Thens)
           \/ DOMAIN more = {1} /\ \A k \in DOMAIN cs \ R : ~Of(cs[k], Ops, Thens)
    PROVE  Alone(new, Ops, Thens)
<1> SUFFICES ASSUME NEW i \in DOMAIN new, NEW j \in DOMAIN new,
                    Of(new[i], Ops, Thens), Of(new[j], Ops, Thens), i # j
             PROVE  FALSE
  BY DEF Alone
<1>1. \/ \E l, n \in DOMAIN cs \ R : l # n /\ Follows(new[i], cs[l]) /\ Follows(new[j], cs[n])
      \/ \E l \in DOMAIN cs \ R, n \in DOMAIN more : Follows(new[i], cs[l]) /\ new[j] = more[n]
      \/ \E l \in DOMAIN more, n \in DOMAIN cs \ R : new[i] = more[l] /\ Follows(new[j], cs[n])
      \/ \E l, n \in DOMAIN more : l # n /\ new[i] = more[l] /\ new[j] = more[n]
  BY PairFrom
<1>2. CASE \E l, n \in DOMAIN cs \ R : l # n /\ Follows(new[i], cs[l]) /\ Follows(new[j], cs[n])
  BY <1>2 DEF Alone, Of, Follows, Alike
<1>3. CASE \E l \in DOMAIN cs \ R, n \in DOMAIN more : Follows(new[i], cs[l]) /\ new[j] = more[n]
  BY <1>3 DEF Of, Follows, Alike
<1>4. CASE \E l \in DOMAIN more, n \in DOMAIN cs \ R : new[i] = more[l] /\ Follows(new[j], cs[n])
  BY <1>4 DEF Of, Follows, Alike
<1>5. CASE \E l, n \in DOMAIN more : l # n /\ new[i] = more[l] /\ new[j] = more[n]
  BY <1>5
<1> QED BY <1>1, <1>2, <1>3, <1>4, <1>5

(* The handlers of the pages.                                              *)

LEMMA EndedBecomes ==
    ASSUME NEW S, CanBeOld(S), calls \in Seq(S), NEW more \in Seq(S), NEW i \in DOMAIN calls
    PROVE  Ended(i, more) \in Seq(S) /\ Becomes(Ended(i, more), calls, {i}, more)
<1> DEFINE o == Outdated(calls, {j \in Doing(calls[i].op) \cap Answered : j < i})
<1>1. o \in Seq(S) /\ AsBefore(o, calls, i)
  BY OutdatedIs, Overtaken
<1>2. Ended(i, more) = RemoveAt(o, i) \o more
  BY DEF Ended
<1> HIDE DEF o
<1>3. RemoveAt(o, i) \o more \in Seq(S) /\ Becomes(RemoveAt(o, i) \o more, calls, {i}, more)
  BY <1>1, Dropped
<1> QED BY <1>2, <1>3

LEMMA RemovedBecomes ==
    ASSUME NEW S, CanBeOld(S), calls \in Seq(S), NEW old \in Seq(S), NEW i \in DOMAIN calls,
           AsBefore(old, calls, i)
    PROVE  RemoveAt(old, i) \in Seq(S) /\ Becomes(RemoveAt(old, i), calls, {i}, << >>)
<1>1. DOMAIN old = DOMAIN calls /\ << >> \in Seq(S)
  BY LenProperties, EmptySeq DEF AsBefore
<1>2. RemoveAt(old, i) \in Seq(S)
  BY <1>1, RemoveAtIs
<1>3. RemoveAt(old, i) \o << >> = RemoveAt(old, i)
  BY <1>2, ConcatEmptySeq
<1>4. Becomes(RemoveAt(old, i) \o << >>, calls, {i}, << >>)
  BY <1>1, Dropped
<1> QED BY <1>2, <1>3, <1>4

LEMMA ThrewBecomes ==
    ASSUME NEW S, CanBeOld(S), calls \in Seq(S), NEW i \in DOMAIN calls, ThrowUnheard(i)
    PROVE  calls' \in Seq(S) /\ Becomes(calls', calls, {i}, << >>)
<1> DEFINE o == IF WasServed(i) THEN Outdated(calls, Answered) ELSE calls
<1>1. o \in Seq(S) /\ AsBefore(o, calls, i)
  BY OutdatedIs, Overtaken
<1>2. calls' = RemoveAt(o, i)
  BY DEF ThrowUnheard
<1> HIDE DEF o
<1> QED BY <1>1, <1>2, RemovedBecomes

LEMMA AnsweredBecomes ==
    ASSUME NEW S, CanBeOld(S), calls \in Seq(S), NEW i \in DOMAIN calls, NEW c \in S,
           NEW new, new = [calls EXCEPT ![i] = c]
    PROVE  new \in Seq(S) /\ Becomes(new, calls, {i}, << c >>)
<1>1. new \in Seq(S) /\ Len(new) = Len(calls) /\ new[i] = c /\ \A j \in DOMAIN calls \ {i} : new[j] = calls[j]
  BY ExceptSeq, LenProperties
<1>2. AsBefore(new, calls, i)
  BY <1>1 DEF AsBefore, Same
<1> QED BY <1>1, <1>2, Changed

-----------------------------------------------------------------------------
(* The page of the users.                                                  *)

UserCalls == Users!LoadCall \cup Users!UpdateCall

LEMMA UsersOps ==
    /\ \A i, more : Users!Ended(i, more) = Ended(i, more)
    /\ \A s, i : Users!RemoveAt(s, i) = RemoveAt(s, i)
    /\ \A s, J : Users!Outdated(s, J) = Outdated(s, J)
    /\ \A more : Users!Start(more) <=> Start(more)
    /\ \A i : Users!ThrowUnheard(i) <=> ThrowUnheard(i)
    /\ \A op : Users!Doing(op) = Doing(op)
    /\ Users!Answered = Answered
<1>1. \A s, i : Users!RemoveAt(s, i) = RemoveAt(s, i)
  BY DEF Users!RemoveAt, RemoveAt
<1>2. \A s, J : Users!Outdated(s, J) = Outdated(s, J)
  BY DEF Users!Outdated, Outdated
<1>3. \A op : Users!Doing(op) = Doing(op)
  BY DEF Users!Doing, Doing
<1>4. Users!Answered = Answered
  BY DEF Users!Answered, Answered
<1>5. \A i : Users!WasServed(i) <=> WasServed(i)
  BY DEF Users!WasServed, WasServed
<1>6. \A i, more : Users!Ended(i, more) = Ended(i, more)
  BY <1>1, <1>2, <1>3, <1>4 DEF Users!Ended, Ended
<1>7. \A more : Users!Start(more) <=> Start(more)
  BY DEF Users!Start, Start
<1>8. \A i : Users!ThrowUnheard(i) <=> ThrowUnheard(i)
  BY <1>1, <1>2, <1>4, <1>5 DEF Users!ThrowUnheard, ThrowUnheard
<1> QED BY <1>1, <1>2, <1>3, <1>4, <1>6, <1>7, <1>8

LEMMA UserCallsCanBeOld == CanBeOld(UserCalls)
BY DEF CanBeOld, UserCalls, Users!LoadCall, Users!UpdateCall

LEMMA UserLoadCall ==
    Users!Call("load", None, None) \in UserCalls /\ Users!CallOK(Users!Call("load", None, None))
BY DEF Users!Call, UserCalls, Users!LoadCall, Users!CallOK, Users!LoadOK

\* What the page is loading, when the calls go on.
LEMMA UsersStayLoading ==
    ASSUME calls \in Seq(UserCalls), NEW R, NEW more \in Seq(UserCalls),
           Becomes(calls', calls, R, more),
           \/ \E k \in DOMAIN calls \ R : calls[k].op = "load"
           \/ \E k \in DOMAIN more : more[k].op = "load"
    PROVE  Users!Doing("load")' # {}
<1>1. CASE \E k \in DOMAIN calls \ R : calls[k].op = "load"
  BY <1>1, GoesOn, UserCallsCanBeOld DEF Users!Doing, Alike
<1>2. CASE \E k \in DOMAIN more : more[k].op = "load"
  BY <1>2, Appears DEF Users!Doing
<1> QED BY <1>1, <1>2

\* The calls are what they may be, while the users do not change.
LEMMA UsersCallsOK ==
    ASSUME Users!IInv, UNCHANGED db, NEW R, NEW more,
           Becomes(calls', calls, R, more), \A k \in DOMAIN more : Users!CallOK(more[k])
    PROVE  (\A j \in DOMAIN calls : Users!CallOK(calls[j]))'
<1>1. calls \in Seq(UserCalls) /\ \A k \in DOMAIN calls : Users!CallOK(calls[k])
  BY DEF Users!IInv, UserCalls
<1>2. ASSUME NEW j \in DOMAIN calls'
      PROVE  Users!CallOK(calls'[j])
  <2>1. CameFrom(calls'[j], calls, R, more)
    BY <1>1, UserCallsCanBeOld, ComesFrom
  <2>2. CASE \E k \in DOMAIN calls \ R : Alike(calls'[j], calls[k])
    BY <1>1, <2>2 DEF Alike, Users!CallOK, Users!LoadOK, Users!UpdateOK
  <2> QED BY <2>1, <2>2 DEF CameFrom
<1>3. \A c : Users!CallOK(c) => Users!CallOK(c)'
  BY DEF Users!CallOK, Users!LoadOK, Users!UpdateOK, Users!ActiveAdmins
<1> QED BY <1>2, <1>3

\* A step of the page, or one of the server that changes no user.
LEMMA UsersPageStep ==
    ASSUME Users!IInv, UNCHANGED db, NEW R, NEW more \in Seq(UserCalls),
           calls' \in Seq(UserCalls), Becomes(calls', calls, R, more),
           \A k \in DOMAIN more : Users!CallOK(more[k]),
           ui' \in [status : {"loading", "ready", "error"}, users : {None} \cup [User -> Users!UserRow]],
           IF ui'.status = "ready" THEN ui'.users \in [User -> Users!UserRow] ELSE ui'.users = None,
           ui'.status = "loading" => \/ \E k \in DOMAIN calls \ R : calls[k].op = "load"
                                     \/ \E k \in DOMAIN more : more[k].op = "load"
    PROVE  Users!IInv'
<1>1. calls \in Seq(UserCalls)
  BY DEF Users!IInv, UserCalls
<1>2. ui'.status = "loading" => Users!Doing("load")' # {}
  BY <1>1, UsersStayLoading
<1>3. (\A j \in DOMAIN calls : Users!CallOK(calls[j]))'
  BY UsersCallsOK
<1>4. Users!TypeOK'
  BY <1>2 DEF Users!IInv, Users!TypeOK
<1>5. Users!SomeAdminLeft'
  BY DEF Users!IInv, Users!SomeAdminLeft, Users!ActiveAdmins
<1> QED BY <1>3, <1>4, <1>5 DEF Users!IInv, UserCalls

LEMMA UsersLoadEnded ==
    ASSUME Users!IInv, NEW i \in DOMAIN calls, Users!LoadReturned(i) \/ Users!LoadThrew(i)
    PROVE  Users!IInv'
<1>1. calls \in Seq(UserCalls) /\ << >> \in Seq(UserCalls)
  BY EmptySeq DEF Users!IInv, UserCalls
<1>2. calls' = Ended(i, << >>) /\ UNCHANGED db
  BY UsersOps DEF Users!LoadReturned, Users!LoadThrew
<1>3. calls' \in Seq(UserCalls) /\ Becomes(calls', calls, {i}, << >>)
  BY <1>1, <1>2, UserCallsCanBeOld, EndedBecomes
<1>4. Users!LoadReturned(i) => calls[i].data \in [User -> Users!UserRow]
  BY DEF Users!LoadReturned, Users!Returned, Users!Doing, Users!IInv, Users!CallOK, Users!LoadOK
<1>5. /\ ui' \in [status : {"loading", "ready", "error"}, users : {None} \cup [User -> Users!UserRow]]
      /\ IF ui'.status = "ready" THEN ui'.users \in [User -> Users!UserRow] ELSE ui'.users = None
      /\ ui'.status # "loading"
  BY <1>4 DEF Users!LoadReturned, Users!LoadThrew, Users!IInv
<1>6. \A k \in DOMAIN << >> : Users!CallOK(<< >>[k])
  OBVIOUS
<1> QED BY <1>1, <1>2, <1>3, <1>5, <1>6, UsersPageStep

LEMMA UsersPut ==
    ASSUME Users!IInv, NEW u \in User, NEW by \in User, NEW change \in Users!Change,
           NEW op \in {"update", "elsewhere"}, UNCHANGED << ui, db >>,
           Users!Start(<< Users!Call(op, [of |-> u, by |-> by, change |-> change], None) >>)
    PROVE  Users!IInv'
<1> DEFINE c == Users!Call(op, [of |-> u, by |-> by, change |-> change], None)
<1>1. calls \in Seq(UserCalls)
  BY DEF Users!IInv, UserCalls
<1>2. c \in UserCalls /\ Users!CallOK(c)
  BY DEF UserCalls, Users!UpdateCall, Users!Call, Users!CallOK, Users!UpdateOK
<1>3. calls' = calls \o << c >>
  BY DEF Users!Start
<1> HIDE DEF c
<1>4. << c >> \in Seq(UserCalls) /\ DOMAIN << c >> = {1} /\ << c >>[1] = c
  BY <1>2
<1>5. calls' \in Seq(UserCalls) /\ Becomes(calls', calls, {}, << c >>)
  BY <1>1, <1>3, <1>4, Started
<1>6. ui.status = "loading" => \E k \in DOMAIN calls \ {} : calls[k].op = "load"
  BY DEF Users!IInv, Users!TypeOK, Users!Doing
<1>7. \A k \in DOMAIN << c >> : Users!CallOK(<< c >>[k])
  BY <1>2, <1>4
<1>8. /\ ui' \in [status : {"loading", "ready", "error"}, users : {None} \cup [User -> Users!UserRow]]
      /\ IF ui'.status = "ready" THEN ui'.users \in [User -> Users!UserRow] ELSE ui'.users = None
      /\ ui' = ui
  BY DEF Users!IInv, Users!TypeOK
<1> QED BY <1>1, <1>4, <1>5, <1>6, <1>7, <1>8, UsersPageStep

LEMMA UsersAsked ==
    ASSUME Users!IInv, NEW u \in User,
           \/ Users!HandleRoleChange(u) \/ Users!HandleToggleActive(u)
           \/ \E a \in User \ {Me}, change \in Users!Change : Users!RequestElsewhere(a, u, change)
    PROVE  Users!IInv'
<1>1. CASE Users!HandleRoleChange(u)
  <2>1. PICK role \in Users!Role : Users!PutUser(u, [role |-> role])
    BY <1>1 DEF Users!HandleRoleChange
  <2>2. [role |-> role] \in Users!Change
    BY DEF Users!Change
  <2> QED BY <2>1, <2>2, UsersPut, ScreensAssumption DEF Users!PutUser
<1>2. CASE Users!HandleToggleActive(u)
  <2>1. ui.users \in [User -> Users!UserRow]
    BY <1>2 DEF Users!HandleToggleActive, Users!IInv, Users!TypeOK
  <2>2. [is_active |-> ~ui.users[u].is_active] \in Users!Change
    BY <2>1 DEF Users!Change, Users!UserRow
  <2> QED BY <1>2, <2>2, UsersPut, ScreensAssumption DEF Users!HandleToggleActive, Users!PutUser
<1>3. CASE \E a \in User \ {Me}, change \in Users!Change : Users!RequestElsewhere(a, u, change)
  BY <1>3, UsersPut DEF Users!RequestElsewhere
<1> QED BY <1>1, <1>2, <1>3

LEMMA UsersUpdateEnded ==
    ASSUME Users!IInv, NEW i \in DOMAIN calls,
           Users!UpdateReturned(i) \/ Users!UpdateThrew(i) \/ Users!HeardElsewhere(i)
    PROVE  Users!IInv'
<1>1. /\ calls \in Seq(UserCalls) /\ << >> \in Seq(UserCalls)
      /\ \A k \in DOMAIN calls : Users!CallOK(calls[k])
  BY EmptySeq DEF Users!IInv, UserCalls
<1>2. /\ ui \in [status : {"loading", "ready", "error"}, users : {None} \cup [User -> Users!UserRow]]
      /\ IF ui.status = "ready" THEN ui.users \in [User -> Users!UserRow] ELSE ui.users = None
      /\ ui.status = "loading" => \E k \in DOMAIN calls : calls[k].op = "load"
  BY DEF Users!IInv, Users!TypeOK, Users!Doing
<1>3. CASE Users!UpdateReturned(i)
  <2> DEFINE c == Users!Call("load", None, None)
  <2>1. c \in UserCalls /\ Users!CallOK(c) /\ c.op = "load"
    BY UserLoadCall DEF Users!Call
  <2>2. calls' = Ended(i, << c >>) /\ UNCHANGED db
    BY <1>3, UsersOps DEF Users!UpdateReturned
  <2>3. /\ ui' \in [status : {"loading", "ready", "error"}, users : {None} \cup [User -> Users!UserRow]]
        /\ ui'.status # "ready" /\ ui'.users = None
    BY <1>2, <1>3 DEF Users!UpdateReturned
  <2> HIDE DEF c
  <2>4. << c >> \in Seq(UserCalls) /\ DOMAIN << c >> = {1} /\ << c >>[1] = c
    BY <2>1
  <2>5. calls' \in Seq(UserCalls) /\ Becomes(calls', calls, {i}, << c >>)
    BY <1>1, <2>2, <2>4, UserCallsCanBeOld, EndedBecomes
  <2>6. (\A k \in DOMAIN << c >> : Users!CallOK(<< c >>[k])) /\ \E k \in DOMAIN << c >> : << c >>[k].op = "load"
    BY <2>1, <2>4
  <2> QED BY <2>2, <2>3, <2>4, <2>5, <2>6, UsersPageStep
<1>4. CASE Users!UpdateThrew(i) \/ Users!HeardElsewhere(i)
  <2>1. calls[i].op # "load" /\ UNCHANGED << ui, db >>
    BY <1>4 DEF Users!UpdateThrew, Users!HeardElsewhere, Users!Threw, Users!Doing
  <2>2. calls' \in Seq(UserCalls) /\ Becomes(calls', calls, {i}, << >>)
    <3>1. CASE Users!UpdateThrew(i)
      BY <1>1, <3>1, UsersOps, UserCallsCanBeOld, ThrewBecomes DEF Users!UpdateThrew
    <3>2. CASE Users!HeardElsewhere(i)
      <4>1. calls' = RemoveAt(calls, i) /\ AsBefore(calls, calls, i)
        BY <1>1, <3>2, UsersOps, UserCallsCanBeOld, Overtaken DEF Users!HeardElsewhere
      <4> QED BY <1>1, <4>1, UserCallsCanBeOld, RemovedBecomes
    <3> QED BY <1>4, <3>1, <3>2
  <2>3. ui.status = "loading" => \E k \in DOMAIN calls \ {i} : calls[k].op = "load"
    BY <1>2, <2>1
  <2>4. ui' = ui /\ db' = db
    BY <2>1
  <2>5. \A k \in DOMAIN << >> : Users!CallOK(<< >>[k])
    OBVIOUS
  <2> QED BY <1>1, <1>2, <2>2, <2>3, <2>4, <2>5, UsersPageStep
<1> QED BY <1>3, <1>4

\* A step of the server that answers, or goes on with, one call.
LEMMA UsersServe ==
    ASSUME Users!IInv, NEW i \in DOMAIN calls, NEW c \in UserCalls, calls' = [calls EXCEPT ![i] = c],
           Users!CallOK(c), c.op = calls[i].op, UNCHANGED << ui, db >>
    PROVE  Users!IInv'
<1>1. calls \in Seq(UserCalls)
  BY DEF Users!IInv, UserCalls
<1>2. calls' \in Seq(UserCalls) /\ Becomes(calls', calls, {i}, << c >>)
  BY <1>1, UserCallsCanBeOld, AnsweredBecomes
<1>3. << c >> \in Seq(UserCalls) /\ DOMAIN << c >> = {1} /\ << c >>[1] = c
  OBVIOUS
<1>4. ui.status = "loading" => \E k \in DOMAIN calls : calls[k].op = "load"
  BY DEF Users!IInv, Users!TypeOK, Users!Doing
<1>5. ui.status = "loading" => \/ \E k \in DOMAIN calls \ {i} : calls[k].op = "load"
                               \/ \E k \in DOMAIN << c >> : << c >>[k].op = "load"
  BY <1>3, <1>4
<1>6. \A k \in DOMAIN << c >> : Users!CallOK(<< c >>[k])
  BY <1>3
<1>7. /\ ui \in [status : {"loading", "ready", "error"}, users : {None} \cup [User -> Users!UserRow]]
      /\ IF ui.status = "ready" THEN ui.users \in [User -> Users!UserRow] ELSE ui.users = None
  BY DEF Users!IInv, Users!TypeOK
<1>8. ui' = ui /\ db' = db
  OBVIOUS
<1> QED BY <1>2, <1>3, <1>5, <1>6, <1>7, <1>8, UsersPageStep

\* The calls of the page and of the others, one by one.
LEMMA UserCallIs ==
    ASSUME Users!IInv, NEW i \in DOMAIN calls
    PROVE  /\ calls[i] \in UserCalls /\ Users!CallOK(calls[i])
           /\ calls[i].op = "load" => calls[i] \in Users!LoadCall
           /\ calls[i].op # "load" => calls[i] \in Users!UpdateCall
           /\ i \in Users!Updating <=> calls[i].op # "load"
<1>1. calls[i] \in UserCalls
  BY ElementOfSeq, LenProperties DEF Users!IInv, UserCalls
<1> QED BY <1>1 DEF UserCalls, Users!LoadCall, Users!UpdateCall, Users!IInv, Users!Updating, Users!Doing

LEMMA UsersServeList ==
    ASSUME Users!IInv, NEW i \in DOMAIN calls, Users!ServeList(i)
    PROVE  Users!IInv'
<1>1. calls[i] \in Users!LoadCall /\ db.user \in [User -> Users!UserRow]
  BY UserCallIs DEF Users!ServeList, Users!Asked, Users!Doing, Users!IInv
<1> DEFINE ok == [[calls[i] EXCEPT !.state = "ok"] EXCEPT !.data = db.user]
           no == [calls[i] EXCEPT !.state = "error"]
<1>2. ok \in Users!LoadCall /\ Users!CallOK(ok) /\ no \in Users!LoadCall /\ Users!CallOK(no)
      /\ ok.op = calls[i].op /\ no.op = calls[i].op
  BY <1>1 DEF Users!LoadCall, Users!CallOK, Users!LoadOK
<1>3. \/ calls' = [calls EXCEPT ![i] = ok]
      \/ calls' = [calls EXCEPT ![i] = no]
  BY DEF Users!ServeList, Users!Reply, Users!Refusal
<1>4. ui' = ui /\ db' = db
  BY DEF Users!ServeList
<1> HIDE DEF ok, no
<1> QED BY <1>2, <1>3, <1>4, UsersServe DEF UserCalls

LEMMA UsersLoadUser ==
    ASSUME Users!IInv, NEW i \in DOMAIN calls, Users!LoadUser(i)
    PROVE  Users!IInv'
<1>1. calls[i] \in Users!UpdateCall /\ db.user \in [User -> Users!UserRow]
  BY UserCallIs DEF Users!LoadUser, Users!IInv
<1> DEFINE ok == [[calls[i] EXCEPT !.state = "loaded"] EXCEPT !.data = db.user[calls[i].arg.of]]
           no == [calls[i] EXCEPT !.state = "error"]
<1>2. ok \in Users!UpdateCall /\ Users!CallOK(ok) /\ ok.op = calls[i].op
  BY <1>1 DEF Users!UpdateCall, Users!CallOK, Users!UpdateOK
<1>3. no \in Users!UpdateCall /\ Users!CallOK(no) /\ no.op = calls[i].op
  BY <1>1 DEF Users!UpdateCall, Users!CallOK, Users!UpdateOK
<1>4. \/ calls' = [calls EXCEPT ![i] = ok]
      \/ calls' = [calls EXCEPT ![i] = no]
  BY DEF Users!LoadUser, Users!Refusal
<1>5. ui' = ui /\ db' = db
  BY DEF Users!LoadUser
<1> HIDE DEF ok, no
<1> QED BY <1>2, <1>3, <1>4, <1>5, UsersServe DEF UserCalls

\* An update that takes an administrator away goes on only when there is another.
LEMMA UsersAssert ==
    ASSUME Users!IInv, NEW i \in DOMAIN calls, Users!AssertWontRemoveLastAdmin(i)
    PROVE  Users!IInv'
<1>1. calls[i] \in Users!UpdateCall /\ Users!CallOK(calls[i]) /\ calls[i].state = "loaded"
  BY UserCallIs DEF Users!AssertWontRemoveLastAdmin
<1> DEFINE ok == [calls[i] EXCEPT !.state = "counted"]
           no == [calls[i] EXCEPT !.state = "error"]
           away == Users!TakesAdminAway(calls[i].data, calls[i].arg.change)
<1>2. no \in Users!UpdateCall /\ Users!CallOK(no) /\ no.op = calls[i].op
  BY <1>1 DEF Users!UpdateCall, Users!CallOK, Users!UpdateOK
<1>3. /\ ok \in Users!UpdateCall /\ ok.op = calls[i].op /\ ok.op # "load" /\ ok.state = "counted"
      /\ ok.data = calls[i].data /\ ok.arg = calls[i].arg
  BY <1>1 DEF Users!UpdateCall
<1>4. /\ calls[i].data \in Users!UserRow
      /\ ~db.raced => calls[i].data = db.user[calls[i].arg.of]
  BY <1>1 DEF Users!CallOK, Users!UpdateOK, Users!UpdateCall
<1>5. Users!Cardinality({}) = 0
  <2>1. Users!Cardinality({}) = Cardinality({})
    BY DEF Users!Cardinality, Cardinality, Users!IsFiniteSet, IsFiniteSet
  <2> QED BY <2>1, FS_EmptySet
<1>6. \/ calls' = [calls EXCEPT ![i] = no]
      \/ /\ calls' = [calls EXCEPT ![i] = ok]
         /\ away => Users!ActiveAdmins \ {calls[i].arg.of} # {}
  BY <1>5 DEF Users!AssertWontRemoveLastAdmin, Users!Refusal, Users!CountOtherActiveAdmins,
              Users!TakesAdminAway
<1>7. ui' = ui /\ db' = db
  BY DEF Users!AssertWontRemoveLastAdmin
<1> HIDE DEF ok, no
<1>8. ASSUME away => Users!ActiveAdmins \ {calls[i].arg.of} # {}
      PROVE  Users!CallOK(ok)
  BY <1>3, <1>4, <1>8 DEF Users!CallOK, Users!UpdateOK
<1> QED BY <1>2, <1>3, <1>6, <1>7, <1>8, UsersServe DEF UserCalls

\* A commit that no other update has overlapped leaves an administrator: the one it keeps,
\* another that was counted, or whoever there was.
LEMMA UsersUpdateKeepsAdmin ==
    ASSUME Users!IInv, NEW i \in DOMAIN calls, Users!UpdateUser(i), ~db'.raced
    PROVE  Users!ActiveAdmins' # {}
<1> DEFINE u == calls[i].arg.of
           change == calls[i].arg.change
           row == db.user[u]
           to == Users!Updated(row, change)
<1>1. calls[i] \in Users!UpdateCall /\ Users!CallOK(calls[i]) /\ calls[i].state = "counted" /\ ~db.raced
  BY UserCallIs DEF Users!UpdateUser, Users!IInv
<1>2. /\ u \in User /\ change \in Users!Change /\ calls[i].data = row
      /\ Users!TakesAdminAway(row, change) => Users!ActiveAdmins \ {u} # {}
  BY <1>1 DEF Users!CallOK, Users!UpdateOK, Users!UpdateCall
<1>3. db.user \in [User -> Users!UserRow] /\ row \in Users!UserRow /\ Users!ActiveAdmins # {}
  BY <1>1, <1>2 DEF Users!IInv, Users!SomeAdminLeft
<1>4. to \in Users!UserRow
  BY <1>2, <1>3 DEF Users!Updated, Users!UserRow, Users!Change, Users!Role
<1>5. db'.user = [db.user EXCEPT ![u] = [f \in DOMAIN row |-> IF to[f] # row[f] THEN to[f] ELSE row[f]]]
  BY <1>2 DEF Users!UpdateUser, Users!IInv
<1>6. [f \in DOMAIN row |-> IF to[f] # row[f] THEN to[f] ELSE row[f]] = to
  BY <1>3, <1>4 DEF Users!UserRow
<1>7. db'.user = [db.user EXCEPT ![u] = to]
  BY <1>5, <1>6
<1>8. Users!TakesAdminAway(row, change) <=> Users!IsActiveAdmin(row) /\ ~Users!IsActiveAdmin(to)
  BY DEF Users!TakesAdminAway
<1> HIDE DEF u, change, to
<1>9. \A v \in User \ {u} : db'.user[v] = db.user[v]
  BY <1>3, <1>7
<1>10. db'.user[u] = to
  BY <1>2, <1>3, <1>7
<1>11. CASE Users!ActiveAdmins \ {u} # {}
  BY <1>9, <1>11 DEF Users!ActiveAdmins
<1>12. CASE Users!ActiveAdmins \ {u} = {}
  <2>1. u \in Users!ActiveAdmins
    BY <1>3, <1>12
  <2>2. Users!IsActiveAdmin(row)
    BY <2>1 DEF Users!ActiveAdmins
  <2>3. Users!IsActiveAdmin(to)
    BY <1>2, <1>8, <1>12, <2>2
  <2> QED BY <1>2, <1>10, <2>3 DEF Users!ActiveAdmins
<1> QED BY <1>11, <1>12

LEMMA UsersUpdateUser ==
    ASSUME Users!IInv, NEW i \in DOMAIN calls, Users!UpdateUser(i)
    PROVE  Users!IInv'
<1> DEFINE u == calls[i].arg.of
           read == calls[i].data
           to == Users!Updated(read, calls[i].arg.change)
           new == [f \in DOMAIN db.user[u] |-> IF to[f] # read[f] THEN to[f] ELSE db.user[u][f]]
           others == {j \in Users!Updating \ {i} : calls[j].state \in {"loaded", "counted"}}
           c == [[calls[i] EXCEPT !.state = "ok"] EXCEPT !.data = None]
           done == [calls EXCEPT ![i] = c]
<1>1. /\ calls[i] \in Users!UpdateCall /\ Users!CallOK(calls[i]) /\ calls[i].state = "counted"
      /\ calls \in Seq(UserCalls)
  BY UserCallIs DEF Users!UpdateUser, Users!IInv, UserCalls
<1>2. u \in User /\ read \in Users!UserRow /\ db.user \in [User -> Users!UserRow] /\ db.raced \in BOOLEAN
  BY <1>1 DEF Users!CallOK, Users!UpdateOK, Users!UpdateCall, Users!IInv
<1>3. to \in Users!UserRow
  BY <1>1, <1>2 DEF Users!Updated, Users!UserRow, Users!Change, Users!Role, Users!UpdateCall
<1>4. new \in Users!UserRow
  <2>1. db.user[u] \in Users!UserRow
    BY <1>2
  <2> HIDE DEF to, read
  <2> QED BY <1>2, <1>3, <2>1 DEF Users!UserRow
<1>5. /\ db' = [user |-> [db.user EXCEPT ![u] = new], raced |-> db.raced \/ others # {}]
      /\ ui' = ui
  BY DEF Users!UpdateUser
<1>6. c \in Users!UpdateCall /\ c.op = calls[i].op /\ c.op # "load" /\ c.state = "ok"
  BY <1>1 DEF Users!UpdateCall
<1>7. calls' = done \/ calls' = Outdated(done, Users!Answered)
  BY UsersOps DEF Users!UpdateUser
<1> HIDE DEF u, read, to, new, c
<1>8. done \in Seq(UserCalls) /\ AsBefore(done, calls, i) /\ done[i] = c
  BY <1>1, <1>6, ExceptSeq, LenProperties DEF UserCalls, AsBefore, Same
<1> HIDE DEF done
<1>9. /\ calls' \in Seq(UserCalls) /\ Len(calls') = Len(done) /\ DOMAIN calls' = DOMAIN done
      /\ \A j \in DOMAIN done : Same(calls'[j], done[j])
  BY <1>7, <1>8, OutdatedIs, UserCallsCanBeOld DEF Same
<1>10. DOMAIN calls' = DOMAIN calls /\ DOMAIN done = DOMAIN calls
  BY <1>1, <1>8, <1>9, LenProperties DEF AsBefore
<1>11. ASSUME NEW j \in DOMAIN calls'
       PROVE  /\ Alike(calls'[j], done[j])
              /\ done[j] \in UserCalls /\ calls'[j].op = calls[j].op
              /\ j # i => Alike(done[j], calls[j])
  <2>1. done[j] \in UserCalls /\ calls[j] \in UserCalls
    BY <1>1, <1>8, <1>10, ElementOfSeq, LenProperties
  <2>2. Alike(calls'[j], done[j])
    BY <1>9, <1>10, <2>1, SameAreAlike, UserCallsCanBeOld
  <2>3. j # i => Alike(done[j], calls[j])
    BY <1>8, <1>10, <2>1, SameAreAlike, UserCallsCanBeOld DEF AsBefore
  <2> QED BY <1>6, <1>8, <2>1, <2>2, <2>3 DEF Alike
<1>12. db' \in [user : [User -> Users!UserRow], raced : BOOLEAN]
  <2> HIDE DEF others
  <2>1. [db.user EXCEPT ![u] = new] \in [User -> Users!UserRow]
    BY <1>2, <1>4
  <2> QED BY <1>2, <1>5, <2>1
<1>13. db'.raced \/ \A j \in Users!Updating \ {i} : calls[j].state \notin {"loaded", "counted"}
  BY <1>5
<1>14. (\A j \in DOMAIN calls : Users!CallOK(calls[j]))'
  <2> SUFFICES ASSUME NEW j \in DOMAIN calls' PROVE Users!CallOK(calls[j])'
    OBVIOUS
  <2>1. CASE j = i
    <3>1. calls'[j].state = "ok" /\ calls'[j].op # "load"
      BY <1>6, <1>8, <1>11, <2>1 DEF Alike
    <3> QED BY <3>1 DEF Users!CallOK, Users!UpdateOK
  <2>2. CASE j # i
    <3>1. Alike(calls'[j], calls[j]) /\ j \in DOMAIN calls /\ Users!CallOK(calls[j])
      BY <1>10, <1>11, <2>2, UserCallIs DEF Alike
    <3>2. CASE calls[j].op = "load"
      BY <3>1, <3>2 DEF Users!CallOK, Users!LoadOK, Alike
    <3>3. CASE calls[j].op # "load"
      <4>1. calls[j].state \in {"loaded", "counted"} => calls[j].data \in Users!UserRow /\ db'.raced
        BY <1>13, <2>2, <3>1, <3>3, UserCallIs DEF Users!CallOK, Users!UpdateOK
      <4> QED BY <3>1, <3>3, <4>1 DEF Users!CallOK, Users!UpdateOK, Alike
    <3> QED BY <3>2, <3>3
  <2> QED BY <2>1, <2>2
<1>15. ui.status = "loading" => Users!Doing("load")' # {}
  BY <1>10, <1>11 DEF Users!IInv, Users!TypeOK, Users!Doing
<1>16. Users!TypeOK'
  BY <1>5, <1>12, <1>15 DEF Users!IInv, Users!TypeOK
<1>17. Users!SomeAdminLeft'
  BY UsersUpdateKeepsAdmin DEF Users!SomeAdminLeft
<1> QED BY <1>5, <1>9, <1>12, <1>14, <1>16, <1>17 DEF Users!IInv, UserCalls

LEMMA UsersInit ==
    ASSUME Users!Init
    PROVE  Users!IInv
<1>1. PICK users \in [User -> Users!UserRow] :
        Users!IsActiveAdmin(users[Me]) /\ db = [user |-> users, raced |-> FALSE]
  BY DEF Users!Init
<1>2. Users!SomeAdminLeft
  BY <1>1, ScreensAssumption DEF Users!SomeAdminLeft, Users!ActiveAdmins
<1> DEFINE c == Users!Call("load", None, None)
<1>3. c \in UserCalls /\ Users!CallOK(c) /\ c.op = "load"
  BY UserLoadCall DEF Users!Call
<1>4. calls = << c >> /\ ui = [status |-> "loading", users |-> None]
  BY DEF Users!Init
<1> HIDE DEF c
<1>5. calls \in Seq(UserCalls) /\ DOMAIN calls = {1} /\ calls[1] = c
  BY <1>3, <1>4
<1>6. Users!TypeOK
  BY <1>1, <1>3, <1>4, <1>5 DEF Users!TypeOK, Users!Doing
<1> QED BY <1>1, <1>2, <1>3, <1>4, <1>5, <1>6 DEF Users!IInv, UserCalls

LEMMA UsersNext ==
    ASSUME Users!IInv, Users!Next
    PROVE  Users!IInv'
<1>1. CASE \E u \in User :
             \/ Users!HandleRoleChange(u) \/ Users!HandleToggleActive(u)
             \/ \E a \in User \ {Me}, change \in Users!Change : Users!RequestElsewhere(a, u, change)
  BY <1>1, UsersAsked
<1>2. CASE \E i \in DOMAIN calls : Users!LoadReturned(i) \/ Users!LoadThrew(i)
  BY <1>2, UsersLoadEnded
<1>3. CASE \E i \in DOMAIN calls : Users!UpdateReturned(i) \/ Users!UpdateThrew(i) \/ Users!HeardElsewhere(i)
  BY <1>3, UsersUpdateEnded
<1>4. CASE \E i \in DOMAIN calls : Users!ServeList(i) \/ Users!LoadUser(i)
  BY <1>4, UsersServeList, UsersLoadUser
<1>5. CASE \E i \in DOMAIN calls : Users!AssertWontRemoveLastAdmin(i) \/ Users!UpdateUser(i)
  BY <1>5, UsersAssert, UsersUpdateUser
<1> QED BY <1>1, <1>2, <1>3, <1>4, <1>5 DEF Users!Next

-----------------------------------------------------------------------------
(* The page of the settings.                                               *)

SettingsCalls == Settings!FetchCall \cup Settings!LogoCall \cup Settings!NameCall

LEMMA SettingsOps ==
    /\ \A s, i : Settings!RemoveAt(s, i) = RemoveAt(s, i)
    /\ \A s, J : Settings!Outdated(s, J) = Outdated(s, J)
    /\ \A more : Settings!Start(more) <=> Start(more)
    /\ \A op : Settings!Doing(op) = Doing(op)
    /\ Settings!Answered = Answered
BY DEF Settings!RemoveAt, RemoveAt, Settings!Outdated, Outdated, Settings!Start, Start,
       Settings!Doing, Doing, Settings!Answered, Answered

LEMMA SettingsCallsCanBeOld == CanBeOld(SettingsCalls)
BY DEF CanBeOld, SettingsCalls, Settings!FetchCall, Settings!LogoCall, Settings!NameCall

\* The listeners load the settings on their own.
LEMMA SettingsLoads ==
    /\ Settings!Loads \in Seq(Settings!FetchCall)
    /\ \A k \in DOMAIN Settings!Loads :
         Settings!Loads[k].op = "fetchAppSettings" /\ Settings!Loads[k].state = "sent"
<1> DEFINE n == Cardinality(Listener)
           f == Settings!SetToSeq(Listener)
           c(k) == Settings!Call("fetchAppSettings", f[k], None)
<1>1. Settings!Cardinality(Listener) = n
  BY DEF Settings!Cardinality, Cardinality, Settings!IsFiniteSet, IsFiniteSet
<1>2. n \in Nat /\ ExistsBijection(1 .. n, Listener)
  BY ScreensAssumption, FS_CardinalityType
<1>3. PICK g \in [1 .. n -> Listener] : \A a, b \in 1 .. n : g[a] = g[b] => a = b
  BY <1>2 DEF ExistsBijection, Bijection, Injection, IsInjective
<1>4. f = CHOOSE h \in [1 .. n -> Listener] : Settings!IsInjective(h)
  BY <1>1 DEF Settings!SetToSeq
<1>5. Settings!IsInjective(g)
  BY <1>3 DEF Settings!IsInjective
<1> HIDE DEF n, f
<1>6. f \in [1 .. n -> Listener]
  BY <1>4, <1>5
<1>7. Settings!Loads = [k \in 1 .. n |-> c(k)]
  BY <1>1 DEF Settings!Loads, f, n
<1>8. \A k \in 1 .. n : c(k) \in Settings!FetchCall /\ c(k).op = "fetchAppSettings" /\ c(k).state = "sent"
  BY <1>6 DEF Settings!Call, Settings!FetchCall
<1> HIDE DEF c
<1>9. [k \in 1 .. n |-> c(k)] \in Seq(Settings!FetchCall)
  BY <1>2, <1>8, IsASeq
<1>10. DOMAIN Settings!Loads = 1 .. n /\ \A k \in 1 .. n : Settings!Loads[k] = c(k)
  BY <1>7
<1> QED BY <1>7, <1>8, <1>9, <1>10

\* One call of the settings.
LEMMA SettingsCallIs ==
    ASSUME Settings!IInv, NEW i \in DOMAIN calls
    PROVE  /\ calls[i] \in SettingsCalls /\ Settings!CallOK(calls[i])
           /\ calls[i].op = "fetchAppSettings" => calls[i] \in Settings!FetchCall
           /\ calls[i].op \in {"uploadLogo", "deleteLogo"} => calls[i] \in Settings!LogoCall
           /\ calls[i].op = "updateCompanyName" => calls[i] \in Settings!NameCall
           /\ calls[i].op \in {"fetchAppSettings", "uploadLogo", "deleteLogo", "updateCompanyName"}
<1>1. calls[i] \in SettingsCalls
  BY ElementOfSeq, LenProperties DEF Settings!IInv, SettingsCalls
<1> QED BY <1>1 DEF SettingsCalls, Settings!FetchCall, Settings!LogoCall, Settings!NameCall, Settings!IInv

\* What is kept apart, kept of calls that are alike.
LEMMA SettingsAlike ==
    ASSUME NEW c, NEW d, Alike(c, d)
    PROVE  /\ Settings!CallOK(d) => Settings!CallOK(c)
           /\ Settings!Stored(c) <=> Settings!Stored(d)
           /\ Settings!HasRead(c) <=> Settings!HasRead(d)
BY DEF Alike, Settings!CallOK, Settings!Stored, Settings!HasRead

LEMMA SettingsKeptApart ==
    ASSUME Settings!IInv, UNCHANGED db, NEW R, NEW more,
           Becomes(calls', calls, R, more),
           \A k \in DOMAIN more : /\ ~Settings!Stored(more[k]) /\ ~Settings!HasRead(more[k])
                                  /\ Settings!CallOK(more[k])
    PROVE  /\ (\A i \in DOMAIN calls : Settings!CallOK(calls[i]))'
           /\ (\A i, j \in DOMAIN calls : /\ Settings!Apart(calls[i], calls[j])
                                          /\ i # j => Settings!Distinct(calls[i], calls[j]))'
<1>1. calls \in Seq(SettingsCalls) /\ \A k \in DOMAIN calls : Settings!CallOK(calls[k])
  BY DEF Settings!IInv, SettingsCalls
<1>2. \A k \in DOMAIN more : ~Settings!Stored(more[k]) /\ ~Settings!HasRead(more[k])
  OBVIOUS
<1>3. ASSUME NEW j \in DOMAIN calls'
      PROVE  /\ Settings!CallOK(calls'[j])
             /\ \/ \E k \in DOMAIN calls : Alike(calls'[j], calls[k])
                \/ ~Settings!Stored(calls'[j]) /\ ~Settings!HasRead(calls'[j])
  <2>1. CameFrom(calls'[j], calls, R, more)
    BY <1>1, SettingsCallsCanBeOld, ComesFrom
  <2>2. CASE \E k \in DOMAIN calls \ R : Alike(calls'[j], calls[k])
    BY <1>1, <2>2, SettingsAlike
  <2>3. CASE \E k \in DOMAIN more : calls'[j] = more[k]
    BY <1>2, <2>3
  <2> QED BY <2>1, <2>2, <2>3 DEF CameFrom
<1>4. \A c : Settings!CallOK(c) => Settings!CallOK(c)'
  BY DEF Settings!CallOK, Settings!Stored, Settings!HasRead
<1>5. ASSUME NEW i \in DOMAIN calls', NEW j \in DOMAIN calls'
      PROVE  Settings!Apart(calls'[i], calls'[j])
  <2>1. CASE Settings!Stored(calls'[i]) /\ Settings!HasRead(calls'[j])
    <3>1. PICK k \in DOMAIN calls, l \in DOMAIN calls : Alike(calls'[i], calls[k]) /\ Alike(calls'[j], calls[l])
      BY <1>3, <2>1
    <3>2. Settings!Apart(calls[k], calls[l])
      BY DEF Settings!IInv
    <3> QED BY <2>1, <3>1, <3>2 DEF Settings!Apart, Alike, Settings!Stored, Settings!HasRead
  <2> QED BY <2>1 DEF Settings!Apart
<1>6. ASSUME NEW i \in DOMAIN calls', NEW j \in DOMAIN calls', i # j
      PROVE  Settings!Distinct(calls'[i], calls'[j])
  <2>1. CASE Settings!Stored(calls'[i]) /\ Settings!Stored(calls'[j])
    <3>1. PICK k \in DOMAIN calls, l \in DOMAIN calls :
            k # l /\ Alike(calls'[i], calls[k]) /\ Alike(calls'[j], calls[l])
      <4>1. \/ \E k, l \in DOMAIN calls \ R : k # l /\ Follows(calls'[i], calls[k]) /\ Follows(calls'[j], calls[l])
            \/ \E k \in DOMAIN calls \ R, l \in DOMAIN more : Follows(calls'[i], calls[k]) /\ calls'[j] = more[l]
            \/ \E k \in DOMAIN more, l \in DOMAIN calls \ R : calls'[i] = more[k] /\ Follows(calls'[j], calls[l])
            \/ \E k, l \in DOMAIN more : k # l /\ calls'[i] = more[k] /\ calls'[j] = more[l]
        BY <1>1, <1>6, SettingsCallsCanBeOld, PairFrom
      <4> QED BY <1>2, <2>1, <4>1 DEF Follows
    <3>2. Settings!Distinct(calls[k], calls[l])
      BY <3>1 DEF Settings!IInv
    <3> QED BY <2>1, <3>1, <3>2 DEF Settings!Distinct, Alike, Settings!Stored
  <2> QED BY <2>1 DEF Settings!Distinct
<1>7. \A c, d : (Settings!Apart(c, d) => Settings!Apart(c, d)') /\ (Settings!Distinct(c, d) => Settings!Distinct(c, d)')
  BY DEF Settings!Apart, Settings!Distinct, Settings!Stored, Settings!HasRead
<1> QED BY <1>3, <1>4, <1>5, <1>6, <1>7

LogoOps == {"uploadLogo", "deleteLogo"}
NameOps == {"updateCompanyName"}

LEMMA SettingsAlone ==
    /\ (\A i, j \in Settings!LogoCalls("here") : i = j) <=> Alone(calls, LogoOps, {"here"})
    /\ (\A i, j \in Settings!NameCalls("here") : i = j) <=> Alone(calls, NameOps, {"here"})
BY DEF Settings!LogoCalls, Settings!NameCalls, Settings!Doing, Alone, Of, LogoOps, NameOps

PageLoads(cs, K) == \E k \in K : cs[k].op = "fetchAppSettings" /\ cs[k].arg = "page"

SettingsUi ==
    [status : {"loading", "ready", "error"}, page : Settings!SettingsRow,
     brand : [Listener -> Settings!SettingsRow]]

\* A step of the page or of its listeners, or a request.
LEMMA SettingsPageStep ==
    ASSUME Settings!IInv, UNCHANGED db, NEW R, NEW more \in Seq(SettingsCalls),
           calls' \in Seq(SettingsCalls), Becomes(calls', calls, R, more),
           \A k \in DOMAIN more : /\ ~Settings!Stored(more[k]) /\ ~Settings!HasRead(more[k])
                                  /\ Settings!CallOK(more[k]),
           \/ \A k \in DOMAIN more : ~Of(more[k], LogoOps, {"here"})
           \/ DOMAIN more = {1} /\ \A k \in DOMAIN calls \ R : ~Of(calls[k], LogoOps, {"here"}),
           \/ \A k \in DOMAIN more : ~Of(more[k], NameOps, {"here"})
           \/ DOMAIN more = {1} /\ \A k \in DOMAIN calls \ R : ~Of(calls[k], NameOps, {"here"}),
           ui' \in SettingsUi,
           behind' \subseteq Settings!Setting \cup Listener,
           ui'.status = "loading" => PageLoads(calls, DOMAIN calls \ R) \/ PageLoads(more, DOMAIN more)
    PROVE  Settings!IInv'
<1>1. calls \in Seq(SettingsCalls)
  BY DEF Settings!IInv, SettingsCalls
<1>2. Alone(calls, LogoOps, {"here"}) /\ Alone(calls, NameOps, {"here"})
  BY SettingsAlone DEF Settings!IInv, Settings!TypeOK
<1>3. Alone(calls', LogoOps, {"here"})
  BY <1>1, <1>2, SettingsCallsCanBeOld, StaysAlone
<1>4. Alone(calls', NameOps, {"here"})
  BY <1>1, <1>2, SettingsCallsCanBeOld, StaysAlone
<1>5. /\ (\A i, j \in Settings!LogoCalls("here") : i = j)'
      /\ (\A i, j \in Settings!NameCalls("here") : i = j)'
  BY <1>3, <1>4 DEF Settings!LogoCalls, Settings!NameCalls, Settings!Doing, Alone, Of, LogoOps, NameOps
<1>6. ui'.status = "loading" => PageLoads(calls', DOMAIN calls')
  <2>1. PageLoads(calls, DOMAIN calls \ R) => PageLoads(calls', DOMAIN calls')
    BY <1>1, SettingsCallsCanBeOld, GoesOn DEF PageLoads, Alike
  <2>2. PageLoads(more, DOMAIN more) => PageLoads(calls', DOMAIN calls')
    BY <1>1, Appears DEF PageLoads
  <2> QED BY <2>1, <2>2
<1>7. /\ (\A i \in DOMAIN calls : Settings!CallOK(calls[i]))'
      /\ (\A i, j \in DOMAIN calls : /\ Settings!Apart(calls[i], calls[j])
                                     /\ i # j => Settings!Distinct(calls[i], calls[j]))'
  BY SettingsKeptApart
<1>8. Settings!TypeOK'
  BY <1>5, <1>6 DEF Settings!IInv, Settings!TypeOK, Settings!Doing, PageLoads, SettingsUi
<1>9. Settings!LogoFileExists' /\ (db.row.logo \in (1 .. db.used) \cup {None})'
  BY DEF Settings!IInv, Settings!LogoFileExists
<1> QED BY <1>7, <1>8, <1>9 DEF Settings!IInv, SettingsCalls

LEMMA SettingsRemoved ==
    ASSUME Settings!IInv, NEW i \in DOMAIN calls, NEW old, old = calls \/ \E J : old = Outdated(calls, J)
    PROVE  /\ RemoveAt(old, i) \in Seq(SettingsCalls) /\ Becomes(RemoveAt(old, i), calls, {i}, << >>)
           /\ << >> \in Seq(SettingsCalls)
<1>1. calls \in Seq(SettingsCalls)
  BY DEF Settings!IInv, SettingsCalls
<1>2. old \in Seq(SettingsCalls) /\ AsBefore(old, calls, i)
  BY <1>1, SettingsCallsCanBeOld, OutdatedIs, Overtaken
<1> QED BY <1>1, <1>2, SettingsCallsCanBeOld, RemovedBecomes, EmptySeq

\* A call ends and nobody is notified.
LEMMA SettingsEnded ==
    ASSUME Settings!IInv, UNCHANGED db, NEW i \in DOMAIN calls, NEW old,
           old = calls \/ \E J : old = Outdated(calls, J), calls' = RemoveAt(old, i),
           ui' \in SettingsUi,
           behind' \subseteq Settings!Setting \cup Listener,
           ui'.status = "loading" => PageLoads(calls, DOMAIN calls \ {i})
    PROVE  Settings!IInv'
<1>1. calls' \in Seq(SettingsCalls) /\ Becomes(calls', calls, {i}, << >>) /\ << >> \in Seq(SettingsCalls)
  BY SettingsRemoved
<1>2. DOMAIN << >> = {}
  OBVIOUS
<1> QED BY <1>1, <1>2, SettingsPageStep

LEMMA SettingsLoadEnded ==
    ASSUME Settings!IInv, NEW i \in DOMAIN calls,
           \/ Settings!LoadReturned(i) \/ Settings!LoadThrew(i)
           \/ Settings!BrandLoaded(i) \/ Settings!BrandThrew(i)
    PROVE  Settings!IInv'
<1>1. /\ ui \in SettingsUi /\ behind \subseteq Settings!Setting \cup Listener
      /\ ui.status = "loading" => PageLoads(calls, DOMAIN calls)
  BY DEF Settings!IInv, Settings!TypeOK, SettingsUi, PageLoads, Settings!Doing
<1>2. /\ calls[i].op = "fetchAppSettings"
      /\ calls[i].state = "ok" => calls[i].data \in Settings!SettingsRow
  BY SettingsCallIs DEF Settings!LoadReturned, Settings!LoadThrew, Settings!BrandLoaded, Settings!BrandThrew,
                        Settings!Returned, Settings!Threw, Settings!Doing, Settings!CallOK
<1>3. /\ UNCHANGED db /\ ui' \in SettingsUi /\ behind' \subseteq Settings!Setting \cup Listener
      /\ ui'.status = "loading" => ui.status = "loading" /\ calls[i].arg # "page"
  <2>1. CASE Settings!LoadReturned(i)
    BY <1>1, <1>2, <2>1 DEF Settings!LoadReturned, Settings!Returned, SettingsUi
  <2>2. CASE Settings!LoadThrew(i)
    BY <1>1, <2>2 DEF Settings!LoadThrew, SettingsUi
  <2>3. CASE Settings!BrandLoaded(i)
    <3> DEFINE brand == [ui.brand EXCEPT ![calls[i].arg] = calls[i].data]
    <3>1. brand \in [Listener -> Settings!SettingsRow] /\ ui' = [ui EXCEPT !.brand = brand]
      BY <1>1, <1>2, <2>3 DEF Settings!BrandLoaded, Settings!Returned, SettingsUi
    <3> HIDE DEF brand
    <3> QED BY <1>1, <2>3, <3>1, ScreensAssumption DEF Settings!BrandLoaded, Settings!Late, SettingsUi
  <2>4. CASE Settings!BrandThrew(i)
    BY <1>1, <2>4, ScreensAssumption DEF Settings!BrandThrew
  <2> QED BY <2>1, <2>2, <2>3, <2>4
<1>4. PICK old : (old = calls \/ \E J : old = Outdated(calls, J)) /\ calls' = RemoveAt(old, i)
  BY SettingsOps DEF Settings!LoadReturned, Settings!LoadThrew, Settings!BrandLoaded, Settings!BrandThrew
<1>5. ui'.status = "loading" => PageLoads(calls, DOMAIN calls \ {i})
  BY <1>1, <1>3 DEF PageLoads
<1> QED BY <1>3, <1>4, <1>5, SettingsEnded

LEMMA SettingsChangeThrew ==
    ASSUME Settings!IInv, NEW i \in DOMAIN calls, Settings!ChangeThrew(i) \/ Settings!EndedElsewhere(i)
    PROVE  Settings!IInv'
<1>1. /\ ui \in SettingsUi /\ behind \subseteq Settings!Setting \cup Listener
      /\ ui.status = "loading" => PageLoads(calls, DOMAIN calls)
  BY DEF Settings!IInv, Settings!TypeOK, SettingsUi, PageLoads, Settings!Doing
<1>2. /\ calls[i].op # "fetchAppSettings" /\ UNCHANGED << ui, db >>
      /\ behind' \subseteq Settings!Setting \cup Listener
  BY <1>1 DEF Settings!ChangeThrew, Settings!EndedElsewhere, Settings!Changing, Settings!Doing,
              Settings!Column, Settings!Setting
<1>3. PICK old : (old = calls \/ \E J : old = Outdated(calls, J)) /\ calls' = RemoveAt(old, i)
  BY SettingsOps DEF Settings!ChangeThrew, Settings!EndedElsewhere
<1>4. ui'.status = "loading" => PageLoads(calls, DOMAIN calls \ {i})
  BY <1>1, <1>2 DEF PageLoads
<1> QED BY <1>1, <1>2, <1>3, <1>4, SettingsEnded

LEMMA SettingsSaved ==
    ASSUME Settings!IInv, NEW i \in DOMAIN calls, Settings!NameSaved(i) \/ Settings!LogoChanged(i)
    PROVE  Settings!IInv'
<1>1. /\ ui \in SettingsUi /\ behind \subseteq Settings!Setting \cup Listener
      /\ ui.status = "loading" => PageLoads(calls, DOMAIN calls)
      /\ calls \in Seq(SettingsCalls)
  BY DEF Settings!IInv, Settings!TypeOK, SettingsUi, PageLoads, Settings!Doing, SettingsCalls
<1>2. calls[i].op # "fetchAppSettings" /\ UNCHANGED db
      /\ calls' = RemoveAt(calls, i) \o Settings!Loads
  BY SettingsOps DEF Settings!NameSaved, Settings!LogoChanged, Settings!NameCalls, Settings!LogoCalls,
                     Settings!Doing, Settings!notifyAppSettingsChanged
<1>3. ui' \in SettingsUi /\ ui'.status = ui.status /\ behind' \subseteq Settings!Setting \cup Listener
  <2>1. CASE Settings!NameSaved(i)
    <3>1. calls[i].data \in Name \cup {None}
      BY <2>1, SettingsCallIs DEF Settings!NameSaved, Settings!NameCalls, Settings!Doing, Settings!NameCall
    <3> DEFINE page1 == [ui.page EXCEPT !.name = calls[i].data]
    <3>2. page1 \in Settings!SettingsRow /\ ui' = [ui EXCEPT !.page = page1]
      BY <1>1, <2>1, <3>1 DEF Settings!NameSaved, SettingsUi, Settings!SettingsRow
    <3> HIDE DEF page1
    <3> QED BY <1>1, <2>1, <3>2 DEF Settings!NameSaved, SettingsUi, Settings!Late, Settings!Setting
  <2>2. CASE Settings!LogoChanged(i)
    <3>1. calls[i].data \in Settings!Key \cup {None}
      BY <2>2, SettingsCallIs DEF Settings!LogoChanged, Settings!LogoCalls, Settings!Doing, Settings!LogoCall
    <3> DEFINE page1 == [ui.page EXCEPT !.logo = calls[i].data]
    <3>2. page1 \in Settings!SettingsRow /\ ui' = [ui EXCEPT !.page = page1]
      BY <1>1, <2>2, <3>1 DEF Settings!LogoChanged, SettingsUi, Settings!SettingsRow
    <3> HIDE DEF page1
    <3> QED BY <1>1, <2>2, <3>2 DEF Settings!LogoChanged, SettingsUi, Settings!Late, Settings!Setting
  <2> QED BY <2>1, <2>2
<1> DEFINE more == Settings!Loads
<1>4. more \in Seq(SettingsCalls)
  BY SettingsLoads, SeqMonotonic DEF SettingsCalls
<1>5. \A k \in DOMAIN more : more[k].op = "fetchAppSettings" /\ more[k].state = "sent"
  BY SettingsLoads
<1> HIDE DEF more
<1>6. AsBefore(calls, calls, i)
  BY <1>1, SettingsCallsCanBeOld, Overtaken
<1>7. calls' \in Seq(SettingsCalls) /\ Becomes(calls', calls, {i}, more)
  <2>1. calls' = RemoveAt(calls, i) \o more
    BY <1>2 DEF more
  <2> QED BY <1>1, <1>4, <1>6, <2>1, Dropped
<1>8. /\ \A k \in DOMAIN more : /\ ~Settings!Stored(more[k]) /\ ~Settings!HasRead(more[k])
                                /\ Settings!CallOK(more[k])
      /\ \A k \in DOMAIN more : ~Of(more[k], LogoOps, {"here"}) /\ ~Of(more[k], NameOps, {"here"})
  BY <1>5 DEF Settings!Stored, Settings!HasRead, Settings!CallOK, Of, LogoOps, NameOps
<1>9. ui'.status = "loading" => PageLoads(calls, DOMAIN calls \ {i})
  BY <1>1, <1>2, <1>3 DEF PageLoads
<1> QED BY <1>2, <1>3, <1>4, <1>7, <1>8, <1>9, SettingsPageStep

LEMMA SettingsStarted ==
    ASSUME Settings!IInv, UNCHANGED << ui, db, behind >>, NEW c \in SettingsCalls,
           Settings!Start(<< c >>), c.state = "sent", Settings!CallOK(c),
           Of(c, LogoOps, {"here"}) => Settings!LogoCalls("here") = {},
           Of(c, NameOps, {"here"}) => Settings!NameCalls("here") = {}
    PROVE  Settings!IInv'
<1>1. /\ ui \in SettingsUi /\ behind \subseteq Settings!Setting \cup Listener
      /\ ui.status = "loading" => PageLoads(calls, DOMAIN calls \ {})
      /\ calls \in Seq(SettingsCalls)
  BY DEF Settings!IInv, Settings!TypeOK, SettingsUi, PageLoads, Settings!Doing, SettingsCalls
<1>2. calls' = calls \o << c >>
  BY DEF Settings!Start
<1>3. << c >> \in Seq(SettingsCalls) /\ DOMAIN << c >> = {1} /\ << c >>[1] = c
  OBVIOUS
<1>4. calls' \in Seq(SettingsCalls) /\ Becomes(calls', calls, {}, << c >>)
  BY <1>1, <1>2, <1>3, Started
<1>5. \A k \in DOMAIN << c >> : /\ ~Settings!Stored(<< c >>[k]) /\ ~Settings!HasRead(<< c >>[k])
                                /\ Settings!CallOK(<< c >>[k])
  BY <1>3 DEF Settings!Stored, Settings!HasRead
<1>6. Of(c, LogoOps, {"here"}) => \A k \in DOMAIN calls \ {} : ~Of(calls[k], LogoOps, {"here"})
  BY DEF Of, LogoOps, Settings!LogoCalls, Settings!Doing
<1>7. Of(c, NameOps, {"here"}) => \A k \in DOMAIN calls \ {} : ~Of(calls[k], NameOps, {"here"})
  BY DEF Of, NameOps, Settings!NameCalls, Settings!Doing
<1>8. /\ \/ \A k \in DOMAIN << c >> : ~Of(<< c >>[k], LogoOps, {"here"})
         \/ DOMAIN << c >> = {1} /\ \A k \in DOMAIN calls \ {} : ~Of(calls[k], LogoOps, {"here"})
      /\ \/ \A k \in DOMAIN << c >> : ~Of(<< c >>[k], NameOps, {"here"})
         \/ DOMAIN << c >> = {1} /\ \A k \in DOMAIN calls \ {} : ~Of(calls[k], NameOps, {"here"})
  BY <1>3, <1>6, <1>7
<1>9. ui' = ui /\ db' = db /\ behind' = behind
  OBVIOUS
<1> QED BY <1>1, <1>3, <1>4, <1>5, <1>8, <1>9, SettingsPageStep

LEMMA SettingsNewCall ==
    ASSUME NEW op, NEW arg, NEW by \in Settings!Owner,
           \/ op \in LogoOps /\ arg = None
           \/ op \in NameOps /\ arg \in Name \cup {None}
    PROVE  /\ Settings!Call(op, arg, by) \in SettingsCalls /\ Settings!Call(op, arg, by).state = "sent"
           /\ Settings!CallOK(Settings!Call(op, arg, by))
           /\ Settings!Call(op, arg, by).op = op /\ Settings!Call(op, arg, by).then = by
BY DEF Settings!Call, SettingsCalls, Settings!LogoCall, Settings!NameCall, Settings!CallOK, LogoOps, NameOps,
       Settings!Stored, Settings!HasRead

LEMMA SettingsAsked ==
    ASSUME Settings!IInv,
           \/ Settings!HandleFileChange \/ Settings!HandleDelete
           \/ \E name \in Name \cup {None} :
                \/ Settings!HandleSaveName(name)
                \/ \E op \in {"uploadLogo", "deleteLogo", "updateCompanyName"} :
                     Settings!RequestElsewhere(op, name)
    PROVE  Settings!IInv'
<1>1. "here" \in Settings!Owner /\ "elsewhere" \in Settings!Owner
  BY DEF Settings!Owner
<1>2. CASE Settings!HandleFileChange
  <2> DEFINE c == Settings!Call("uploadLogo", None, "here")
  <2>1. c \in SettingsCalls /\ c.state = "sent" /\ Settings!CallOK(c) /\ c.op = "uploadLogo"
    BY <1>1, SettingsNewCall DEF LogoOps
  <2>2. Settings!Start(<< c >>) /\ Settings!LogoCalls("here") = {} /\ UNCHANGED << ui, db, behind >>
    BY <1>2 DEF Settings!HandleFileChange, Settings!busy
  <2> HIDE DEF c
  <2> QED BY <2>1, <2>2, SettingsStarted DEF Of, NameOps
<1>3. CASE Settings!HandleDelete
  <2> DEFINE c == Settings!Call("deleteLogo", None, "here")
  <2>1. c \in SettingsCalls /\ c.state = "sent" /\ Settings!CallOK(c) /\ c.op = "deleteLogo"
    BY <1>1, SettingsNewCall DEF LogoOps
  <2>2. Settings!Start(<< c >>) /\ Settings!LogoCalls("here") = {} /\ UNCHANGED << ui, db, behind >>
    BY <1>3 DEF Settings!HandleDelete, Settings!busy
  <2> HIDE DEF c
  <2> QED BY <2>1, <2>2, SettingsStarted DEF Of, NameOps
<1>4. ASSUME NEW name \in Name \cup {None}, Settings!HandleSaveName(name)
      PROVE  Settings!IInv'
  <2> DEFINE c == Settings!Call("updateCompanyName", name, "here")
  <2>1. c \in SettingsCalls /\ c.state = "sent" /\ Settings!CallOK(c) /\ c.op = "updateCompanyName"
    BY <1>1, SettingsNewCall DEF NameOps
  <2>2. Settings!Start(<< c >>) /\ Settings!NameCalls("here") = {} /\ UNCHANGED << ui, db, behind >>
    BY <1>4 DEF Settings!HandleSaveName, Settings!nameBusy
  <2> HIDE DEF c
  <2> QED BY <2>1, <2>2, SettingsStarted DEF Of, LogoOps
<1>5. ASSUME NEW name \in Name \cup {None}, NEW op \in {"uploadLogo", "deleteLogo", "updateCompanyName"},
             Settings!RequestElsewhere(op, name)
      PROVE  Settings!IInv'
  <2> DEFINE c == Settings!Call(op, name, "elsewhere")
  <2>1. c \in SettingsCalls /\ c.state = "sent" /\ Settings!CallOK(c) /\ c.then = "elsewhere"
    BY <1>1, <1>5, SettingsNewCall DEF LogoOps, NameOps, Settings!RequestElsewhere
  <2>2. Settings!Start(<< c >>) /\ UNCHANGED << ui, db, behind >>
    BY <1>5 DEF Settings!RequestElsewhere
  <2> HIDE DEF c
  <2> QED BY <2>1, <2>2, SettingsStarted DEF Of
<1> QED BY <1>2, <1>3, <1>4, <1>5

LEMMA SettingsServeSettings ==
    ASSUME Settings!IInv, NEW i \in DOMAIN calls, Settings!ServeSettings(i)
    PROVE  Settings!IInv'
<1> DEFINE c == [[calls[i] EXCEPT !.state = "ok"] EXCEPT !.data = db.row]
<1>1. calls[i] \in Settings!FetchCall /\ db.row \in Settings!SettingsRow
  BY SettingsCallIs DEF Settings!ServeSettings, Settings!Asked, Settings!Doing, Settings!IInv, Settings!TypeOK
<1>2. /\ c \in SettingsCalls /\ c.op = "fetchAppSettings" /\ Settings!CallOK(c) /\ c.arg = calls[i].arg
      /\ ~Settings!Stored(c) /\ ~Settings!HasRead(c)
      /\ ~Of(c, LogoOps, {"here"}) /\ ~Of(c, NameOps, {"here"})
  BY <1>1 DEF SettingsCalls, Settings!FetchCall, Settings!CallOK, Settings!Stored, Settings!HasRead,
              Of, LogoOps, NameOps
<1>3. calls' = [calls EXCEPT ![i] = c] /\ UNCHANGED << ui, db, behind >>
  BY DEF Settings!ServeSettings, Settings!Reply
<1>4. /\ ui \in SettingsUi /\ behind \subseteq Settings!Setting \cup Listener
      /\ ui.status = "loading" => PageLoads(calls, DOMAIN calls)
      /\ calls \in Seq(SettingsCalls)
  BY DEF Settings!IInv, Settings!TypeOK, SettingsUi, PageLoads, Settings!Doing, SettingsCalls
<1> HIDE DEF c
<1>5. calls' \in Seq(SettingsCalls) /\ Becomes(calls', calls, {i}, << c >>)
  BY <1>2, <1>3, <1>4, SettingsCallsCanBeOld, AnsweredBecomes
<1>6. << c >> \in Seq(SettingsCalls) /\ DOMAIN << c >> = {1} /\ << c >>[1] = c
  BY <1>2
<1>7. ui.status = "loading" => PageLoads(calls, DOMAIN calls \ {i}) \/ PageLoads(<< c >>, DOMAIN << c >>)
  BY <1>2, <1>4, <1>6 DEF PageLoads
<1>8. ui' = ui /\ db' = db /\ behind' = behind
  BY <1>3
<1>9. \A k \in DOMAIN << c >> : /\ ~Settings!Stored(<< c >>[k]) /\ ~Settings!HasRead(<< c >>[k])
                                /\ Settings!CallOK(<< c >>[k])
                                /\ ~Of(<< c >>[k], LogoOps, {"here"}) /\ ~Of(<< c >>[k], NameOps, {"here"})
  BY <1>2, <1>6
<1> QED BY <1>4, <1>5, <1>6, <1>7, <1>8, <1>9, SettingsPageStep

\* A step of the server in a call that changes the settings.
LEMMA SettingsServed ==
    ASSUME Settings!IInv, NEW i \in DOMAIN calls, calls[i].op # "fetchAppSettings",
           NEW c \in SettingsCalls, c.op = calls[i].op, c.then = calls[i].then,
           NEW told, told = [calls EXCEPT ![i] = c],
           calls' = told \/ \E J : calls' = Outdated(told, J),
           ui' = ui, behind' \subseteq Settings!Setting \cup Listener,
           (db \in [row : Settings!SettingsRow, objects : SUBSET Settings!Key, used : 0 .. LastKey])',
           (db.objects \subseteq 1 .. db.used)', (db.row.logo \in (1 .. db.used) \cup {None})',
           Settings!LogoFileExists',
           \A d : (\E j \in DOMAIN calls \ {i} : d = calls[j]) => Settings!CallOK(d)',
           \A d : d = c => Settings!CallOK(d)',
           Settings!Apart(c, c),
           \A j \in DOMAIN calls \ {i} :
               Settings!Apart(c, calls[j]) /\ Settings!Apart(calls[j], c) /\ Settings!Distinct(c, calls[j])
    PROVE  Settings!IInv'
<1>1. /\ ui \in SettingsUi /\ calls \in Seq(SettingsCalls)
      /\ ui.status = "loading" => PageLoads(calls, DOMAIN calls)
      /\ \A j \in DOMAIN calls : calls[j] \in SettingsCalls
  BY SettingsCallIs DEF Settings!IInv, Settings!TypeOK, SettingsUi, PageLoads, Settings!Doing, SettingsCalls
<1>2. /\ told \in Seq(SettingsCalls) /\ DOMAIN told = DOMAIN calls /\ told[i] = c
      /\ \A j \in DOMAIN calls : told[j] \in SettingsCalls /\ (j # i => told[j] = calls[j])
  BY <1>1, ExceptSeq, LenProperties, ElementOfSeq
<1>3. calls' \in Seq(SettingsCalls) /\ DOMAIN calls' = DOMAIN calls /\ \A j \in DOMAIN calls : Same(calls'[j], told[j])
  <2>1. told \in Seq(SettingsCalls)
    BY <1>2
  <2>2. /\ calls' \in Seq(SettingsCalls) /\ DOMAIN calls' = DOMAIN told
        /\ \A j \in DOMAIN told : Same(calls'[j], told[j])
    BY <2>1, SettingsCallsCanBeOld, PerhapsOutdated
  <2> QED BY <1>2, <2>2
<1>4. \A j \in DOMAIN calls : /\ calls'[j] \in SettingsCalls /\ Alike(calls'[j], told[j])
                              /\ calls'[j].op = calls[j].op /\ calls'[j].then = calls[j].then
                              /\ j # i => Alike(calls'[j], calls[j])
  <2> TAKE j \in DOMAIN calls
  <2>1. Alike(calls'[j], told[j])
    BY <1>2, <1>3, SettingsCallsCanBeOld, SameAreAlike
  <2>2. calls'[j] \in SettingsCalls
    BY <1>3, ElementOfSeq, LenProperties
  <2> QED BY <1>2, <2>1, <2>2 DEF Alike
<1>5. Alike(calls'[i], c)
  BY <1>2, <1>4
<1>6. (\A j \in DOMAIN calls : Settings!CallOK(calls[j]))'
  <2> SUFFICES ASSUME NEW j \in DOMAIN calls' PROVE Settings!CallOK(calls[j])'
    OBVIOUS
  <2>1. \A d, e : Alike(d, e) /\ Settings!CallOK(e)' => Settings!CallOK(d)'
    BY DEF Alike, Settings!CallOK, Settings!Stored, Settings!HasRead
  <2>2. CASE j = i
    BY <1>5, <2>1, <2>2
  <2>3. CASE j # i
    BY <1>3, <1>4, <2>1, <2>3
  <2> QED BY <2>2, <2>3
<1>7. (\A j, k \in DOMAIN calls : /\ Settings!Apart(calls[j], calls[k])
                                  /\ j # k => Settings!Distinct(calls[j], calls[k]))'
  <2> SUFFICES ASSUME NEW j \in DOMAIN calls', NEW k \in DOMAIN calls'
               PROVE  /\ Settings!Apart(calls[j], calls[k])'
                      /\ j # k => Settings!Distinct(calls[j], calls[k])'
    OBVIOUS
  <2>1. Alike(calls'[j], told[j]) /\ Alike(calls'[k], told[k])
    BY <1>3, <1>4
  <2>2. Settings!Apart(told[j], told[k]) /\ (j # k => Settings!Distinct(told[j], told[k]))
    <3>1. \A l, n \in DOMAIN calls : /\ Settings!Apart(calls[l], calls[n])
                                     /\ l # n => Settings!Distinct(calls[l], calls[n])
      BY DEF Settings!IInv
    <3>2. \A d, e : Settings!Distinct(d, e) => Settings!Distinct(e, d)
      BY DEF Settings!Distinct
    <3> QED BY <1>2, <1>3, <3>1, <3>2
  <2>3. \A d, e, x, y : Alike(d, x) /\ Alike(e, y) =>
            /\ Settings!Apart(x, y) => Settings!Apart(d, e)'
            /\ Settings!Distinct(x, y) => Settings!Distinct(d, e)'
    BY DEF Alike, Settings!Apart, Settings!Distinct, Settings!Stored, Settings!HasRead
  <2> QED BY <2>1, <2>2, <2>3
<1>8. /\ (\A j, k \in Settings!LogoCalls("here") : j = k)'
      /\ (\A j, k \in Settings!NameCalls("here") : j = k)'
  <2>1. Settings!LogoCalls("here")' = Settings!LogoCalls("here")
    BY <1>3, <1>4 DEF Settings!LogoCalls, Settings!Doing
  <2>2. Settings!NameCalls("here")' = Settings!NameCalls("here")
    BY <1>3, <1>4 DEF Settings!NameCalls, Settings!Doing
  <2> QED BY <2>1, <2>2 DEF Settings!IInv, Settings!TypeOK
<1>9. (ui.status = "loading" => \E j \in Settings!Doing("fetchAppSettings") : calls[j].arg = "page")'
  BY <1>1, <1>2, <1>3, <1>4 DEF PageLoads, Settings!Doing, Alike
<1>10. Settings!TypeOK'
  BY <1>1, <1>8, <1>9 DEF Settings!TypeOK, SettingsUi
<1> QED BY <1>3, <1>6, <1>7, <1>10 DEF Settings!IInv, SettingsCalls

\* The calls that are left alone, when the settings change.
LEMMA SettingsOthers ==
    ASSUME Settings!IInv, NEW i \in DOMAIN calls, NEW d, \E j \in DOMAIN calls \ {i} : d = calls[j]
    PROVE  Settings!CallOK(d)
BY DEF Settings!IInv

LEMMA SettingsGetRow ==
    ASSUME Settings!IInv, NEW i \in DOMAIN calls, Settings!GetSettingsRow(i)
    PROVE  Settings!IInv'
<1>1. /\ db \in [row : Settings!SettingsRow, objects : SUBSET Settings!Key, used : 0 .. LastKey]
      /\ db.objects \subseteq 1 .. db.used /\ db.row.logo \in (1 .. db.used) \cup {None}
      /\ Settings!LogoFileExists /\ behind \subseteq Settings!Setting \cup Listener
      /\ LastKey \in Nat /\ None \notin 1 .. LastKey
  BY ScreensAssumption DEF Settings!IInv, Settings!TypeOK
<1>2. /\ calls[i].op \in {"uploadLogo", "deleteLogo", "updateCompanyName"} /\ calls[i] \in SettingsCalls
      /\ calls[i].state = "sent" /\ UNCHANGED << ui, behind >>
  BY SettingsCallIs DEF Settings!GetSettingsRow, Settings!Changing, Settings!Doing
<1>3. CASE calls[i].op = "updateCompanyName"
  <2> DEFINE c == [[calls[i] EXCEPT !.state = "loaded"] EXCEPT !.data = db.row.name]
  <2>1. calls[i] \in Settings!NameCall /\ db.row.name \in Name \cup {None}
    BY <1>1, <1>3, SettingsCallIs DEF Settings!SettingsRow
  <2>2. /\ c \in SettingsCalls /\ c.op = calls[i].op /\ c.then = calls[i].then
        /\ ~Settings!Stored(c) /\ ~Settings!HasRead(c) /\ Settings!CallOK(c)
    BY <1>3, <2>1 DEF SettingsCalls, Settings!NameCall, Settings!Stored, Settings!HasRead, Settings!CallOK
  <2>3. calls' = [calls EXCEPT ![i] = c] /\ UNCHANGED db
    BY <1>3 DEF Settings!GetSettingsRow, Settings!Column
  <2> HIDE DEF c
  <2>4. \A d : Settings!CallOK(d) => Settings!CallOK(d)'
    BY <2>3 DEF Settings!CallOK, Settings!Stored, Settings!HasRead
  <2>5. \A d : /\ Settings!Apart(c, d) /\ Settings!Apart(d, c) /\ Settings!Distinct(c, d)
    BY <2>2 DEF Settings!Apart, Settings!Distinct
  <2>6. /\ (db \in [row : Settings!SettingsRow, objects : SUBSET Settings!Key, used : 0 .. LastKey])'
        /\ (db.objects \subseteq 1 .. db.used)' /\ (db.row.logo \in (1 .. db.used) \cup {None})'
        /\ Settings!LogoFileExists' /\ behind' \subseteq Settings!Setting \cup Listener
    BY <1>1, <1>2, <2>3 DEF Settings!LogoFileExists
  <2>7. \A d : (\E j \in DOMAIN calls \ {i} : d = calls[j]) => Settings!CallOK(d)'
    BY <2>4, SettingsOthers
  <2>8. \A d : d = c => Settings!CallOK(d)'
    BY <2>2, <2>4
  <2> QED BY <1>2, <2>2, <2>3, <2>5, <2>6, <2>7, <2>8, SettingsServed
<1>4. CASE calls[i].op = "deleteLogo"
  <2> DEFINE c == [[calls[i] EXCEPT !.state = "loaded"] EXCEPT !.data = db.row.logo]
  <2>1. calls[i] \in Settings!LogoCall /\ db.row.logo \in Settings!Key \cup {None} /\ calls[i].arg = None
    BY <1>1, <1>4, SettingsCallIs DEF Settings!SettingsRow, Settings!CallOK
  <2>2. /\ c \in SettingsCalls /\ c.op = "deleteLogo" /\ c.then = calls[i].then
        /\ ~Settings!Stored(c) /\ c.data = db.row.logo /\ c.arg = None /\ c.state = "loaded"
    BY <1>4, <2>1 DEF SettingsCalls, Settings!LogoCall, Settings!Stored
  <2>3. calls' = [calls EXCEPT ![i] = c] /\ UNCHANGED db
    BY <1>4 DEF Settings!GetSettingsRow, Settings!Column
  <2> HIDE DEF c
  <2>4. Settings!CallOK(c)
    BY <1>1, <2>2 DEF Settings!CallOK
  <2>5. \A d : Settings!CallOK(d) => Settings!CallOK(d)'
    BY <2>3 DEF Settings!CallOK, Settings!Stored, Settings!HasRead
  <2>6. \A d : Settings!CallOK(d) => Settings!Apart(c, d) /\ Settings!Apart(d, c) /\ Settings!Distinct(c, d)
    BY <2>2 DEF Settings!Apart, Settings!Distinct, Settings!CallOK
  <2>7. /\ (db \in [row : Settings!SettingsRow, objects : SUBSET Settings!Key, used : 0 .. LastKey])'
        /\ (db.objects \subseteq 1 .. db.used)' /\ (db.row.logo \in (1 .. db.used) \cup {None})'
        /\ Settings!LogoFileExists' /\ behind' \subseteq Settings!Setting \cup Listener
    BY <1>1, <1>2, <2>3 DEF Settings!LogoFileExists
  <2>8. \A d : (\E j \in DOMAIN calls \ {i} : d = calls[j]) => Settings!CallOK(d) /\ Settings!CallOK(d)'
    BY <2>5, SettingsOthers
  <2>9. \A d : d = c => Settings!CallOK(d)'
    BY <2>4, <2>5
  <2>10. /\ Settings!Apart(c, c)
         /\ \A j \in DOMAIN calls \ {i} :
              Settings!Apart(c, calls[j]) /\ Settings!Apart(calls[j], c) /\ Settings!Distinct(c, calls[j])
    BY <2>4, <2>6, <2>8
  <2>11. c.op = calls[i].op
    BY <1>4, <2>2
  <2> QED BY <1>2, <2>2, <2>3, <2>7, <2>8, <2>9, <2>10, <2>11, SettingsServed
<1>5. CASE calls[i].op = "uploadLogo"
  <2> DEFINE key == db.used + 1
             c == [[[calls[i] EXCEPT !.state = "loaded"] EXCEPT !.data = db.row.logo] EXCEPT !.arg = key]
  <2>1. calls[i] \in Settings!LogoCall /\ db.row.logo \in Settings!Key \cup {None}
    BY <1>1, <1>5, SettingsCallIs DEF Settings!SettingsRow
  <2>2. /\ key \in Settings!Key /\ calls' = [calls EXCEPT ![i] = c]
        /\ db' = [[db EXCEPT !.objects = db.objects \cup {key}] EXCEPT !.used = key]
    BY <1>1, <1>5 DEF Settings!GetSettingsRow
  <2>3. key \notin 1 .. db.used /\ 1 .. db.used \subseteq 1 .. key /\ key \in 1 .. key /\ key # None /\ key \in 0 .. LastKey
    BY <1>1, <2>2 DEF Settings!Key
  <2>4. /\ c \in SettingsCalls /\ c.op = "uploadLogo" /\ c.then = calls[i].then
        /\ c.data = db.row.logo /\ c.arg = key /\ c.state = "loaded"
    BY <1>5, <2>1, <2>2 DEF SettingsCalls, Settings!LogoCall
  <2> HIDE DEF c, key
  <2>5. /\ db'.row = db.row /\ db'.used = key /\ db'.objects = db.objects \cup {key}
        /\ db' \in [row : Settings!SettingsRow, objects : SUBSET Settings!Key, used : 0 .. LastKey]
    BY <1>1, <2>2, <2>3
  <2>6. \A d : Settings!CallOK(d) => Settings!CallOK(d)'
    BY <2>3, <2>5 DEF Settings!CallOK, Settings!Stored, Settings!HasRead
  <2>7. \A d : d = c => Settings!CallOK(d)'
    BY <1>1, <2>3, <2>4, <2>5 DEF Settings!CallOK, Settings!Stored, Settings!HasRead
  <2>8. \A d : Settings!CallOK(d) => Settings!Apart(c, d) /\ Settings!Apart(d, c) /\ Settings!Distinct(c, d)
    BY <1>1, <2>3, <2>4 DEF Settings!Apart, Settings!Distinct, Settings!CallOK, Settings!Stored, Settings!HasRead
  <2>9. Settings!Apart(c, c)
    BY <1>1, <2>3, <2>4 DEF Settings!Apart
  <2>10. /\ (db.objects \subseteq 1 .. db.used)' /\ (db.row.logo \in (1 .. db.used) \cup {None})'
         /\ Settings!LogoFileExists' /\ behind' \subseteq Settings!Setting \cup Listener
    BY <1>1, <1>2, <2>3, <2>5 DEF Settings!LogoFileExists
  <2>11. \A d : (\E j \in DOMAIN calls \ {i} : d = calls[j]) => Settings!CallOK(d) /\ Settings!CallOK(d)'
    BY <2>6, SettingsOthers
  <2>12. \A j \in DOMAIN calls \ {i} :
           Settings!Apart(c, calls[j]) /\ Settings!Apart(calls[j], c) /\ Settings!Distinct(c, calls[j])
    BY <2>8, <2>11
  <2>13. c.op = calls[i].op /\ ui' = ui
    BY <1>2, <1>5, <2>4
  <2> QED BY <1>2, <2>2, <2>4, <2>5, <2>7, <2>9, <2>10, <2>11, <2>12, <2>13, SettingsServed
<1> QED BY <1>2, <1>3, <1>4, <1>5

LEMMA SettingsCommit ==
    ASSUME Settings!IInv, NEW i \in DOMAIN calls, Settings!Commit(i)
    PROVE  Settings!IInv'
<1> DEFINE c == [calls[i] EXCEPT !.state = "committed"]
           told == [calls EXCEPT ![i] = c]
           row == IF calls[i].arg = calls[i].data THEN db.row
                  ELSE [db.row EXCEPT ![Settings!Column(i)] = calls[i].arg]
<1>1. /\ db \in [row : Settings!SettingsRow, objects : SUBSET Settings!Key, used : 0 .. LastKey]
      /\ db.objects \subseteq 1 .. db.used /\ db.row.logo \in (1 .. db.used) \cup {None}
      /\ Settings!LogoFileExists /\ behind \subseteq Settings!Setting \cup Listener
      /\ LastKey \in Nat /\ None \notin 1 .. LastKey
  BY ScreensAssumption DEF Settings!IInv, Settings!TypeOK
<1>2. /\ calls[i].op \in {"uploadLogo", "deleteLogo", "updateCompanyName"} /\ calls[i] \in SettingsCalls
      /\ calls[i].state = "loaded" /\ ui' = ui /\ Settings!CallOK(calls[i])
      /\ Settings!Apart(calls[i], calls[i])
      /\ \A j \in DOMAIN calls \ {i} : /\ Settings!Apart(calls[i], calls[j]) /\ Settings!Apart(calls[j], calls[i])
                                       /\ Settings!Distinct(calls[i], calls[j])
  BY SettingsCallIs DEF Settings!Commit, Settings!Changing, Settings!Doing, Settings!IInv
<1>3. /\ calls' = told \/ \E J : calls' = Outdated(told, J)
      /\ behind' \subseteq Settings!Setting \cup Listener
      /\ db' = [db EXCEPT !.row = row]
  BY <1>1, SettingsOps DEF Settings!Commit, Settings!Column, Settings!Setting
<1>4. /\ c \in SettingsCalls /\ c.op = calls[i].op /\ c.then = calls[i].then /\ c.arg = calls[i].arg
      /\ c.data = calls[i].data /\ c.state = "committed"
  BY <1>2 DEF SettingsCalls, Settings!FetchCall, Settings!LogoCall, Settings!NameCall
<1>5. /\ row \in Settings!SettingsRow
      /\ calls[i].op = "updateCompanyName" => row.logo = db.row.logo
      /\ calls[i].op # "updateCompanyName" =>
           row.logo = IF calls[i].arg = calls[i].data THEN db.row.logo ELSE calls[i].arg
  <2>1. CASE calls[i].op = "updateCompanyName"
    <3>1. calls[i].arg \in Name \cup {None} /\ Settings!Column(i) = "name"
      BY <2>1, SettingsCallIs DEF Settings!NameCall, Settings!Column
    <3> QED BY <1>1, <2>1, <3>1 DEF Settings!SettingsRow
  <2>2. CASE calls[i].op # "updateCompanyName"
    <3>1. calls[i].arg \in Settings!Key \cup {None} /\ Settings!Column(i) = "logo"
      BY <1>2, <2>2, SettingsCallIs DEF Settings!LogoCall, Settings!Column
    <3> QED BY <1>1, <2>2, <3>1 DEF Settings!SettingsRow
  <2> QED BY <2>1, <2>2
<1> HIDE DEF c, row
<1>6. /\ db'.row = row /\ db'.objects = db.objects /\ db'.used = db.used
      /\ db' \in [row : Settings!SettingsRow, objects : SUBSET Settings!Key, used : 0 .. LastKey]
  BY <1>1, <1>3, <1>5
\* What the row now has is what it had, none, or the object that was stored for it.
<1>7. \/ row.logo = db.row.logo
      \/ calls[i].op = "deleteLogo" /\ row.logo = None
      \/ /\ calls[i].op = "uploadLogo" /\ row.logo = calls[i].arg /\ Settings!Stored(calls[i])
         /\ row.logo \in db.objects
  BY <1>2, <1>5 DEF Settings!CallOK, Settings!Stored
<1>8. \A d : (\E j \in DOMAIN calls \ {i} : d = calls[j]) => Settings!CallOK(d)'
  <2> TAKE d
  <2> SUFFICES ASSUME NEW j \in DOMAIN calls \ {i}, d = calls[j] PROVE Settings!CallOK(d)'
    OBVIOUS
  <2>1. Settings!CallOK(d) /\ Settings!Apart(calls[i], d) /\ Settings!Distinct(calls[i], d)
    BY <1>2, SettingsCallIs
  <2>2. Settings!Stored(d) => d.arg \in db.objects \ {row.logo}
    BY <1>1, <1>7, <2>1 DEF Settings!CallOK, Settings!Distinct, Settings!Key
  <2>3. Settings!HasRead(d) /\ d.state = "committed" => d.data # row.logo \/ d.data = None
    BY <1>7, <2>1 DEF Settings!CallOK, Settings!Apart
  <2> QED BY <1>6, <2>1, <2>2, <2>3 DEF Settings!CallOK, Settings!Stored, Settings!HasRead
<1>9. \A d : d = c => Settings!CallOK(d)'
  <2> SUFFICES Settings!HasRead(c) => c.data # row.logo \/ c.data = None
    BY <1>2, <1>4, <1>6 DEF Settings!CallOK, Settings!Stored, Settings!HasRead
  <2> HAVE Settings!HasRead(c)
  <2>1. Settings!HasRead(calls[i])
    BY <1>2, <1>4 DEF Settings!HasRead
  <2>2. CASE calls[i].op = "uploadLogo"
    BY <1>2, <1>4, <1>5, <2>1, <2>2 DEF Settings!Apart, Settings!Stored
  <2>3. CASE calls[i].op = "deleteLogo"
    BY <1>2, <1>4, <1>5, <2>3 DEF Settings!CallOK
  <2> QED BY <1>2, <2>1, <2>2, <2>3 DEF Settings!HasRead
<1>10. /\ Settings!Apart(c, c)
       /\ \A j \in DOMAIN calls \ {i} :
            Settings!Apart(c, calls[j]) /\ Settings!Apart(calls[j], c) /\ Settings!Distinct(c, calls[j])
  BY <1>2, <1>4 DEF Settings!Apart, Settings!Distinct, Settings!Stored, Settings!HasRead
<1>11. /\ (db.objects \subseteq 1 .. db.used)' /\ (db.row.logo \in (1 .. db.used) \cup {None})'
       /\ Settings!LogoFileExists'
  BY <1>1, <1>6, <1>7 DEF Settings!LogoFileExists
<1>12. calls[i].op # "fetchAppSettings"
  BY <1>2
<1> HIDE DEF told
<1>13. told = [calls EXCEPT ![i] = c] /\ ui' = ui
  BY <1>2 DEF told
<1>14. c \in SettingsCalls /\ c.op = calls[i].op /\ c.then = calls[i].then
  BY <1>4
<1>15. db' \in [row : Settings!SettingsRow, objects : SUBSET Settings!Key, used : 0 .. LastKey]
  BY <1>6
<1> QED BY <1>3, <1>8, <1>9, <1>10, <1>11, <1>12, <1>13, <1>14, <1>15, SettingsServed

LEMMA SettingsRefresh ==
    ASSUME Settings!IInv, NEW i \in DOMAIN calls, Settings!RefreshAndDelete(i)
    PROVE  Settings!IInv'
<1> DEFINE c == [[calls[i] EXCEPT !.state = "ok"] EXCEPT !.data = db.row[Settings!Column(i)]]
           kept == IF Settings!Column(i) = "logo" THEN db.objects \ {calls[i].data} ELSE db.objects
<1>1. /\ db \in [row : Settings!SettingsRow, objects : SUBSET Settings!Key, used : 0 .. LastKey]
      /\ db.objects \subseteq 1 .. db.used /\ db.row.logo \in (1 .. db.used) \cup {None}
      /\ Settings!LogoFileExists /\ behind \subseteq Settings!Setting \cup Listener
      /\ LastKey \in Nat /\ None \notin 1 .. LastKey
  BY ScreensAssumption DEF Settings!IInv, Settings!TypeOK
<1>2. /\ calls[i].op \in {"uploadLogo", "deleteLogo", "updateCompanyName"} /\ calls[i] \in SettingsCalls
      /\ calls[i].state = "committed" /\ ui' = ui /\ behind' = behind /\ Settings!CallOK(calls[i])
      /\ \A j \in DOMAIN calls \ {i} : Settings!Apart(calls[j], calls[i])
  BY SettingsCallIs DEF Settings!RefreshAndDelete, Settings!Changing, Settings!Doing, Settings!IInv
<1>3. /\ calls' = [calls EXCEPT ![i] = c]
      /\ db' = [db EXCEPT !.objects = kept]
  BY DEF Settings!RefreshAndDelete, Settings!Reply
<1>4. /\ c \in SettingsCalls /\ c.op = calls[i].op /\ c.then = calls[i].then /\ c.state = "ok"
      /\ c.arg = calls[i].arg
  <2>1. CASE calls[i].op = "updateCompanyName"
    BY <1>1, <2>1, SettingsCallIs DEF SettingsCalls, Settings!NameCall, Settings!Column, Settings!SettingsRow
  <2>2. CASE calls[i].op # "updateCompanyName"
    BY <1>1, <1>2, <2>2, SettingsCallIs DEF SettingsCalls, Settings!LogoCall, Settings!Column, Settings!SettingsRow
  <2> QED BY <2>1, <2>2
<1>5. /\ kept \subseteq db.objects
      /\ db.row.logo # None => db.row.logo \in kept
      /\ \A j \in DOMAIN calls \ {i} : Settings!Stored(calls[j]) => calls[j].arg \in kept
  <2>1. CASE calls[i].op = "updateCompanyName"
    BY <1>1, <2>1, SettingsCallIs DEF Settings!Column, Settings!LogoFileExists, Settings!CallOK
  <2>2. CASE calls[i].op # "updateCompanyName"
    <3>1. Settings!HasRead(calls[i]) /\ kept = db.objects \ {calls[i].data}
      BY <1>2, <2>2 DEF Settings!HasRead, Settings!Column
    <3>2. db.row.logo # None => db.row.logo # calls[i].data
      BY <1>2, <3>1 DEF Settings!CallOK
    <3>3. \A j \in DOMAIN calls \ {i} : Settings!Stored(calls[j]) => calls[j].arg # calls[i].data
      BY <1>2, <3>1 DEF Settings!Apart
    <3>4. \A j \in DOMAIN calls : Settings!Stored(calls[j]) => calls[j].arg \in db.objects
      BY SettingsCallIs DEF Settings!CallOK
    <3> QED BY <1>1, <3>1, <3>2, <3>3, <3>4 DEF Settings!LogoFileExists
  <2> QED BY <2>1, <2>2
<1> HIDE DEF c, kept
<1>6. /\ db'.row = db.row /\ db'.objects = kept /\ db'.used = db.used
      /\ db' \in [row : Settings!SettingsRow, objects : SUBSET Settings!Key, used : 0 .. LastKey]
  BY <1>1, <1>3, <1>5
<1>7. \A d : (\E j \in DOMAIN calls \ {i} : d = calls[j]) => Settings!CallOK(d)'
  <2> TAKE d
  <2> SUFFICES ASSUME NEW j \in DOMAIN calls \ {i}, d = calls[j] PROVE Settings!CallOK(d)'
    OBVIOUS
  <2>1. Settings!CallOK(d)
    BY SettingsCallIs
  <2> QED BY <1>5, <1>6, <2>1 DEF Settings!CallOK, Settings!Stored, Settings!HasRead
<1>8. \A d : d = c => Settings!CallOK(d)'
  BY <1>2, <1>4 DEF Settings!CallOK, Settings!Stored, Settings!HasRead
<1>9. \A d : Settings!Apart(c, d) /\ Settings!Apart(d, c) /\ Settings!Distinct(c, d)
  BY <1>4 DEF Settings!Apart, Settings!Distinct, Settings!Stored, Settings!HasRead
<1>10. /\ (db.objects \subseteq 1 .. db.used)' /\ (db.row.logo \in (1 .. db.used) \cup {None})'
       /\ Settings!LogoFileExists' /\ behind' \subseteq Settings!Setting \cup Listener
  BY <1>1, <1>2, <1>5, <1>6 DEF Settings!LogoFileExists
<1>11. calls[i].op # "fetchAppSettings"
  BY <1>2
<1> QED BY <1>2, <1>3, <1>4, <1>6, <1>7, <1>8, <1>9, <1>10, <1>11, SettingsServed

LEMMA SettingsInit ==
    ASSUME Settings!Init
    PROVE  Settings!IInv
<1> DEFINE c == Settings!Call("fetchAppSettings", "page", None)
           more == Settings!Loads
<1>1. /\ c \in SettingsCalls /\ c.op = "fetchAppSettings" /\ c.arg = "page" /\ c.state = "sent"
  BY DEF Settings!Call, SettingsCalls, Settings!FetchCall
<1>2. /\ more \in Seq(SettingsCalls)
      /\ \A k \in DOMAIN more : more[k].op = "fetchAppSettings" /\ more[k].state = "sent"
  BY SettingsLoads, SeqMonotonic DEF SettingsCalls
<1>3. calls = << c >> \o more /\ behind = {}
  BY DEF Settings!Init
<1> HIDE DEF c, more
<1>4. << c >> \in Seq(SettingsCalls) /\ Len(<< c >>) = 1 /\ << c >>[1] = c
  BY <1>1
<1>5. calls \in Seq(SettingsCalls) /\ Len(calls) = 1 + Len(more)
      /\ \A i \in 1 .. 1 + Len(more) : calls[i] = IF i <= 1 THEN << c >>[i] ELSE more[i - 1]
  BY <1>2, <1>3, <1>4, ConcatProperties
<1>6. DOMAIN calls = 1 .. 1 + Len(more) /\ Len(more) \in Nat /\ DOMAIN more = 1 .. Len(more)
  BY <1>2, <1>5, LenProperties
<1>7. \A i \in DOMAIN calls : calls[i].op = "fetchAppSettings" /\ calls[i].state = "sent"
  <2> TAKE i \in DOMAIN calls
  <2>1. CASE i = 1
    BY <1>1, <1>4, <1>5, <1>6, <2>1
  <2>2. CASE i # 1
    <3>1. i \in Nat /\ i > 1 /\ i - 1 \in DOMAIN more
      BY <1>6, <2>2
    <3>2. calls[i] = more[i - 1]
      BY <1>5, <1>6, <3>1
    <3> QED BY <1>2, <3>1, <3>2
  <2> QED BY <2>1, <2>2
<1>8. 1 \in DOMAIN calls /\ calls[1].op = "fetchAppSettings" /\ calls[1].arg = "page"
  BY <1>1, <1>4, <1>5, <1>6
<1>9. \A i \in DOMAIN calls : /\ ~Settings!Stored(calls[i]) /\ ~Settings!HasRead(calls[i])
                              /\ Settings!CallOK(calls[i])
  BY <1>7 DEF Settings!Stored, Settings!HasRead, Settings!CallOK
<1>10. /\ db \in [row : Settings!SettingsRow, objects : SUBSET Settings!Key, used : 0 .. LastKey]
       /\ db.objects = {1} /\ db.used = 1 /\ db.row.logo = 1
  BY ScreensAssumption DEF Settings!Init, Settings!SettingsRow, Settings!Key
<1>11. ui \in SettingsUi
  BY DEF Settings!Init, SettingsUi, Settings!NotLoaded, Settings!SettingsRow
<1>12. Settings!TypeOK
  BY <1>3, <1>7, <1>8, <1>10, <1>11
     DEF Settings!TypeOK, SettingsUi, Settings!LogoCalls, Settings!NameCalls, Settings!Doing
<1> QED BY <1>5, <1>9, <1>10, <1>12
        DEF Settings!IInv, Settings!LogoFileExists, Settings!Apart, Settings!Distinct, SettingsCalls

LEMMA SettingsNext ==
    ASSUME Settings!IInv, Settings!Next
    PROVE  Settings!IInv'
<1>1. CASE \/ Settings!HandleFileChange \/ Settings!HandleDelete
           \/ \E name \in Name \cup {None} :
                \/ Settings!HandleSaveName(name)
                \/ \E op \in {"uploadLogo", "deleteLogo", "updateCompanyName"} :
                     Settings!RequestElsewhere(op, name)
  BY <1>1, SettingsAsked
<1>2. CASE \E i \in DOMAIN calls : \/ Settings!LoadReturned(i) \/ Settings!LoadThrew(i)
                                   \/ Settings!BrandLoaded(i) \/ Settings!BrandThrew(i)
  BY <1>2, SettingsLoadEnded
<1>3. CASE \E i \in DOMAIN calls : \/ Settings!NameSaved(i) \/ Settings!LogoChanged(i)
                                   \/ Settings!ChangeThrew(i) \/ Settings!EndedElsewhere(i)
  BY <1>3, SettingsSaved, SettingsChangeThrew
<1>4. CASE \E i \in DOMAIN calls : \/ Settings!ServeSettings(i) \/ Settings!GetSettingsRow(i)
                                   \/ Settings!Commit(i) \/ Settings!RefreshAndDelete(i)
  BY <1>4, SettingsServeSettings, SettingsGetRow, SettingsCommit, SettingsRefresh
<1> QED BY <1>1, <1>2, <1>3, <1>4 DEF Settings!Next

-----------------------------------------------------------------------------
(* The form of the sale.                                                   *)

FormFields == {"cart", "descuento", "payments", "autoFilled", "scan", "submitting", "completed"}

\* An empty cart costs nothing.
LEMMA EmptyCartIsFree == Form!subtotal(Form!EmptyCart) = 0
<1>1. DOMAIN Form!EmptyCart = {}
  BY DEF Form!EmptyCart
<1> QED BY <1>1 DEF Form!subtotal, Form!MapThenSumSet, Form!MapThenFoldSet

LEMMA NothingIsDue == Form!total([cart |-> Form!EmptyCart, descuento |-> None]) = 0
BY EmptyCartIsFree DEF Form!total, Form!Discount

\* The total is of the cart and of the discount.
LEMMA TotalOf ==
    ASSUME NEW f, NEW g, f.cart = g.cart, f.descuento = g.descuento
    PROVE  Form!total(f) = Form!total(g)
BY DEF Form!total

UntouchedPays(form) ==
    Len(form.payments) = 1 /\ ~form.payments[1].typed /\ Form!total(form) > 0 =>
        form.payments[1].monto = Form!total(form)

\* Whatever was changed, the effect leaves amounts that pay the total, if they were not typed.
LEMMA FormRendered ==
    ASSUME NEW form, DOMAIN form = FormFields, Form!PaymentsOK(form)
    PROVE  LET new == Form!Rendered(form) IN
           /\ Form!PaymentsOK(new) /\ UntouchedPays(new) /\ DOMAIN new = FormFields
           /\ new.cart = form.cart /\ new.descuento = form.descuento /\ new.scan = form.scan
           /\ new.submitting = form.submitting /\ new.completed = form.completed
<1> DEFINE due == Form!total(form)
           line == [form.payments[1] EXCEPT !.monto = due]
           lines == [form.payments EXCEPT ![1] = line]
           filled == IF form.payments[1].monto = due THEN form.autoFilled ELSE due
           with == [form EXCEPT !.payments = lines]
           new == [with EXCEPT !.autoFilled = filled]
           L == [monto : Form!Montos(form), typed : BOOLEAN]
<1>1. form.payments \in Seq(L) /\ Len(form.payments) \in 1 .. MaxLines
      /\ DOMAIN form.payments = 1 .. Len(form.payments)
      /\ \A k \in DOMAIN form.payments :
           form.payments[k].typed \/ form.payments[k].monto \in {None, form.autoFilled}
  BY LenProperties DEF Form!PaymentsOK
<1>2. CASE Len(form.payments) = 1 /\ Form!Untouched(form) /\ due > 0
  <2>1. Form!Rendered(form) = new
    BY <1>1, <1>2 DEF Form!Rendered, FormFields
  <2>2. /\ DOMAIN new = FormFields /\ new.payments = lines /\ new.autoFilled = filled
        /\ new.cart = form.cart /\ new.descuento = form.descuento /\ new.scan = form.scan
        /\ new.submitting = form.submitting /\ new.completed = form.completed
    <3> HIDE DEF lines, filled
    <3> QED BY DEF FormFields
  <2>3. form.payments[1] \in L /\ DOMAIN form.payments = {1}
    <3>1. DOMAIN form.payments = {1}
      BY <1>1, <1>2
    <3> HIDE DEF L
    <3> QED BY <1>1, <3>1, ElementOfSeq
  <2>4. line \in [monto : {due}, typed : BOOLEAN] /\ line.monto = due /\ line.typed = form.payments[1].typed
    BY <2>3
  <2>5. lines = << line >>
    <3> HIDE DEF line
    <3> QED BY <1>1, <1>2, <2>3
  <2> HIDE DEF due, line, lines, filled, new
  <2>6. /\ << line >> \in Seq([monto : {due}, typed : BOOLEAN]) /\ Len(<< line >>) = 1
        /\ DOMAIN << line >> = {1} /\ << line >>[1] = line
    BY <2>4
  <2>7. Form!Montos(new) = {due}
    BY <2>2, <2>4, <2>5, <2>6 DEF Form!Montos
  <2>8. line.typed \/ line.monto \in {None, filled}
    BY <1>1, <1>2, <2>3, <2>4 DEF filled, Form!Untouched
  <2>9. Form!PaymentsOK(new)
    BY <1>1, <1>2, <2>2, <2>5, <2>6, <2>7, <2>8 DEF Form!PaymentsOK
  <2>10. Form!total(new) = due
    BY <2>2, TotalOf DEF due
  <2>11. UntouchedPays(new)
    BY <2>2, <2>4, <2>5, <2>6, <2>10 DEF UntouchedPays
  <2> QED BY <2>1, <2>2, <2>9, <2>11
<1>3. CASE ~(Len(form.payments) = 1 /\ Form!Untouched(form) /\ due > 0)
  <2>1. Form!Rendered(form) = form
    BY <1>3 DEF Form!Rendered
  <2>2. Len(form.payments) = 1 /\ ~form.payments[1].typed => Form!Untouched(form)
    BY <1>1 DEF Form!Untouched
  <2>3. UntouchedPays(form)
    BY <1>3, <2>2 DEF UntouchedPays
  <2> QED BY <2>1, <2>3
<1> QED BY <1>2, <1>3

\* No more of a product than there is, but for one that was scanned sold out.
CartOK(cart) ==
    /\ \E P \in SUBSET Product : cart \in [P -> Form!CartLine]
    /\ \A p \in DOMAIN cart : cart[p].cantidad <= Form!Max({1, cart[p].stock})

LEMMA AtMostStock ==
    ASSUME NEW s \in Nat
    PROVE  Form!Max({1, s}) \in Nat /\ Form!Max({1, s}) >= 1 /\ Form!Max({1, s}) >= s
<1>1. \E x \in {1, s} : \A y \in {1, s} : x >= y
  <2>1. CASE s >= 1
    BY <2>1
  <2>2. CASE ~(s >= 1)
    BY <2>2
  <2> QED BY <2>1, <2>2
<1>2. Form!Max({1, s}) \in {1, s} /\ \A y \in {1, s} : Form!Max({1, s}) >= y
  BY <1>1 DEF Form!Max
<1> QED BY <1>2

LEMMA NoMoreThanStock ==
    ASSUME NEW s \in Nat, NEW n \in Nat
    PROVE  Form!Min({n, s}) \in Nat /\ Form!Min({n, s}) <= s
<1>1. \E x \in {n, s} : \A y \in {n, s} : x <= y
  <2>1. CASE s >= n
    BY <2>1
  <2>2. CASE ~(s >= n)
    BY <2>2
  <2> QED BY <2>1, <2>2
<1>2. Form!Min({n, s}) \in {n, s} /\ \A y \in {n, s} : Form!Min({n, s}) <= y
  BY <1>1 DEF Form!Min
<1> QED BY <1>2

\* What puts a line in the cart, changes one and takes one out.
LEMMA CartWith ==
    ASSUME NEW cart, CartOK(cart), NEW p \in Product, NEW line \in Form!CartLine,
           line.cantidad <= Form!Max({1, line.stock}), NEW new,
           new = [x \in DOMAIN cart \cup {p} |-> IF x = p THEN line ELSE cart[x]]
    PROVE  CartOK(new)
<1>1. PICK P \in SUBSET Product : cart \in [P -> Form!CartLine]
  BY DEF CartOK
<1>2. new \in [P \cup {p} -> Form!CartLine] /\ P \cup {p} \in SUBSET Product /\ DOMAIN new = P \cup {p}
  BY <1>1
<1>3. \A x \in DOMAIN new : new[x].cantidad <= Form!Max({1, new[x].stock})
  <2> TAKE x \in DOMAIN new
  <2>1. CASE x = p
    BY <2>1
  <2>2. CASE x # p
    BY <1>1, <2>2 DEF CartOK
  <2> QED BY <2>1, <2>2
<1> QED BY <1>2, <1>3 DEF CartOK

LEMMA CartWithout ==
    ASSUME NEW cart, CartOK(cart), NEW p
    PROVE  CartOK(Form!Without(cart, p))
<1>1. PICK P \in SUBSET Product : cart \in [P -> Form!CartLine]
  BY DEF CartOK
<1>2. Form!Without(cart, p) \in [P \ {p} -> Form!CartLine] /\ P \ {p} \in SUBSET Product
  BY <1>1 DEF Form!Without
<1> QED BY <1>1, <1>2 DEF CartOK, Form!Without

LEMMA CartChanged ==
    ASSUME NEW cart, CartOK(cart), NEW p \in DOMAIN cart, NEW n \in Nat, n <= Form!Max({1, cart[p].stock})
    PROVE  CartOK([cart EXCEPT ![p].cantidad = n])
<1> DEFINE line == [cart[p] EXCEPT !.cantidad = n]
           new == [x \in DOMAIN cart \cup {p} |-> IF x = p THEN line ELSE cart[x]]
<1>1. PICK P \in SUBSET Product : cart \in [P -> Form!CartLine]
  BY DEF CartOK
<1>2. p \in Product /\ line \in Form!CartLine /\ line.cantidad = n /\ line.stock = cart[p].stock
  BY <1>1 DEF Form!CartLine
<1>3. [cart EXCEPT ![p].cantidad = n] = [cart EXCEPT ![p] = line]
  OBVIOUS
<1> HIDE DEF line
<1>4. [cart EXCEPT ![p] = line] = new
  BY <1>1
<1> HIDE DEF new
<1>5. CartOK(new)
  <2>1. new = [x \in DOMAIN cart \cup {p} |-> IF x = p THEN line ELSE cart[x]]
    BY DEF new
  <2> QED BY <1>2, <2>1, CartWith
<1> QED BY <1>3, <1>4, <1>5

LEMMA LineOf ==
    ASSUME NEW cart, CartOK(cart), NEW p \in DOMAIN cart
    PROVE  p \in Product /\ cart[p].cantidad \in Nat /\ cart[p].stock \in KnownStock /\ cart[p].stock \in Nat
           /\ cart[p] \in Form!CartLine
<1>1. PICK P \in SUBSET Product : cart \in [P -> Form!CartLine]
  BY DEF CartOK
<1> QED BY <1>1, ScreensAssumption DEF Form!CartLine

LEMMA CartAdded ==
    ASSUME CartOK(ui.cart), NEW p \in Product, NEW price \in Price, NEW stock \in KnownStock
    PROVE  CartOK(Form!Added(p, price, stock))
<1> DEFINE line == [price |-> price, stock |-> stock, cantidad |-> 1]
<1>1. CASE p \notin DOMAIN ui.cart
  <2>1. /\ line \in Form!CartLine /\ line.cantidad <= Form!Max({1, line.stock})
        /\ Form!Added(p, price, stock) = [x \in DOMAIN ui.cart \cup {p} |-> IF x = p THEN line ELSE ui.cart[x]]
    BY <1>1, AtMostStock, ScreensAssumption DEF Form!Added, Form!CartLine
  <2> HIDE DEF line
  <2> QED BY <2>1, CartWith
<1>2. CASE p \in DOMAIN ui.cart
  <2> DEFINE had == ui.cart[p].cantidad
             n == IF had < ui.cart[p].stock THEN had + 1 ELSE had
  <2>1. Form!Added(p, price, stock) = [ui.cart EXCEPT ![p].cantidad = n]
    BY <1>2 DEF Form!Added
  <2>2. had \in Nat /\ ui.cart[p].stock \in Nat /\ had <= Form!Max({1, ui.cart[p].stock})
    BY <1>2, LineOf DEF CartOK
  <2>3. n \in Nat /\ n <= Form!Max({1, ui.cart[p].stock})
    BY <2>2, AtMostStock
  <2> HIDE DEF n
  <2> QED BY <1>2, <2>1, <2>3, CartChanged
<1> QED BY <1>1, <1>2

LEMMA CartQuantity ==
    ASSUME CartOK(ui.cart), NEW p \in DOMAIN ui.cart, NEW n \in Int
    PROVE  CartOK(Form!Changed(p, n))
<1>1. CASE n <= 0
  BY <1>1, CartWithout DEF Form!Changed
<1>2. CASE ~(n <= 0)
  <2> DEFINE m == Form!Min({n, ui.cart[p].stock})
  <2>1. n \in Nat /\ ui.cart[p].stock \in Nat
    BY <1>2, LineOf
  <2>2. m \in Nat /\ m <= Form!Max({1, ui.cart[p].stock})
    BY <2>1, NoMoreThanStock, AtMostStock
  <2>3. Form!Changed(p, n) = [ui.cart EXCEPT ![p].cantidad = m]
    BY <1>2 DEF Form!Changed
  <2> HIDE DEF m
  <2> QED BY <2>2, <2>3, CartChanged
<1> QED BY <1>1, <1>2

LEMMA FormOps ==
    /\ \A s, i : Form!RemoveAt(s, i) = RemoveAt(s, i)
    /\ \A s, J : Form!Outdated(s, J) = Outdated(s, J)
    /\ \A more : Form!Start(more) <=> Start(more)
    /\ \A op : Form!Doing(op) = Doing(op)
<1>1. \A s, i : Form!RemoveAt(s, i) = RemoveAt(s, i)
  BY DEF Form!RemoveAt, RemoveAt
<1>2. \A s, J : Form!Outdated(s, J) = Outdated(s, J)
  BY DEF Form!Outdated, Outdated
<1>3. \A op : Form!Doing(op) = Doing(op)
  BY DEF Form!Doing, Doing
<1>4. \A more : Form!Start(more) <=> Start(more)
  BY DEF Form!Start, Start
<1> QED BY <1>1, <1>2, <1>3, <1>4

LEMMA ScanOrSaleCanBeOld == CanBeOld(Form!ScanOrSale)
BY DEF CanBeOld, Form!ScanOrSale

\* A call that is dropped takes no other with it, and a new one changes none.
LEMMA OthersStay ==
    ASSUME NEW S, NEW cs \in Seq(S), NEW i \in DOMAIN cs, NEW k \in DOMAIN cs \ {i}
    PROVE  \E j \in DOMAIN RemoveAt(cs, i) : RemoveAt(cs, i)[j] = cs[k]
<1>1. /\ RemoveAt(cs, i) \in Seq(S) /\ Len(RemoveAt(cs, i)) = Len(cs) - 1
      /\ \A j \in 1 .. (Len(cs) - 1) :
           RemoveAt(cs, i)[j] = IF j < i THEN cs[j] ELSE cs[j + 1]
  BY RemoveAtIs
<1>2. /\ DOMAIN cs = 1 .. Len(cs) /\ Len(cs) \in Nat
      /\ DOMAIN RemoveAt(cs, i) = 1 .. (Len(cs) - 1)
  BY <1>1, LenProperties
<1>3. CASE k < i
  BY <1>1, <1>2, <1>3
<1>4. CASE k > i
  <2>1. k - 1 \in 1 .. (Len(cs) - 1) /\ ~(k - 1 < i) /\ (k - 1) + 1 = k
    BY <1>2, <1>4
  <2>2. RemoveAt(cs, i)[k - 1] = cs[k]
    BY <1>1, <2>1
  <2> QED BY <1>2, <2>1, <2>2
<1> QED BY <1>2, <1>3, <1>4

LEMMA AllStay ==
    ASSUME NEW S, NEW cs \in Seq(S), NEW more \in Seq(S), NEW k \in DOMAIN cs
    PROVE  \E j \in DOMAIN (cs \o more) : (cs \o more)[j] = cs[k]
<1>1. /\ cs \o more \in Seq(S) /\ Len(cs \o more) = Len(cs) + Len(more)
      /\ \A j \in 1 .. Len(cs) + Len(more) : (cs \o more)[j] = IF j <= Len(cs) THEN cs[j] ELSE more[j - Len(cs)]
  BY ConcatProperties
<1>2. /\ DOMAIN cs = 1 .. Len(cs) /\ Len(cs) \in Nat /\ Len(more) \in Nat
      /\ DOMAIN (cs \o more) = 1 .. (Len(cs) + Len(more))
  BY <1>1, LenProperties
<1> QED BY <1>1, <1>2

\* A sale under way, and a scan that no ticket has overtaken.
Charges(cs) == \E j \in DOMAIN cs : cs[j].op = "sale"
Scans(cs) == \E j \in DOMAIN cs : cs[j].op = "scan" /\ ~cs[j].old

LEMMA FormHas ==
    ASSUME Form!IInv
    PROVE  /\ calls \in Seq(Form!ScanOrSale) /\ \A k \in DOMAIN calls : calls[k] \in Form!ScanOrSale
           /\ DOMAIN ui = FormFields /\ Form!PaymentsOK(ui) /\ UntouchedPays(ui) /\ CartOK(ui.cart)
           /\ ui.descuento \in Amount \cup {None} /\ ui.scan \in {"closed", "idle", "scanning", "error"}
           /\ ui.submitting \in BOOLEAN /\ ui.completed \in BOOLEAN
           /\ (ui.submitting <=> Charges(calls)) /\ Alone(calls, {"sale"}, {None})
           /\ ui.scan = "scanning" => Scans(calls)
<1>1. calls \in Seq(Form!ScanOrSale) /\ \A k \in DOMAIN calls : calls[k] \in Form!ScanOrSale
  BY ElementOfSeq, LenProperties DEF Form!IInv
<1>2. /\ DOMAIN ui = FormFields /\ Form!PaymentsOK(ui) /\ UntouchedPays(ui)
      /\ ui.submitting \in BOOLEAN /\ ui.completed \in BOOLEAN
  BY DEF Form!IInv, FormFields, UntouchedPays, Form!UntouchedPaysTotal
<1>3. /\ CartOK(ui.cart) /\ ui.descuento \in Amount \cup {None}
      /\ ui.scan \in {"closed", "idle", "scanning", "error"}
  BY DEF Form!IInv, Form!TypeOK, CartOK
<1>4. (ui.submitting <=> Charges(calls)) /\ Alone(calls, {"sale"}, {None})
  BY <1>2 DEF Form!IInv, Form!TypeOK, Charges, Alone, Of, Form!Doing
<1>5. ui.scan = "scanning" => Scans(calls)
  BY DEF Form!IInv, Scans, Form!Doing
<1> QED BY <1>1, <1>2, <1>3, <1>4, <1>5

LEMMA FormStep ==
    ASSUME DOMAIN ui' = FormFields, Form!PaymentsOK(ui'), UntouchedPays(ui'), CartOK(ui'.cart),
           ui'.descuento \in Amount \cup {None}, ui'.scan \in {"closed", "idle", "scanning", "error"},
           ui'.submitting \in BOOLEAN, ui'.completed \in BOOLEAN,
           calls' \in Seq(Form!ScanOrSale), ui'.submitting <=> Charges(calls'),
           Alone(calls', {"sale"}, {None}), ui'.scan = "scanning" => Scans(calls')
    PROVE  Form!IInv'
<1>1. ui'.scan = "scanning" => (\E i \in Form!Doing("scan") : ~calls[i].old)'
  BY DEF Scans, Form!Doing
<1>2. (ui.submitting = (Form!Doing("sale") # {}))'
  BY DEF Charges, Form!Doing
<1>3. (\A i, j \in Form!Doing("sale") : i = j)'
  <2>1. \A j \in DOMAIN calls' : calls'[j].then = None
    <3>1. \A j \in DOMAIN calls' : calls'[j] \in Form!ScanOrSale
      BY ElementOfSeq, LenProperties
    <3> QED BY <3>1 DEF Form!ScanOrSale
  <2> QED BY <2>1 DEF Alone, Of, Form!Doing
<1>4. (/\ \E P \in SUBSET Product : ui.cart \in [P -> Form!CartLine]
       /\ \A p \in DOMAIN ui.cart : ui.cart[p].cantidad <= Form!Max({1, ui.cart[p].stock}))'
  BY DEF CartOK
<1>5. (Len(ui.payments) \in 1 .. MaxLines)'
  BY DEF Form!PaymentsOK
<1>6. (ui.scan = "scanning" => Form!Doing("scan") # {})'
  BY <1>1
<1>7. Form!TypeOK'
  BY <1>2, <1>3, <1>4, <1>5, <1>6 DEF Form!TypeOK
<1>8. Form!UntouchedPaysTotal'
  BY DEF UntouchedPays, Form!UntouchedPaysTotal, Form!PaymentsOK
<1>9. Form!PaymentsOK(ui)'
  BY DEF Form!PaymentsOK, Form!Montos
<1> QED BY <1>1, <1>7, <1>8, <1>9 DEF Form!IInv, FormFields

\* The payments of the form, however they came to be.
LEMMA PaymentsAre ==
    ASSUME NEW form, NEW S, form.payments \in Seq([monto : S, typed : BOOLEAN]),
           Len(form.payments) \in 1 .. MaxLines,
           \A k \in DOMAIN form.payments :
             form.payments[k].typed \/ form.payments[k].monto \in {None, form.autoFilled}
    PROVE  Form!PaymentsOK(form)
<1> DEFINE n == Len(form.payments)
<1>1. /\ DOMAIN form.payments = 1 .. n /\ n \in Nat
      /\ \A k \in DOMAIN form.payments : form.payments[k] \in [monto : S, typed : BOOLEAN]
  <2> DEFINE L == [monto : S, typed : BOOLEAN]
  <2> HIDE DEF L
  <2>1. form.payments \in Seq(L)
    BY DEF L
  <2>2. DOMAIN form.payments = 1 .. n /\ n \in Nat /\ \A k \in DOMAIN form.payments : form.payments[k] \in L
    BY <2>1, LenProperties, ElementOfSeq
  <2> QED BY <2>2 DEF L
<1>2. \A k \in DOMAIN form.payments : form.payments[k] \in [monto : Form!Montos(form), typed : BOOLEAN]
  <2> TAKE k \in DOMAIN form.payments
  <2>1. form.payments[k] \in [monto : S, typed : BOOLEAN] /\ form.payments[k].monto \in Form!Montos(form)
    BY <1>1 DEF Form!Montos
  <2> QED BY <2>1
<1>3. form.payments \in Seq([monto : Form!Montos(form), typed : BOOLEAN])
  <2> DEFINE L == [monto : Form!Montos(form), typed : BOOLEAN]
  <2>1. \A k \in 1 .. n : form.payments[k] \in L
    BY <1>1, <1>2
  <2> HIDE DEF L
  <2>2. form.payments = [k \in 1 .. n |-> form.payments[k]]
    <3> DEFINE M == [monto : S, typed : BOOLEAN]
    <3> HIDE DEF M
    <3>1. form.payments \in Seq(M)
      BY DEF M
    <3> QED BY <3>1, <1>1
  <2>3. [k \in 1 .. n |-> form.payments[k]] \in Seq(L)
    BY <1>1, <2>1, IsASeq
  <2>4. form.payments \in Seq(L)
    BY <2>2, <2>3
  <2> QED BY <2>4 DEF L
<1> QED BY <1>3 DEF Form!PaymentsOK

LEMMA PaymentsKept ==
    ASSUME NEW form, NEW old, Form!PaymentsOK(old), form.payments = old.payments,
           form.autoFilled = old.autoFilled
    PROVE  Form!PaymentsOK(form)
BY DEF Form!PaymentsOK, Form!Montos

\* A step that only fills in the form.
LEMMA FormFilled ==
    ASSUME Form!IInv, NEW form, DOMAIN form = FormFields, Form!PaymentsOK(form), CartOK(form.cart),
           form.descuento \in Amount \cup {None}, form.scan = ui.scan,
           form.submitting = ui.submitting, form.completed = ui.completed,
           Form!Fill(form), UNCHANGED calls
    PROVE  Form!IInv'
<1>1. ui' = Form!Rendered(form)
  BY DEF Form!Fill
<1>2. /\ Form!PaymentsOK(ui') /\ UntouchedPays(ui') /\ DOMAIN ui' = FormFields
      /\ ui'.cart = form.cart /\ ui'.descuento = form.descuento /\ ui'.scan = form.scan
      /\ ui'.submitting = form.submitting /\ ui'.completed = form.completed
  BY <1>1, FormRendered
<1> QED BY <1>2, FormHas, FormStep

LEMMA FormCart ==
    ASSUME Form!IInv, NEW cart, CartOK(cart), Form!Cart(cart), UNCHANGED calls
    PROVE  Form!IInv'
<1> DEFINE form == [ui EXCEPT !.cart = cart]
<1>1. /\ DOMAIN form = FormFields /\ form.cart = cart /\ form.descuento = ui.descuento
      /\ form.scan = ui.scan /\ form.submitting = ui.submitting /\ form.completed = ui.completed
      /\ form.payments = ui.payments /\ form.autoFilled = ui.autoFilled
  BY FormHas DEF FormFields
<1>2. Form!Fill(form)
  BY DEF Form!Cart
<1> HIDE DEF form
<1>3. Form!PaymentsOK(form)
  BY <1>1, FormHas, PaymentsKept
<1> QED BY <1>1, <1>2, <1>3, FormHas, FormFilled

LEMMA FormCartSteps ==
    ASSUME Form!IInv, NEW p \in Product,
           \/ \E price \in Price, stock \in KnownStock : Form!HandleSelectSearchResult(p, price, stock)
           \/ Form!RemoveFromCart(p)
           \/ \E by \in {-1, 1}, stock \in KnownStock : Form!ChangeQuantity(p, by, stock)
    PROVE  Form!IInv'
<1>1. CartOK(ui.cart)
  BY FormHas
<1>2. ASSUME NEW price \in Price, NEW stock \in KnownStock, Form!HandleSelectSearchResult(p, price, stock)
      PROVE  Form!IInv'
  <2>1. CartOK(Form!Added(p, price, stock))
    BY <1>1, CartAdded
  <2>2. Form!Cart(Form!Added(p, price, stock)) /\ UNCHANGED calls
    BY <1>2 DEF Form!HandleSelectSearchResult
  <2> QED BY <2>1, <2>2, FormCart
<1>3. CASE Form!RemoveFromCart(p)
  <2>1. CartOK(Form!Without(ui.cart, p))
    BY <1>1, CartWithout
  <2>2. Form!Cart(Form!Without(ui.cart, p)) /\ UNCHANGED calls
    BY <1>3 DEF Form!RemoveFromCart
  <2> QED BY <2>1, <2>2, FormCart
<1>4. ASSUME NEW by \in {-1, 1}, NEW stock \in KnownStock, Form!ChangeQuantity(p, by, stock)
      PROVE  Form!IInv'
  <2> DEFINE n == ui.cart[p].cantidad + by
  <2>1. p \in DOMAIN ui.cart /\ Form!Cart(Form!Changed(p, n)) /\ UNCHANGED calls
    BY <1>4 DEF Form!ChangeQuantity
  <2>2. n \in Int
    BY <1>1, <2>1, LineOf
  <2> HIDE DEF n
  <2>3. CartOK(Form!Changed(p, n))
    BY <1>1, <2>1, <2>2, CartQuantity
  <2> QED BY <2>1, <2>3, FormCart
<1> QED BY <1>2, <1>3, <1>4

LEMMA FormAmounts ==
    ASSUME Form!IInv,
           \/ \E monto \in Amount \cup {None} :
                Form!SetDescuentoMonto(monto) \/ \E k \in 1 .. MaxLines : Form!UpdatePayment(k, monto)
           \/ Form!AddLine \/ \E k \in 1 .. MaxLines : Form!RemoveLine(k)
    PROVE  Form!IInv'
<1> DEFINE pays == ui.payments
           L(S) == [monto : S, typed : BOOLEAN]
           Ok(line) == line.typed \/ line.monto \in {None, ui.autoFilled}
<1>1. PICK S : pays \in Seq(L(S)) /\ None \in S /\ Amount \subseteq S
  <2> DEFINE T == Form!Montos(ui) \cup Amount \cup {None}
  <2>1. L(Form!Montos(ui)) \subseteq L(T)
    OBVIOUS
  <2>2. pays \in Seq(L(Form!Montos(ui)))
    BY FormHas DEF Form!PaymentsOK
  <2> DEFINE A == L(Form!Montos(ui))
             B == L(T)
  <2> HIDE DEF L
  <2>3. pays \in Seq(B)
    <3> HIDE DEF A, B
    <3>1. A \subseteq B /\ pays \in Seq(A)
      BY <2>1, <2>2 DEF A, B
    <3> QED BY <3>1, SeqMonotonic
  <2> QED BY <2>3
<1>2. /\ DOMAIN pays = 1 .. Len(pays) /\ Len(pays) \in 1 .. MaxLines /\ Len(pays) \in Nat /\ MaxLines \in Nat
      /\ \A k \in DOMAIN pays : Ok(pays[k])
  BY <1>1, FormHas, ScreensAssumption DEF Form!PaymentsOK
<1>3. ASSUME NEW new \in Seq(L(S)), Len(new) \in 1 .. MaxLines, \A k \in DOMAIN new : Ok(new[k]),
             Form!Fill([ui EXCEPT !.payments = new]), UNCHANGED calls
      PROVE  Form!IInv'
  <2> DEFINE form == [ui EXCEPT !.payments = new]
  <2>1. /\ DOMAIN form = FormFields /\ form.cart = ui.cart /\ form.descuento = ui.descuento
        /\ form.scan = ui.scan /\ form.submitting = ui.submitting /\ form.completed = ui.completed
        /\ form.payments = new /\ form.autoFilled = ui.autoFilled /\ Form!Fill(form)
    BY <1>3, FormHas DEF FormFields
  <2> HIDE DEF form
  <2>2. Form!PaymentsOK(form)
    BY <1>3, <2>1, PaymentsAre
  <2> QED BY <1>3, <2>1, <2>2, FormHas, FormFilled
<1>4. ASSUME NEW monto \in Amount \cup {None}, Form!SetDescuentoMonto(monto)
      PROVE  Form!IInv'
  <2> DEFINE form == [ui EXCEPT !.descuento = monto]
  <2>1. /\ DOMAIN form = FormFields /\ form.cart = ui.cart /\ form.descuento = monto
        /\ form.scan = ui.scan /\ form.submitting = ui.submitting /\ form.completed = ui.completed
        /\ form.payments = ui.payments /\ form.autoFilled = ui.autoFilled
    BY FormHas DEF FormFields
  <2>2. Form!Fill(form) /\ UNCHANGED calls
    BY <1>4 DEF Form!SetDescuentoMonto
  <2> HIDE DEF form
  <2>3. Form!PaymentsOK(form)
    BY <2>1, FormHas, PaymentsKept
  <2> QED BY <2>1, <2>2, <2>3, FormHas, FormFilled
<1>5. ASSUME NEW monto \in Amount \cup {None}, NEW k \in 1 .. MaxLines, Form!UpdatePayment(k, monto)
      PROVE  Form!IInv'
  <2> DEFINE line == [monto |-> monto, typed |-> monto \notin {None, ui.autoFilled}]
             new == [pays EXCEPT ![k] = line]
  <2>1. k \in DOMAIN pays /\ Form!Fill([ui EXCEPT !.payments = new]) /\ UNCHANGED calls
    BY <1>5, FormHas DEF Form!UpdatePayment, FormFields
  <2>2. line \in L(S) /\ Ok(line)
    BY <1>1
  <2> HIDE DEF line, pays, L, Ok
  <2>3. new \in Seq(L(S)) /\ Len(new) = Len(pays) /\ DOMAIN new = DOMAIN pays
        /\ new[k] = line /\ \A j \in DOMAIN pays \ {k} : new[j] = pays[j]
    BY <1>1, <2>1, <2>2, ExceptSeq, LenProperties
  <2>4. \A j \in DOMAIN new : Ok(new[j])
    BY <1>2, <2>2, <2>3
  <2> HIDE DEF new
  <2> QED BY <1>2, <1>3, <2>1, <2>3, <2>4
<1>6. CASE Form!AddLine
  <2> DEFINE line == Form!newPaymentLine
             new == Append(pays, line)
  <2>1. Len(pays) < MaxLines /\ Form!Fill([ui EXCEPT !.payments = new]) /\ UNCHANGED calls
    BY <1>6, FormHas DEF Form!AddLine, FormFields
  <2>2. line \in L(S) /\ Ok(line)
    BY <1>1 DEF Form!newPaymentLine
  <2> HIDE DEF line, pays, L, Ok
  <2>3. /\ new \in Seq(L(S)) /\ Len(new) = Len(pays) + 1 /\ DOMAIN new = 1 .. (Len(pays) + 1)
        /\ new[Len(pays) + 1] = line /\ \A j \in 1 .. Len(pays) : new[j] = pays[j]
    BY <1>1, <2>2, AppendProperties, LenProperties
  <2>4. \A j \in DOMAIN new : Ok(new[j])
    BY <1>2, <2>2, <2>3
  <2>5. Len(new) \in 1 .. MaxLines
    BY <1>2, <2>1, <2>3
  <2> HIDE DEF new
  <2> QED BY <1>3, <2>1, <2>3, <2>4, <2>5
<1>7. ASSUME NEW k \in 1 .. MaxLines, Form!RemoveLine(k)
      PROVE  Form!IInv'
  <2> DEFINE new == RemoveAt(pays, k)
  <2>1. /\ Len(pays) > 1 /\ k \in DOMAIN pays /\ Form!Fill([ui EXCEPT !.payments = new])
        /\ UNCHANGED calls
    BY <1>7, FormHas, FormOps DEF Form!RemoveLine, FormFields
  <2> HIDE DEF pays, L, Ok
  <2>2. /\ new \in Seq(L(S)) /\ Len(new) = Len(pays) - 1
        /\ \A j \in 1 .. (Len(pays) - 1) : new[j] = IF j < k THEN pays[j] ELSE pays[j + 1]
    BY <1>1, <2>1, RemoveAtIs
  <2>3. DOMAIN new = 1 .. (Len(pays) - 1)
    BY <2>2, LenProperties
  <2>4. \A j \in DOMAIN new : Ok(new[j])
    <3> TAKE j \in DOMAIN new
    <3>1. j \in DOMAIN pays /\ j + 1 \in DOMAIN pays /\ j \in Nat /\ new[j] = IF j < k THEN pays[j] ELSE pays[j + 1]
      BY <1>2, <2>2, <2>3
    <3> QED BY <1>2, <3>1
  <2>5. Len(new) \in 1 .. MaxLines
    BY <1>2, <2>1, <2>2
  <2> HIDE DEF new
  <2> QED BY <1>3, <2>1, <2>2, <2>4, <2>5
<1> QED BY <1>4, <1>5, <1>6, <1>7

\* A scan that ends is no sale.
LEMMA ScanEnds ==
    ASSUME Form!IInv, NEW i \in DOMAIN calls, calls[i].op = "scan", calls' = RemoveAt(calls, i)
    PROVE  /\ calls' \in Seq(Form!ScanOrSale) /\ Alone(calls', {"sale"}, {None})
           /\ Charges(calls') <=> Charges(calls)
           /\ \A k \in DOMAIN calls \ {i} : \E j \in DOMAIN calls' : calls'[j] = calls[k]
<1>1. AsBefore(calls, calls, i)
  BY DEF AsBefore, Same
<1>2. calls' \in Seq(Form!ScanOrSale) /\ Becomes(calls', calls, {i}, << >>)
  BY <1>1, FormHas, ScanOrSaleCanBeOld, RemovedBecomes
<1>3. \A k \in DOMAIN << >> : ~Of(<< >>[k], {"sale"}, {None})
  OBVIOUS
<1>4. Alone(calls', {"sale"}, {None})
  BY <1>2, <1>3, FormHas, ScanOrSaleCanBeOld, StaysAlone
<1>5. ASSUME NEW k \in DOMAIN calls \ {i}
      PROVE  \E j \in DOMAIN calls' : calls'[j] = calls[k]
  BY FormHas, OthersStay
<1>6. ASSUME NEW j \in DOMAIN calls', calls'[j].op = "sale"
      PROVE  Charges(calls)
  <2>1. CameFrom(calls'[j], calls, {i}, << >>)
    BY <1>2, FormHas, ScanOrSaleCanBeOld, ComesFrom
  <2> QED BY <1>6, <2>1 DEF CameFrom, Alike, Charges
<1>7. Charges(calls) => Charges(calls')
  BY <1>5 DEF Charges
<1>8. Charges(calls') => Charges(calls)
  BY <1>6 DEF Charges
<1> QED BY <1>2, <1>4, <1>5, <1>7, <1>8

\* The dialog of the scan, and the scans that end.
LEMMA FormScans ==
    ASSUME Form!IInv,
           \/ Form!OpenScan \/ Form!CloseScan \/ Form!HandleCapture
           \/ \E i \in DOMAIN calls : Form!ScanFailed(i)
    PROVE  Form!IInv'
<1>1. ASSUME NEW scan \in {"closed", "idle", "scanning", "error"}, ui' = [ui EXCEPT !.scan = scan]
      PROVE  /\ DOMAIN ui' = FormFields /\ Form!PaymentsOK(ui') /\ UntouchedPays(ui') /\ CartOK(ui'.cart)
             /\ ui'.descuento \in Amount \cup {None} /\ ui'.scan = scan
             /\ ui'.submitting \in BOOLEAN /\ ui'.completed \in BOOLEAN
             /\ ui'.submitting = ui.submitting
  <2>1. /\ DOMAIN ui' = FormFields /\ ui'.payments = ui.payments /\ ui'.autoFilled = ui.autoFilled
        /\ ui'.cart = ui.cart /\ ui'.descuento = ui.descuento /\ ui'.scan = scan
        /\ ui'.submitting = ui.submitting /\ ui'.completed = ui.completed
    BY <1>1, FormHas DEF FormFields
  <2>2. Form!PaymentsOK(ui')
    BY <2>1, FormHas, PaymentsKept
  <2>3. UntouchedPays(ui')
    BY <2>1, FormHas, TotalOf DEF UntouchedPays
  <2> QED BY <2>1, <2>2, <2>3, FormHas
<1>2. CASE Form!OpenScan \/ Form!CloseScan
  <2>1. PICK scan \in {"closed", "idle"} : ui' = [ui EXCEPT !.scan = scan] /\ UNCHANGED calls
    BY <1>2 DEF Form!OpenScan, Form!CloseScan
  <2> QED BY <1>1, <2>1, FormHas, FormStep
<1>3. CASE Form!HandleCapture
  <2> DEFINE c == Form!Call("scan", None, None)
  <2>1. c \in Form!ScanOrSale /\ c.op = "scan" /\ ~c.old
    BY DEF Form!Call, Form!ScanOrSale
  <2>2. calls' = calls \o << c >> /\ ui' = [ui EXCEPT !.scan = "scanning"]
    BY <1>3, FormOps DEF Form!HandleCapture, Start
  <2> HIDE DEF c
  <2>3. << c >> \in Seq(Form!ScanOrSale) /\ DOMAIN << c >> = {1} /\ << c >>[1] = c
    BY <2>1
  <2>4. calls' \in Seq(Form!ScanOrSale) /\ Becomes(calls', calls, {}, << c >>)
    BY <2>2, <2>3, FormHas, Started
  <2>5. \E j \in DOMAIN calls' : calls'[j] = << c >>[1]
    BY <2>3, <2>4, FormHas, Appears
  <2>6. Scans(calls')
    BY <2>1, <2>3, <2>5 DEF Scans
  <2>7. Alone(calls', {"sale"}, {None})
    <3>1. \A k \in DOMAIN << c >> : ~Of(<< c >>[k], {"sale"}, {None})
      BY <2>1, <2>3 DEF Of
    <3> QED BY <3>1, <2>4, FormHas, ScanOrSaleCanBeOld, StaysAlone
  <2>8. Charges(calls') <=> Charges(calls)
    <3>1. ASSUME NEW j \in DOMAIN calls', calls'[j].op = "sale"
          PROVE  Charges(calls)
      <4>1. CameFrom(calls'[j], calls, {}, << c >>)
        BY <2>4, FormHas, ScanOrSaleCanBeOld, ComesFrom
      <4>2. ~\E k \in DOMAIN << c >> : calls'[j] = << c >>[k]
        BY <2>1, <2>3, <3>1
      <4> QED BY <3>1, <4>1, <4>2 DEF CameFrom, Alike, Charges
    <3>2. ASSUME NEW k \in DOMAIN calls, calls[k].op = "sale"
          PROVE  Charges(calls')
      <4>1. \E j \in DOMAIN calls' : Alike(calls'[j], calls[k])
        <5> DEFINE new == << c >>
        <5>1. k \in DOMAIN calls \ {} /\ new \in Seq(Form!ScanOrSale) /\ Becomes(calls', calls, {}, new)
          BY <2>3, <2>4
        <5> HIDE DEF new
        <5> QED BY <5>1, FormHas, ScanOrSaleCanBeOld, GoesOn
      <4> QED BY <3>2, <4>1 DEF Alike, Charges
    <3> QED BY <3>1, <3>2 DEF Charges
  <2>9. ui'.submitting <=> Charges(calls')
    BY <1>1, <2>2, <2>8, FormHas
  <2> QED BY <1>1, <2>2, <2>4, <2>6, <2>7, <2>9, FormStep
<1>4. ASSUME NEW i \in DOMAIN calls, Form!ScanFailed(i)
      PROVE  Form!IInv'
  <2> DEFINE scan == IF ui.scan = "closed" \/ calls[i].old THEN ui.scan ELSE "error"
  <2>1. /\ calls[i].op = "scan" /\ calls' = RemoveAt(calls, i)
        /\ ui' = [ui EXCEPT !.scan = scan]
    BY <1>4, FormOps DEF Form!ScanFailed, Form!Doing
  <2>2. scan \in {"closed", "idle", "scanning", "error"}
    BY FormHas
  <2>3. /\ calls' \in Seq(Form!ScanOrSale) /\ Alone(calls', {"sale"}, {None})
        /\ Charges(calls') <=> Charges(calls)
        /\ \A k \in DOMAIN calls \ {i} : \E j \in DOMAIN calls' : calls'[j] = calls[k]
    BY <2>1, ScanEnds
  <2>4. scan = "scanning" => Scans(calls')
    <3> SUFFICES ASSUME scan = "scanning" PROVE Scans(calls')
      OBVIOUS
    <3>1. PICK k \in DOMAIN calls : calls[k].op = "scan" /\ ~calls[k].old
      BY FormHas DEF Scans
    <3>2. k # i
      BY <3>1
    <3> QED BY <2>3, <3>1, <3>2 DEF Scans
  <2> HIDE DEF scan
  <2>5. ui'.submitting <=> Charges(calls')
    BY <1>1, <2>1, <2>2, <2>3, FormHas
  <2> QED BY <1>1, <2>1, <2>2, <2>3, <2>4, <2>5, FormStep
<1> QED BY <1>2, <1>3, <1>4

LEMMA FormMatched ==
    ASSUME Form!IInv, NEW i \in DOMAIN calls, NEW p \in Product, NEW price \in Price,
           NEW stock \in KnownStock, Form!ScanMatched(i, p, price, stock)
    PROVE  Form!IInv'
<1> DEFINE cart == Form!Added(p, price, stock)
           form == [ui EXCEPT !.cart = cart, !.scan = "closed"]
<1>1. calls[i].op = "scan" /\ calls' = RemoveAt(calls, i) /\ ui' = Form!Rendered(form)
  BY FormOps DEF Form!ScanMatched, Form!Doing, Form!Fill
<1>2. CartOK(cart)
  BY FormHas, CartAdded
<1> HIDE DEF cart
<1>3. /\ DOMAIN form = FormFields /\ form.cart = cart /\ form.descuento = ui.descuento
      /\ form.scan = "closed" /\ form.submitting = ui.submitting /\ form.completed = ui.completed
      /\ form.payments = ui.payments /\ form.autoFilled = ui.autoFilled
  BY FormHas DEF FormFields
<1> HIDE DEF form
<1>4. Form!PaymentsOK(form)
  BY <1>3, FormHas, PaymentsKept
<1>5. /\ Form!PaymentsOK(ui') /\ UntouchedPays(ui') /\ DOMAIN ui' = FormFields
      /\ ui'.cart = form.cart /\ ui'.descuento = form.descuento /\ ui'.scan = form.scan
      /\ ui'.submitting = form.submitting /\ ui'.completed = form.completed
  BY <1>1, <1>3, <1>4, FormRendered
<1>6. calls' \in Seq(Form!ScanOrSale) /\ Alone(calls', {"sale"}, {None}) /\ (Charges(calls') <=> Charges(calls))
  BY <1>1, ScanEnds
<1>7. /\ ui'.descuento \in Amount \cup {None} /\ ui'.submitting \in BOOLEAN /\ ui'.completed \in BOOLEAN
      /\ (ui'.submitting <=> Charges(calls')) /\ ui'.scan = "closed" /\ CartOK(ui'.cart)
  BY <1>2, <1>3, <1>5, <1>6, FormHas
<1>8. ui'.scan \in {"closed", "idle", "scanning", "error"} /\ ui'.scan # "scanning"
  BY <1>7
<1> QED BY <1>5, <1>6, <1>7, <1>8, FormStep

LEMMA FormCheckout ==
    ASSUME Form!IInv, Form!HandleCheckout
    PROVE  Form!IInv'
<1> DEFINE c == Form!Call("sale", None, None)
<1>1. c \in Form!ScanOrSale /\ c.op = "sale" /\ c.then = None
  BY DEF Form!Call, Form!ScanOrSale
<1>2. calls' = calls \o << c >> /\ ui' = [ui EXCEPT !.submitting = TRUE] /\ ~ui.submitting
  BY <1>1, FormHas, AppendIsConcat DEF Form!HandleCheckout
<1> HIDE DEF c
<1>3. << c >> \in Seq(Form!ScanOrSale) /\ DOMAIN << c >> = {1} /\ << c >>[1] = c
  BY <1>1
<1>4. calls' \in Seq(Form!ScanOrSale) /\ Becomes(calls', calls, {}, << c >>)
  BY <1>2, <1>3, FormHas, Started
<1>5. Charges(calls')
  <2>1. \E j \in DOMAIN calls' : calls'[j] = << c >>[1]
    BY <1>3, <1>4, FormHas, Appears
  <2> QED BY <1>1, <1>3, <2>1 DEF Charges
<1>6. Alone(calls', {"sale"}, {None})
  <2>1. \A k \in DOMAIN calls \ {} : ~Of(calls[k], {"sale"}, {None})
    BY <1>2, FormHas DEF Charges, Of
  <2> QED BY <1>3, <1>4, <2>1, FormHas, ScanOrSaleCanBeOld, StaysAlone
<1>7. Scans(calls) => Scans(calls')
  <2> SUFFICES ASSUME NEW k \in DOMAIN calls, calls[k].op = "scan" /\ ~calls[k].old PROVE Scans(calls')
    BY DEF Scans
  <2>1. \E j \in DOMAIN (calls \o << c >>) : (calls \o << c >>)[j] = calls[k]
    <3> DEFINE new == << c >>
    <3>1. new \in Seq(Form!ScanOrSale)
      BY <1>3
    <3> HIDE DEF new
    <3>2. \E j \in DOMAIN (calls \o new) : (calls \o new)[j] = calls[k]
      BY <3>1, FormHas, AllStay
    <3> QED BY <3>2 DEF new
  <2> QED BY <1>2, <2>1 DEF Scans
<1>8. /\ DOMAIN ui' = FormFields /\ ui'.payments = ui.payments /\ ui'.autoFilled = ui.autoFilled
      /\ ui'.cart = ui.cart /\ ui'.descuento = ui.descuento /\ ui'.scan = ui.scan
      /\ ui'.submitting = TRUE /\ ui'.completed = ui.completed
  BY <1>2, FormHas DEF FormFields
<1>9. Form!PaymentsOK(ui')
  BY <1>8, FormHas, PaymentsKept
<1>10. UntouchedPays(ui')
  BY <1>8, FormHas, TotalOf DEF UntouchedPays
<1> QED BY <1>4, <1>5, <1>6, <1>7, <1>8, <1>9, <1>10, FormHas, FormStep

LEMMA FormSold ==
    ASSUME Form!IInv, NEW i \in DOMAIN calls, NEW sold \in BOOLEAN, Form!SaleEnded(i, sold)
    PROVE  Form!IInv'
<1> DEFINE over == IF sold THEN Outdated(calls, Form!Doing("scan")) ELSE calls
           scan == IF sold /\ ui.scan # "closed" THEN "idle" ELSE ui.scan
<1>1. /\ calls[i].op = "sale" /\ calls' = RemoveAt(over, i)
      /\ ui' = [ui EXCEPT !.submitting = FALSE, !.completed = sold, !.scan = scan]
  BY FormOps, FormHas DEF Form!SaleEnded, Form!Doing, FormFields
<1>2. over \in Seq(Form!ScanOrSale) /\ AsBefore(over, calls, i)
  <2>1. CASE sold
    BY <2>1, FormHas, ScanOrSaleCanBeOld, OutdatedIs, Overtaken
  <2>2. CASE ~sold
    BY <2>2, FormHas DEF AsBefore, Same
  <2> QED BY <2>1, <2>2
<1>3. ~sold => over = calls
  OBVIOUS
<1>4. scan \in {"closed", "idle", "scanning", "error"} /\ (scan = "scanning" => ~sold /\ ui.scan = "scanning")
  BY FormHas
<1> HIDE DEF over, scan
<1>5. calls' \in Seq(Form!ScanOrSale) /\ Becomes(calls', calls, {i}, << >>)
  BY <1>1, <1>2, FormHas, ScanOrSaleCanBeOld, RemovedBecomes
<1>6. \A k \in DOMAIN << >> : ~Of(<< >>[k], {"sale"}, {None})
  OBVIOUS
<1>7. Alone(calls', {"sale"}, {None})
  BY <1>5, <1>6, FormHas, ScanOrSaleCanBeOld, StaysAlone
<1>8. ~Charges(calls')
  <2> SUFFICES ASSUME NEW j \in DOMAIN calls', calls'[j].op = "sale" PROVE FALSE
    BY DEF Charges
  <2>1. CameFrom(calls'[j], calls, {i}, << >>)
    BY <1>5, FormHas, ScanOrSaleCanBeOld, ComesFrom
  <2>2. PICK k \in DOMAIN calls \ {i} : calls[k].op = "sale"
    BY <2>1 DEF CameFrom, Alike
  <2>3. Of(calls[k], {"sale"}, {None}) /\ Of(calls[i], {"sale"}, {None})
    <3>1. calls[k].then = None /\ calls[i].then = None
      BY FormHas DEF Form!ScanOrSale
    <3> QED BY <1>1, <2>2, <3>1 DEF Of
  <2> QED BY <2>2, <2>3, FormHas DEF Alone
<1>9. scan = "scanning" => Scans(calls')
  <2> SUFFICES ASSUME scan = "scanning" PROVE Scans(calls')
    OBVIOUS
  <2>1. PICK k \in DOMAIN calls : calls[k].op = "scan" /\ ~calls[k].old
    BY <1>4, FormHas DEF Scans
  <2>2. k # i
    BY <1>1, <2>1
  <2>3. \E j \in DOMAIN RemoveAt(calls, i) : RemoveAt(calls, i)[j] = calls[k]
    BY <2>2, FormHas, OthersStay
  <2> QED BY <1>1, <1>3, <1>4, <2>1, <2>3 DEF Scans
<1>10. /\ DOMAIN ui' = FormFields /\ ui'.payments = ui.payments /\ ui'.autoFilled = ui.autoFilled
       /\ ui'.cart = ui.cart /\ ui'.descuento = ui.descuento /\ ui'.scan = scan
       /\ ui'.submitting = FALSE /\ ui'.completed = sold
  BY <1>1, FormHas DEF FormFields
<1>11. Form!PaymentsOK(ui')
  BY <1>10, FormHas, PaymentsKept
<1>12. UntouchedPays(ui')
  BY <1>10, FormHas, TotalOf DEF UntouchedPays
<1> QED BY <1>4, <1>5, <1>7, <1>8, <1>9, <1>10, <1>11, <1>12, FormHas, FormStep

\* A form that nothing was put in, with one payment that nothing was typed in.
LEMMA FreshForm ==
    ASSUME NEW form, form.cart = Form!EmptyCart, form.descuento = None,
           form.payments = << Form!newPaymentLine >>
    PROVE  Form!PaymentsOK(form) /\ UntouchedPays(form) /\ CartOK(form.cart)
<1> DEFINE line == Form!newPaymentLine
<1>1. line \in [monto : {None}, typed : BOOLEAN] /\ line.monto = None
  BY DEF Form!newPaymentLine
<1>2. form.payments = << line >>
  OBVIOUS
<1> HIDE DEF line
<1>3. /\ << line >> \in Seq([monto : {None}, typed : BOOLEAN]) /\ Len(<< line >>) = 1
      /\ DOMAIN << line >> = {1} /\ << line >>[1] = line
  BY <1>1
<1>4. Form!PaymentsOK(form)
  <2>1. Len(form.payments) \in 1 .. MaxLines
    BY <1>2, <1>3, ScreensAssumption
  <2>2. \A k \in DOMAIN form.payments :
          form.payments[k].typed \/ form.payments[k].monto \in {None, form.autoFilled}
    BY <1>1, <1>2, <1>3
  <2>3. form.payments \in Seq([monto : {None}, typed : BOOLEAN])
    BY <1>2, <1>3
  <2> QED BY <2>1, <2>2, <2>3, PaymentsAre
<1>5. Form!total(form) = 0
  <2>1. Form!total(form) = Form!total([cart |-> Form!EmptyCart, descuento |-> None])
    BY TotalOf
  <2> QED BY <2>1, NothingIsDue
<1>6. UntouchedPays(form)
  BY <1>5 DEF UntouchedPays
<1>7. CartOK(form.cart)
  <2>1. DOMAIN Form!EmptyCart = {} /\ Form!EmptyCart \in [{} -> Form!CartLine]
    BY DEF Form!EmptyCart
  <2> QED BY <2>1 DEF CartOK
<1> QED BY <1>4, <1>6, <1>7

LEMMA FormReset ==
    ASSUME Form!IInv, Form!ResetForNewSale
    PROVE  Form!IInv'
<1> DEFINE lines == << Form!newPaymentLine >>
           empty == Form!EmptyCart
<1>1. UNCHANGED calls /\ ui' = [ui EXCEPT !.cart = empty, !.descuento = None, !.payments = lines, !.completed = FALSE]
  BY DEF Form!ResetForNewSale
<1> HIDE DEF lines, empty
<1>2. /\ DOMAIN ui' = FormFields /\ ui'.payments = lines /\ ui'.cart = empty /\ ui'.descuento = None
      /\ ui'.scan = ui.scan /\ ui'.submitting = ui.submitting /\ ui'.completed = FALSE
  BY <1>1, FormHas DEF FormFields
<1>3. Form!PaymentsOK(ui') /\ UntouchedPays(ui') /\ CartOK(ui'.cart)
  BY <1>2, FreshForm DEF lines, empty
<1> QED BY <1>1, <1>2, <1>3, FormHas, FormStep

LEMMA FormInit ==
    ASSUME Form!Init
    PROVE  Form!IInv
<1>1. /\ calls = << >> /\ DOMAIN ui = FormFields /\ ui.cart = Form!EmptyCart /\ ui.descuento = None
      /\ ui.payments = << Form!newPaymentLine >> /\ ui.scan = "closed" /\ ui.submitting = FALSE
      /\ ui.completed = FALSE
  BY DEF Form!Init, FormFields
<1>2. Form!PaymentsOK(ui) /\ UntouchedPays(ui) /\ CartOK(ui.cart)
  BY <1>1, FreshForm
<1>3. calls \in Seq(Form!ScanOrSale) /\ \A op : Form!Doing(op) = {}
  BY <1>1 DEF Form!Doing
<1>4. Form!TypeOK
  BY <1>1, <1>2, <1>3 DEF Form!TypeOK, CartOK, Form!PaymentsOK
<1>5. Form!UntouchedPaysTotal
  BY <1>2 DEF UntouchedPays, Form!UntouchedPaysTotal, Form!PaymentsOK
<1> QED BY <1>1, <1>2, <1>3, <1>4, <1>5 DEF Form!IInv, FormFields

LEMMA FormNext ==
    ASSUME Form!IInv, Form!Next
    PROVE  Form!IInv'
<1>1. CASE \E p \in Product, price \in Price, stock \in KnownStock :
             \/ Form!HandleSelectSearchResult(p, price, stock)
             \/ \E i \in DOMAIN calls : Form!ScanMatched(i, p, price, stock)
  BY <1>1, FormCartSteps, FormMatched
<1>2. CASE \E p \in Product :
             Form!RemoveFromCart(p) \/ \E by \in {-1, 1}, stock \in KnownStock : Form!ChangeQuantity(p, by, stock)
  BY <1>2, FormCartSteps
<1>3. CASE \/ \E monto \in Amount \cup {None} :
                Form!SetDescuentoMonto(monto) \/ \E k \in 1 .. MaxLines : Form!UpdatePayment(k, monto)
           \/ Form!AddLine \/ \E k \in 1 .. MaxLines : Form!RemoveLine(k)
  BY <1>3, FormAmounts
<1>4. CASE \/ Form!OpenScan \/ Form!CloseScan \/ Form!HandleCapture
           \/ \E i \in DOMAIN calls : Form!ScanFailed(i)
  BY <1>4, FormScans
<1>5. CASE Form!HandleCheckout \/ Form!ResetForNewSale
  BY <1>5, FormCheckout, FormReset
<1>6. CASE \E i \in DOMAIN calls : \E sold \in BOOLEAN : Form!SaleEnded(i, sold)
  BY <1>6, FormSold
<1> QED BY <1>1, <1>2, <1>3, <1>4, <1>5, <1>6 DEF Form!Next

-----------------------------------------------------------------------------
(* The dialogs: what they ask for, and what they say.                      *)

HasCall(cs, op) == \E k \in DOMAIN cs : cs[k].op = op
OneOf(cs, op) == \A i, j \in DOMAIN cs : cs[i].op = op /\ cs[j].op = op => i = j

\* A call that was not overtaken is of the row of the dialog, and so is a notice that is not late.
OfTarget(cs, op, target) ==
    \A k \in DOMAIN cs : cs[k].op = op /\ ~cs[k].old => target # None /\ cs[k].arg = target
NoticeOK(page_) ==
    page_.target # None /\ page_.notice # None => page_.notice.of = page_.target \/ page_.notice.late

LEMMA HasAfter ==
    ASSUME NEW S, CanBeOld(S), NEW cs \in Seq(S), NEW more \in Seq(S), NEW new, NEW R,
           Becomes(new, cs, R, more), NEW op
    PROVE  HasCall(new, op) <=> HasCall(more, op) \/ \E k \in DOMAIN cs \ R : cs[k].op = op
<1>1. ASSUME NEW j \in DOMAIN new, new[j].op = op
      PROVE  HasCall(more, op) \/ \E k \in DOMAIN cs \ R : cs[k].op = op
  <2>1. CameFrom(new[j], cs, R, more)
    BY ComesFrom
  <2> QED BY <1>1, <2>1 DEF CameFrom, Alike, HasCall
<1>2. ASSUME NEW k \in DOMAIN cs \ R, cs[k].op = op
      PROVE  HasCall(new, op)
  <2>1. \E j \in DOMAIN new : Alike(new[j], cs[k])
    BY GoesOn
  <2> QED BY <1>2, <2>1 DEF HasCall, Alike
<1>3. ASSUME NEW k \in DOMAIN more, more[k].op = op
      PROVE  HasCall(new, op)
  <2>1. \E j \in DOMAIN new : new[j] = more[k]
    BY Appears
  <2> QED BY <1>3, <2>1 DEF HasCall
<1> QED BY <1>1, <1>2, <1>3 DEF HasCall

LEMMA StaysOne ==
    ASSUME NEW S, CanBeOld(S), NEW cs \in Seq(S), NEW new, NEW R, NEW more,
           Becomes(new, cs, R, more), NEW op, OneOf(cs, op),
           \/ ~HasCall(more, op)
           \/ DOMAIN more = {1} /\ \A k \in DOMAIN cs \ R : cs[k].op # op
    PROVE  OneOf(new, op)
<1> SUFFICES ASSUME NEW i \in DOMAIN new, NEW j \in DOMAIN new,
                    new[i].op = op, new[j].op = op, i # j
             PROVE  FALSE
  BY DEF OneOf
<1>1. \/ \E l, n \in DOMAIN cs \ R : l # n /\ Follows(new[i], cs[l]) /\ Follows(new[j], cs[n])
      \/ \E l \in DOMAIN cs \ R, n \in DOMAIN more : Follows(new[i], cs[l]) /\ new[j] = more[n]
      \/ \E l \in DOMAIN more, n \in DOMAIN cs \ R : new[i] = more[l] /\ Follows(new[j], cs[n])
      \/ \E l, n \in DOMAIN more : l # n /\ new[i] = more[l] /\ new[j] = more[n]
  BY PairFrom
<1>2. CASE \E l, n \in DOMAIN cs \ R : l # n /\ Follows(new[i], cs[l]) /\ Follows(new[j], cs[n])
  BY <1>2 DEF OneOf, Follows, Alike
<1>3. CASE \E l \in DOMAIN cs \ R, n \in DOMAIN more : Follows(new[i], cs[l]) /\ new[j] = more[n]
  BY <1>3 DEF HasCall, Follows, Alike
<1>4. CASE \E l \in DOMAIN more, n \in DOMAIN cs \ R : new[i] = more[l] /\ Follows(new[j], cs[n])
  BY <1>4 DEF HasCall, Follows, Alike
<1>5. CASE \E l, n \in DOMAIN more : l # n /\ new[i] = more[l] /\ new[j] = more[n]
  BY <1>5 DEF HasCall
<1> QED BY <1>1, <1>2, <1>3, <1>4, <1>5

\* The dialog stays as it is, or none of the calls that go on was asked for by it.
LEMMA StayOfTarget ==
    ASSUME NEW S, CanBeOld(S), NEW cs \in Seq(S), NEW new, NEW R, NEW more,
           Becomes(new, cs, R, more), NEW op, NEW target, NEW to, OfTarget(cs, op, target),
           OfTarget(more, op, to),
           to = target \/ \A k \in DOMAIN cs \ R : cs[k].op = op => cs[k].old
    PROVE  OfTarget(new, op, to)
<1> SUFFICES ASSUME NEW j \in DOMAIN new, new[j].op = op, ~new[j].old
             PROVE  to # None /\ new[j].arg = to
  BY DEF OfTarget
<1>1. CameFrom(new[j], cs, R, more)
  BY ComesFrom
<1>2. ASSUME NEW k \in DOMAIN cs \ R, Alike(new[j], cs[k]), new[j].old = cs[k].old \/ new[j].old = TRUE
      PROVE  to # None /\ new[j].arg = to
  BY <1>2 DEF OfTarget, Alike
<1>3. ASSUME NEW k \in DOMAIN more, new[j] = more[k]
      PROVE  to # None /\ new[j].arg = to
  BY <1>3 DEF OfTarget
<1> QED BY <1>1, <1>2, <1>3 DEF CameFrom

\* A dialog that is closed overtakes what it asked for.
LEMMA ClosedOfNone ==
    ASSUME NEW S, CanBeOld(S), calls \in Seq(S), NEW op, NEW to
    PROVE  LET new == Outdated(calls, Doing(op)) IN
           /\ new \in Seq(S) /\ Becomes(new, calls, {}, << >>) /\ OfTarget(new, op, to)
<1> DEFINE new == Outdated(calls, Doing(op))
<1>1. /\ new \in Seq(S) /\ DOMAIN new = DOMAIN calls
      /\ \A j \in DOMAIN calls : /\ calls[j] \in S
                                 /\ new[j] = IF j \in Doing(op) THEN [calls[j] EXCEPT !.old = TRUE] ELSE calls[j]
  BY OutdatedIs, ElementOfSeq, LenProperties
<1>2. AsBefore(new, calls, 0)
  BY Overtaken
<1> HIDE DEF new
<1>3. Becomes(new, calls, {}, << >>)
  BY <1>1, <1>2, AllGoOn
<1>4. OfTarget(new, op, to)
  <2> SUFFICES ASSUME NEW j \in DOMAIN new, new[j].op = op, ~new[j].old
               PROVE  FALSE
    BY DEF OfTarget
  <2>1. calls[j].op = op
    BY <1>1 DEF CanBeOld, Doing
  <2>2. new[j] = [calls[j] EXCEPT !.old = TRUE]
    BY <1>1, <2>1 DEF Doing
  <2> QED BY <1>1, <2>2 DEF CanBeOld
<1> QED BY <1>1, <1>3, <1>4 DEF new

\* A notice of the call that has ended is of the row of the dialog, or late.
LEMMA NoticedOK ==
    ASSUME NEW op, OfTarget(calls, op, ui.target), NEW i \in DOMAIN calls, calls[i].op = op, NEW what
    PROVE  LET notice == [what |-> what, of |-> calls[i].arg, late |-> calls[i].old] IN
           ui.target # None => notice.of = ui.target \/ notice.late
BY DEF OfTarget

-----------------------------------------------------------------------------
(* The page of the products.                                               *)

DashCalls == Dashboard!LoadCall \cup Dashboard!ActiveCall
DashUi ==
    [status : {"loading", "ready", "error"}, products : Dashboard!Lists, includeInactive : BOOLEAN,
     target : Product \cup {None}, submitting : BOOLEAN, notice : {None} \cup Dashboard!Notice]
Answers(c) == c.op = "load" /\ c.state = "ok" => c.data \in Dashboard!Lists

LEMMA DashOps ==
    /\ \A i, more : Dashboard!Ended(i, more) = Ended(i, more)
    /\ \A s, J : Dashboard!Outdated(s, J) = Outdated(s, J)
    /\ \A more : Dashboard!Start(more) <=> Start(more)
    /\ \A i : Dashboard!ThrowUnheard(i) <=> ThrowUnheard(i)
    /\ \A op : Dashboard!Doing(op) = Doing(op)
    /\ Dashboard!Answered = Answered
<1>1. \A s, i : Dashboard!RemoveAt(s, i) = RemoveAt(s, i)
  BY DEF Dashboard!RemoveAt, RemoveAt
<1>2. \A s, J : Dashboard!Outdated(s, J) = Outdated(s, J)
  BY DEF Dashboard!Outdated, Outdated
<1>3. \A op : Dashboard!Doing(op) = Doing(op)
  BY DEF Dashboard!Doing, Doing
<1>4. Dashboard!Answered = Answered
  BY DEF Dashboard!Answered, Answered
<1>5. \A i : Dashboard!WasServed(i) <=> WasServed(i)
  BY DEF Dashboard!WasServed, WasServed
<1>6. \A i, more : Dashboard!Ended(i, more) = Ended(i, more)
  BY <1>1, <1>2, <1>3, <1>4 DEF Dashboard!Ended, Ended
<1>7. \A more : Dashboard!Start(more) <=> Start(more)
  BY DEF Dashboard!Start, Start
<1>8. \A i : Dashboard!ThrowUnheard(i) <=> ThrowUnheard(i)
  BY <1>1, <1>2, <1>4, <1>5 DEF Dashboard!ThrowUnheard, ThrowUnheard
<1> QED BY <1>2, <1>3, <1>4, <1>6, <1>7, <1>8

LEMMA DashCallsCanBeOld == CanBeOld(DashCalls)
BY DEF CanBeOld, DashCalls, Dashboard!LoadCall, Dashboard!ActiveCall

LEMMA DashHas ==
    ASSUME Dashboard!IInv
    PROVE  /\ calls \in Seq(DashCalls) /\ \A k \in DOMAIN calls : calls[k] \in DashCalls /\ Answers(calls[k])
           /\ ui \in DashUi /\ db \in [Product -> Dashboard!Row] /\ NoticeOK(ui)
           /\ OneOf(calls, "delete") /\ (ui.submitting <=> HasCall(calls, "delete"))
           /\ OfTarget(calls, "delete", ui.target)
           /\ ui.status = "loading" => HasCall(calls, "load")
<1>1. calls \in Seq(DashCalls) /\ \A k \in DOMAIN calls : calls[k] \in DashCalls
  BY ElementOfSeq, LenProperties DEF Dashboard!IInv, DashCalls
<1>2. ui \in DashUi /\ db \in [Product -> Dashboard!Row] /\ ui.submitting \in BOOLEAN
  BY DEF Dashboard!IInv, DashUi, Dashboard!TypeOK
<1>3. OneOf(calls, "delete") /\ (ui.submitting <=> HasCall(calls, "delete"))
  BY <1>2 DEF Dashboard!IInv, Dashboard!TypeOK, OneOf, HasCall, Dashboard!Doing
<1>4. OfTarget(calls, "delete", ui.target) /\ \A k \in DOMAIN calls : Answers(calls[k])
  BY DEF Dashboard!IInv, Dashboard!CallOK, OfTarget, Answers
<1>5. ui.status = "loading" => HasCall(calls, "load")
  BY DEF Dashboard!IInv, Dashboard!TypeOK, HasCall, Dashboard!Doing
<1>6. NoticeOK(ui)
  BY DEF Dashboard!IInv, Dashboard!NoticeIsOfTarget, NoticeOK
<1> QED BY <1>1, <1>2, <1>3, <1>4, <1>5, <1>6

LEMMA DashStep ==
    ASSUME calls' \in Seq(DashCalls), \A k \in DOMAIN calls' : Answers(calls'[k]),
           ui' \in DashUi, db' \in [Product -> Dashboard!Row], NoticeOK(ui'),
           OneOf(calls', "delete"), ui'.submitting <=> HasCall(calls', "delete"),
           OfTarget(calls', "delete", ui'.target), ui'.status = "loading" => HasCall(calls', "load")
    PROVE  Dashboard!IInv'
<1>1. (ui.submitting = (Dashboard!Doing("delete") # {}) /\ \A i, j \in Dashboard!Doing("delete") : i = j)'
  <2>1. ui'.submitting \in BOOLEAN
    BY DEF DashUi
  <2> QED BY <2>1 DEF OneOf, HasCall, Dashboard!Doing
<1>2. (ui.status = "loading" => Dashboard!Doing("load") # {})'
  BY DEF HasCall, Dashboard!Doing
<1>3. Dashboard!TypeOK'
  BY <1>1, <1>2 DEF Dashboard!TypeOK, DashUi
<1>4. (\A i \in DOMAIN calls : Dashboard!CallOK(calls[i]))'
  BY DEF Dashboard!CallOK, OfTarget, Answers
<1>5. Dashboard!NoticeIsOfTarget'
  BY DEF Dashboard!NoticeIsOfTarget, NoticeOK
<1> QED BY <1>3, <1>4, <1>5 DEF Dashboard!IInv, DashUi, DashCalls

LEMMA DashGoes ==
    ASSUME Dashboard!IInv, NEW R, NEW more \in Seq(DashCalls), calls' \in Seq(DashCalls),
           Becomes(calls', calls, R, more),
           ui' \in DashUi, db' \in [Product -> Dashboard!Row], NoticeOK(ui'),
           \A k \in DOMAIN more : Answers(more[k]),
           ui'.status = "loading" => HasCall(more, "load") \/ \E k \in DOMAIN calls \ R : calls[k].op = "load",
           ui'.submitting <=> HasCall(more, "delete") \/ \E k \in DOMAIN calls \ R : calls[k].op = "delete",
           \/ ~HasCall(more, "delete")
           \/ DOMAIN more = {1} /\ \A k \in DOMAIN calls \ R : calls[k].op # "delete",
           OfTarget(more, "delete", ui'.target),
           \/ ui'.target = ui.target
           \/ \A k \in DOMAIN calls \ R : calls[k].op = "delete" => calls[k].old
           \/ OfTarget(calls', "delete", ui'.target)
    PROVE  Dashboard!IInv'
<1>1. calls \in Seq(DashCalls) /\ OneOf(calls, "delete") /\ OfTarget(calls, "delete", ui.target)
  BY DashHas
<1>2. OneOf(calls', "delete")
  BY <1>1, StaysOne, DashCallsCanBeOld
<1>3. OfTarget(calls', "delete", ui'.target)
  BY <1>1, StayOfTarget, DashCallsCanBeOld
<1>4. /\ HasCall(calls', "load") <=> HasCall(more, "load") \/ \E k \in DOMAIN calls \ R : calls[k].op = "load"
      /\ HasCall(calls', "delete") <=> HasCall(more, "delete") \/ \E k \in DOMAIN calls \ R : calls[k].op = "delete"
  BY <1>1, HasAfter, DashCallsCanBeOld
<1>5. ASSUME NEW j \in DOMAIN calls'
      PROVE  Answers(calls'[j])
  <2>1. CameFrom(calls'[j], calls, R, more)
    BY <1>1, ComesFrom, DashCallsCanBeOld
  <2> QED BY <2>1, DashHas DEF CameFrom, Alike, Answers
<1> QED BY <1>2, <1>3, <1>4, <1>5, DashStep

\* No call is made, or one.
LEMMA NoMore ==
    ASSUME NEW S, NEW op, NEW target
    PROVE  << >> \in Seq(S) /\ DOMAIN << >> = {} /\ ~HasCall(<< >>, op) /\ OfTarget(<< >>, op, target)
<1>1. DOMAIN << >> = {} /\ << >> \in Seq(S)
  OBVIOUS
<1> QED BY <1>1 DEF HasCall, OfTarget

LEMMA OneMore ==
    ASSUME NEW S, NEW c \in S, NEW op
    PROVE  /\ << c >> \in Seq(S) /\ DOMAIN << c >> = {1} /\ << c >>[1] = c
           /\ HasCall(<< c >>, op) <=> c.op = op
<1>1. << c >> \in Seq(S) /\ DOMAIN << c >> = {1} /\ << c >>[1] = c
  OBVIOUS
<1> QED BY <1>1 DEF HasCall

\* One call ends, goes on or is made, and no deletion is.
LEMMA DashOne ==
    ASSUME Dashboard!IInv, NEW R, NEW c \in DashCalls, calls' \in Seq(DashCalls),
           Becomes(calls', calls, R, << c >>), Answers(c), c.op # "delete",
           ui' \in DashUi, db' \in [Product -> Dashboard!Row], NoticeOK(ui'),
           ui'.status = "loading" => c.op = "load" \/ \E k \in DOMAIN calls \ R : calls[k].op = "load",
           ui'.submitting <=> \E k \in DOMAIN calls \ R : calls[k].op = "delete",
           \/ ui'.target = ui.target
           \/ \A k \in DOMAIN calls \ R : calls[k].op = "delete" => calls[k].old
    PROVE  Dashboard!IInv'
<1> DEFINE more == << c >>
<1>1. /\ more \in Seq(DashCalls) /\ DOMAIN more = {1} /\ more[1] = c
      /\ \A op : HasCall(more, op) <=> c.op = op
  BY OneMore
<1>2. Becomes(calls', calls, R, more)
  OBVIOUS
<1> HIDE DEF more
<1>3. (\A k \in DOMAIN more : Answers(more[k])) /\ ~HasCall(more, "delete")
      /\ OfTarget(more, "delete", ui'.target)
  BY <1>1 DEF OfTarget
<1>4. ui'.status = "loading" => HasCall(more, "load") \/ \E k \in DOMAIN calls \ R : calls[k].op = "load"
  BY <1>1
<1> QED BY <1>1, <1>2, <1>3, <1>4, DashGoes

LEMMA DashNone ==
    ASSUME Dashboard!IInv, NEW R, calls' \in Seq(DashCalls), Becomes(calls', calls, R, << >>),
           ui' \in DashUi, db' \in [Product -> Dashboard!Row], NoticeOK(ui'),
           ui'.status = "loading" => \E k \in DOMAIN calls \ R : calls[k].op = "load",
           ui'.submitting <=> \E k \in DOMAIN calls \ R : calls[k].op = "delete",
           \/ ui'.target = ui.target
           \/ \A k \in DOMAIN calls \ R : calls[k].op = "delete" => calls[k].old
           \/ OfTarget(calls', "delete", ui'.target)
    PROVE  Dashboard!IInv'
<1> DEFINE more == << >>
<1>1. /\ more \in Seq(DashCalls) /\ DOMAIN more = {} /\ ~HasCall(more, "delete")
      /\ OfTarget(more, "delete", ui'.target)
  BY NoMore
<1>2. Becomes(calls', calls, R, more)
  OBVIOUS
<1> HIDE DEF more
<1> QED BY <1>1, <1>2, DashGoes

\* The calls go on as they were.
LEMMA NothingEnds ==
    ASSUME NEW S, calls \in Seq(S)
    PROVE  Becomes(calls, calls, {}, << >>)
<1>1. AsBefore(calls, calls, 0)
  BY DEF AsBefore, Same
<1> QED BY <1>1, AllGoOn

LEMMA DashDialog ==
    ASSUME Dashboard!IInv, Dashboard!CloseDialog("delete") \/ \E p \in Product : Dashboard!Eliminar(p)
    PROVE  Dashboard!IInv'
<1>1. /\ ui \in DashUi /\ db \in [Product -> Dashboard!Row] /\ calls \in Seq(DashCalls)
      /\ ui.status = "loading" => \E k \in DOMAIN calls \ {} : calls[k].op = "load"
      /\ ui.submitting <=> \E k \in DOMAIN calls \ {} : calls[k].op = "delete"
  BY DashHas DEF HasCall
<1>2. ASSUME NEW t \in Product \cup {None}, ui' = [ui EXCEPT !.target = t, !.notice = None]
      PROVE  /\ ui' \in DashUi /\ NoticeOK(ui') /\ ui'.target = t
             /\ ui'.status = ui.status /\ ui'.submitting = ui.submitting
  BY <1>1, <1>2 DEF DashUi, NoticeOK
<1>3. CASE Dashboard!CloseDialog("delete")
  <2>1. /\ ui' = [ui EXCEPT !.target = None, !.notice = None] /\ UNCHANGED db
        /\ calls' = Outdated(calls, Doing("delete"))
    BY <1>3, DashOps DEF Dashboard!CloseDialog
  <2>2. /\ calls' \in Seq(DashCalls) /\ Becomes(calls', calls, {}, << >>)
        /\ OfTarget(calls', "delete", None)
    BY <1>1, <2>1, ClosedOfNone, DashCallsCanBeOld
  <2> QED BY <1>1, <1>2, <2>1, <2>2, DashNone
<1>4. ASSUME NEW p \in Product, Dashboard!Eliminar(p)
      PROVE  Dashboard!IInv'
  <2>1. /\ ui.target = None /\ ui' = [ui EXCEPT !.target = p, !.notice = None] /\ UNCHANGED << db, calls >>
    BY <1>4 DEF Dashboard!Eliminar, Dashboard!Rows, Dashboard!Opened
  <2>2. \A k \in DOMAIN calls \ {} : calls[k].op = "delete" => calls[k].old
    BY <2>1, DashHas DEF OfTarget
  <2>3. calls' \in Seq(DashCalls) /\ Becomes(calls', calls, {}, << >>)
    BY <1>1, <2>1, NothingEnds
  <2> QED BY <1>1, <1>2, <2>1, <2>2, <2>3, DashNone
<1> QED BY <1>3, <1>4

LEMMA DashConfirm ==
    ASSUME Dashboard!IInv, Dashboard!HandleConfirm
    PROVE  Dashboard!IInv'
<1> DEFINE c == Dashboard!Call("delete", ui.target, ui.includeInactive)
           more == << c >>
<1>1. /\ ui \in DashUi /\ db \in [Product -> Dashboard!Row] /\ calls \in Seq(DashCalls)
      /\ ui.status = "loading" => \E k \in DOMAIN calls \ {} : calls[k].op = "load"
  BY DashHas DEF HasCall
<1>2. /\ ~ui.submitting /\ ui.target # None /\ UNCHANGED db /\ calls' = calls \o more
      /\ ui' = [ui EXCEPT !.submitting = TRUE, !.notice = None]
  BY DashOps DEF Dashboard!HandleConfirm, Dashboard!Submit, Start
<1>3. c \in DashCalls /\ Answers(c) /\ c.op = "delete" /\ c.arg = ui.target
  BY <1>1, <1>2 DEF DashUi, DashCalls, Dashboard!ActiveCall, Dashboard!Call, Answers
<1> HIDE DEF c
<1>4. /\ more \in Seq(DashCalls) /\ DOMAIN more = {1} /\ more[1] = c /\ HasCall(more, "delete")
  BY <1>3, OneMore
<1> HIDE DEF more
<1>5. calls' \in Seq(DashCalls) /\ Becomes(calls', calls, {}, more)
  BY <1>1, <1>2, <1>4, Started
<1>6. /\ ui' \in DashUi /\ NoticeOK(ui') /\ ui'.target = ui.target /\ ui'.submitting = TRUE
      /\ ui'.status = ui.status
  BY <1>1, <1>2 DEF DashUi, NoticeOK
<1>7. \A k \in DOMAIN calls \ {} : calls[k].op # "delete"
  BY <1>2, DashHas DEF HasCall
<1>8. OfTarget(more, "delete", ui'.target) /\ \A k \in DOMAIN more : Answers(more[k])
  BY <1>2, <1>3, <1>4, <1>6 DEF OfTarget
<1> QED BY <1>1, <1>2, <1>4, <1>5, <1>6, <1>7, <1>8, DashGoes

\* The other clicks start a call.
LEMMA DashClicked ==
    ASSUME Dashboard!IInv, Dashboard!SetIncludeInactive \/ \E p \in Product : Dashboard!HandleRestore(p)
    PROVE  Dashboard!IInv'
<1>1. /\ ui \in DashUi /\ db \in [Product -> Dashboard!Row] /\ calls \in Seq(DashCalls) /\ NoticeOK(ui)
      /\ ui.status = "loading" => \E k \in DOMAIN calls \ {} : calls[k].op = "load"
      /\ ui.submitting <=> \E k \in DOMAIN calls \ {} : calls[k].op = "delete"
  BY DashHas DEF HasCall
<1>2. ASSUME NEW c \in DashCalls, calls' = calls \o << c >>
      PROVE  calls' \in Seq(DashCalls) /\ Becomes(calls', calls, {}, << c >>)
  BY <1>1, <1>2, OneMore, Started
<1>3. CASE Dashboard!SetIncludeInactive
  <2> DEFINE inc == ~ui.includeInactive
             c == Dashboard!Call("load", inc, None)
             none == Dashboard!NoProducts
  <2>1. /\ calls' = calls \o << c >> /\ UNCHANGED db
        /\ ui' = [ui EXCEPT !.includeInactive = inc, !.status = "loading", !.products = none]
    BY <1>3, DashOps DEF Dashboard!SetIncludeInactive, Start
  <2>2. c \in DashCalls /\ Answers(c) /\ c.op = "load" /\ inc \in BOOLEAN
    BY DEF DashCalls, Dashboard!LoadCall, Dashboard!Call, Answers
  <2>3. none \in Dashboard!Lists
    BY DEF Dashboard!Lists, Dashboard!NoProducts
  <2> HIDE DEF c, inc, none
  <2>4. /\ ui' \in DashUi /\ NoticeOK(ui') /\ ui'.target = ui.target /\ ui'.submitting = ui.submitting
    BY <1>1, <2>1, <2>2, <2>3 DEF DashUi, NoticeOK
  <2> QED BY <1>1, <1>2, <2>1, <2>2, <2>4, DashOne
<1>4. ASSUME NEW p \in Product, Dashboard!HandleRestore(p)
      PROVE  Dashboard!IInv'
  <2> DEFINE c == Dashboard!Call("restore", p, ui.includeInactive)
  <2>1. calls' = calls \o << c >> /\ UNCHANGED << ui, db >>
    BY <1>4, DashOps DEF Dashboard!HandleRestore, Start
  <2>2. c \in DashCalls /\ Answers(c) /\ c.op = "restore"
    BY <1>1 DEF DashUi, DashCalls, Dashboard!ActiveCall, Dashboard!Call, Answers
  <2> HIDE DEF c
  <2> QED BY <1>1, <1>2, <2>1, <2>2, DashOne
<1> QED BY <1>3, <1>4

LEMMA DashLoadEnded ==
    ASSUME Dashboard!IInv, NEW i \in DOMAIN calls, Dashboard!LoadReturned(i) \/ Dashboard!LoadThrew(i)
    PROVE  Dashboard!IInv'
<1>1. /\ ui \in DashUi /\ db \in [Product -> Dashboard!Row] /\ calls \in Seq(DashCalls) /\ NoticeOK(ui)
      /\ ui.submitting <=> \E k \in DOMAIN calls : calls[k].op = "delete"
  BY DashHas DEF HasCall
<1>2. calls' = Ended(i, << >>) /\ UNCHANGED db /\ calls[i].op = "load"
  BY DashOps DEF Dashboard!LoadReturned, Dashboard!LoadThrew, Dashboard!Returned, Dashboard!Threw, Dashboard!Doing
<1>3. calls' \in Seq(DashCalls) /\ Becomes(calls', calls, {i}, << >>)
  <2>1. << >> \in Seq(DashCalls)
    OBVIOUS
  <2> QED BY <1>1, <1>2, <2>1, DashCallsCanBeOld, EndedBecomes
<1>4. Dashboard!LoadReturned(i) => calls[i].data \in Dashboard!Lists
  BY DashHas DEF Dashboard!LoadReturned, Dashboard!Returned, Dashboard!Doing, Answers
<1>5. /\ ui' \in DashUi /\ NoticeOK(ui') /\ ui'.target = ui.target /\ ui'.submitting = ui.submitting
      /\ ui'.status # "loading"
  <2>1. Dashboard!NoProducts \in Dashboard!Lists
    BY DEF Dashboard!Lists, Dashboard!NoProducts
  <2> DEFINE none == Dashboard!NoProducts
  <2> HIDE DEF none
  <2>2. CASE Dashboard!LoadReturned(i)
    <3>1. ui' = [ui EXCEPT !.products = calls[i].data, !.status = "ready"]
      BY <2>2 DEF Dashboard!LoadReturned
    <3> QED BY <1>1, <1>4, <2>2, <3>1 DEF DashUi, NoticeOK
  <2>3. CASE Dashboard!LoadThrew(i)
    <3>1. ui' = [ui EXCEPT !.status = "error", !.products = none]
      BY <2>3 DEF Dashboard!LoadThrew, none
    <3>2. none \in Dashboard!Lists
      BY <2>1 DEF none
    <3> QED BY <1>1, <3>1, <3>2 DEF DashUi, NoticeOK
  <2> QED BY <2>2, <2>3
<1>6. ui'.submitting <=> \E k \in DOMAIN calls \ {i} : calls[k].op = "delete"
  BY <1>1, <1>2, <1>5
<1> QED BY <1>1, <1>2, <1>3, <1>5, <1>6, DashNone

\* The handler that goes on loads the list again.
LEMMA DashLoadsAgain ==
    ASSUME Dashboard!IInv, NEW i \in DOMAIN calls,
           Dashboard!DeleteReturned(i) \/ Dashboard!RestoreReturned(i)
    PROVE  Dashboard!IInv'
<1> DEFINE c == Dashboard!Call("load", calls[i].then, None)
           none == Dashboard!NoProducts
<1>1. /\ ui \in DashUi /\ db \in [Product -> Dashboard!Row] /\ calls \in Seq(DashCalls) /\ NoticeOK(ui)
      /\ ui.submitting <=> \E k \in DOMAIN calls : calls[k].op = "delete"
      /\ OneOf(calls, "delete")
  BY DashHas DEF HasCall
<1>2. /\ calls' = Ended(i, << c >>) /\ UNCHANGED db
      /\ calls[i].op = IF Dashboard!DeleteReturned(i) THEN "delete" ELSE "restore"
  BY DashOps DEF Dashboard!DeleteReturned, Dashboard!RestoreReturned, Dashboard!Returned, Dashboard!Doing
<1>3. c \in DashCalls /\ Answers(c) /\ c.op = "load"
  <2>1. calls[i] \in Dashboard!ActiveCall
    BY <1>2, DashHas DEF DashCalls, Dashboard!LoadCall
  <2> QED BY <2>1 DEF DashCalls, Dashboard!LoadCall, Dashboard!ActiveCall, Dashboard!Call, Answers
<1> HIDE DEF c
<1>4. calls' \in Seq(DashCalls) /\ Becomes(calls', calls, {i}, << c >>)
  <2>1. << c >> \in Seq(DashCalls)
    BY <1>3
  <2> QED BY <1>1, <1>2, <2>1, DashCallsCanBeOld, EndedBecomes
<1>5. none \in Dashboard!Lists
  BY DEF Dashboard!Lists, Dashboard!NoProducts
<1>6. CASE Dashboard!DeleteReturned(i)
  <2>1. ui' = [ui EXCEPT !.target = None, !.submitting = FALSE, !.notice = None,
                         !.status = "loading", !.products = none]
    BY <1>6 DEF Dashboard!DeleteReturned
  <2> HIDE DEF none
  <2>2. ui' \in DashUi /\ NoticeOK(ui') /\ ui'.submitting = FALSE
    BY <1>1, <1>5, <2>1 DEF DashUi, NoticeOK
  <2>3. \A k \in DOMAIN calls \ {i} : calls[k].op # "delete"
    BY <1>1, <1>2, <1>6 DEF OneOf
  <2> QED BY <1>1, <1>2, <1>3, <1>4, <2>2, <2>3, DashOne
<1>7. CASE ~Dashboard!DeleteReturned(i)
  <2>1. ui' = [ui EXCEPT !.status = "loading", !.products = none]
    BY <1>7 DEF Dashboard!RestoreReturned
  <2> HIDE DEF none
  <2>2. ui' \in DashUi /\ NoticeOK(ui') /\ ui'.submitting = ui.submitting /\ ui'.target = ui.target
    BY <1>1, <1>5, <2>1 DEF DashUi, NoticeOK
  <2>3. ui'.submitting <=> \E k \in DOMAIN calls \ {i} : calls[k].op = "delete"
    BY <1>1, <1>2, <1>7, <2>2
  <2> QED BY <1>1, <1>2, <1>3, <1>4, <2>2, <2>3, DashOne
<1> QED BY <1>6, <1>7

LEMMA DashThrew ==
    ASSUME Dashboard!IInv, NEW i \in DOMAIN calls,
           Dashboard!DeleteThrew(i) \/ Dashboard!RestoreThrew(i)
    PROVE  Dashboard!IInv'
<1>1. /\ ui \in DashUi /\ db \in [Product -> Dashboard!Row] /\ calls \in Seq(DashCalls) /\ NoticeOK(ui)
      /\ ui.submitting <=> \E k \in DOMAIN calls : calls[k].op = "delete"
      /\ ui.status = "loading" => \E k \in DOMAIN calls : calls[k].op = "load"
      /\ OneOf(calls, "delete") /\ OfTarget(calls, "delete", ui.target)
  BY DashHas DEF HasCall
<1>2. ThrowUnheard(i) /\ UNCHANGED db
  BY DashOps DEF Dashboard!DeleteThrew, Dashboard!RestoreThrew
<1>3. calls' \in Seq(DashCalls) /\ Becomes(calls', calls, {i}, << >>)
  BY <1>1, <1>2, DashCallsCanBeOld, ThrewBecomes
<1>4. CASE Dashboard!DeleteThrew(i)
  <2> DEFINE told == [what |-> "error", of |-> calls[i].arg, late |-> calls[i].old]
             notice == IF ui.target = None THEN None ELSE told
  <2>1. calls[i].op = "delete" /\ ui' = [ui EXCEPT !.submitting = FALSE, !.notice = notice]
    BY <1>4 DEF Dashboard!DeleteThrew, Dashboard!Noticed, Dashboard!Threw, Dashboard!Doing
  <2>2. calls[i] \in Dashboard!ActiveCall
    BY <2>1, DashHas DEF DashCalls, Dashboard!LoadCall
  <2>3. told \in Dashboard!Notice
    BY <2>2 DEF Dashboard!ActiveCall, Dashboard!Notice
  <2>4. ui.target # None => told.of = ui.target \/ told.late
    BY <1>1, <2>1, NoticedOK
  <2> HIDE DEF told
  <2>5. notice \in {None} \cup Dashboard!Notice /\ (ui.target # None => notice = told)
    BY <2>3
  <2> HIDE DEF notice
  <2>6. ui' \in DashUi /\ ui'.target = ui.target /\ ui'.notice = notice /\ ui'.submitting = FALSE
        /\ ui'.status = ui.status
    BY <1>1, <2>1, <2>5 DEF DashUi
  <2>7. NoticeOK(ui')
    BY <2>4, <2>5, <2>6 DEF NoticeOK
  <2>8. \A k \in DOMAIN calls \ {i} : calls[k].op # "delete"
    BY <1>1, <2>1 DEF OneOf
  <2>9. ui'.status = "loading" => \E k \in DOMAIN calls \ {i} : calls[k].op = "load"
    BY <1>1, <2>1, <2>6
  <2> QED BY <1>1, <1>2, <1>3, <2>6, <2>7, <2>8, <2>9, DashNone
<1>5. CASE Dashboard!RestoreThrew(i)
  <2>1. calls[i].op = "restore" /\ ui' = ui
    BY <1>5 DEF Dashboard!RestoreThrew, Dashboard!Threw, Dashboard!Doing
  <2>2. ui'.status = "loading" => \E k \in DOMAIN calls \ {i} : calls[k].op = "load"
    BY <1>1, <2>1
  <2>3. ui'.submitting <=> \E k \in DOMAIN calls \ {i} : calls[k].op = "delete"
    BY <1>1, <2>1
  <2> QED BY <1>1, <1>2, <1>3, <2>1, <2>2, <2>3, DashNone
<1> QED BY <1>4, <1>5

LEMMA DashServe ==
    ASSUME Dashboard!IInv, NEW i \in DOMAIN calls, NEW c \in DashCalls, calls' = [calls EXCEPT ![i] = c],
           Answers(c), Alike([c EXCEPT !.state = calls[i].state, !.data = calls[i].data], calls[i]),
           c.old = calls[i].old, UNCHANGED ui, db' \in [Product -> Dashboard!Row]
    PROVE  Dashboard!IInv'
<1> DEFINE more == << c >>
<1>1. /\ ui \in DashUi /\ calls \in Seq(DashCalls) /\ NoticeOK(ui) /\ OneOf(calls, "delete")
      /\ ui.submitting <=> \E k \in DOMAIN calls : calls[k].op = "delete"
      /\ ui.status = "loading" => \E k \in DOMAIN calls : calls[k].op = "load"
      /\ OfTarget(calls, "delete", ui.target)
  BY DashHas DEF HasCall
<1>2. calls' \in Seq(DashCalls) /\ Becomes(calls', calls, {i}, more)
  BY <1>1, DashCallsCanBeOld, AnsweredBecomes
<1>3. /\ more \in Seq(DashCalls) /\ DOMAIN more = {1} /\ more[1] = c
      /\ \A op : HasCall(more, op) <=> c.op = op
  BY OneMore
<1>4. c.op = calls[i].op /\ c.arg = calls[i].arg
  <2>1. DOMAIN c = {"op", "arg", "then", "state", "data", "old"}
    BY DashCallsCanBeOld DEF CanBeOld
  <2> QED BY <2>1 DEF Alike
<1> HIDE DEF more
<1>5. \A op : (\E k \in DOMAIN calls : calls[k].op = op) <=>
                HasCall(more, op) \/ \E k \in DOMAIN calls \ {i} : calls[k].op = op
  BY <1>3, <1>4
<1>6. \/ ~HasCall(more, "delete")
      \/ DOMAIN more = {1} /\ \A k \in DOMAIN calls \ {i} : calls[k].op # "delete"
  BY <1>1, <1>3, <1>4 DEF OneOf
<1>7. OfTarget(more, "delete", ui.target) /\ \A k \in DOMAIN more : Answers(more[k])
  BY <1>1, <1>3, <1>4 DEF OfTarget
<1> QED BY <1>1, <1>2, <1>3, <1>5, <1>6, <1>7, DashGoes

LEMMA DashServed ==
    ASSUME Dashboard!IInv, NEW i \in DOMAIN calls,
           \/ Dashboard!ServeList(i) \/ Dashboard!ServeActive(i, "delete")
           \/ Dashboard!ServeActive(i, "restore") \/ Dashboard!RefuseRestore(i)
    PROVE  Dashboard!IInv'
<1>1. calls[i] \in DashCalls /\ db \in [Product -> Dashboard!Row]
  BY DashHas
<1>2. CASE Dashboard!ServeList(i)
  <2> DEFINE list == Dashboard!Listed(calls[i].arg)
             c == [[calls[i] EXCEPT !.state = "ok"] EXCEPT !.data = list]
  <2>1. calls[i] \in Dashboard!LoadCall
    BY <1>1, <1>2 DEF Dashboard!ServeList, Dashboard!Asked, Dashboard!Doing, DashCalls, Dashboard!ActiveCall
  <2>2. calls' = [calls EXCEPT ![i] = c] /\ UNCHANGED << ui, db >>
    BY <1>2 DEF Dashboard!ServeList, Dashboard!Reply
  <2>3. list \in Dashboard!Lists
    <3> DEFINE D == {x \in Product : calls[i].arg \/ db[x].active}
    <3>1. D \in SUBSET Product /\ list = [p \in D |-> db[p]]
      BY DEF Dashboard!Listed
    <3> HIDE DEF D, list
    <3>2. list \in [D -> Dashboard!Row]
      BY <1>1, <3>1
    <3> QED BY <3>1, <3>2 DEF Dashboard!Lists
  <2> HIDE DEF list
  <2>4. c \in DashCalls /\ Answers(c) /\ c.old = calls[i].old
        /\ Alike([c EXCEPT !.state = calls[i].state, !.data = calls[i].data], calls[i])
    BY <2>1, <2>3 DEF DashCalls, Dashboard!LoadCall, Answers, Alike
  <2> HIDE DEF c
  <2> QED BY <1>1, <2>2, <2>4, DashServe
<1>3. ASSUME NEW op \in {"delete", "restore"}, Dashboard!ServeActive(i, op)
      PROVE  Dashboard!IInv'
  <2> DEFINE c == [[calls[i] EXCEPT !.state = "ok"] EXCEPT !.data = None]
             row == [db[calls[i].arg] EXCEPT !.active = (op = "restore")]
  <2>1. calls[i] \in Dashboard!ActiveCall
    BY <1>1, <1>3 DEF Dashboard!ServeActive, Dashboard!Asked, Dashboard!Doing, DashCalls, Dashboard!LoadCall
  <2>2. calls' = [calls EXCEPT ![i] = c] /\ UNCHANGED ui /\ db' = [db EXCEPT ![calls[i].arg] = row]
    BY <1>3 DEF Dashboard!ServeActive, Dashboard!Reply
  <2>3. row \in Dashboard!Row
    <3>1. db[calls[i].arg] \in Dashboard!Row
      BY <1>1, <2>1 DEF Dashboard!ActiveCall
    <3> QED BY <3>1 DEF Dashboard!Row
  <2> HIDE DEF row
  <2>4. db' \in [Product -> Dashboard!Row]
    BY <1>1, <2>2, <2>3
  <2>5. c \in DashCalls /\ Answers(c) /\ c.old = calls[i].old
        /\ Alike([c EXCEPT !.state = calls[i].state, !.data = calls[i].data], calls[i])
    BY <2>1 DEF DashCalls, Dashboard!ActiveCall, Answers, Alike
  <2> HIDE DEF c
  <2> QED BY <1>1, <2>2, <2>4, <2>5, DashServe
<1>4. CASE Dashboard!RefuseRestore(i)
  <2> DEFINE c == [calls[i] EXCEPT !.state = "error"]
  <2>1. calls[i] \in Dashboard!ActiveCall
    BY <1>1, <1>4 DEF Dashboard!RefuseRestore, Dashboard!Asked, Dashboard!Doing, DashCalls, Dashboard!LoadCall
  <2>2. calls' = [calls EXCEPT ![i] = c] /\ UNCHANGED << ui, db >>
    BY <1>4 DEF Dashboard!RefuseRestore, Dashboard!Refusal
  <2>3. c \in DashCalls /\ Answers(c) /\ c.old = calls[i].old
        /\ Alike([c EXCEPT !.state = calls[i].state, !.data = calls[i].data], calls[i])
    BY <2>1 DEF DashCalls, Dashboard!ActiveCall, Answers, Alike
  <2> HIDE DEF c
  <2> QED BY <1>1, <2>2, <2>3, DashServe
<1> QED BY <1>2, <1>3, <1>4

LEMMA DashOtherAdmin ==
    ASSUME Dashboard!IInv, NEW p \in Product, Dashboard!OtherAdmin(p)
    PROVE  Dashboard!IInv'
<1> DEFINE row == [db[p] EXCEPT !.active = ~@]
<1>1. /\ ui \in DashUi /\ calls \in Seq(DashCalls) /\ NoticeOK(ui) /\ db \in [Product -> Dashboard!Row]
      /\ ui.status = "loading" => \E k \in DOMAIN calls \ {} : calls[k].op = "load"
      /\ ui.submitting <=> \E k \in DOMAIN calls \ {} : calls[k].op = "delete"
  BY DashHas DEF HasCall
<1>2. calls' = Outdated(calls, Answered) /\ UNCHANGED ui /\ db' = [db EXCEPT ![p] = row]
  BY DashOps DEF Dashboard!OtherAdmin, Dashboard!RowsChangeBehind
<1>3. row \in Dashboard!Row
  BY <1>1 DEF Dashboard!Row
<1> HIDE DEF row
<1>4. db' \in [Product -> Dashboard!Row]
  BY <1>1, <1>2, <1>3
<1>5. calls' \in Seq(DashCalls) /\ Becomes(calls', calls, {}, << >>)
  BY <1>1, <1>2, DashCallsCanBeOld, OutdatedIs, Overtaken, AllGoOn
<1> QED BY <1>1, <1>2, <1>4, <1>5, DashNone

LEMMA DashInit ==
    ASSUME Dashboard!Init
    PROVE  Dashboard!IInv
<1> DEFINE c == Dashboard!Call("load", FALSE, None)
           none == Dashboard!NoProducts
<1>1. c \in DashCalls /\ Answers(c) /\ c.op = "load"
  BY DEF DashCalls, Dashboard!LoadCall, Dashboard!Call, Answers
<1>2. /\ calls = << c >> /\ db \in [Product -> Dashboard!Row]
      /\ ui = [status |-> "loading", products |-> none, includeInactive |-> FALSE,
               target |-> None, submitting |-> FALSE, notice |-> None]
  BY DEF Dashboard!Init
<1>3. none \in Dashboard!Lists
  BY DEF Dashboard!Lists, Dashboard!NoProducts
<1> HIDE DEF c, none
<1>4. calls \in Seq(DashCalls) /\ DOMAIN calls = {1} /\ calls[1] = c
  BY <1>1, <1>2
<1>5. ui \in DashUi
  BY <1>2, <1>3 DEF DashUi
<1>6. Dashboard!TypeOK
  BY <1>1, <1>2, <1>4, <1>5 DEF Dashboard!TypeOK, DashUi, Dashboard!Doing
<1> QED BY <1>1, <1>2, <1>4, <1>5, <1>6
        DEF Dashboard!IInv, DashUi, DashCalls, Dashboard!CallOK, Answers, Dashboard!NoticeIsOfTarget

LEMMA DashNext ==
    ASSUME Dashboard!IInv, Dashboard!Next
    PROVE  Dashboard!IInv'
<1>1. CASE Dashboard!SetIncludeInactive \/ Dashboard!HandleConfirm \/ Dashboard!CloseDialog("delete")
  BY <1>1, DashClicked, DashConfirm, DashDialog
<1>2. CASE \E p \in Product : Dashboard!Eliminar(p) \/ Dashboard!HandleRestore(p) \/ Dashboard!OtherAdmin(p)
  BY <1>2, DashDialog, DashClicked, DashOtherAdmin
<1>3. CASE \E i \in DOMAIN calls :
             \/ Dashboard!LoadReturned(i) \/ Dashboard!LoadThrew(i)
             \/ Dashboard!DeleteReturned(i) \/ Dashboard!DeleteThrew(i)
             \/ Dashboard!RestoreReturned(i) \/ Dashboard!RestoreThrew(i)
  BY <1>3, DashLoadEnded, DashLoadsAgain, DashThrew
<1>4. CASE \E i \in DOMAIN calls :
             \/ Dashboard!ServeList(i) \/ Dashboard!ServeActive(i, "delete")
             \/ Dashboard!ServeActive(i, "restore") \/ Dashboard!RefuseRestore(i)
  BY <1>4, DashServed
<1> QED BY <1>1, <1>2, <1>3, <1>4 DEF Dashboard!Next

-----------------------------------------------------------------------------
(* The page of the sales: its dialog.                                      *)

CallFields == {"op", "arg", "then", "state", "data", "old"}
SalesFields == {"status", "range", "page", "shown", "target", "submitting", "notice", "detail", "strayed"}

\* Whatever the calls of the page are, as many as they are.
Carries(S) == CanBeOld(S) /\ \A c \in S : DOMAIN c = CallFields /\ c.old \in BOOLEAN

LEMMA SalesOps ==
    /\ \A i, more : SalesDashboard!Ended(i, more) = Ended(i, more)
    /\ \A s, J : SalesDashboard!Outdated(s, J) = Outdated(s, J)
    /\ \A more : SalesDashboard!Start(more) <=> Start(more)
    /\ \A i : SalesDashboard!ThrowUnheard(i) <=> ThrowUnheard(i)
    /\ \A op : SalesDashboard!Doing(op) = Doing(op)
    /\ SalesDashboard!Answered = Answered
<1>1. \A s, i : SalesDashboard!RemoveAt(s, i) = RemoveAt(s, i)
  BY DEF SalesDashboard!RemoveAt, RemoveAt
<1>2. \A s, J : SalesDashboard!Outdated(s, J) = Outdated(s, J)
  BY DEF SalesDashboard!Outdated, Outdated
<1>3. \A op : SalesDashboard!Doing(op) = Doing(op)
  BY DEF SalesDashboard!Doing, Doing
<1>4. SalesDashboard!Answered = Answered
  BY DEF SalesDashboard!Answered, Answered
<1>5. \A i : SalesDashboard!WasServed(i) <=> WasServed(i)
  BY DEF SalesDashboard!WasServed, WasServed
<1>6. \A i, more : SalesDashboard!Ended(i, more) = Ended(i, more)
  BY <1>1, <1>2, <1>3, <1>4 DEF SalesDashboard!Ended, Ended
<1>7. \A more : SalesDashboard!Start(more) <=> Start(more)
  BY DEF SalesDashboard!Start, Start
<1>8. \A i : SalesDashboard!ThrowUnheard(i) <=> ThrowUnheard(i)
  BY <1>1, <1>2, <1>4, <1>5 DEF SalesDashboard!ThrowUnheard, ThrowUnheard
<1> QED BY <1>2, <1>3, <1>4, <1>6, <1>7, <1>8

LEMMA SalesHas ==
    ASSUME SalesDashboard!DialogOK
    PROVE  /\ DOMAIN ui = SalesFields /\ ui.submitting \in BOOLEAN /\ NoticeOK(ui)
           /\ (ui.submitting <=> HasCall(calls, "void")) /\ OneOf(calls, "void")
           /\ OfTarget(calls, "void", ui.target)
           /\ \A k \in DOMAIN calls : DOMAIN calls[k] = CallFields /\ calls[k].old \in BOOLEAN
<1>1. DOMAIN ui = SalesFields /\ ui.submitting \in BOOLEAN
  BY DEF SalesDashboard!DialogOK, SalesFields
<1>2. (ui.submitting <=> HasCall(calls, "void")) /\ OneOf(calls, "void")
  BY DEF SalesDashboard!DialogOK, SalesDashboard!Doing, HasCall, OneOf
<1>3. OfTarget(calls, "void", ui.target)
  BY DEF SalesDashboard!DialogOK, SalesDashboard!SalesCall, OfTarget
<1>4. \A k \in DOMAIN calls : DOMAIN calls[k] = CallFields /\ calls[k].old \in BOOLEAN
  BY DEF SalesDashboard!DialogOK, SalesDashboard!SalesCall, CallFields
<1>5. NoticeOK(ui)
  BY DEF SalesDashboard!DialogOK, SalesDashboard!NoticeIsOfTarget, NoticeOK
<1> QED BY <1>1, <1>2, <1>3, <1>4, <1>5

LEMMA SalesCarrier ==
    ASSUME SalesDashboard!DialogOK, NEW c, DOMAIN c = CallFields, c.old \in BOOLEAN
    PROVE  \E S : Carries(S) /\ calls \in Seq(S) /\ c \in S
<1> DEFINE D == {calls[k] : k \in DOMAIN calls}
           B == D \cup {c}
           S == B \cup {[d EXCEPT !.old = TRUE] : d \in B}
<1>1. calls \in Seq(D)
  BY DEF SalesDashboard!DialogOK
<1>2. \A d \in B : DOMAIN d = CallFields /\ d.old \in BOOLEAN
  BY SalesHas
<1>3. calls \in Seq(S)
  <2>1. D \subseteq S
    OBVIOUS
  <2> HIDE DEF D, S
  <2> QED BY <1>1, <2>1, SeqMonotonic
<1> HIDE DEF B
<1>4. \A d \in B : LET e == [d EXCEPT !.old = TRUE] IN
                     DOMAIN e = CallFields /\ e.old = TRUE /\ [e EXCEPT !.old = TRUE] = e
  BY <1>2 DEF CallFields
<1>5. \A d \in S : DOMAIN d = CallFields /\ d.old \in BOOLEAN
  BY <1>2, <1>4
<1>6. \A d \in S : [d EXCEPT !.old = TRUE] \in S
  BY <1>4
<1>7. c \in S
  BY DEF B
<1> HIDE DEF S
<1>8. Carries(S)
  BY <1>5, <1>6 DEF Carries, CanBeOld, CallFields
<1> QED BY <1>3, <1>7, <1>8

LEMMA SalesGoes ==
    ASSUME SalesDashboard!DialogOK, NEW S, Carries(S), calls \in Seq(S),
           NEW R, NEW more \in Seq(S), calls' \in Seq(S), Becomes(calls', calls, R, more),
           DOMAIN ui' = SalesFields, ui'.submitting \in BOOLEAN, NoticeOK(ui'),
           ui'.submitting <=> HasCall(more, "void") \/ \E k \in DOMAIN calls \ R : calls[k].op = "void",
           \/ ~HasCall(more, "void")
           \/ DOMAIN more = {1} /\ \A k \in DOMAIN calls \ R : calls[k].op # "void",
           OfTarget(more, "void", ui'.target),
           \/ ui'.target = ui.target
           \/ \A k \in DOMAIN calls \ R : calls[k].op = "void" => calls[k].old
           \/ OfTarget(calls', "void", ui'.target)
    PROVE  SalesDashboard!DialogOK'
<1>1. OneOf(calls, "void") /\ OfTarget(calls, "void", ui.target) /\ CanBeOld(S)
  BY SalesHas DEF Carries
<1>2. OneOf(calls', "void")
  BY <1>1, StaysOne
<1>3. OfTarget(calls', "void", ui'.target)
  BY <1>1, StayOfTarget
<1>4. HasCall(calls', "void") <=> HasCall(more, "void") \/ \E k \in DOMAIN calls \ R : calls[k].op = "void"
  BY <1>1, HasAfter
<1>5. /\ DOMAIN calls' = 1 .. Len(calls') /\ Len(calls') \in Nat
      /\ \A j \in DOMAIN calls' : DOMAIN calls'[j] = CallFields /\ calls'[j].old \in BOOLEAN
  BY ElementOfSeq, LenProperties DEF Carries
<1>6. calls' \in Seq({calls'[j] : j \in DOMAIN calls'})
  <2> DEFINE T == {calls'[j] : j \in DOMAIN calls'}
  <2>1. \A j \in 1 .. Len(calls') : calls'[j] \in T
    BY <1>5
  <2> HIDE DEF T
  <2>2. [j \in 1 .. Len(calls') |-> calls'[j]] \in Seq(T)
    BY <1>5, <2>1, IsASeq
  <2>3. calls' = [j \in 1 .. Len(calls') |-> calls'[j]]
    BY <1>5
  <2>4. calls' \in Seq(T)
    BY <2>2, <2>3
  <2> QED BY <2>4 DEF T
<1>7. (ui.submitting = (SalesDashboard!Doing("void") # {}) /\ \A i, j \in SalesDashboard!Doing("void") : i = j)'
  BY <1>2, <1>4 DEF OneOf, HasCall, SalesDashboard!Doing
<1>8. (\A i \in DOMAIN calls : SalesDashboard!SalesCall(calls[i]))'
  BY <1>3, <1>5 DEF SalesDashboard!SalesCall, OfTarget, CallFields
<1>9. SalesDashboard!NoticeIsOfTarget'
  BY DEF SalesDashboard!NoticeIsOfTarget, NoticeOK
<1>10. (DOMAIN ui = {"status", "range", "page", "shown", "target", "submitting", "notice", "detail", "strayed"})'
  BY DEF SalesFields
<1> QED BY <1>6, <1>7, <1>8, <1>9, <1>10 DEF SalesDashboard!DialogOK

\* A call ends, goes on or is made, and none to void is.
LEMMA SalesOne ==
    ASSUME SalesDashboard!DialogOK, NEW S, Carries(S), calls \in Seq(S),
           NEW R, NEW c \in S, calls' \in Seq(S), Becomes(calls', calls, R, << c >>), c.op # "void",
           DOMAIN ui' = SalesFields, ui'.submitting \in BOOLEAN, NoticeOK(ui'),
           ui'.submitting <=> \E k \in DOMAIN calls \ R : calls[k].op = "void",
           \/ ui'.target = ui.target
           \/ \A k \in DOMAIN calls \ R : calls[k].op = "void" => calls[k].old
    PROVE  SalesDashboard!DialogOK'
<1> DEFINE more == << c >>
<1>1. more \in Seq(S) /\ DOMAIN more = {1} /\ more[1] = c /\ ~HasCall(more, "void")
  BY OneMore
<1>2. Becomes(calls', calls, R, more)
  OBVIOUS
<1> HIDE DEF more
<1>3. OfTarget(more, "void", ui'.target)
  BY <1>1 DEF OfTarget
<1> QED BY <1>1, <1>2, <1>3, SalesGoes

LEMMA SalesNone ==
    ASSUME SalesDashboard!DialogOK, NEW S, Carries(S), calls \in Seq(S),
           NEW R, calls' \in Seq(S), Becomes(calls', calls, R, << >>),
           DOMAIN ui' = SalesFields, ui'.submitting \in BOOLEAN, NoticeOK(ui'),
           ui'.submitting <=> \E k \in DOMAIN calls \ R : calls[k].op = "void",
           \/ ui'.target = ui.target
           \/ \A k \in DOMAIN calls \ R : calls[k].op = "void" => calls[k].old
           \/ OfTarget(calls', "void", ui'.target)
    PROVE  SalesDashboard!DialogOK'
<1> DEFINE more == << >>
<1>1. more \in Seq(S) /\ DOMAIN more = {} /\ ~HasCall(more, "void") /\ OfTarget(more, "void", ui'.target)
  BY NoMore
<1>2. Becomes(calls', calls, R, more)
  OBVIOUS
<1> HIDE DEF more
<1> QED BY <1>1, <1>2, SalesGoes

\* What the page asks for: another page or range, a ticket, or to void the sale of the dialog.
LEMMA SalesAsked ==
    ASSUME SalesDashboard!DialogOK,
           \/ SalesDashboard!Anterior \/ SalesDashboard!Siguiente
           \/ \E r \in SalesDashboard!Ranges : SalesDashboard!HandleRangeChange(r)
           \/ \E row \in SalesDashboard!Rows : SalesDashboard!HandleViewDetail(row)
           \/ SalesDashboard!HandleSubmit
    PROVE  SalesDashboard!DialogOK'
<1>1. /\ DOMAIN ui = SalesFields /\ ui.submitting \in BOOLEAN /\ NoticeOK(ui)
      /\ ui.submitting <=> \E k \in DOMAIN calls \ {} : calls[k].op = "void"
  BY SalesHas DEF HasCall
<1>2. \A op, arg, then : LET c == SalesDashboard!Call(op, arg, then) IN
                           DOMAIN c = CallFields /\ c.old \in BOOLEAN /\ c.op = op /\ c.arg = arg
  BY DEF SalesDashboard!Call, CallFields
<1>3. ASSUME NEW c, DOMAIN c = CallFields, c.old \in BOOLEAN, c.op # "void", calls' = calls \o << c >>,
             DOMAIN ui' = SalesFields, ui'.submitting = ui.submitting, ui'.target = ui.target, NoticeOK(ui')
      PROVE  SalesDashboard!DialogOK'
  <2>1. PICK S : Carries(S) /\ calls \in Seq(S) /\ c \in S
    BY <1>3, SalesCarrier
  <2>2. calls' \in Seq(S) /\ Becomes(calls', calls, {}, << c >>)
    BY <1>3, <2>1, OneMore, Started
  <2> QED BY <1>1, <1>3, <2>1, <2>2, SalesOne
<1>4. ASSUME NEW range, NEW pg, NEW strayed, SalesDashboard!Show(range, pg, strayed)
      PROVE  SalesDashboard!DialogOK'
  <2> DEFINE shown == [range |-> range, page |-> pg]
             c == SalesDashboard!Call("load", shown, None)
  <2>1. /\ calls' = calls \o << c >>
        /\ ui' = [ui EXCEPT !.range = range, !.page = pg, !.strayed = strayed,
                            !.status = "loading", !.shown = None]
    BY <1>4, SalesOps DEF SalesDashboard!Show, Start
  <2>2. DOMAIN c = CallFields /\ c.old \in BOOLEAN /\ c.op # "void"
    BY <1>2
  <2> HIDE DEF c
  <2>3. /\ DOMAIN ui' = SalesFields /\ ui'.submitting = ui.submitting /\ ui'.target = ui.target
        /\ NoticeOK(ui')
    BY <1>1, <2>1 DEF SalesFields, NoticeOK
  <2> QED BY <1>3, <2>1, <2>2, <2>3
<1>5. CASE \/ SalesDashboard!Anterior \/ SalesDashboard!Siguiente
           \/ \E r \in SalesDashboard!Ranges : SalesDashboard!HandleRangeChange(r)
  BY <1>4, <1>5 DEF SalesDashboard!Anterior, SalesDashboard!Siguiente, SalesDashboard!HandleRangeChange
<1>6. ASSUME NEW row, SalesDashboard!HandleViewDetail(row)
      PROVE  SalesDashboard!DialogOK'
  <2> DEFINE c == SalesDashboard!Call("detail", row.id, None)
  <2>1. calls' = calls \o << c >> /\ ui' = ui
    BY <1>6, SalesOps DEF SalesDashboard!HandleViewDetail, Start
  <2>2. DOMAIN c = CallFields /\ c.old \in BOOLEAN /\ c.op # "void"
    BY <1>2
  <2> HIDE DEF c
  <2> QED BY <1>1, <1>3, <2>1, <2>2
<1>7. CASE SalesDashboard!HandleSubmit
  <2> DEFINE c == SalesDashboard!Call("void", ui.target, SalesDashboard!View)
             more == << c >>
  <2>1. /\ ~ui.submitting /\ ui.target # None /\ calls' = calls \o more
        /\ ui' = [ui EXCEPT !.submitting = TRUE, !.notice = None]
    BY <1>7, SalesOps DEF SalesDashboard!HandleSubmit, SalesDashboard!Submit, Start
  <2>2. DOMAIN c = CallFields /\ c.old \in BOOLEAN /\ c.op = "void" /\ c.arg = ui.target
    BY <1>2
  <2> HIDE DEF c
  <2>3. PICK S : Carries(S) /\ calls \in Seq(S) /\ c \in S
    BY <2>2, SalesCarrier
  <2>4. /\ more \in Seq(S) /\ DOMAIN more = {1} /\ more[1] = c /\ HasCall(more, "void")
    BY <2>2, <2>3, OneMore
  <2> HIDE DEF more
  <2>5. calls' \in Seq(S) /\ Becomes(calls', calls, {}, more)
    BY <2>1, <2>3, <2>4, Started
  <2>6. DOMAIN ui' = SalesFields /\ ui'.submitting = TRUE /\ ui'.target = ui.target /\ NoticeOK(ui')
    BY <1>1, <2>1 DEF SalesFields, NoticeOK
  <2>7. \A k \in DOMAIN calls \ {} : calls[k].op # "void"
    BY <1>1, <2>1
  <2>8. OfTarget(more, "void", ui'.target)
    BY <2>1, <2>2, <2>4, <2>6 DEF OfTarget
  <2> QED BY <2>3, <2>4, <2>5, <2>6, <2>7, <2>8, SalesGoes
<1> QED BY <1>5, <1>6, <1>7

\* The dialogs open and close, and the rows change elsewhere.
LEMMA SalesDialogs ==
    ASSUME SalesDashboard!DialogOK,
           \/ SalesDashboard!Volver \/ SalesDashboard!CloseDetail \/ SalesDashboard!ElsewhereChanged
           \/ \E row \in SalesDashboard!Rows : SalesDashboard!Anular(row)
    PROVE  SalesDashboard!DialogOK'
<1>1. /\ DOMAIN ui = SalesFields /\ ui.submitting \in BOOLEAN /\ NoticeOK(ui)
      /\ ui.submitting <=> \E k \in DOMAIN calls \ {} : calls[k].op = "void"
  BY SalesHas DEF HasCall
<1>2. PICK S : Carries(S) /\ CanBeOld(S) /\ calls \in Seq(S)
  <2> DEFINE c == SalesDashboard!Call("load", None, None)
  <2>1. DOMAIN c = CallFields /\ c.old \in BOOLEAN
    BY DEF SalesDashboard!Call, CallFields
  <2> HIDE DEF c
  <2> QED BY <2>1, SalesCarrier DEF Carries
<1>3. ASSUME NEW t, ui' = [ui EXCEPT !.target = t, !.notice = None]
      PROVE  DOMAIN ui' = SalesFields /\ ui'.submitting = ui.submitting /\ ui'.target = t /\ NoticeOK(ui')
  BY <1>1, <1>3 DEF SalesFields, NoticeOK
<1>4. Becomes(calls, calls, {}, << >>)
  BY <1>2, NothingEnds
<1>5. CASE SalesDashboard!Volver
  <2>1. /\ ui' = [ui EXCEPT !.target = None, !.notice = None] /\ calls' = Outdated(calls, Doing("void"))
    BY <1>5, SalesOps DEF SalesDashboard!Volver, SalesDashboard!CloseDialog
  <2>2. calls' \in Seq(S) /\ Becomes(calls', calls, {}, << >>) /\ OfTarget(calls', "void", None)
    BY <1>2, <2>1, ClosedOfNone
  <2> QED BY <1>1, <1>2, <1>3, <2>1, <2>2, SalesNone
<1>6. CASE SalesDashboard!CloseDetail
  <2>1. ui' = [ui EXCEPT !.detail = None] /\ calls' = calls
    BY <1>6 DEF SalesDashboard!CloseDetail
  <2>2. DOMAIN ui' = SalesFields /\ ui'.submitting = ui.submitting /\ ui'.target = ui.target /\ NoticeOK(ui')
    BY <1>1, <2>1 DEF SalesFields, NoticeOK
  <2> QED BY <1>1, <1>2, <1>4, <2>1, <2>2, SalesNone
<1>7. CASE SalesDashboard!ElsewhereChanged
  <2>1. ui' = ui /\ calls' = Outdated(calls, Answered)
    BY <1>7, SalesOps DEF SalesDashboard!ElsewhereChanged, SalesDashboard!RowsChangeBehind
  <2>2. calls' \in Seq(S) /\ Becomes(calls', calls, {}, << >>)
    BY <1>2, <2>1, OutdatedIs, Overtaken, AllGoOn
  <2> QED BY <1>1, <1>2, <2>1, <2>2, SalesNone
<1>8. ASSUME NEW row \in SalesDashboard!Rows, SalesDashboard!Anular(row)
      PROVE  SalesDashboard!DialogOK'
  <2>1. /\ ui.target = None /\ ui' = [ui EXCEPT !.target = row.id, !.notice = None] /\ calls' = calls
    BY <1>8 DEF SalesDashboard!Anular, SalesDashboard!Rows, SalesDashboard!Opened
  <2>2. \A k \in DOMAIN calls \ {} : calls[k].op = "void" => calls[k].old
    BY <2>1, SalesHas DEF OfTarget
  <2> QED BY <1>1, <1>2, <1>3, <1>4, <2>1, <2>2, SalesNone
<1> QED BY <1>5, <1>6, <1>7, <1>8

LEMMA SalesEnded ==
    ASSUME SalesDashboard!DialogOK, NEW i \in DOMAIN calls,
           \/ SalesDashboard!LoadReturned(i) \/ SalesDashboard!LoadThrew(i) \/ SalesDashboard!DetailEnded(i)
    PROVE  SalesDashboard!DialogOK'
<1>1. /\ DOMAIN ui = SalesFields /\ ui.submitting \in BOOLEAN /\ NoticeOK(ui)
      /\ ui.submitting <=> \E k \in DOMAIN calls : calls[k].op = "void"
  BY SalesHas DEF HasCall
<1>2. calls' = Ended(i, << >>) /\ calls[i].op # "void"
  BY SalesOps DEF SalesDashboard!LoadReturned, SalesDashboard!LoadThrew, SalesDashboard!DetailEnded,
                  SalesDashboard!Returned, SalesDashboard!Threw, SalesDashboard!Doing
<1>3. PICK S : Carries(S) /\ CanBeOld(S) /\ calls \in Seq(S)
  BY SalesHas, SalesCarrier DEF Carries
<1>4. calls' \in Seq(S) /\ Becomes(calls', calls, {i}, << >>)
  <2>1. << >> \in Seq(S)
    OBVIOUS
  <2> QED BY <1>2, <1>3, <2>1, EndedBecomes
<1>5. DOMAIN ui' = SalesFields /\ ui'.submitting = ui.submitting /\ ui'.target = ui.target /\ NoticeOK(ui')
  <2>1. \/ ui' = [ui EXCEPT !.status = "ready", !.shown = calls[i].data]
        \/ ui' = [ui EXCEPT !.status = "error", !.shown = None]
        \/ ui' = [ui EXCEPT !.detail = calls[i].arg]
    BY DEF SalesDashboard!LoadReturned, SalesDashboard!LoadThrew, SalesDashboard!DetailEnded
  <2> QED BY <1>1, <2>1 DEF SalesFields, NoticeOK
<1>6. ui'.submitting <=> \E k \in DOMAIN calls \ {i} : calls[k].op = "void"
  BY <1>1, <1>2, <1>5
<1> QED BY <1>1, <1>3, <1>4, <1>5, <1>6, SalesNone

LEMMA SalesVoided ==
    ASSUME SalesDashboard!DialogOK, NEW i \in DOMAIN calls,
           SalesDashboard!VoidReturned(i) \/ SalesDashboard!VoidThrew(i)
    PROVE  SalesDashboard!DialogOK'
<1>1. /\ DOMAIN ui = SalesFields /\ NoticeOK(ui) /\ OneOf(calls, "void") /\ OfTarget(calls, "void", ui.target)
      /\ calls[i].op = "void"
  BY SalesHas DEF SalesDashboard!VoidReturned, SalesDashboard!VoidThrew,
                  SalesDashboard!Returned, SalesDashboard!Threw, SalesDashboard!Doing
<1>2. \A k \in DOMAIN calls \ {i} : calls[k].op # "void"
  BY <1>1 DEF OneOf
<1>3. CASE SalesDashboard!VoidReturned(i)
  <2> DEFINE c == SalesDashboard!Call("load", calls[i].then, None)
  <2>1. /\ calls' = Ended(i, << c >>)
        /\ ui' = [ui EXCEPT !.target = None, !.submitting = FALSE, !.notice = None,
                            !.status = "loading", !.shown = None]
    BY <1>3, SalesOps DEF SalesDashboard!VoidReturned
  <2>2. DOMAIN c = CallFields /\ c.old \in BOOLEAN /\ c.op # "void"
    BY DEF SalesDashboard!Call, CallFields
  <2> HIDE DEF c
  <2>3. PICK S : Carries(S) /\ CanBeOld(S) /\ calls \in Seq(S) /\ c \in S
    BY <2>2, SalesCarrier DEF Carries
  <2>4. calls' \in Seq(S) /\ Becomes(calls', calls, {i}, << c >>)
    BY <2>1, <2>3, OneMore, EndedBecomes
  <2>5. DOMAIN ui' = SalesFields /\ ui'.submitting = FALSE /\ NoticeOK(ui')
    BY <1>1, <2>1 DEF SalesFields, NoticeOK
  <2> QED BY <1>2, <2>2, <2>3, <2>4, <2>5, SalesOne
<1>4. CASE SalesDashboard!VoidThrew(i)
  <2> DEFINE told == [what |-> "error", of |-> calls[i].arg, late |-> calls[i].old]
             notice == IF ui.target = None THEN None ELSE told
  <2>1. ThrowUnheard(i) /\ ui' = [ui EXCEPT !.submitting = FALSE, !.notice = notice]
    BY <1>4, SalesOps DEF SalesDashboard!VoidThrew, SalesDashboard!Noticed
  <2>2. ui.target # None => told.of = ui.target \/ told.late
    BY <1>1, NoticedOK
  <2> HIDE DEF told
  <2>3. ui.target # None => notice = told
    OBVIOUS
  <2> HIDE DEF notice
  <2>4. /\ DOMAIN ui' = SalesFields /\ ui'.submitting = FALSE /\ ui'.target = ui.target
        /\ ui'.notice = notice
    BY <1>1, <2>1 DEF SalesFields
  <2>5. NoticeOK(ui')
    BY <2>2, <2>3, <2>4 DEF NoticeOK
  <2>6. PICK S : Carries(S) /\ CanBeOld(S) /\ calls \in Seq(S)
    BY SalesHas, SalesCarrier DEF Carries
  <2>7. calls' \in Seq(S) /\ Becomes(calls', calls, {i}, << >>)
    BY <2>1, <2>6, ThrewBecomes
  <2> QED BY <1>2, <2>4, <2>5, <2>6, <2>7, SalesNone
<1> QED BY <1>3, <1>4

LEMMA SalesServed ==
    ASSUME SalesDashboard!DialogOK, NEW i \in DOMAIN calls,
           \/ SalesDashboard!ServeSummary(i) \/ SalesDashboard!ServePage(i) \/ SalesDashboard!ServeVoid(i)
    PROVE  SalesDashboard!DialogOK'
<1>1. /\ DOMAIN ui = SalesFields /\ ui.submitting \in BOOLEAN /\ NoticeOK(ui) /\ OneOf(calls, "void")
      /\ ui.submitting <=> \E k \in DOMAIN calls : calls[k].op = "void"
      /\ OfTarget(calls, "void", ui.target)
      /\ DOMAIN calls[i] = CallFields /\ calls[i].old \in BOOLEAN
  BY SalesHas DEF HasCall
<1>2. ASSUME NEW c, DOMAIN c = CallFields, c.old = calls[i].old, c.op = calls[i].op, c.arg = calls[i].arg,
             calls' = [calls EXCEPT ![i] = c], ui' = ui
      PROVE  SalesDashboard!DialogOK'
  <2> DEFINE more == << c >>
  <2>1. PICK S : Carries(S) /\ CanBeOld(S) /\ calls \in Seq(S) /\ c \in S
    BY <1>1, <1>2, SalesCarrier DEF Carries
  <2>2. calls' \in Seq(S) /\ Becomes(calls', calls, {i}, more)
    BY <1>2, <2>1, AnsweredBecomes
  <2>3. /\ more \in Seq(S) /\ DOMAIN more = {1} /\ more[1] = c /\ (HasCall(more, "void") <=> c.op = "void")
    BY <2>1, OneMore
  <2> HIDE DEF more
  <2>4. (\E k \in DOMAIN calls : calls[k].op = "void") <=>
          HasCall(more, "void") \/ \E k \in DOMAIN calls \ {i} : calls[k].op = "void"
    BY <1>2, <2>3
  <2>5. \/ ~HasCall(more, "void")
        \/ DOMAIN more = {1} /\ \A k \in DOMAIN calls \ {i} : calls[k].op # "void"
    BY <1>1, <1>2, <2>3 DEF OneOf
  <2>6. OfTarget(more, "void", ui'.target)
    BY <1>1, <1>2, <2>3 DEF OfTarget
  <2> QED BY <1>1, <1>2, <2>1, <2>2, <2>3, <2>4, <2>5, <2>6, SalesGoes
<1>3. ASSUME NEW part, NEW answer, SalesDashboard!ServePart(i, part, answer)
      PROVE  SalesDashboard!DialogOK'
  <2>1. PICK has : \/ calls' = [calls EXCEPT ![i] = [calls[i] EXCEPT !.data = has]]
                   \/ calls' = [calls EXCEPT ![i] = [[calls[i] EXCEPT !.state = "ok"] EXCEPT !.data = has]]
    BY <1>3 DEF SalesDashboard!ServePart, SalesDashboard!Reply
  <2> DEFINE c == [calls[i] EXCEPT !.data = has]
             d == [[calls[i] EXCEPT !.state = "ok"] EXCEPT !.data = has]
  <2>2. /\ DOMAIN c = CallFields /\ c.old = calls[i].old /\ c.op = calls[i].op /\ c.arg = calls[i].arg
        /\ DOMAIN d = CallFields /\ d.old = calls[i].old /\ d.op = calls[i].op /\ d.arg = calls[i].arg
    BY <1>1 DEF CallFields
  <2>3. (calls' = [calls EXCEPT ![i] = c] \/ calls' = [calls EXCEPT ![i] = d]) /\ ui' = ui
    BY <1>3, <2>1 DEF SalesDashboard!ServePart
  <2> HIDE DEF c, d
  <2> QED BY <1>2, <2>2, <2>3
<1>4. CASE SalesDashboard!ServeVoid(i)
  <2> DEFINE c == [calls[i] EXCEPT !.state = "error"]
             d == [[calls[i] EXCEPT !.state = "ok"] EXCEPT !.data = None]
  <2>1. (calls' = [calls EXCEPT ![i] = c] \/ calls' = [calls EXCEPT ![i] = d]) /\ ui' = ui
    BY <1>4 DEF SalesDashboard!ServeVoid, SalesDashboard!Refusal, SalesDashboard!Reply
  <2>2. /\ DOMAIN c = CallFields /\ c.old = calls[i].old /\ c.op = calls[i].op /\ c.arg = calls[i].arg
        /\ DOMAIN d = CallFields /\ d.old = calls[i].old /\ d.op = calls[i].op /\ d.arg = calls[i].arg
    BY <1>1 DEF CallFields
  <2> HIDE DEF c, d
  <2> QED BY <1>2, <2>1, <2>2
<1> QED BY <1>3, <1>4 DEF SalesDashboard!ServeSummary, SalesDashboard!ServePage

LEMMA SalesInit ==
    ASSUME SalesDashboard!Init
    PROVE  SalesDashboard!DialogOK
<1> DEFINE c == SalesDashboard!Call("load", SalesDashboard!View, None)
<1>1. DOMAIN c = CallFields /\ c.op = "load" /\ c.old = FALSE
  BY DEF SalesDashboard!Call, CallFields
<1>2. /\ calls = << c >> /\ DOMAIN ui = SalesFields /\ ui.submitting = FALSE /\ ui.notice = None
  BY DEF SalesDashboard!Init, SalesFields
<1> HIDE DEF c
<1>3. DOMAIN calls = {1} /\ calls[1] = c
  BY <1>2
<1>4. calls \in Seq({calls[i] : i \in DOMAIN calls})
  <2> DEFINE T == {calls[i] : i \in DOMAIN calls}
  <2>1. c \in T
    BY <1>3
  <2> HIDE DEF T
  <2>2. calls \in Seq(T)
    BY <1>2, <2>1
  <2> QED BY <2>2 DEF T
<1> QED BY <1>1, <1>2, <1>3, <1>4
        DEF SalesDashboard!DialogOK, SalesDashboard!NoticeIsOfTarget, SalesDashboard!Doing,
            SalesDashboard!SalesCall, CallFields, SalesFields

LEMMA SalesNext ==
    ASSUME SalesDashboard!DialogOK, SalesDashboard!Next
    PROVE  SalesDashboard!DialogOK'
<1>1. CASE \/ SalesDashboard!Anterior \/ SalesDashboard!Siguiente
           \/ \E r \in SalesDashboard!Ranges : SalesDashboard!HandleRangeChange(r)
           \/ \E row \in SalesDashboard!Rows : SalesDashboard!HandleViewDetail(row)
           \/ SalesDashboard!HandleSubmit
  BY <1>1, SalesAsked
<1>2. CASE \/ SalesDashboard!Volver \/ SalesDashboard!CloseDetail \/ SalesDashboard!ElsewhereChanged
           \/ \E row \in SalesDashboard!Rows : SalesDashboard!Anular(row)
  BY <1>2, SalesDialogs
<1>3. CASE \E i \in DOMAIN calls :
             \/ SalesDashboard!LoadReturned(i) \/ SalesDashboard!LoadThrew(i) \/ SalesDashboard!DetailEnded(i)
             \/ SalesDashboard!VoidReturned(i) \/ SalesDashboard!VoidThrew(i)
  BY <1>3, SalesEnded, SalesVoided
<1>4. CASE \E i \in DOMAIN calls :
             \/ SalesDashboard!ServeSummary(i) \/ SalesDashboard!ServePage(i) \/ SalesDashboard!ServeVoid(i)
  BY <1>4, SalesServed
<1> QED BY <1>1, <1>2, <1>3, <1>4 DEF SalesDashboard!Next

-----------------------------------------------------------------------------
(* The dialog that resets a password.                                      *)

ResetUi == [target : User \cup {None}, submitting : BOOLEAN, notice : {None} \cup Reset!Notice]
WereReset(cs, users) == \A k \in DOMAIN cs : cs[k].state = "ok" => cs[k].arg \in users
DoneOK(page_, users) == page_.notice # None /\ page_.notice.what = "done" => page_.notice.of \in users

LEMMA ResetOps ==
    /\ \A s, i : Reset!RemoveAt(s, i) = RemoveAt(s, i)
    /\ \A s, J : Reset!Outdated(s, J) = Outdated(s, J)
    /\ \A more : Reset!Start(more) <=> Start(more)
    /\ \A op : Reset!Doing(op) = Doing(op)
<1>1. \A s, i : Reset!RemoveAt(s, i) = RemoveAt(s, i)
  BY DEF Reset!RemoveAt, RemoveAt
<1>2. \A s, J : Reset!Outdated(s, J) = Outdated(s, J)
  BY DEF Reset!Outdated, Outdated
<1>3. \A op : Reset!Doing(op) = Doing(op)
  BY DEF Reset!Doing, Doing
<1>4. \A more : Reset!Start(more) <=> Start(more)
  BY DEF Reset!Start, Start
<1> QED BY <1>1, <1>2, <1>3, <1>4

LEMMA ResetCanBeOld == CanBeOld(Reset!ResetCall)
BY DEF CanBeOld, Reset!ResetCall

LEMMA ResetHas ==
    ASSUME Reset!IInv
    PROVE  /\ calls \in Seq(Reset!ResetCall)
           /\ \A k \in DOMAIN calls : calls[k] \in Reset!ResetCall /\ calls[k].op = "reset"
           /\ ui \in ResetUi /\ db \subseteq User /\ NoticeOK(ui) /\ DoneOK(ui, db)
           /\ WereReset(calls, db) /\ OfTarget(calls, "reset", ui.target)
           /\ ui.submitting => HasCall(calls, "reset")
<1>1. calls \in Seq(Reset!ResetCall) /\ \A k \in DOMAIN calls : calls[k] \in Reset!ResetCall
  BY ElementOfSeq, LenProperties DEF Reset!IInv
<1>2. \A k \in DOMAIN calls : calls[k].op = "reset"
  BY <1>1 DEF Reset!ResetCall
<1>3. ui \in ResetUi /\ db \subseteq User /\ DoneOK(ui, db)
  BY DEF Reset!IInv, ResetUi, Reset!TypeOK, DoneOK, Reset!Done
<1>4. WereReset(calls, db) /\ OfTarget(calls, "reset", ui.target)
  BY DEF Reset!IInv, Reset!CallOK, WereReset, OfTarget
<1>5. ui.submitting => HasCall(calls, "reset")
  BY DEF Reset!IInv, Reset!TypeOK, Reset!Doing, HasCall
<1>6. NoticeOK(ui)
  BY DEF Reset!IInv, Reset!NoticeIsOfTarget, NoticeOK
<1> QED BY <1>1, <1>2, <1>3, <1>4, <1>5, <1>6

LEMMA ResetGoes ==
    ASSUME Reset!IInv, NEW R, NEW more \in Seq(Reset!ResetCall), calls' \in Seq(Reset!ResetCall),
           Becomes(calls', calls, R, more), ui' \in ResetUi, db \subseteq db', db' \subseteq User,
           NoticeOK(ui'), DoneOK(ui', db'), WereReset(more, db'),
           ui'.submitting => HasCall(more, "reset") \/ \E k \in DOMAIN calls \ R : calls[k].op = "reset",
           OfTarget(more, "reset", ui'.target),
           \/ ui'.target = ui.target
           \/ \A k \in DOMAIN calls \ R : calls[k].op = "reset" => calls[k].old
           \/ OfTarget(calls', "reset", ui'.target)
    PROVE  Reset!IInv'
<1>1. calls \in Seq(Reset!ResetCall) /\ OfTarget(calls, "reset", ui.target) /\ WereReset(calls, db)
  BY ResetHas
<1>2. OfTarget(calls', "reset", ui'.target)
  BY <1>1, StayOfTarget, ResetCanBeOld
<1>3. HasCall(calls', "reset") <=> HasCall(more, "reset") \/ \E k \in DOMAIN calls \ R : calls[k].op = "reset"
  BY <1>1, HasAfter, ResetCanBeOld
<1>4. \A k \in DOMAIN calls' : calls'[k] \in Reset!ResetCall /\ calls'[k].op = "reset"
  <2>1. \A k \in DOMAIN calls' : calls'[k] \in Reset!ResetCall
    BY ElementOfSeq, LenProperties
  <2> QED BY <2>1 DEF Reset!ResetCall
<1>5. WereReset(calls', db')
  <2> SUFFICES ASSUME NEW j \in DOMAIN calls', calls'[j].state = "ok" PROVE calls'[j].arg \in db'
    BY DEF WereReset
  <2>1. CameFrom(calls'[j], calls, R, more)
    BY <1>1, ComesFrom, ResetCanBeOld
  <2> QED BY <1>1, <2>1 DEF CameFrom, Alike, WereReset
<1>6. Reset!TypeOK'
  BY <1>3 DEF Reset!TypeOK, ResetUi, HasCall, Reset!Doing
<1>7. Reset!NoticeIsOfTarget'
  BY DEF Reset!NoticeIsOfTarget, NoticeOK
<1>8. Reset!DoneIsDone'
  BY DEF Reset!DoneIsDone, Reset!Done, NoticeOK, DoneOK
<1>9. (\A i \in DOMAIN calls : Reset!CallOK(calls[i]))'
  BY <1>2, <1>4, <1>5 DEF Reset!CallOK, OfTarget, WereReset
<1> QED BY <1>6, <1>7, <1>8, <1>9 DEF Reset!IInv, ResetUi, DoneOK, Reset!Done

LEMMA ResetNone ==
    ASSUME Reset!IInv, NEW R, calls' \in Seq(Reset!ResetCall), Becomes(calls', calls, R, << >>),
           ui' \in ResetUi, UNCHANGED db, NoticeOK(ui'), DoneOK(ui', db),
           ui'.submitting => \E k \in DOMAIN calls \ R : calls[k].op = "reset",
           \/ ui'.target = ui.target
           \/ \A k \in DOMAIN calls \ R : calls[k].op = "reset" => calls[k].old
           \/ OfTarget(calls', "reset", ui'.target)
    PROVE  Reset!IInv'
<1> DEFINE more == << >>
<1>1. /\ more \in Seq(Reset!ResetCall) /\ DOMAIN more = {} /\ OfTarget(more, "reset", ui'.target)
  BY NoMore
<1>2. Becomes(calls', calls, R, more)
  OBVIOUS
<1> HIDE DEF more
<1>3. WereReset(more, db')
  BY <1>1 DEF WereReset
<1>4. db \subseteq db' /\ db' \subseteq User /\ DoneOK(ui', db')
  BY ResetHas
<1> QED BY <1>1, <1>2, <1>3, <1>4, ResetGoes

LEMMA ResetDialog ==
    ASSUME Reset!IInv,
           Reset!CloseDialog("reset") \/ \E u \in User : Reset!HandleResetPassword(u)
    PROVE  Reset!IInv'
<1>1. /\ ui \in ResetUi /\ calls \in Seq(Reset!ResetCall)
      /\ ui.submitting => \E k \in DOMAIN calls \ {} : calls[k].op = "reset"
  BY ResetHas DEF HasCall
<1>2. ASSUME NEW t \in User \cup {None}, ui' = [ui EXCEPT !.target = t, !.notice = None]
      PROVE  /\ ui' \in ResetUi /\ NoticeOK(ui') /\ DoneOK(ui', db) /\ ui'.target = t
             /\ ui'.submitting = ui.submitting
  BY <1>1, <1>2 DEF ResetUi, NoticeOK, DoneOK
<1>3. CASE Reset!CloseDialog("reset")
  <2>1. /\ ui' = [ui EXCEPT !.target = None, !.notice = None] /\ UNCHANGED db
        /\ calls' = Outdated(calls, Doing("reset"))
    BY <1>3, ResetOps DEF Reset!CloseDialog
  <2>2. /\ calls' \in Seq(Reset!ResetCall) /\ Becomes(calls', calls, {}, << >>)
        /\ OfTarget(calls', "reset", None)
    BY <1>1, <2>1, ClosedOfNone, ResetCanBeOld
  <2> QED BY <1>1, <1>2, <2>1, <2>2, ResetNone
<1>4. ASSUME NEW u \in User, Reset!HandleResetPassword(u)
      PROVE  Reset!IInv'
  <2>1. ui.target = None /\ ui' = [ui EXCEPT !.target = u, !.notice = None] /\ UNCHANGED << db, calls >>
    BY <1>4 DEF Reset!HandleResetPassword, Reset!Opened
  <2>2. \A k \in DOMAIN calls \ {} : calls[k].op = "reset" => calls[k].old
    BY <2>1, ResetHas DEF OfTarget
  <2>3. calls' \in Seq(Reset!ResetCall) /\ Becomes(calls', calls, {}, << >>)
    BY <1>1, <2>1, NothingEnds
  <2> QED BY <1>1, <1>2, <2>1, <2>2, <2>3, ResetNone
<1> QED BY <1>3, <1>4

LEMMA ResetSubmitted ==
    ASSUME Reset!IInv, Reset!HandleSubmit
    PROVE  Reset!IInv'
<1> DEFINE c == Reset!Call("reset", ui.target, None)
           more == << c >>
<1>1. ui \in ResetUi /\ db \subseteq User /\ calls \in Seq(Reset!ResetCall)
  BY ResetHas
<1>2. /\ ui.target # None /\ UNCHANGED db /\ calls' = calls \o more
      /\ ui' = [ui EXCEPT !.submitting = TRUE, !.notice = None]
  BY ResetOps DEF Reset!HandleSubmit, Reset!Submit, Start
<1>3. c \in Reset!ResetCall /\ c.op = "reset" /\ c.arg = ui.target /\ c.state = "sent"
  BY <1>1, <1>2 DEF ResetUi, Reset!ResetCall, Reset!Call
<1> HIDE DEF c
<1>4. /\ more \in Seq(Reset!ResetCall) /\ DOMAIN more = {1} /\ more[1] = c /\ HasCall(more, "reset")
  BY <1>3, OneMore
<1> HIDE DEF more
<1>5. calls' \in Seq(Reset!ResetCall) /\ Becomes(calls', calls, {}, more)
  BY <1>1, <1>2, <1>4, Started
<1>6. ui' \in ResetUi /\ NoticeOK(ui') /\ DoneOK(ui', db') /\ ui'.target = ui.target
  BY <1>1, <1>2 DEF ResetUi, NoticeOK, DoneOK
<1>7. OfTarget(more, "reset", ui'.target) /\ WereReset(more, db') /\ db \subseteq db' /\ db' \subseteq User
  BY <1>1, <1>2, <1>3, <1>4, <1>6 DEF OfTarget, WereReset
<1> QED BY <1>4, <1>5, <1>6, <1>7, ResetGoes

LEMMA ResetErrorHidden ==
    ASSUME Reset!IInv, NEW i \in DOMAIN calls, Reset!ResetThrew(i), Reset!Done
    PROVE  Reset!IInv'
<1>1. /\ calls \in Seq(Reset!ResetCall) /\ ui \in ResetUi /\ NoticeOK(ui) /\ DoneOK(ui, db)
  BY ResetHas
<1>2. calls' = RemoveAt(calls, i) /\ UNCHANGED db /\ ui' = [ui EXCEPT !.submitting = FALSE]
  BY ResetOps DEF Reset!ResetThrew
<1>3. /\ ui' \in ResetUi /\ ui'.target = ui.target /\ ui'.submitting = FALSE
      /\ NoticeOK(ui') /\ DoneOK(ui', db)
  BY <1>1, <1>2 DEF ResetUi, NoticeOK, DoneOK
<1>4. AsBefore(calls, calls, i)
  BY DEF AsBefore, Same
<1>5. calls' \in Seq(Reset!ResetCall) /\ Becomes(calls', calls, {i}, << >>)
  BY <1>1, <1>2, <1>4, RemovedBecomes, ResetCanBeOld
<1> QED BY <1>2, <1>3, <1>5, ResetNone

LEMMA ResetEnded ==
    ASSUME Reset!IInv, NEW i \in DOMAIN calls,
           Reset!ResetReturned(i) \/ (Reset!ResetThrew(i) /\ ~Reset!Done)
    PROVE  Reset!IInv'
<1> DEFINE what == IF Reset!ResetReturned(i) THEN "done" ELSE "error"
           told == [what |-> what, of |-> calls[i].arg, late |-> calls[i].old]
           notice == IF ui.target = None THEN None ELSE told
<1>1. /\ calls \in Seq(Reset!ResetCall) /\ calls[i] \in Reset!ResetCall /\ calls[i].op = "reset"
      /\ ui \in ResetUi /\ OfTarget(calls, "reset", ui.target)
  BY ResetHas
<1>2. /\ calls' = RemoveAt(calls, i) /\ UNCHANGED db
      /\ ui' = [ui EXCEPT !.submitting = FALSE, !.notice = notice]
  BY ResetOps DEF Reset!ResetReturned, Reset!ResetThrew, Reset!Noticed
<1>3. told \in Reset!Notice /\ (told.what = "done" => told.of \in db)
  BY <1>1, ResetHas DEF Reset!ResetCall, Reset!Notice, Reset!ResetReturned, Reset!Returned, WereReset
<1>4. ui.target # None => told.of = ui.target \/ told.late
  BY <1>1, NoticedOK
<1> HIDE DEF told
<1>5. /\ notice \in {None} \cup Reset!Notice /\ (ui.target # None => notice = told)
      /\ notice # None => notice = told
  BY <1>3
<1> HIDE DEF notice
<1>6. ui' \in ResetUi /\ ui'.target = ui.target /\ ui'.notice = notice /\ ui'.submitting = FALSE
  BY <1>1, <1>2, <1>5 DEF ResetUi
<1>7. NoticeOK(ui') /\ DoneOK(ui', db)
  BY <1>3, <1>4, <1>5, <1>6 DEF NoticeOK, DoneOK
<1>8. AsBefore(calls, calls, i)
  BY DEF AsBefore, Same
<1>9. calls' \in Seq(Reset!ResetCall) /\ Becomes(calls', calls, {i}, << >>)
  BY <1>1, <1>2, <1>8, RemovedBecomes, ResetCanBeOld
<1> QED BY <1>2, <1>6, <1>7, <1>9, ResetNone

LEMMA ResetServed ==
    ASSUME Reset!IInv, NEW i \in DOMAIN calls, Reset!ServeReset(i)
    PROVE  Reset!IInv'
<1> DEFINE c == [[calls[i] EXCEPT !.state = "ok"] EXCEPT !.data = None]
           more == << c >>
<1>1. /\ calls \in Seq(Reset!ResetCall) /\ calls[i] \in Reset!ResetCall
      /\ ui \in ResetUi /\ db \subseteq User /\ NoticeOK(ui) /\ DoneOK(ui, db)
      /\ OfTarget(calls, "reset", ui.target)
  BY ResetHas
<1>2. calls' = [calls EXCEPT ![i] = c] /\ ui' = ui /\ db' = db \cup {calls[i].arg}
  BY DEF Reset!ServeReset, Reset!Reply
<1>3. c \in Reset!ResetCall /\ c.op = calls[i].op /\ c.op = "reset" /\ c.arg = calls[i].arg /\ c.old = calls[i].old
  BY <1>1 DEF Reset!ResetCall
<1> HIDE DEF c
<1>4. calls' \in Seq(Reset!ResetCall) /\ Becomes(calls', calls, {i}, more)
  BY <1>1, <1>2, <1>3, AnsweredBecomes, ResetCanBeOld
<1>5. /\ more \in Seq(Reset!ResetCall) /\ DOMAIN more = {1} /\ more[1] = c /\ HasCall(more, "reset")
  BY <1>3, OneMore
<1> HIDE DEF more
<1>6. db \subseteq db' /\ db' \subseteq User
  BY <1>1, <1>2 DEF Reset!ResetCall
<1>7. DoneOK(ui', db') /\ WereReset(more, db') /\ OfTarget(more, "reset", ui'.target)
  BY <1>1, <1>2, <1>3, <1>5, <1>6 DEF DoneOK, WereReset, OfTarget
<1> QED BY <1>1, <1>2, <1>4, <1>5, <1>6, <1>7, ResetGoes

LEMMA ResetInit ==
    ASSUME Reset!Init
    PROVE  Reset!IInv
<1>1. db = {} /\ calls = << >> /\ ui = [target |-> None, submitting |-> FALSE, notice |-> None]
  BY DEF Reset!Init
<1>2. ui \in ResetUi /\ calls \in Seq(Reset!ResetCall) /\ DOMAIN calls = {}
  BY <1>1 DEF ResetUi
<1> QED BY <1>1, <1>2 DEF Reset!IInv, Reset!TypeOK, Reset!NoticeIsOfTarget, Reset!DoneIsDone, Reset!Done, ResetUi

LEMMA ResetNext ==
    ASSUME Reset!IInv, Reset!Next
    PROVE  Reset!IInv'
BY ResetDialog, ResetSubmitted, ResetErrorHidden, ResetEnded, ResetServed DEF Reset!Next

-----------------------------------------------------------------------------
(* The public catalog: its dialog, and the photo it shows.                 *)

CatCalls == Catalog!LoadCall \cup Catalog!ScanCall
CatFields == {"status", "products", "category", "searching", "sort", "photos", "scan"}

\* The fields of the page, but for the products.
CatUi(page_) ==
    /\ DOMAIN page_ = CatFields /\ page_.status \in {"loading", "ready", "error"}
    /\ page_.category \in Category \cup {None} /\ page_.searching \in BOOLEAN
    /\ page_.sort \in {"recent", "price-asc", "price-desc"}
    /\ page_.photos \in 0 .. LastPhoto /\ page_.scan \in Catalog!Scan
    /\ page_.scan.status \in {"done", "error"} => page_.scan.result = page_.scan.preview \/ page_.scan.late

\* The scans that the dialog has asked for since it was last opened.
OfPhoto(c, scan) ==
    scan.status # "closed" /\ (~scan.late => scan.status = "scanning" /\ c.arg = scan.preview)
OwnsOK(cs, scan) ==
    /\ \A k \in DOMAIN cs : Catalog!Own(cs[k]) => OfPhoto(cs[k], scan)
    /\ ~scan.late => \A i, j \in DOMAIN cs : Catalog!Own(cs[i]) /\ Catalog!Own(cs[j]) => i = j

LEMMA CatOps ==
    /\ \A s, i : Catalog!RemoveAt(s, i) = RemoveAt(s, i)
    /\ \A s, J : Catalog!Outdated(s, J) = Outdated(s, J)
    /\ \A more : Catalog!Start(more) <=> Start(more)
    /\ \A op : Catalog!Doing(op) = Doing(op)
<1>1. \A s, i : Catalog!RemoveAt(s, i) = RemoveAt(s, i)
  BY DEF Catalog!RemoveAt, RemoveAt
<1>2. \A s, J : Catalog!Outdated(s, J) = Outdated(s, J)
  BY DEF Catalog!Outdated, Outdated
<1>3. \A op : Catalog!Doing(op) = Doing(op)
  BY DEF Catalog!Doing, Doing
<1>4. \A more : Catalog!Start(more) <=> Start(more)
  BY DEF Catalog!Start, Start
<1> QED BY <1>1, <1>2, <1>3, <1>4

LEMMA CatCallsCanBeOld == CanBeOld(CatCalls)
BY DEF CanBeOld, CatCalls, Catalog!LoadCall, Catalog!ScanCall

LEMMA CatHas ==
    ASSUME Catalog!IInv
    PROVE  /\ calls \in Seq(CatCalls) /\ \A k \in DOMAIN calls : calls[k] \in CatCalls
           /\ CatUi(ui) /\ OwnsOK(calls, ui.scan) /\ db \in [Catalog!ProductId -> Catalog!ProductRow]
           /\ ui.status = "loading" => HasCall(calls, "load")
           /\ ui.scan.status = "scanning" => HasCall(calls, "scan")
<1>1. calls \in Seq(CatCalls) /\ \A k \in DOMAIN calls : calls[k] \in CatCalls
  BY ElementOfSeq, LenProperties DEF Catalog!IInv, CatCalls
<1>2. CatUi(ui) /\ db \in [Catalog!ProductId -> Catalog!ProductRow]
  BY DEF Catalog!IInv, Catalog!TypeOK, Catalog!ScanIsOfPhoto, CatUi, CatFields
<1>3. OwnsOK(calls, ui.scan)
  BY DEF Catalog!IInv, Catalog!OwnOK, OwnsOK, OfPhoto
<1>4. /\ ui.status = "loading" => HasCall(calls, "load")
      /\ ui.scan.status = "scanning" => HasCall(calls, "scan")
  BY DEF Catalog!IInv, Catalog!TypeOK, Catalog!Doing, HasCall
<1> QED BY <1>1, <1>2, <1>3, <1>4

LEMMA OwnsGo ==
    ASSUME NEW S, CanBeOld(S), NEW cs \in Seq(S), NEW new, NEW R, NEW more, Becomes(new, cs, R, more),
           NEW scan, OwnsOK(cs, scan), NEW to,
           \A k \in DOMAIN more : Catalog!Own(more[k]) => OfPhoto(more[k], to),
           \A k \in DOMAIN cs \ R : Catalog!Own(cs[k]) => OfPhoto(cs[k], to),
           ~to.late => \/ ~scan.late /\ \A k \in DOMAIN more : ~Catalog!Own(more[k])
                       \/ DOMAIN more = {1} /\ \A k \in DOMAIN cs \ R : ~Catalog!Own(cs[k])
    PROVE  OwnsOK(new, to)
<1>1. ASSUME NEW c, NEW d, Follows(c, d), Catalog!Own(c)
      PROVE  Catalog!Own(d) /\ (OfPhoto(d, to) => OfPhoto(c, to))
  BY <1>1 DEF Follows, Alike, Catalog!Own, OfPhoto
<1>2. ASSUME NEW j \in DOMAIN new, Catalog!Own(new[j])
      PROVE  OfPhoto(new[j], to)
  <2>1. CameFrom(new[j], cs, R, more)
    BY ComesFrom
  <2>2. ASSUME NEW k \in DOMAIN cs \ R, Follows(new[j], cs[k])
        PROVE  OfPhoto(new[j], to)
    BY <1>1, <1>2, <2>2
  <2> QED BY <1>2, <2>1, <2>2 DEF CameFrom, Follows
<1>3. ASSUME ~to.late, NEW i \in DOMAIN new, NEW j \in DOMAIN new,
             Catalog!Own(new[i]), Catalog!Own(new[j]), i # j
      PROVE  FALSE
  <2>1. \/ \E l, n \in DOMAIN cs \ R : l # n /\ Follows(new[i], cs[l]) /\ Follows(new[j], cs[n])
        \/ \E l \in DOMAIN cs \ R, n \in DOMAIN more : Follows(new[i], cs[l]) /\ new[j] = more[n]
        \/ \E l \in DOMAIN more, n \in DOMAIN cs \ R : new[i] = more[l] /\ Follows(new[j], cs[n])
        \/ \E l, n \in DOMAIN more : l # n /\ new[i] = more[l] /\ new[j] = more[n]
    BY <1>3, PairFrom
  <2>2. ASSUME NEW l \in DOMAIN cs \ R, NEW n \in DOMAIN cs \ R, l # n,
               Follows(new[i], cs[l]), Follows(new[j], cs[n])
        PROVE  FALSE
    <3>1. Catalog!Own(cs[l]) /\ Catalog!Own(cs[n])
      BY <1>1, <1>3, <2>2
    <3> QED BY <1>3, <2>2, <3>1 DEF OwnsOK
  <2>3. ASSUME NEW l \in DOMAIN cs \ R, NEW n \in DOMAIN more,
               \/ Follows(new[i], cs[l]) /\ new[j] = more[n]
               \/ Follows(new[j], cs[l]) /\ new[i] = more[n]
        PROVE  FALSE
    <3>1. Catalog!Own(cs[l]) /\ Catalog!Own(more[n])
      BY <1>1, <1>3, <2>3
    <3> QED BY <1>3, <3>1
  <2>4. ASSUME NEW l \in DOMAIN more, NEW n \in DOMAIN more, l # n,
               new[i] = more[l], new[j] = more[n]
        PROVE  FALSE
    BY <1>3, <2>4
  <2> QED BY <2>1, <2>2, <2>3, <2>4
<1> QED BY <1>2, <1>3 DEF OwnsOK

\* None of the calls is a scan of the dialog as it was last opened.
LEMMA NoOwn ==
    ASSUME NEW cs, \A k \in DOMAIN cs : ~Catalog!Own(cs[k]), NEW scan
    PROVE  OwnsOK(cs, scan)
BY DEF OwnsOK

LEMMA CatGoes ==
    ASSUME Catalog!IInv, NEW R, NEW more \in Seq(CatCalls), calls' \in Seq(CatCalls),
           Becomes(calls', calls, R, more), CatUi(ui'), UNCHANGED db, OwnsOK(calls', ui'.scan),
           ui'.status = "loading" => HasCall(more, "load") \/ \E k \in DOMAIN calls \ R : calls[k].op = "load",
           ui'.scan.status = "scanning" =>
             HasCall(more, "scan") \/ \E k \in DOMAIN calls \ R : calls[k].op = "scan"
    PROVE  Catalog!IInv'
<1>1. calls \in Seq(CatCalls)
  BY CatHas
<1>2. \A op : HasCall(calls', op) <=> HasCall(more, op) \/ \E k \in DOMAIN calls \ R : calls[k].op = op
  BY <1>1, HasAfter, CatCallsCanBeOld
<1>3. (/\ ui.status = "loading" => Catalog!Doing("load") # {}
       /\ ui.scan.status = "scanning" => Catalog!Doing("scan") # {})'
  BY <1>2 DEF HasCall, Catalog!Doing
<1>4. db' \in [Catalog!ProductId -> Catalog!ProductRow]
  BY CatHas
<1>5. Catalog!TypeOK'
  BY <1>3, <1>4 DEF Catalog!TypeOK, CatUi, Catalog!Scan
<1>6. Catalog!ScanIsOfPhoto'
  BY DEF Catalog!ScanIsOfPhoto, CatUi
<1>7. (/\ \A i \in DOMAIN calls : Catalog!OwnOK(calls[i])
       /\ ~ui.scan.late => \A i, j \in DOMAIN calls : Catalog!Own(calls[i]) /\ Catalog!Own(calls[j]) => i = j)'
  BY DEF OwnsOK, OfPhoto, Catalog!OwnOK, Catalog!Own
<1> QED BY <1>5, <1>6, <1>7 DEF Catalog!IInv, CatUi, CatFields, CatCalls

LEMMA CatNone ==
    ASSUME Catalog!IInv, NEW R, calls' \in Seq(CatCalls), Becomes(calls', calls, R, << >>),
           CatUi(ui'), UNCHANGED db, OwnsOK(calls', ui'.scan),
           ui'.status = "loading" => \E k \in DOMAIN calls \ R : calls[k].op = "load",
           ui'.scan.status = "scanning" => \E k \in DOMAIN calls \ R : calls[k].op = "scan"
    PROVE  Catalog!IInv'
<1> DEFINE more == << >>
<1>1. more \in Seq(CatCalls) /\ DOMAIN more = {}
  OBVIOUS
<1>2. Becomes(calls', calls, R, more)
  OBVIOUS
<1> HIDE DEF more
<1> QED BY <1>1, <1>2, CatGoes

LEMMA CatLoadEnded ==
    ASSUME Catalog!IInv, NEW i \in DOMAIN calls, Catalog!LoadReturned(i) \/ Catalog!LoadThrew(i)
    PROVE  Catalog!IInv'
<1>1. /\ calls \in Seq(CatCalls) /\ CatUi(ui) /\ OwnsOK(calls, ui.scan)
      /\ ui.scan.status = "scanning" => \E k \in DOMAIN calls : calls[k].op = "scan"
  BY CatHas DEF HasCall
<1>2. calls[i].op = "load" /\ calls' = RemoveAt(calls, i) /\ UNCHANGED db
  BY CatOps DEF Catalog!LoadReturned, Catalog!LoadThrew, Catalog!Returned, Catalog!Threw, Catalog!Doing
<1>3. /\ CatUi(ui') /\ ui'.scan = ui.scan /\ ui'.status # "loading"
  <2>1. \/ ui' = [ui EXCEPT !.status = "ready", !.products = calls[i].data]
        \/ ui' = [ui EXCEPT !.status = "error"]
    BY DEF Catalog!LoadReturned, Catalog!LoadThrew
  <2>2. /\ DOMAIN ui' = CatFields /\ ui'.status \in {"ready", "error"} /\ ui'.category = ui.category
        /\ ui'.searching = ui.searching /\ ui'.sort = ui.sort /\ ui'.photos = ui.photos /\ ui'.scan = ui.scan
    BY <1>1, <2>1 DEF CatUi, CatFields
  <2> QED BY <1>1, <2>2 DEF CatUi
<1>4. AsBefore(calls, calls, i)
  BY DEF AsBefore, Same
<1>5. calls' \in Seq(CatCalls) /\ Becomes(calls', calls, {i}, << >>)
  BY <1>1, <1>2, <1>4, RemovedBecomes, CatCallsCanBeOld
<1>6. OwnsOK(calls', ui'.scan)
  <2> DEFINE more == << >>
  <2>1. DOMAIN more = {} /\ Becomes(calls', calls, {i}, more)
    BY <1>5
  <2> HIDE DEF more
  <2> QED BY <1>1, <1>3, <2>1, OwnsGo, CatCallsCanBeOld DEF OwnsOK
<1>7. ui'.scan.status = "scanning" => \E k \in DOMAIN calls \ {i} : calls[k].op = "scan"
  BY <1>1, <1>2, <1>3
<1> QED BY <1>2, <1>3, <1>5, <1>6, <1>7, CatNone

\* What is chosen on the page, and the dialog that opens: nothing is asked for.
LEMMA CatChosen ==
    ASSUME Catalog!IInv,
           \/ Catalog!Search \/ Catalog!OpenScan
           \/ \E category \in Category \cup {None} : Catalog!PickCategory(category)
           \/ \E sort \in {"recent", "price-asc", "price-desc"} : Catalog!SetSort(sort)
    PROVE  Catalog!IInv'
<1>1. /\ calls \in Seq(CatCalls) /\ CatUi(ui) /\ OwnsOK(calls, ui.scan)
      /\ ui.status = "loading" => \E k \in DOMAIN calls \ {} : calls[k].op = "load"
      /\ ui.scan.status = "scanning" => \E k \in DOMAIN calls \ {} : calls[k].op = "scan"
  BY CatHas DEF HasCall
<1>2. UNCHANGED << db, calls >>
  BY DEF Catalog!Search, Catalog!OpenScan, Catalog!PickCategory, Catalog!SetSort
<1>3. calls' \in Seq(CatCalls) /\ Becomes(calls', calls, {}, << >>)
  BY <1>1, <1>2, NothingEnds
<1>4. CASE \/ Catalog!Search
           \/ \E category \in Category \cup {None} : Catalog!PickCategory(category)
           \/ \E sort \in {"recent", "price-asc", "price-desc"} : Catalog!SetSort(sort)
  <2>1. \/ ui' = [ui EXCEPT !.searching = ~@]
        \/ \E category \in Category \cup {None} : ui' = [ui EXCEPT !.category = category]
        \/ \E sort \in {"recent", "price-asc", "price-desc"} : ui' = [ui EXCEPT !.sort = sort]
    BY <1>4 DEF Catalog!Search, Catalog!PickCategory, Catalog!SetSort
  <2>2. CatUi(ui') /\ ui'.status = ui.status /\ ui'.scan = ui.scan
    BY <1>1, <2>1 DEF CatUi, CatFields
  <2> QED BY <1>1, <1>2, <1>3, <2>2, CatNone
<1>5. CASE Catalog!OpenScan
  <2> DEFINE scan == [status |-> "idle", preview |-> None, result |-> None, late |-> FALSE]
  <2>1. ui.scan.status = "closed" /\ ui' = [ui EXCEPT !.scan = scan]
    BY <1>5 DEF Catalog!OpenScan, Catalog!Inert
  <2>2. scan \in Catalog!Scan /\ scan.status = "idle"
    BY DEF Catalog!Scan, Catalog!Photo
  <2> HIDE DEF scan
  <2>3. CatUi(ui') /\ ui'.status = ui.status /\ ui'.scan = scan
    BY <1>1, <2>1, <2>2 DEF CatUi, CatFields
  <2>4. OwnsOK(calls', ui'.scan)
    BY <1>1, <1>2, <2>1, NoOwn DEF OwnsOK, OfPhoto
  <2> QED BY <1>1, <1>2, <1>3, <2>2, <2>3, <2>4, CatNone
<1> QED BY <1>4, <1>5

LEMMA CatClosed ==
    ASSUME Catalog!IInv, Catalog!CloseScan
    PROVE  Catalog!IInv'
<1> DEFINE scan == [status |-> "closed", preview |-> None, result |-> None, late |-> FALSE]
<1>1. /\ calls \in Seq(CatCalls) /\ CatUi(ui)
      /\ ui.status = "loading" => \E k \in DOMAIN calls \ {} : calls[k].op = "load"
  BY CatHas DEF HasCall
<1>2. ui' = [ui EXCEPT !.scan = scan] /\ UNCHANGED db /\ calls' = Outdated(calls, Doing("scan"))
  BY CatOps DEF Catalog!CloseScan
<1>3. /\ calls' \in Seq(CatCalls) /\ Becomes(calls', calls, {}, << >>) /\ OfTarget(calls', "scan", None)
  BY <1>1, <1>2, ClosedOfNone, CatCallsCanBeOld
<1>4. scan \in Catalog!Scan /\ scan.status = "closed"
  BY DEF Catalog!Scan, Catalog!Photo
<1> HIDE DEF scan
<1>5. CatUi(ui') /\ ui'.status = ui.status /\ ui'.scan = scan
  BY <1>1, <1>2, <1>4 DEF CatUi, CatFields
<1>6. OwnsOK(calls', ui'.scan)
  BY <1>3, NoOwn DEF OfTarget, Catalog!Own
<1> QED BY <1>1, <1>2, <1>3, <1>4, <1>5, <1>6, CatNone

LEMMA CatCaptured ==
    ASSUME Catalog!IInv, Catalog!HandleCapture
    PROVE  Catalog!IInv'
<1> DEFINE photo == ui.photos + 1
           c == Catalog!Call("scan", photo, None)
           more == << c >>
           scan == [[[ui.scan EXCEPT !.status = "scanning"] EXCEPT !.preview = photo] EXCEPT !.result = None]
<1>1. /\ calls \in Seq(CatCalls) /\ CatUi(ui) /\ OwnsOK(calls, ui.scan) /\ ui.scan \in Catalog!Scan
      /\ ui.photos \in Nat /\ LastPhoto \in Nat
      /\ ui.status = "loading" => \E k \in DOMAIN calls \ {} : calls[k].op = "load"
  BY CatHas, ScreensAssumption DEF HasCall, CatUi
<1>2. /\ ui.scan.status \in {"idle", "done", "error"} /\ photo <= LastPhoto /\ calls' = calls \o more
      /\ ui' = [ui EXCEPT !.photos = photo, !.scan = scan] /\ UNCHANGED db
  BY CatOps DEF Catalog!HandleCapture, Start
<1>3. photo \in 1 .. LastPhoto
  BY <1>1, <1>2
<1> HIDE DEF photo
<1>4. c \in CatCalls /\ c.op = "scan" /\ c.arg = photo /\ Catalog!Own(c)
  BY <1>3 DEF CatCalls, Catalog!ScanCall, Catalog!Call, Catalog!Own
<1> HIDE DEF c
<1>5. more \in Seq(CatCalls) /\ DOMAIN more = {1} /\ more[1] = c /\ HasCall(more, "scan")
  BY <1>4, OneMore
<1> HIDE DEF more
<1>6. calls' \in Seq(CatCalls) /\ Becomes(calls', calls, {}, more)
  BY <1>1, <1>2, <1>5, Started
<1>7. /\ scan \in Catalog!Scan /\ scan.status = "scanning" /\ scan.preview = photo
      /\ scan.late = ui.scan.late /\ scan.late \in BOOLEAN
  BY <1>1, <1>3 DEF Catalog!Scan, Catalog!Photo
<1> HIDE DEF scan
<1>8. CatUi(ui') /\ ui'.status = ui.status /\ ui'.scan = scan
  <2>1. /\ DOMAIN ui' = CatFields /\ ui'.status = ui.status /\ ui'.category = ui.category
        /\ ui'.searching = ui.searching /\ ui'.sort = ui.sort /\ ui'.photos = photo /\ ui'.scan = scan
    BY <1>1, <1>2 DEF CatUi, CatFields
  <2>2. photo \in 0 .. LastPhoto
    BY <1>3
  <2> QED BY <1>1, <1>7, <2>1, <2>2 DEF CatUi
<1>9. OwnsOK(calls', scan)
  <2>1. \A k \in DOMAIN more : Catalog!Own(more[k]) => OfPhoto(more[k], scan)
    BY <1>4, <1>5, <1>7 DEF OfPhoto
  <2>2. \A k \in DOMAIN calls \ {} : Catalog!Own(calls[k]) => OfPhoto(calls[k], scan)
    BY <1>1, <1>2, <1>7 DEF OwnsOK, OfPhoto
  <2>3. ~scan.late => \A k \in DOMAIN calls \ {} : ~Catalog!Own(calls[k])
    BY <1>1, <1>2, <1>7 DEF OwnsOK, OfPhoto
  <2> QED BY <1>1, <1>5, <1>6, <2>1, <2>2, <2>3, OwnsGo, CatCallsCanBeOld
<1> QED BY <1>1, <1>2, <1>5, <1>6, <1>8, <1>9, CatGoes

LEMMA CatScanned ==
    ASSUME Catalog!IInv, NEW i \in DOMAIN calls, Catalog!ScanReturned(i) \/ Catalog!ScanThrew(i)
    PROVE  Catalog!IInv'
<1> DEFINE status == IF Catalog!ScanReturned(i) THEN "done" ELSE "error"
           late == ui.scan.late \/ calls[i].old
           scan == [[[ui.scan EXCEPT !.status = status] EXCEPT !.result = calls[i].arg] EXCEPT !.late = late]
<1>1. /\ calls \in Seq(CatCalls) /\ CatUi(ui) /\ OwnsOK(calls, ui.scan) /\ ui.scan \in Catalog!Scan
      /\ calls[i] \in CatCalls
      /\ ui.status = "loading" => \E k \in DOMAIN calls : calls[k].op = "load"
      /\ ui.scan.status = "scanning" => \E k \in DOMAIN calls : calls[k].op = "scan"
  BY CatHas DEF HasCall, CatUi
<1>2. calls[i].op = "scan" /\ calls' = RemoveAt(calls, i) /\ UNCHANGED db
  BY CatOps DEF Catalog!ScanReturned, Catalog!ScanThrew, Catalog!Returned, Catalog!Threw, Catalog!Doing
<1>3. calls[i].arg \in 1 .. LastPhoto /\ calls[i].old \in BOOLEAN
  BY <1>1, <1>2 DEF CatCalls, Catalog!LoadCall, Catalog!ScanCall
<1>4. AsBefore(calls, calls, i)
  BY DEF AsBefore, Same
<1>5. calls' \in Seq(CatCalls) /\ Becomes(calls', calls, {i}, << >>)
  BY <1>1, <1>2, <1>4, RemovedBecomes, CatCallsCanBeOld
<1> DEFINE more == << >>
<1>6. DOMAIN more = {} /\ Becomes(calls', calls, {i}, more)
  BY <1>5
<1> HIDE DEF more
<1>7. CASE ui.scan.status = "closed"
  <2>1. ui' = ui
    BY <1>7 DEF Catalog!ScanReturned, Catalog!ScanThrew, Catalog!Shows
  <2>2. OwnsOK(calls', ui'.scan)
    BY <1>1, <1>6, <2>1, OwnsGo, CatCallsCanBeOld DEF OwnsOK
  <2>3. ui'.status = "loading" => \E k \in DOMAIN calls \ {i} : calls[k].op = "load"
    BY <1>1, <1>2, <2>1
  <2> QED BY <1>1, <1>2, <1>5, <1>7, <2>1, <2>2, <2>3, CatNone
<1>8. CASE ui.scan.status # "closed"
  <2>1. ui' = [ui EXCEPT !.scan = scan]
    <3>1. ui' = [ui EXCEPT !.scan.status = status, !.scan.result = calls[i].arg, !.scan.late = late]
      BY <1>8 DEF Catalog!ScanReturned, Catalog!ScanThrew, Catalog!Shows
    <3> HIDE DEF status, late
    <3> QED BY <1>1, <3>1 DEF CatUi, CatFields
  <2>2. late \in BOOLEAN /\ (~late => ~ui.scan.late /\ ~calls[i].old)
    BY <1>1, <1>3 DEF Catalog!Scan
  <2>3. status \in {"done", "error"}
    OBVIOUS
  <2> HIDE DEF late, status
  <2>4. /\ scan \in Catalog!Scan /\ scan.status = status /\ scan.preview = ui.scan.preview
        /\ scan.result = calls[i].arg /\ scan.late = late
    BY <1>1, <1>3, <2>2, <2>3 DEF Catalog!Scan, Catalog!Photo
  <2>5. ~late => calls[i].arg = ui.scan.preview /\ \A k \in DOMAIN calls \ {i} : ~Catalog!Own(calls[k])
    BY <1>1, <1>2, <2>2 DEF OwnsOK, OfPhoto, Catalog!Own
  <2> HIDE DEF scan
  <2>6. CatUi(ui') /\ ui'.status = ui.status /\ ui'.scan = scan
    <3>1. /\ DOMAIN ui' = CatFields /\ ui'.status = ui.status /\ ui'.category = ui.category
          /\ ui'.searching = ui.searching /\ ui'.sort = ui.sort /\ ui'.photos = ui.photos /\ ui'.scan = scan
      BY <1>1, <2>1 DEF CatUi, CatFields
    <3> QED BY <1>1, <2>4, <2>5, <3>1 DEF CatUi
  <2>7. OwnsOK(calls', scan)
    <3>1. \A k \in DOMAIN calls \ {i} : Catalog!Own(calls[k]) => OfPhoto(calls[k], scan)
      BY <2>3, <2>4, <2>5 DEF OfPhoto
    <3>2. ~scan.late => ~ui.scan.late /\ \A k \in DOMAIN more : ~Catalog!Own(more[k])
      BY <1>6, <2>2, <2>4
    <3> QED BY <1>1, <1>6, <3>1, <3>2, OwnsGo, CatCallsCanBeOld
  <2>8. ui'.status = "loading" => \E k \in DOMAIN calls \ {i} : calls[k].op = "load"
    BY <1>1, <1>2, <2>6
  <2> QED BY <1>2, <1>5, <2>3, <2>4, <2>6, <2>7, <2>8, CatNone
<1> QED BY <1>7, <1>8

\* The list, newest first and no more of it than the limit.
LEMMA CatListed == Catalog!Listed \in Seq(Catalog!ProductId)
<1> DEFINE all == [p \in Catalog!ProductId |-> p]
           back == Catalog!Reverse(all)
           n == IF Limit < LastProduct THEN Limit ELSE LastProduct
<1>1. Limit \in Nat /\ LastProduct \in Nat /\ Catalog!ProductId = 1 .. LastProduct
  BY ScreensAssumption DEF Catalog!ProductId
<1>2. all \in Seq(Catalog!ProductId) /\ Len(all) = LastProduct
  <2>1. [p \in 1 .. LastProduct |-> p] \in Seq(1 .. LastProduct)
    BY <1>1, IsASeq
  <2>2. all = [p \in 1 .. LastProduct |-> p]
    BY <1>1
  <2> HIDE DEF all
  <2> QED BY <1>1, <2>1, <2>2, LenProperties
<1>3. back = [i \in 1 .. LastProduct |-> all[(LastProduct - i) + 1]]
  BY <1>2 DEF Catalog!Reverse
<1>4. back \in Seq(Catalog!ProductId) /\ Len(back) = LastProduct
  <2>1. \A i \in 1 .. LastProduct : all[(LastProduct - i) + 1] \in Catalog!ProductId
    BY <1>1
  <2> HIDE DEF all
  <2>2. [i \in 1 .. LastProduct |-> all[(LastProduct - i) + 1]] \in Seq(Catalog!ProductId)
    BY <1>1, <2>1, IsASeq
  <2> HIDE DEF back
  <2> QED BY <1>1, <1>3, <2>2, LenProperties
<1>5. Catalog!Listed = SubSeq(back, 1, n)
  BY DEF Catalog!Listed
<1>6. n \in Nat /\ n <= LastProduct
  BY <1>1
<1> HIDE DEF all, back, n
<1>7. SubSeq(back, 1, n) = [i \in 1 .. n |-> back[i]]
  BY <1>6 DEF SubSeq
<1>8. \A i \in 1 .. n : back[i] \in Catalog!ProductId
  <2>1. DOMAIN back = 1 .. LastProduct
    BY <1>3
  <2> QED BY <1>1, <1>4, <1>6, <2>1, ElementOfSeq
<1>9. [i \in 1 .. n |-> back[i]] \in Seq(Catalog!ProductId)
  BY <1>6, <1>8, IsASeq
<1> QED BY <1>5, <1>7, <1>9

LEMMA CatServed ==
    ASSUME Catalog!IInv, NEW i \in DOMAIN calls, Catalog!ServeList(i) \/ Catalog!ServeScan(i)
    PROVE  Catalog!IInv'
<1>1. /\ calls \in Seq(CatCalls) /\ CatUi(ui) /\ OwnsOK(calls, ui.scan) /\ calls[i] \in CatCalls
      /\ ui.status = "loading" => \E k \in DOMAIN calls : calls[k].op = "load"
      /\ ui.scan.status = "scanning" => \E k \in DOMAIN calls : calls[k].op = "scan"
  BY CatHas DEF HasCall
<1>2. PICK c \in CatCalls : /\ c.op = calls[i].op /\ c.arg = calls[i].arg /\ c.old = calls[i].old
                            /\ calls' = [calls EXCEPT ![i] = c]
  <2> DEFINE list == Catalog!Listed
             c == [[calls[i] EXCEPT !.state = "ok"] EXCEPT !.data = list]
             d == [[calls[i] EXCEPT !.state = "ok"] EXCEPT !.data = None]
  <2>1. list \in Seq(Catalog!ProductId)
    BY CatListed
  <2> HIDE DEF list
  <2>2. CASE Catalog!ServeList(i)
    <3>1. calls[i] \in Catalog!LoadCall /\ calls' = [calls EXCEPT ![i] = c]
      BY <1>1, <2>2 DEF Catalog!ServeList, Catalog!Asked, Catalog!Doing, Catalog!Reply, CatCalls,
                        Catalog!LoadCall, Catalog!ScanCall, list
    <3>2. c \in CatCalls /\ c.op = calls[i].op /\ c.arg = calls[i].arg /\ c.old = calls[i].old
      BY <2>1, <3>1 DEF CatCalls, Catalog!LoadCall
    <3> QED BY <3>1, <3>2
  <2>3. CASE Catalog!ServeScan(i)
    <3>1. calls[i] \in Catalog!ScanCall /\ calls' = [calls EXCEPT ![i] = d]
      BY <1>1, <2>3 DEF Catalog!ServeScan, Catalog!Asked, Catalog!Doing, Catalog!Reply, CatCalls,
                        Catalog!LoadCall, Catalog!ScanCall
    <3>2. d \in CatCalls /\ d.op = calls[i].op /\ d.arg = calls[i].arg /\ d.old = calls[i].old
      BY <3>1 DEF CatCalls, Catalog!ScanCall
    <3> QED BY <3>1, <3>2
  <2> QED BY <2>2, <2>3
<1>3. UNCHANGED << ui, db >>
  BY DEF Catalog!ServeList, Catalog!ServeScan
<1> DEFINE more == << c >>
<1>4. calls' \in Seq(CatCalls) /\ Becomes(calls', calls, {i}, more)
  BY <1>1, <1>2, AnsweredBecomes, CatCallsCanBeOld
<1>5. /\ more \in Seq(CatCalls) /\ DOMAIN more = {1} /\ more[1] = c
      /\ \A op : HasCall(more, op) <=> c.op = op
  BY OneMore
<1> HIDE DEF more
<1>6. \A op : (\E k \in DOMAIN calls : calls[k].op = op) =>
                HasCall(more, op) \/ \E k \in DOMAIN calls \ {i} : calls[k].op = op
  BY <1>2, <1>5
<1>7. OwnsOK(calls', ui.scan)
  <2>1. Catalog!Own(c) <=> Catalog!Own(calls[i])
    BY <1>2 DEF Catalog!Own
  <2>2. \A k \in DOMAIN more : Catalog!Own(more[k]) => OfPhoto(more[k], ui.scan)
    BY <1>1, <1>2, <1>5, <2>1 DEF OwnsOK, OfPhoto
  <2>3. \A k \in DOMAIN calls \ {i} : Catalog!Own(calls[k]) => OfPhoto(calls[k], ui.scan)
    BY <1>1 DEF OwnsOK
  <2>4. ~ui.scan.late => \/ \A k \in DOMAIN more : ~Catalog!Own(more[k])
                         \/ \A k \in DOMAIN calls \ {i} : ~Catalog!Own(calls[k])
    BY <1>1, <1>5, <2>1 DEF OwnsOK
  <2> QED BY <1>1, <1>4, <1>5, <2>2, <2>3, <2>4, OwnsGo, CatCallsCanBeOld
<1> QED BY <1>1, <1>3, <1>4, <1>5, <1>6, <1>7, CatGoes

LEMMA CatInit ==
    ASSUME Catalog!Init
    PROVE  Catalog!IInv
<1> DEFINE c == Catalog!Call("load", None, None)
           scan == [status |-> "closed", preview |-> None, result |-> None, late |-> FALSE]
<1>1. c \in CatCalls /\ c.op = "load"
  BY DEF CatCalls, Catalog!LoadCall, Catalog!Call
<1>2. /\ calls = << c >> /\ db \in [Catalog!ProductId -> Catalog!ProductRow]
      /\ DOMAIN ui = CatFields /\ ui.status = "loading" /\ ui.category = None /\ ui.searching = FALSE
      /\ ui.sort = "recent" /\ ui.photos = 0 /\ ui.scan = scan
  BY DEF Catalog!Init, CatFields
<1>3. scan \in Catalog!Scan /\ scan.status = "closed"
  BY DEF Catalog!Scan, Catalog!Photo
<1> HIDE DEF c, scan
<1>4. calls \in Seq(CatCalls) /\ DOMAIN calls = {1} /\ calls[1] = c
  BY <1>1, <1>2
<1>5. \A k \in DOMAIN calls : ~Catalog!Own(calls[k])
  BY <1>1, <1>4 DEF Catalog!Own
<1>6. 0 \in 0 .. LastPhoto
  BY ScreensAssumption
<1>7. Catalog!TypeOK
  BY <1>1, <1>2, <1>3, <1>4 DEF Catalog!TypeOK, Catalog!Doing
<1> QED BY <1>2, <1>3, <1>4, <1>5, <1>6, <1>7
        DEF Catalog!IInv, Catalog!ScanIsOfPhoto, Catalog!OwnOK, CatFields, CatCalls

LEMMA CatNext ==
    ASSUME Catalog!IInv, Catalog!Next
    PROVE  Catalog!IInv'
<1>1. CASE \/ Catalog!Search \/ Catalog!OpenScan
           \/ \E category \in Category \cup {None} : Catalog!PickCategory(category)
           \/ \E sort \in {"recent", "price-asc", "price-desc"} : Catalog!SetSort(sort)
  BY <1>1, CatChosen
<1>2. CASE Catalog!CloseScan \/ Catalog!HandleCapture
  BY <1>2, CatClosed, CatCaptured
<1>3. CASE \E i \in DOMAIN calls :
             \/ Catalog!LoadReturned(i) \/ Catalog!LoadThrew(i)
             \/ Catalog!ScanReturned(i) \/ Catalog!ScanThrew(i)
  BY <1>3, CatLoadEnded, CatScanned
<1>4. CASE \E i \in DOMAIN calls : Catalog!ServeList(i) \/ Catalog!ServeScan(i)
  BY <1>4, CatServed
<1> QED BY <1>1, <1>2, <1>3, <1>4 DEF Catalog!Next

-----------------------------------------------------------------------------
(* The search of the sale screen.                                          *)

SearchUi ==
    [query : Search!Query, debounce : BOOLEAN, status : {"ready", "loading"}, results : SUBSET Product]
OfProducts(cs) == \A k \in DOMAIN cs : cs[k].state = "ok" => cs[k].data \subseteq Product

LEMMA SearchOps ==
    /\ \A s, i : Search!RemoveAt(s, i) = RemoveAt(s, i)
    /\ \A s, J : Search!Outdated(s, J) = Outdated(s, J)
    /\ \A more : Search!Start(more) <=> Start(more)
<1>1. \A s, i : Search!RemoveAt(s, i) = RemoveAt(s, i)
  BY DEF Search!RemoveAt, RemoveAt
<1>2. \A s, J : Search!Outdated(s, J) = Outdated(s, J)
  BY DEF Search!Outdated, Outdated
<1>3. \A more : Search!Start(more) <=> Start(more)
  BY DEF Search!Start, Start
<1> QED BY <1>1, <1>2, <1>3

LEMMA SearchCanBeOld == CanBeOld(Search!SearchCall)
BY DEF CanBeOld, Search!SearchCall

LEMMA SearchHas ==
    ASSUME Search!IInv
    PROVE  /\ calls \in Seq(Search!SearchCall) /\ \A k \in DOMAIN calls : calls[k] \in Search!SearchCall
           /\ ui \in SearchUi /\ db \in Search!Found /\ OfProducts(calls)
           /\ ui.status = "loading" => DOMAIN calls # {}
<1>1. calls \in Seq(Search!SearchCall) /\ \A k \in DOMAIN calls : calls[k] \in Search!SearchCall
  BY ElementOfSeq, LenProperties DEF Search!IInv
<1>2. ui \in SearchUi /\ db \in Search!Found /\ OfProducts(calls)
  BY DEF Search!IInv, Search!TypeOK, SearchUi, OfProducts
<1>3. ui.status = "loading" => DOMAIN calls # {}
  BY DEF Search!IInv, Search!TypeOK, Search!Doing
<1> QED BY <1>1, <1>2, <1>3

LEMMA SearchGoes ==
    ASSUME Search!IInv, NEW R, NEW more \in Seq(Search!SearchCall), calls' \in Seq(Search!SearchCall),
           Becomes(calls', calls, R, more), ui' \in SearchUi, UNCHANGED db, OfProducts(more),
           ui'.status = "loading" => DOMAIN calls' # {}
    PROVE  Search!IInv'
<1>1. calls \in Seq(Search!SearchCall) /\ OfProducts(calls) /\ db' \in Search!Found
  BY SearchHas
<1>2. \A k \in DOMAIN calls' : calls'[k].op = "search"
  <2>1. \A k \in DOMAIN calls' : calls'[k] \in Search!SearchCall
    BY ElementOfSeq, LenProperties
  <2> QED BY <2>1 DEF Search!SearchCall
<1>3. OfProducts(calls')
  <2> SUFFICES ASSUME NEW j \in DOMAIN calls', calls'[j].state = "ok"
               PROVE  calls'[j].data \subseteq Product
    BY DEF OfProducts
  <2>1. CameFrom(calls'[j], calls, R, more)
    BY <1>1, ComesFrom, SearchCanBeOld
  <2> QED BY <1>1, <2>1 DEF CameFrom, Alike, OfProducts
<1>4. Search!TypeOK'
  BY <1>1, <1>2 DEF Search!TypeOK, Search!Doing, SearchUi
<1> QED BY <1>3, <1>4 DEF Search!IInv, SearchUi, OfProducts

\* Nothing is asked for.
LEMMA SearchNone ==
    ASSUME Search!IInv, NEW R, calls' \in Seq(Search!SearchCall), Becomes(calls', calls, R, << >>),
           ui' \in SearchUi, UNCHANGED db, ui'.status = "loading" => DOMAIN calls' # {}
    PROVE  Search!IInv'
<1> DEFINE more == << >>
<1>1. more \in Seq(Search!SearchCall) /\ DOMAIN more = {} /\ Becomes(calls', calls, R, more)
  OBVIOUS
<1> HIDE DEF more
<1>2. OfProducts(more)
  BY <1>1 DEF OfProducts
<1> QED BY <1>1, <1>2, SearchGoes

LEMMA SearchTyped ==
    ASSUME Search!IInv, NEW query \in Search!Query, Search!SetQuery(query)
    PROVE  Search!IInv'
<1>1. UNCHANGED << db, calls >> /\ ui' = [ui EXCEPT !.query = query, !.debounce = TRUE]
  BY DEF Search!SetQuery
<1>2. calls \in Seq(Search!SearchCall) /\ ui \in SearchUi /\ (ui.status = "loading" => DOMAIN calls # {})
  BY SearchHas
<1>3. ui' \in SearchUi /\ ui'.status = ui.status
  BY <1>1, <1>2 DEF SearchUi
<1>4. calls' \in Seq(Search!SearchCall) /\ Becomes(calls', calls, {}, << >>)
  BY <1>1, <1>2, NothingEnds
<1> QED BY <1>1, <1>2, <1>3, <1>4, SearchNone

LEMMA SearchAsked ==
    ASSUME Search!IInv, Search!DebounceEnded
    PROVE  Search!IInv'
<1> DEFINE c == Search!Call("search", ui.query, None)
           more == << c >>
<1>1. calls \in Seq(Search!SearchCall) /\ ui \in SearchUi
  BY SearchHas
<1>2. /\ UNCHANGED db /\ calls' = calls \o more
      /\ ui' = [ui EXCEPT !.debounce = FALSE, !.status = "loading"]
  BY SearchOps DEF Search!DebounceEnded, Start
<1>3. c \in Search!SearchCall /\ c.state = "sent"
  BY <1>1 DEF SearchUi, Search!SearchCall, Search!Call
<1> HIDE DEF c
<1>4. more \in Seq(Search!SearchCall) /\ DOMAIN more = {1} /\ more[1] = c
  BY <1>3, OneMore
<1> HIDE DEF more
<1>5. calls' \in Seq(Search!SearchCall) /\ Becomes(calls', calls, {}, more)
  BY <1>1, <1>2, <1>4, Started
<1>6. DOMAIN calls' # {}
  BY <1>4, <1>5, <1>1, Appears
<1>7. ui' \in SearchUi /\ OfProducts(more)
  BY <1>1, <1>2, <1>3, <1>4 DEF SearchUi, OfProducts
<1> QED BY <1>2, <1>4, <1>5, <1>6, <1>7, SearchGoes

LEMMA SearchEnded ==
    ASSUME Search!IInv, NEW i \in DOMAIN calls, Search!SearchReturned(i) \/ Search!SearchThrew(i)
    PROVE  Search!IInv'
<1> DEFINE o == Outdated(calls, {j \in DOMAIN calls : j < i})
<1>1. calls \in Seq(Search!SearchCall) /\ ui \in SearchUi /\ OfProducts(calls)
  BY SearchHas
<1>2. o \in Seq(Search!SearchCall) /\ AsBefore(o, calls, i)
  BY <1>1, OutdatedIs, Overtaken, SearchCanBeOld
<1>3. UNCHANGED db /\ calls' = RemoveAt(o, i)
  BY SearchOps DEF Search!SearchReturned, Search!SearchThrew
<1> HIDE DEF o
<1>4. calls' \in Seq(Search!SearchCall) /\ Becomes(calls', calls, {i}, << >>)
  BY <1>1, <1>2, <1>3, RemovedBecomes, SearchCanBeOld
<1>5. PICK found \in SUBSET Product : ui' = [ui EXCEPT !.results = found, !.status = "ready"]
  <2>1. CASE Search!SearchReturned(i)
    BY <1>1, <2>1 DEF Search!SearchReturned, Search!Returned, OfProducts
  <2>2. CASE Search!SearchThrew(i)
    BY <2>2 DEF Search!SearchThrew
  <2> QED BY <2>1, <2>2
<1>6. ui' \in SearchUi /\ ui'.status = "ready"
  BY <1>1, <1>5 DEF SearchUi
<1> QED BY <1>3, <1>4, <1>6, SearchNone

LEMMA SearchServed ==
    ASSUME Search!IInv, NEW i \in DOMAIN calls, Search!ServeSearch(i)
    PROVE  Search!IInv'
<1> DEFINE found == db[calls[i].arg]
           c == [[calls[i] EXCEPT !.state = "ok"] EXCEPT !.data = found]
           more == << c >>
<1>1. calls \in Seq(Search!SearchCall) /\ calls[i] \in Search!SearchCall /\ ui \in SearchUi
  BY SearchHas
<1>2. found \subseteq Product
  BY <1>1, SearchHas DEF Search!Found, Search!SearchCall
<1>3. UNCHANGED << ui, db >> /\ calls' = [calls EXCEPT ![i] = c]
  BY DEF Search!ServeSearch, Search!Reply
<1> HIDE DEF found
<1>4. c \in Search!SearchCall /\ c.data = found
  BY <1>1, <1>2 DEF Search!SearchCall
<1> HIDE DEF c
<1>5. more \in Seq(Search!SearchCall) /\ DOMAIN more = {1} /\ more[1] = c
  BY <1>4, OneMore
<1>6. calls' \in Seq(Search!SearchCall) /\ Becomes(calls', calls, {i}, more)
  BY <1>1, <1>3, <1>4, AnsweredBecomes, SearchCanBeOld
<1> HIDE DEF more
<1>7. DOMAIN calls' # {} /\ OfProducts(more) /\ ui' \in SearchUi
  BY <1>1, <1>2, <1>3, <1>4, <1>5 DEF OfProducts
<1> QED BY <1>3, <1>5, <1>6, <1>7, SearchGoes

LEMMA SearchInit ==
    ASSUME Search!Init
    PROVE  Search!IInv
<1>1. /\ calls = << >> /\ db \in Search!Found
      /\ ui = [query |-> None, debounce |-> TRUE, status |-> "ready", results |-> {}]
  BY DEF Search!Init
<1>2. ui \in SearchUi /\ calls \in Seq(Search!SearchCall) /\ DOMAIN calls = {}
  BY <1>1 DEF SearchUi, Search!Query
<1> QED BY <1>1, <1>2 DEF Search!IInv, Search!TypeOK, SearchUi

LEMMA SearchNext ==
    ASSUME Search!IInv, Search!Next
    PROVE  Search!IInv'
BY SearchTyped, SearchAsked, SearchEnded, SearchServed DEF Search!Next

-----------------------------------------------------------------------------
(* The screens.                                                            *)

LEMMA InitIInv ==
    ASSUME Init
    PROVE  IInv
BY DashInit, SalesInit, UsersInit, ResetInit, SettingsInit, CatInit, SearchInit, FormInit DEF Init, IInv

LEMMA NextIInv ==
    ASSUME IInv, Next
    PROVE  IInv'
<1>1. page' = page
  BY DEF Next
<1>2. CASE page = "dashboard"
  BY <1>1, <1>2, DashNext DEF Next, IInv
<1>3. CASE page = "ventas"
  BY <1>1, <1>3, SalesNext DEF Next, IInv
<1>4. CASE page = "usuarios"
  BY <1>1, <1>4, UsersNext DEF Next, IInv
<1>5. CASE page = "clave"
  BY <1>1, <1>5, ResetNext DEF Next, IInv
<1>6. CASE page = "configuracion"
  BY <1>1, <1>6, SettingsNext DEF Next, IInv
<1>7. CASE page = "catalogo"
  BY <1>1, <1>7, CatNext DEF Next, IInv
<1>8. CASE page = "busqueda"
  BY <1>1, <1>8, SearchNext DEF Next, IInv
<1>9. CASE page = "venta"
  BY <1>1, <1>9, FormNext DEF Next, IInv
<1> QED BY <1>2, <1>3, <1>4, <1>5, <1>6, <1>7, <1>8, <1>9 DEF IInv

\* Nothing happens, in any of them.
LEMMA StutterIInv ==
    ASSUME IInv, UNCHANGED vars
    PROVE  IInv'
<1>1. UNCHANGED << ui, db, calls, behind, page >>
  BY DEF vars
<1>2. Dashboard!IInv => Dashboard!IInv'
  <2>1. Dashboard!TypeOK' <=> Dashboard!TypeOK
    BY <1>1 DEF Dashboard!TypeOK, Dashboard!Doing
  <2>2. Dashboard!NoticeIsOfTarget' <=> Dashboard!NoticeIsOfTarget
    BY <1>1 DEF Dashboard!NoticeIsOfTarget
  <2> QED BY <1>1, <2>1, <2>2 DEF Dashboard!IInv, Dashboard!CallOK
<1>3. SalesDashboard!DialogOK => SalesDashboard!DialogOK'
  <2>1. SalesDashboard!NoticeIsOfTarget' <=> SalesDashboard!NoticeIsOfTarget
    BY <1>1 DEF SalesDashboard!NoticeIsOfTarget
  <2>2. SalesDashboard!Doing("void")' = SalesDashboard!Doing("void")
    BY <1>1 DEF SalesDashboard!Doing
  <2> QED BY <1>1, <2>1, <2>2 DEF SalesDashboard!DialogOK, SalesDashboard!SalesCall
<1>4. Users!IInv => Users!IInv'
  <2>1. Users!TypeOK' <=> Users!TypeOK
    BY <1>1 DEF Users!TypeOK, Users!Doing
  <2>2. Users!ActiveAdmins' = Users!ActiveAdmins
    BY <1>1 DEF Users!ActiveAdmins
  <2> QED BY <1>1, <2>1, <2>2
          DEF Users!IInv, Users!SomeAdminLeft, Users!CallOK, Users!LoadOK, Users!UpdateOK
<1>5. Reset!IInv => Reset!IInv'
  BY <1>1 DEF Reset!IInv, Reset!TypeOK, Reset!Doing, Reset!NoticeIsOfTarget, Reset!DoneIsDone, Reset!Done, Reset!CallOK
<1>6. Settings!IInv => Settings!IInv'
  <2>1. Settings!TypeOK' <=> Settings!TypeOK
    BY <1>1 DEF vars, Settings!TypeOK, Settings!Doing, Settings!LogoCalls, Settings!NameCalls
  <2> QED BY <1>1, <2>1 DEF Settings!IInv, Settings!LogoFileExists, Settings!CallOK
<1>7. Catalog!IInv => Catalog!IInv'
  <2>1. Catalog!TypeOK' <=> Catalog!TypeOK
    BY <1>1 DEF Catalog!TypeOK, Catalog!Doing
  <2> QED BY <1>1, <2>1 DEF Catalog!IInv, Catalog!ScanIsOfPhoto, Catalog!OwnOK
<1>8. Search!IInv => Search!IInv'
  BY <1>1 DEF Search!IInv, Search!TypeOK, Search!Doing
<1>9. Form!IInv => Form!IInv'
  <2>1. Form!TypeOK' <=> Form!TypeOK
    BY <1>1 DEF Form!TypeOK, Form!Doing
  <2> QED BY <1>1, <2>1 DEF Form!IInv, Form!UntouchedPaysTotal, Form!Doing
<1> QED BY <1>1, <1>2, <1>3, <1>4, <1>5, <1>6, <1>7, <1>8, <1>9 DEF IInv

\* Every page keeps to its invariant, whatever order its calls are served and answered in.
THEOREM Invariance == Spec => []IInv
<1>1. Init => IInv
  BY InitIInv
<1>2. IInv /\ [Next]_vars => IInv'
  BY NextIInv, StutterIInv
<1> QED BY <1>1, <1>2, PTL DEF Spec

\* AdminUsersPage.tsx and users_admin.py: demoting and deactivating users leaves an administrator,
\* however many users there are, but for updates that overlap.
THEOREM SomeAdministratorIsLeft == Spec => []SomeAdminLeft
<1>1. IInv => SomeAdminLeft
  BY DEF IInv, SomeAdminLeft, Users!IInv
<1> QED BY <1>1, Invariance, PTL

\* settings_admin.py: the logo that is stored can be fetched, whoever uploads and deletes at the
\* same time and whatever requests fail.
THEOREM LogoCanBeFetched == Spec => []LogoFileExists
<1>1. IInv => LogoFileExists
  BY DEF IInv, LogoFileExists, Settings!IInv
<1> QED BY <1>1, Invariance, PTL

\* DeleteProductModal.tsx, VoidSaleModal.tsx, ResetPasswordModal.tsx, PublicScanModal.tsx: what a
\* dialog says is of what it was opened for, unless the answer came late.
THEOREM DialogsAreOfTheirRow == Spec => []DialogsNameTheirRow
<1>1. /\ Dashboard!NoticeIsOfTarget <=> NoticeIsOfTarget
      /\ SalesDashboard!NoticeIsOfTarget <=> NoticeIsOfTarget
      /\ Reset!NoticeIsOfTarget <=> NoticeIsOfTarget
  BY DEF Dashboard!NoticeIsOfTarget, SalesDashboard!NoticeIsOfTarget, Reset!NoticeIsOfTarget, NoticeIsOfTarget
<1>2. IInv => DialogsNameTheirRow
  BY <1>1 DEF IInv, DialogsNameTheirRow, Dashboard!IInv, SalesDashboard!DialogOK, Reset!IInv, Catalog!IInv
<1> QED BY <1>2, Invariance, PTL

\* SaleScreen.tsx: the effect that fills in the only payment keeps it at the total, however
\* the cart and the discount change, until it is typed over; while the total is 0 it leaves
\* the amount that it filled in last.
THEOREM UntouchedPaymentIsTotal == Spec => []UntouchedPaysTotal
<1>1. IInv => UntouchedPaysTotal
  BY DEF IInv, UntouchedPaysTotal, Form!IInv
<1> QED BY <1>1, Invariance, PTL
===============================================================================
