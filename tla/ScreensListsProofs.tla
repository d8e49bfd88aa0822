--------------------------- MODULE ScreensListsProofs ---------------------------
(***************************************************************************)
(* Proofs about what the pages of Screens show, for any number of rows and *)
(* of calls under way: in whatever order the calls are served and answered,*)
(* when they have ended a page shows what is stored.                       *)
(***************************************************************************)
EXTENDS ScreensProofs

(* Which loads of a page are up to date.  L are its loads, F those that    *)
(* are of no harm: not answered yet, overtaken, or answered with what is   *)
(* stored; and C are the changes after which it will load again.           *)

Some(cs, X) == \E k \in DOMAIN cs : cs[k] \in X
Later(cs, j, L) == \E k \in DOMAIN cs : k > j /\ cs[k] \in L
Fresh(cs, L, F) == \A j \in DOMAIN cs : cs[j] \in L => cs[j] \in F \/ Later(cs, j, L)

\* Whether a call has been overtaken does not matter to L and C, and does no harm.
Kind(X, S) == \A c \in S : c \in X <=> [c EXCEPT !.old = TRUE] \in X
Ageless(X, S) == \A c \in S : c \in X => [c EXCEPT !.old = TRUE] \in X

\* Of no harm are the loads that were overtaken, and those that are not answered.
Harmless(F, L, S) ==
    \A c \in S : c \in L => /\ [c EXCEPT !.old = TRUE] \in F
                            /\ c.state = "sent" /\ c.data = None => c \in F

\* A call ends and others are made: the rest are in the same order.
LEMMA DropKeeps ==
    ASSUME NEW S, NEW cs \in Seq(S), NEW old \in Seq(S), NEW more \in Seq(S),
           NEW i \in DOMAIN cs, AsBefore(old, cs, i), NEW L, Kind(L, S)
    PROVE  /\ \A X : Ageless(X, S) /\ (\E k \in DOMAIN cs \ {i} : cs[k] \in X) => Some(RemoveAt(old, i) \o more, X)
           /\ \A X : Some(more, X) => Some(RemoveAt(old, i) \o more, X)
           /\ \A F : /\ \A k \in DOMAIN more : more[k] \in L => more[k] \in F
                     /\ \A k \in DOMAIN cs \ {i} : cs[k] \in L =>
                          \/ old[k] \in F \/ Some(more, L)
                          \/ \E l \in DOMAIN cs \ {i} : l > k /\ cs[l] \in L
                     => Fresh(RemoveAt(old, i) \o more, L, F)
<1> DEFINE r == RemoveAt(old, i)
           new == r \o more
           n == Len(cs)
           at(k) == IF k < i THEN k ELSE k - 1
<1>1. /\ DOMAIN cs = 1 .. n /\ DOMAIN old = 1 .. n /\ n \in Nat /\ n > 0 /\ i \in 1 .. n
      /\ DOMAIN more = 1 .. Len(more) /\ Len(more) \in Nat /\ \A k \in DOMAIN cs : cs[k] \in S
      /\ i \in DOMAIN old /\ Len(old) = n
  BY LenProperties, ElementOfSeq DEF AsBefore
<1>2. /\ r \in Seq(S) /\ Len(r) = n - 1
      /\ \A j \in 1 .. (n - 1) : r[j] = IF j < i THEN old[j] ELSE old[j + 1]
  BY <1>1, RemoveAtIs
<1> HIDE DEF r
<1>3. /\ new \in Seq(S) /\ Len(new) = Len(r) + Len(more)
      /\ \A j \in 1 .. Len(r) + Len(more) : new[j] = IF j <= Len(r) THEN r[j] ELSE more[j - Len(r)]
  BY <1>2, ConcatProperties
<1>4. /\ DOMAIN new = 1 .. ((n - 1) + Len(more))
      /\ \A j \in 1 .. ((n - 1) + Len(more)) :
           new[j] = IF j <= n - 1 THEN IF j < i THEN old[j] ELSE old[j + 1] ELSE more[j - (n - 1)]
  BY <1>1, <1>2, <1>3, LenProperties
<1> HIDE DEF new
<1>5. ASSUME NEW k \in DOMAIN cs \ {i}
      PROVE  at(k) \in DOMAIN new /\ at(k) \in 1 .. (n - 1) /\ new[at(k)] = old[k]
  BY <1>1, <1>4
<1>6. ASSUME NEW k \in DOMAIN more
      PROVE  (n - 1) + k \in DOMAIN new /\ new[(n - 1) + k] = more[k]
  BY <1>1, <1>4
<1>7. ASSUME NEW j \in DOMAIN new
      PROVE  \/ \E k \in DOMAIN cs \ {i} : j = at(k) /\ new[j] = old[k]
             \/ \E k \in DOMAIN more : j = (n - 1) + k /\ new[j] = more[k]
  <2>1. CASE j < i
    <3>1. j \in DOMAIN cs \ {i} /\ j = at(j)
      BY <1>1, <1>4, <2>1
    <3> QED BY <1>5, <3>1
  <2>2. CASE j >= i /\ j <= n - 1
    <3>1. j + 1 \in DOMAIN cs \ {i} /\ j = at(j + 1)
      BY <1>1, <1>4, <2>2
    <3> QED BY <1>5, <3>1
  <2>3. CASE j > n - 1
    <3>1. j - (n - 1) \in DOMAIN more /\ j = (n - 1) + (j - (n - 1))
      BY <1>1, <1>4, <2>3
    <3> QED BY <1>6, <3>1
  <2> QED BY <1>1, <1>4, <2>1, <2>2, <2>3
<1>8. \A k, l \in DOMAIN cs \ {i} : l > k => at(l) > at(k)
  BY <1>1
<1>9. /\ \A k \in DOMAIN cs \ {i} : at(k) \in 1 .. (n - 1)
      /\ \A k \in DOMAIN more : (n - 1) + k > n - 1
  BY <1>1, <1>5
<1>10. \A k \in DOMAIN cs \ {i} : \A X : Ageless(X, S) /\ cs[k] \in X => old[k] \in X
  BY <1>1 DEF AsBefore, Same, Ageless
<1>11. \A k \in DOMAIN cs \ {i} : cs[k] \in L <=> old[k] \in L
  BY <1>1 DEF AsBefore, Same, Kind
<1>12. /\ \A k \in DOMAIN cs \ {i} : at(k) \in DOMAIN new /\ new[at(k)] = old[k]
       /\ \A k \in DOMAIN more : (n - 1) + k \in DOMAIN new /\ new[(n - 1) + k] = more[k]
  BY <1>5, <1>6
<1>13. DOMAIN new \subseteq Nat /\ \A k \in DOMAIN cs \ {i} : at(k) \in Nat
  BY <1>1, <1>4, <1>9
<1> HIDE DEF at
<1>14. \A X : Ageless(X, S) /\ (\E k \in DOMAIN cs \ {i} : cs[k] \in X) => Some(new, X)
  BY <1>10, <1>12 DEF Some
<1>15. \A X : Some(more, X) => Some(new, X)
  BY <1>12 DEF Some
<1>16. ASSUME NEW F, \A k \in DOMAIN more : more[k] \in L => more[k] \in F,
              \A k \in DOMAIN cs \ {i} : cs[k] \in L =>
                  \/ old[k] \in F \/ Some(more, L)
                  \/ \E l \in DOMAIN cs \ {i} : l > k /\ cs[l] \in L
       PROVE  Fresh(new, L, F)
  <2> SUFFICES ASSUME NEW j \in DOMAIN new, new[j] \in L, new[j] \notin F
               PROVE  Later(new, j, L)
    BY DEF Fresh
  <2>1. PICK k \in DOMAIN cs \ {i} : j = at(k) /\ new[j] = old[k]
    BY <1>7, <1>16
  <2>2. Some(more, L) \/ \E l \in DOMAIN cs \ {i} : l > k /\ cs[l] \in L
    BY <1>11, <1>16, <2>1
  <2>3. CASE Some(more, L)
    <3>1. PICK l \in DOMAIN more : more[l] \in L
      BY <2>3 DEF Some
    <3>2. (n - 1) + l > j
      BY <1>1, <1>9, <2>1, <3>1
    <3> QED BY <1>12, <3>1, <3>2 DEF Later
  <2>4. CASE \E l \in DOMAIN cs \ {i} : l > k /\ cs[l] \in L
    BY <1>8, <1>11, <1>12, <2>1, <2>4 DEF Later
  <2> QED BY <2>2, <2>3, <2>4
<1> QED BY <1>14, <1>15, <1>16 DEF new, r

\* Calls are made, after the others.
LEMMA AppendKeeps ==
    ASSUME NEW S, NEW cs \in Seq(S), NEW more \in Seq(S), NEW L
    PROVE  /\ \A X : Some(cs, X) \/ Some(more, X) => Some(cs \o more, X)
           /\ \A F : /\ \A k \in DOMAIN more : more[k] \in L => more[k] \in F
                     /\ Fresh(cs, L, F) \/ Some(more, L)
                     => Fresh(cs \o more, L, F)
<1> DEFINE new == cs \o more
           n == Len(cs)
<1>1. /\ new \in Seq(S) /\ DOMAIN new = 1 .. n + Len(more)
      /\ DOMAIN cs = 1 .. n /\ DOMAIN more = 1 .. Len(more) /\ n \in Nat /\ Len(more) \in Nat
      /\ \A j \in 1 .. n + Len(more) : new[j] = IF j <= n THEN cs[j] ELSE more[j - n]
  BY ConcatProperties, LenProperties
<1> HIDE DEF new
<1>2. /\ \A k \in DOMAIN cs : k \in DOMAIN new /\ new[k] = cs[k]
      /\ \A k \in DOMAIN more : n + k \in DOMAIN new /\ new[n + k] = more[k]
      /\ \A j \in DOMAIN new : j \notin DOMAIN cs => j - n \in DOMAIN more /\ new[j] = more[j - n]
      /\ \A j \in DOMAIN cs, k \in DOMAIN more : n + k > j
  BY <1>1
<1>3. \A X : Some(cs, X) \/ Some(more, X) => Some(new, X)
  BY <1>2 DEF Some
<1>4. ASSUME NEW F, \A k \in DOMAIN more : more[k] \in L => more[k] \in F,
             Fresh(cs, L, F) \/ Some(more, L)
      PROVE  Fresh(new, L, F)
  <2> SUFFICES ASSUME NEW j \in DOMAIN new, new[j] \in L, new[j] \notin F
               PROVE  Later(new, j, L)
    BY DEF Fresh
  <2>1. j \in DOMAIN cs /\ new[j] = cs[j]
    BY <1>2, <1>4
  <2> QED BY <1>2, <1>4, <2>1 DEF Fresh, Later, Some
<1> QED BY <1>3, <1>4 DEF new

\* A call goes on where it is, and the others may be overtaken.
LEMMA InPlaceKeeps ==
    ASSUME NEW S, NEW cs \in Seq(S), NEW new \in Seq(S), NEW i, AsBefore(new, cs, i), NEW L, Kind(L, S),
           i \in DOMAIN cs => (cs[i] \in L <=> new[i] \in L)
    PROVE  /\ \A X : Ageless(X, S) /\ Some(cs, X) /\ (i \in DOMAIN cs /\ cs[i] \in X => new[i] \in X) => Some(new, X)
           /\ \A F : /\ Ageless(F, S) /\ Fresh(cs, L, F)
                     /\ i \in DOMAIN cs /\ cs[i] \in F => new[i] \in F
                     => Fresh(new, L, F)
<1>1. DOMAIN new = DOMAIN cs /\ \A k \in DOMAIN cs : cs[k] \in S
  BY LenProperties, ElementOfSeq DEF AsBefore
<1>2. \A k \in DOMAIN cs \ {i} : \A X : Ageless(X, S) /\ cs[k] \in X => new[k] \in X
  BY <1>1 DEF AsBefore, Same, Ageless
<1>3. \A k \in DOMAIN cs : cs[k] \in L <=> new[k] \in L
  BY <1>1 DEF AsBefore, Same, Kind
<1>4. \A X : Ageless(X, S) /\ Some(cs, X) /\ (i \in DOMAIN cs /\ cs[i] \in X => new[i] \in X) => Some(new, X)
  BY <1>1, <1>2 DEF Some
<1>5. ASSUME NEW F, Ageless(F, S), Fresh(cs, L, F), i \in DOMAIN cs /\ cs[i] \in F => new[i] \in F
      PROVE  Fresh(new, L, F)
  <2>1. \A k \in DOMAIN cs : cs[k] \in F => new[k] \in F
    BY <1>2, <1>5
  <2>2. \A k \in DOMAIN cs : Later(cs, k, L) => Later(new, k, L)
    BY <1>1, <1>3 DEF Later
  <2> QED BY <1>1, <1>3, <1>5, <2>1, <2>2 DEF Fresh
<1> QED BY <1>4, <1>5

(* The handlers of the pages.                                              *)

LEMMA EmptyMore ==
    ASSUME NEW S, NEW cs \in Seq(S)
    PROVE  /\ << >> \in Seq(S) /\ DOMAIN << >> = {} /\ \A X : ~Some(<< >>, X)
           /\ cs \o << >> = cs
<1>1. << >> \in Seq(S) /\ DOMAIN << >> = {}
  BY EmptySeq
<1>2. cs \o << >> = cs
  BY ConcatEmptySeq
<1> QED BY <1>1, <1>2 DEF Some

LEMMA SingleMore ==
    ASSUME NEW S, NEW c \in S
    PROVE  /\ << c >> \in Seq(S) /\ DOMAIN << c >> = {1} /\ << c >>[1] = c
           /\ \A X : Some(<< c >>, X) <=> c \in X
<1>1. << c >> \in Seq(S) /\ DOMAIN << c >> = {1} /\ << c >>[1] = c
  OBVIOUS
<1> QED BY <1>1 DEF Some

\* A handler goes on after its call: if that was a load, those it has overtaken do no harm.
LEMMA EndedKeeps ==
    ASSUME NEW S, CanBeOld(S), calls \in Seq(S), NEW more \in Seq(S), NEW i \in DOMAIN calls,
           NEW L, Kind(L, S)
    PROVE  /\ \A X : Ageless(X, S) /\ Some(calls, X) /\ calls[i] \notin X => Some(Ended(i, more), X)
           /\ \A X : Some(more, X) => Some(Ended(i, more), X)
           /\ Later(calls, i, L) => Some(Ended(i, more), L)
           /\ \A F : /\ Harmless(F, L, S) /\ \A k \in DOMAIN more : more[k] \in L => more[k] \in F
                     /\ \/ Some(more, L)
                        \/ /\ Fresh(calls, L, F)
                           /\ calls[i] \in L => \A k \in DOMAIN calls : calls[k] \in L => calls[k].op = calls[i].op
                     => Fresh(Ended(i, more), L, F)
<1> DEFINE J == {j \in Doing(calls[i].op) \cap Answered : j < i}
           o == Outdated(calls, J)
<1>1. /\ o \in Seq(S) /\ AsBefore(o, calls, i)
      /\ \A j \in DOMAIN calls : o[j] = IF j \in J THEN [calls[j] EXCEPT !.old = TRUE] ELSE calls[j]
  BY OutdatedIs, Overtaken
<1>2. Ended(i, more) = RemoveAt(o, i) \o more
  BY DEF Ended
<1>3. /\ \A j \in DOMAIN calls : calls[j] \in S
      /\ DOMAIN calls = 1 .. Len(calls) /\ Len(calls) \in Nat
  BY ElementOfSeq, LenProperties
<1>4. ASSUME NEW j \in DOMAIN calls, calls[j].op = calls[i].op, j < i,
             calls[j].state # "sent" \/ calls[j].data # None
      PROVE  j \in J
  <2>1. j \in Doing(calls[i].op)
    BY <1>4 DEF Doing
  <2>2. j \in Answered
    BY <1>4 DEF Answered
  <2>3. j \in Doing(calls[i].op) /\ j \in Answered /\ j < i => j \in J
    OBVIOUS
  <2> HIDE DEF o, J
  <2> QED BY <1>4, <2>1, <2>2, <2>3
<1> HIDE DEF o, J
<1>5. /\ \A X : Ageless(X, S) /\ (\E k \in DOMAIN calls \ {i} : calls[k] \in X) => Some(Ended(i, more), X)
      /\ \A X : Some(more, X) => Some(Ended(i, more), X)
      /\ \A F : /\ \A k \in DOMAIN more : more[k] \in L => more[k] \in F
                /\ \A k \in DOMAIN calls \ {i} : calls[k] \in L =>
                     \/ o[k] \in F \/ Some(more, L)
                     \/ \E l \in DOMAIN calls \ {i} : l > k /\ calls[l] \in L
                => Fresh(Ended(i, more), L, F)
  BY <1>1, <1>2, DropKeeps
<1>6. \A X : Ageless(X, S) /\ Some(calls, X) /\ calls[i] \notin X => Some(Ended(i, more), X)
  BY <1>5 DEF Some
<1>7. Later(calls, i, L) => Some(Ended(i, more), L)
  <2>1. Ageless(L, S)
    BY DEF Kind, Ageless
  <2> QED BY <1>3, <1>5, <2>1 DEF Later
<1>8. ASSUME NEW F, Harmless(F, L, S), \A k \in DOMAIN more : more[k] \in L => more[k] \in F,
             \/ Some(more, L)
             \/ /\ Fresh(calls, L, F)
                /\ calls[i] \in L => \A k \in DOMAIN calls : calls[k] \in L => calls[k].op = calls[i].op
      PROVE  Fresh(Ended(i, more), L, F)
  <2>1. ASSUME NEW k \in DOMAIN calls \ {i}, calls[k] \in L, ~Some(more, L),
               \A l \in DOMAIN calls \ {i} : ~(l > k /\ calls[l] \in L)
        PROVE  o[k] \in F
    <3>1. calls[k] \in F => o[k] \in F
      BY <1>1, <1>3, <1>8, <2>1 DEF Harmless
    <3>2. CASE Later(calls, k, L)
      <4>1. i > k /\ calls[i] \in L
        BY <2>1, <3>2 DEF Later
      <4>2. calls[k].op = calls[i].op
        BY <1>8, <2>1, <4>1
      <4>3. k \in J \/ (calls[k].state = "sent" /\ calls[k].data = None)
        BY <1>3, <1>4, <4>1, <4>2
      <4> QED BY <1>1, <1>3, <1>8, <2>1, <3>1, <4>3 DEF Harmless
    <3> QED BY <1>8, <2>1, <3>1, <3>2 DEF Fresh
  <2> QED BY <1>5, <1>8, <2>1
<1> QED BY <1>5, <1>6, <1>7, <1>8

\* A call that was not a load throws: if the rows were changed, no answer does harm.
LEMMA ThrewKeeps ==
    ASSUME NEW S, CanBeOld(S), calls \in Seq(S), NEW i \in DOMAIN calls, ThrowUnheard(i),
           NEW L, Kind(L, S), calls[i] \notin L
    PROVE  /\ \A X : Ageless(X, S) /\ Some(calls, X) /\ calls[i] \notin X => Some(calls', X)
           /\ \A F : Harmless(F, L, S) /\ (WasServed(i) \/ Fresh(calls, L, F)) => Fresh(calls', L, F)
<1> DEFINE o == IF WasServed(i) THEN Outdated(calls, Answered) ELSE calls
<1>1. /\ o \in Seq(S) /\ AsBefore(o, calls, i)
      /\ \A j \in DOMAIN calls :
           o[j] = IF WasServed(i) /\ j \in Answered THEN [calls[j] EXCEPT !.old = TRUE] ELSE calls[j]
  BY OutdatedIs, Overtaken
<1>2. calls' = RemoveAt(o, i)
  BY DEF ThrowUnheard
<1>3. /\ \A j \in DOMAIN calls : calls[j] \in S
      /\ DOMAIN calls = 1 .. Len(calls) /\ Len(calls) \in Nat
  BY ElementOfSeq, LenProperties
<1>4. \A j \in DOMAIN calls : j \in Answered <=> (calls[j].state # "sent" \/ calls[j].data # None)
  BY DEF Answered
<1> HIDE DEF o
<1> DEFINE more == << >>
<1>5. /\ more \in Seq(S) /\ DOMAIN more = {} /\ \A X : ~Some(more, X)
      /\ RemoveAt(o, i) \o more = RemoveAt(o, i)
  <2>1. i \in DOMAIN o
    BY <1>1, LenProperties DEF AsBefore
  <2>2. RemoveAt(o, i) \in Seq(S)
    BY <1>1, <2>1, RemoveAtIs
  <2> QED BY <2>2, EmptyMore
<1> HIDE DEF more
<1>6. /\ \A X : Ageless(X, S) /\ (\E k \in DOMAIN calls \ {i} : calls[k] \in X) => Some(RemoveAt(o, i) \o more, X)
      /\ \A F : /\ \A k \in DOMAIN more : more[k] \in L => more[k] \in F
                /\ \A k \in DOMAIN calls \ {i} : calls[k] \in L =>
                     \/ o[k] \in F \/ Some(more, L)
                     \/ \E l \in DOMAIN calls \ {i} : l > k /\ calls[l] \in L
                => Fresh(RemoveAt(o, i) \o more, L, F)
  BY <1>1, <1>5, DropKeeps
<1>7. \A X : Ageless(X, S) /\ Some(calls, X) /\ calls[i] \notin X => Some(calls', X)
  BY <1>2, <1>5, <1>6 DEF Some
<1>8. ASSUME NEW F, Harmless(F, L, S), WasServed(i) \/ Fresh(calls, L, F)
      PROVE  Fresh(calls', L, F)
  <2>1. ASSUME NEW k \in DOMAIN calls \ {i}, calls[k] \in L
        PROVE  o[k] \in F \/ \E l \in DOMAIN calls \ {i} : l > k /\ calls[l] \in L
    <3>1. CASE WasServed(i)
      <4>1. k \in Answered \/ (calls[k].state = "sent" /\ calls[k].data = None)
        BY <1>3, <1>4
      <4> QED BY <1>1, <1>3, <1>8, <2>1, <3>1, <4>1 DEF Harmless
    <3>2. CASE ~WasServed(i)
      BY <1>1, <1>8, <2>1, <3>2 DEF Fresh, Later
    <3> QED BY <3>1, <3>2
  <2> QED BY <1>2, <1>5, <1>6, <2>1
<1> QED BY <1>7, <1>8

\* The rows are changed where the page does not hear of it: what was answered is overtaken.
LEMMA BehindKeeps ==
    ASSUME NEW S, CanBeOld(S), calls \in Seq(S), NEW done \in Seq(S), DOMAIN done = DOMAIN calls, NEW L,
           \A j \in DOMAIN calls : done[j] \in L => done[j] = calls[j]
    PROVE  /\ \A X : Ageless(X, S) /\ Some(done, X) => Some(Outdated(done, Answered), X)
           /\ \A F : Harmless(F, L, S) /\ Kind(L, S) => Fresh(Outdated(done, Answered), L, F)
<1>1. /\ DOMAIN Outdated(done, Answered) = DOMAIN calls
      /\ \A j \in DOMAIN calls :
           Outdated(done, Answered)[j] = IF j \in Answered THEN [done[j] EXCEPT !.old = TRUE] ELSE done[j]
  BY OutdatedIs
<1>2. \A j \in DOMAIN calls : done[j] \in S
  BY ElementOfSeq, LenProperties
<1>3. \A j \in DOMAIN calls : j \in Answered <=> (calls[j].state # "sent" \/ calls[j].data # None)
  BY DEF Answered
<1>4. \A X : Ageless(X, S) /\ Some(done, X) => Some(Outdated(done, Answered), X)
  BY <1>1, <1>2 DEF Ageless, Some
<1>5. ASSUME NEW F, Harmless(F, L, S), Kind(L, S), NEW j \in DOMAIN calls, Outdated(done, Answered)[j] \in L
      PROVE  Outdated(done, Answered)[j] \in F
  <2>1. done[j] \in L
    BY <1>1, <1>2, <1>5 DEF Kind
  <2> QED BY <1>1, <1>2, <1>3, <1>5, <2>1 DEF Harmless
<1> QED BY <1>1, <1>4, <1>5 DEF Fresh

-----------------------------------------------------------------------------
(* The list of products: a deleted or restored product is listed again,    *)
(* and until then its answer is what the list waits for.                   *)

DashL == {c \in DashCalls : c.op = "load"}
DashC == {c \in DashCalls : c.op \in {"delete", "restore"} /\ c.state = "ok"}
DashF == {c \in DashCalls : c.state = "ok" /\ ~c.old => c.data = Dashboard!Listed(c.arg)}
DashShown ==
    ui.status = "ready" /\ ~behind => ui.products = Dashboard!Listed(ui.includeInactive)
DashListed ==
    Some(calls, DashC) \/ (Fresh(calls, DashL, DashF) /\ (Some(calls, DashL) \/ DashShown))

LEMMA DashKinds ==
    /\ Kind(DashL, DashCalls) /\ Ageless(DashL, DashCalls) /\ Ageless(DashC, DashCalls)
    /\ Harmless(DashF, DashL, DashCalls) /\ Harmless(DashF', DashL, DashCalls)
    /\ Ageless(DashF, DashCalls)
<1>1. \A c \in DashCalls :
         LET d == [c EXCEPT !.old = TRUE] IN
         d \in DashCalls /\ d.op = c.op /\ d.state = c.state /\ d.old = TRUE
  BY DashCallsCanBeOld DEF CanBeOld
<1>2. Kind(DashL, DashCalls) /\ Ageless(DashL, DashCalls) /\ Ageless(DashC, DashCalls)
  BY <1>1 DEF Kind, Ageless, DashL, DashC
<1>3. Harmless(DashF, DashL, DashCalls) /\ Ageless(DashF, DashCalls)
  BY <1>1 DEF Harmless, Ageless, DashF
<1>4. Harmless(DashF', DashL, DashCalls)
  BY <1>1 DEF Harmless, DashF
<1> QED BY <1>2, <1>3, <1>4

LEMMA DashListHas ==
    ASSUME Dashboard!IInv, Dashboard!ListIInv
    PROVE  DashListed
<1>1. \A k \in DOMAIN calls : calls[k] \in DashCalls
  BY DashHas
<1>2. DOMAIN calls \subseteq Nat
  BY DashHas, LenProperties
<1>3. (\E k \in DOMAIN calls : calls[k] \in DashC) <=> Dashboard!Unheard({"delete", "restore"}) # {}
  BY <1>1 DEF DashC, Dashboard!Unheard
<1>4. \A j \in DOMAIN calls : calls[j] \in DashL <=> j \in Dashboard!Doing("load")
  BY <1>1 DEF DashL, Dashboard!Doing
<1>5. \A j \in DOMAIN calls :
         calls[j] \in DashL => Later(calls, j, DashL) \/ j \in Dashboard!Latest(Dashboard!Doing("load"))
  BY <1>2, <1>4 DEF Later, Dashboard!Latest, Dashboard!Doing
<1>6. CASE Dashboard!Unheard({"delete", "restore"}) = {}
  <2>1. Fresh(calls, DashL, DashF)
    BY <1>1, <1>5, <1>6 DEF Fresh, DashF, Dashboard!ListIInv
  <2>2. Some(calls, DashL) \/ DashShown
    BY <1>4, <1>6 DEF Some, DashShown, Dashboard!ListIInv, Dashboard!Doing
  <2> QED BY <2>1, <2>2 DEF DashListed
<1> QED BY <1>3, <1>6 DEF DashListed, Some

LEMMA DashListStep ==
    ASSUME Dashboard!IInv', DashListed'
    PROVE  Dashboard!ListIInv'
<1>1. calls' \in Seq(DashCalls)
  BY DEF Dashboard!IInv, DashCalls
<1>2. DOMAIN calls' \subseteq Nat /\ \A k \in DOMAIN calls' : calls'[k] \in DashCalls
  BY <1>1, LenProperties, ElementOfSeq
<1>3. Some(calls', DashC) => Dashboard!Unheard({"delete", "restore"})' # {}
  BY DEF DashC, Dashboard!Unheard, Some
<1>4. /\ \A j \in Dashboard!Doing("load")' : j \in DOMAIN calls' /\ calls'[j] \in DashL
      /\ \A j \in DOMAIN calls' : calls'[j] \in DashL => j \in Dashboard!Doing("load")'
  BY <1>2 DEF DashL, Dashboard!Doing
<1>5. \A j \in Dashboard!Latest(Dashboard!Doing("load"))' :
         j \in Dashboard!Doing("load")' /\ ~Later(calls', j, DashL)
  BY <1>2, <1>4 DEF Later, Dashboard!Latest
<1>6. CASE Fresh(calls', DashL, DashF') /\ (Some(calls', DashL) \/ DashShown')
  <2>1. \A j \in Dashboard!Latest(Dashboard!Doing("load"))' : calls'[j] \in DashF'
    BY <1>4, <1>5, <1>6 DEF Fresh
  <2>2. (\A j \in Dashboard!Latest(Dashboard!Doing("load")) :
            calls[j].state = "ok" /\ ~calls[j].old => calls[j].data = Dashboard!Listed(calls[j].arg))'
    BY <2>1 DEF DashF
  <2>3. (Dashboard!Doing("load") = {} /\ ui.status = "ready" /\ ~behind =>
            ui.products = Dashboard!Listed(ui.includeInactive))'
    BY <1>4, <1>6 DEF Some, DashShown
  <2> QED BY <2>2, <2>3 DEF Dashboard!ListIInv
<1>7. CASE Some(calls', DashC)
  BY <1>3, <1>7 DEF Dashboard!ListIInv
<1> QED BY <1>6, <1>7 DEF DashListed, Some, DashC, DashL

LEMMA DashSame ==
    ASSUME UNCHANGED db
    PROVE  DashF' = DashF
BY DEF DashF, Dashboard!Listed

\* A call is made.
LEMMA DashMade ==
    ASSUME Dashboard!IInv, DashListed, NEW c \in DashCalls, calls' = calls \o << c >>, UNCHANGED db,
           c.state = "sent", c.op = "load" \/ (DashShown => DashShown')
    PROVE  DashListed'
<1> DEFINE more == << c >>
<1>1. calls \in Seq(DashCalls) /\ more \in Seq(DashCalls) /\ DOMAIN more = {1} /\ more[1] = c
      /\ \A X : Some(more, X) <=> c \in X
  BY DashHas, SingleMore
<1>2. calls' = calls \o more
  OBVIOUS
<1> HIDE DEF more
<1>3. /\ \A X : Some(calls, X) \/ Some(more, X) => Some(calls', X)
      /\ \A F : /\ \A k \in DOMAIN more : more[k] \in DashL => more[k] \in F
                /\ Fresh(calls, DashL, F) \/ Some(more, DashL)
                => Fresh(calls', DashL, F)
  BY <1>1, <1>2, AppendKeeps
<1>4. c \in DashF /\ (c.op = "load" => c \in DashL) /\ DashF' = DashF
  BY DashSame DEF DashF, DashL
<1>5. Fresh(calls, DashL, DashF) => Fresh(calls', DashL, DashF)
  BY <1>1, <1>3, <1>4
<1> QED BY <1>1, <1>3, <1>4, <1>5 DEF DashListed, DashC, DashL

\* The calls go on where they are, but that i may be answered.
LEMMA DashInPlace ==
    ASSUME Dashboard!IInv, DashListed, calls' \in Seq(DashCalls), NEW i, AsBefore(calls', calls, i),
           UNCHANGED db, DashShown => DashShown',
           i \in DOMAIN calls => /\ calls[i].op = calls'[i].op /\ calls[i] \notin DashC
                                 /\ calls'[i] \in DashF
    PROVE  DashListed'
<1>1. /\ calls \in Seq(DashCalls) /\ DOMAIN calls' = DOMAIN calls
      /\ \A k \in DOMAIN calls : calls[k] \in DashCalls /\ calls'[k] \in DashCalls
  BY DashHas, LenProperties, ElementOfSeq DEF AsBefore
<1>2. i \in DOMAIN calls => (calls[i] \in DashL <=> calls'[i] \in DashL)
  BY <1>1 DEF DashL
<1>3. /\ \A X : Ageless(X, DashCalls) /\ Some(calls, X) /\ (i \in DOMAIN calls /\ calls[i] \in X => calls'[i] \in X)
                => Some(calls', X)
      /\ \A F : /\ Ageless(F, DashCalls) /\ Fresh(calls, DashL, F)
                /\ i \in DOMAIN calls /\ calls[i] \in F => calls'[i] \in F
                => Fresh(calls', DashL, F)
  BY <1>1, <1>2, DashKinds, InPlaceKeeps
<1>4. Some(calls, DashC) => Some(calls', DashC)
  BY <1>3, DashKinds
<1>5. Some(calls, DashL) => Some(calls', DashL)
  BY <1>2, <1>3, DashKinds
<1>6. Fresh(calls, DashL, DashF) => Fresh(calls', DashL, DashF)
  BY <1>3, DashKinds
<1> QED BY <1>4, <1>5, <1>6, DashSame DEF DashListed, DashC, DashL

LEMMA DashListClicked ==
    ASSUME Dashboard!IInv, DashListed,
           \/ Dashboard!SetIncludeInactive \/ Dashboard!HandleConfirm \/ Dashboard!CloseDialog("delete")
           \/ \E p \in Product : Dashboard!Eliminar(p) \/ Dashboard!HandleRestore(p)
    PROVE  DashListed'
<1>1. /\ calls \in Seq(DashCalls) /\ ui \in DashUi
  BY DashHas
<1>2. CASE Dashboard!SetIncludeInactive
  <2> DEFINE c == Dashboard!Call("load", ~ui.includeInactive, None)
  <2>1. calls' = calls \o << c >> /\ UNCHANGED db
    BY <1>2 DEF Dashboard!SetIncludeInactive, Dashboard!Start
  <2>2. c \in DashCalls /\ c.state = "sent" /\ c.op = "load"
    BY <1>1 DEF DashUi, DashCalls, Dashboard!LoadCall, Dashboard!Call
  <2> QED BY <2>1, <2>2, DashMade
<1>3. CASE Dashboard!HandleConfirm
  <2> DEFINE c == Dashboard!Call("delete", ui.target, ui.includeInactive)
  <2>1. /\ calls' = calls \o << c >> /\ UNCHANGED << db, behind >> /\ ui.target # None
        /\ ui' = [ui EXCEPT !.submitting = TRUE, !.notice = None]
    BY <1>3 DEF Dashboard!HandleConfirm, Dashboard!Submit, Dashboard!Start
  <2>2. c \in DashCalls /\ c.state = "sent"
    BY <1>1, <2>1 DEF DashUi, DashCalls, Dashboard!ActiveCall, Dashboard!Call
  <2>3. DashShown => DashShown'
    BY <1>1, <2>1 DEF DashShown, DashUi, Dashboard!Listed
  <2> QED BY <2>1, <2>2, <2>3, DashMade
<1>4. CASE Dashboard!CloseDialog("delete")
  <2>1. /\ calls' = Outdated(calls, Doing("delete")) /\ UNCHANGED << db, behind >>
        /\ ui' = [ui EXCEPT !.target = None, !.notice = None]
    BY <1>4, DashOps DEF Dashboard!CloseDialog
  <2>2. calls' \in Seq(DashCalls) /\ AsBefore(calls', calls, 0) /\ 0 \notin DOMAIN calls
    BY <1>1, <2>1, OutdatedIs, Overtaken, DashCallsCanBeOld, LenProperties
  <2>3. DashShown => DashShown'
    BY <1>1, <2>1 DEF DashShown, DashUi, Dashboard!Listed
  <2> QED BY <2>1, <2>2, <2>3, DashInPlace
<1>5. ASSUME NEW p \in Product, Dashboard!Eliminar(p)
      PROVE  DashListed'
  <2>1. /\ UNCHANGED << db, calls, behind >> /\ ui' = [ui EXCEPT !.target = p, !.notice = None]
    BY <1>5 DEF Dashboard!Eliminar, Dashboard!Opened
  <2>2. calls' \in Seq(DashCalls) /\ AsBefore(calls', calls, 0) /\ 0 \notin DOMAIN calls
    BY <1>1, <2>1, LenProperties DEF AsBefore, Same
  <2>3. DashShown => DashShown'
    BY <1>1, <2>1 DEF DashShown, DashUi, Dashboard!Listed
  <2> QED BY <2>1, <2>2, <2>3, DashInPlace
<1>6. ASSUME NEW p \in Product, Dashboard!HandleRestore(p)
      PROVE  DashListed'
  <2> DEFINE c == Dashboard!Call("restore", p, ui.includeInactive)
  <2>1. calls' = calls \o << c >> /\ UNCHANGED << ui, db, behind >>
    BY <1>6 DEF Dashboard!HandleRestore, Dashboard!Start
  <2>2. c \in DashCalls /\ c.state = "sent"
    BY <1>1 DEF DashUi, DashCalls, Dashboard!ActiveCall, Dashboard!Call
  <2>3. DashShown => DashShown'
    BY <2>1 DEF DashShown, Dashboard!Listed
  <2> QED BY <2>1, <2>2, <2>3, DashMade
<1> QED BY <1>2, <1>3, <1>4, <1>5, <1>6

LEMMA DashListLoadEnded ==
    ASSUME Dashboard!IInv, DashListed, NEW i \in DOMAIN calls,
           Dashboard!LoadReturned(i) \/ Dashboard!LoadThrew(i)
    PROVE  DashListed'
<1> DEFINE more == << >>
<1>1. /\ calls \in Seq(DashCalls) /\ calls[i] \in DashCalls /\ ui \in DashUi
      /\ more \in Seq(DashCalls) /\ DOMAIN more = {}
  BY DashHas, EmptyMore
<1>2. calls' = Ended(i, more) /\ UNCHANGED db /\ calls[i].op = "load"
  BY DashOps DEF Dashboard!LoadReturned, Dashboard!LoadThrew, Dashboard!Returned, Dashboard!Threw, Dashboard!Doing
<1> HIDE DEF more
<1>3. calls[i] \in DashL /\ calls[i] \notin DashC /\ \A c \in DashL : c.op = calls[i].op
  BY <1>1, <1>2 DEF DashL, DashC
<1>4. /\ \A X : Ageless(X, DashCalls) /\ Some(calls, X) /\ calls[i] \notin X => Some(calls', X)
      /\ Later(calls, i, DashL) => Some(calls', DashL)
      /\ Fresh(calls, DashL, DashF) => Fresh(calls', DashL, DashF)
  BY <1>1, <1>2, <1>3, DashCallsCanBeOld, DashKinds, EndedKeeps
<1>5. Some(calls, DashC) => Some(calls', DashC)
  BY <1>3, <1>4, DashKinds
<1>6. ASSUME Fresh(calls, DashL, DashF), ~Some(calls', DashL)
      PROVE  DashShown'
  <2>1. calls[i] \in DashF
    BY <1>3, <1>4, <1>6 DEF Fresh
  <2>2. CASE Dashboard!LoadThrew(i)
    BY <1>1, <2>2 DEF Dashboard!LoadThrew, DashShown, DashUi
  <2>3. CASE Dashboard!LoadReturned(i)
    <3>1. /\ ui' = [ui EXCEPT !.products = calls[i].data, !.status = "ready"]
          /\ behind' = (calls[i].old \/ calls[i].arg # ui.includeInactive)
          /\ calls[i].state = "ok"
      BY <2>3 DEF Dashboard!LoadReturned, Dashboard!Returned
    <3>2. ~behind' => calls[i].data = Dashboard!Listed(calls[i].arg) /\ calls[i].arg = ui.includeInactive
      BY <2>1, <3>1 DEF DashF
    <3>3. ui'.products = calls[i].data /\ ui'.includeInactive = ui.includeInactive
      BY <1>1, <3>1 DEF DashUi
    <3> QED BY <1>2, <3>2, <3>3 DEF DashShown, Dashboard!Listed
  <2> QED BY <2>2, <2>3
<1> QED BY <1>2, <1>4, <1>5, <1>6, DashSame DEF DashListed, DashC, DashL

LEMMA DashListLoadsAgain ==
    ASSUME Dashboard!IInv, NEW i \in DOMAIN calls,
           Dashboard!DeleteReturned(i) \/ Dashboard!RestoreReturned(i)
    PROVE  DashListed'
<1> DEFINE c == Dashboard!Call("load", calls[i].then, None)
           more == << c >>
<1>1. calls \in Seq(DashCalls) /\ calls[i] \in DashCalls
  BY DashHas
<1>2. calls' = Ended(i, more) /\ UNCHANGED db /\ calls[i].op \in {"delete", "restore"}
  BY DashOps DEF Dashboard!DeleteReturned, Dashboard!RestoreReturned, Dashboard!Returned, Dashboard!Doing
<1>3. c \in DashCalls /\ c.op = "load" /\ c.state = "sent"
  <2>1. calls[i] \in Dashboard!ActiveCall
    BY <1>1, <1>2 DEF DashCalls, Dashboard!LoadCall
  <2> QED BY <2>1 DEF DashCalls, Dashboard!LoadCall, Dashboard!ActiveCall, Dashboard!Call
<1> HIDE DEF c
<1>4. more \in Seq(DashCalls) /\ DOMAIN more = {1} /\ more[1] = c /\ \A X : Some(more, X) <=> c \in X
  BY <1>3, SingleMore
<1>5. c \in DashL /\ c \in DashF
  BY <1>3 DEF DashL, DashF
<1> HIDE DEF more
<1>6. Some(calls', DashL) /\ Fresh(calls', DashL, DashF)
  BY <1>1, <1>2, <1>4, <1>5, DashCallsCanBeOld, DashKinds, EndedKeeps
<1> QED BY <1>2, <1>6, DashSame DEF DashListed, DashC, DashL

LEMMA DashListThrew ==
    ASSUME Dashboard!IInv, DashListed, NEW i \in DOMAIN calls,
           Dashboard!DeleteThrew(i) \/ Dashboard!RestoreThrew(i)
    PROVE  DashListed'
<1>1. calls \in Seq(DashCalls) /\ calls[i] \in DashCalls /\ ui \in DashUi
  BY DashHas
<1>2. ThrowUnheard(i) /\ UNCHANGED db /\ calls[i].op \in {"delete", "restore"}
  BY DashOps DEF Dashboard!DeleteThrew, Dashboard!RestoreThrew, Dashboard!Threw, Dashboard!Doing
<1>3. calls[i] \notin DashL /\ (calls[i] \in DashC <=> WasServed(i))
  BY <1>1, <1>2 DEF DashL, DashC, WasServed
<1>4. /\ \A X : Ageless(X, DashCalls) /\ Some(calls, X) /\ calls[i] \notin X => Some(calls', X)
      /\ WasServed(i) \/ Fresh(calls, DashL, DashF) => Fresh(calls', DashL, DashF)
  BY <1>1, <1>2, <1>3, DashCallsCanBeOld, DashKinds, ThrewKeeps
<1>5. /\ ui'.status = ui.status /\ ui'.products = ui.products /\ ui'.includeInactive = ui.includeInactive
      /\ behind' = (behind \/ WasServed(i))
  <2>1. behind' = (behind \/ WasServed(i))
    BY <1>2 DEF ThrowUnheard
  <2>2. CASE Dashboard!DeleteThrew(i)
    <3> DEFINE notice == IF ui.target = None THEN None
                         ELSE [what |-> "error", of |-> calls[i].arg, late |-> calls[i].old]
    <3>1. ui' = [ui EXCEPT !.submitting = FALSE, !.notice = notice]
      BY <2>2 DEF Dashboard!DeleteThrew, Dashboard!Noticed
    <3> HIDE DEF notice
    <3> QED BY <1>1, <2>1, <3>1 DEF DashUi
  <2>3. CASE Dashboard!RestoreThrew(i)
    BY <2>1, <2>3 DEF Dashboard!RestoreThrew
  <2> QED BY <2>2, <2>3
<1>6. DashShown => DashShown'
  BY <1>2, <1>5 DEF DashShown, Dashboard!Listed
<1>7. WasServed(i) => DashShown'
  BY <1>5 DEF DashShown
<1>8. ~WasServed(i) /\ Some(calls, DashC) => Some(calls', DashC)
  BY <1>3, <1>4, DashKinds
<1>9. Some(calls, DashL) => Some(calls', DashL)
  BY <1>3, <1>4, DashKinds
<1> QED BY <1>2, <1>4, <1>6, <1>7, <1>8, <1>9, DashSame DEF DashListed, DashC, DashL

LEMMA DashListServed ==
    ASSUME Dashboard!IInv, Dashboard!IInv', DashListed, NEW i \in DOMAIN calls,
           \/ Dashboard!ServeList(i) \/ Dashboard!RefuseRestore(i)
           \/ Dashboard!ServeActive(i, "delete") \/ Dashboard!ServeActive(i, "restore")
    PROVE  DashListed'
<1>1. calls \in Seq(DashCalls) /\ calls[i] \in DashCalls /\ DOMAIN calls[i] = CallFields /\ calls[i].state = "sent"
  BY DashHas, DashCallsCanBeOld
     DEF CanBeOld, CallFields, Dashboard!ServeList, Dashboard!RefuseRestore, Dashboard!ServeActive, Dashboard!Asked
<1>2. calls' \in Seq(DashCalls)
  BY DEF Dashboard!IInv, DashCalls
<1>3. ASSUME NEW c, calls' = [calls EXCEPT ![i] = c]
      PROVE  AsBefore(calls', calls, i) /\ i \in DOMAIN calls' /\ calls'[i] = c /\ c \in DashCalls
  <2>1. i \in DOMAIN calls' /\ calls'[i] = c /\ \A j \in DOMAIN calls \ {i} : calls'[j] = calls[j]
    BY <1>1, <1>3
  <2>2. Len(calls') = Len(calls)
    BY <1>1, <1>2, <1>3, LenProperties
  <2>3. c \in DashCalls
    BY <1>2, <2>1, ElementOfSeq, LenProperties
  <2> QED BY <2>1, <2>2, <2>3 DEF AsBefore, Same
<1>4. CASE Dashboard!ServeList(i)
  <2> DEFINE c == [[calls[i] EXCEPT !.state = "ok"] EXCEPT !.data = Dashboard!Listed(calls[i].arg)]
  <2>1. calls' = [calls EXCEPT ![i] = c] /\ UNCHANGED << ui, db, behind >>
    BY <1>4 DEF Dashboard!ServeList, Dashboard!Reply
  <2>2. c.op = calls[i].op /\ c.data = Dashboard!Listed(c.arg)
    BY <1>1 DEF CallFields
  <2> HIDE DEF c
  <2>3. c \in DashF /\ calls[i] \notin DashC
    BY <1>1, <1>3, <2>1, <2>2 DEF DashF, DashC
  <2>4. DashShown => DashShown'
    BY <2>1 DEF DashShown, Dashboard!Listed
  <2> QED BY <1>2, <1>3, <2>1, <2>2, <2>3, <2>4, DashInPlace
<1>5. CASE Dashboard!RefuseRestore(i)
  <2> DEFINE c == [calls[i] EXCEPT !.state = "error"]
  <2>1. calls' = [calls EXCEPT ![i] = c] /\ UNCHANGED << ui, db, behind >>
    BY <1>5 DEF Dashboard!RefuseRestore, Dashboard!Refusal
  <2>2. c.op = calls[i].op /\ c.state = "error"
    BY <1>1 DEF CallFields
  <2> HIDE DEF c
  <2>3. c \in DashF /\ calls[i] \notin DashC
    BY <1>1, <1>3, <2>1, <2>2 DEF DashF, DashC
  <2>4. DashShown => DashShown'
    BY <2>1 DEF DashShown, Dashboard!Listed
  <2> QED BY <1>2, <1>3, <2>1, <2>2, <2>3, <2>4, DashInPlace
<1>6. ASSUME NEW op \in {"delete", "restore"}, Dashboard!ServeActive(i, op)
      PROVE  DashListed'
  <2> DEFINE c == [[calls[i] EXCEPT !.state = "ok"] EXCEPT !.data = None]
  <2>1. calls' = [calls EXCEPT ![i] = c] /\ calls[i].op = op
    BY <1>6 DEF Dashboard!ServeActive, Dashboard!Reply, Dashboard!Asked, Dashboard!Doing
  <2>2. c.op = op /\ c.state = "ok"
    BY <1>1, <2>1 DEF CallFields
  <2> HIDE DEF c
  <2>3. c \in DashC
    BY <1>3, <2>1, <2>2 DEF DashC
  <2> QED BY <1>3, <2>1, <2>3 DEF DashListed, Some, DashC, DashL
<1> QED BY <1>4, <1>5, <1>6

LEMMA DashListOther ==
    ASSUME Dashboard!IInv, DashListed, NEW p \in Product, Dashboard!OtherAdmin(p)
    PROVE  DashListed'
<1>1. calls \in Seq(DashCalls) /\ ui \in DashUi
  BY DashHas
<1>2. calls' = Outdated(calls, Answered) /\ UNCHANGED ui /\ behind' = TRUE
  BY DashOps DEF Dashboard!OtherAdmin, Dashboard!RowsChangeBehind
<1>3. Fresh(calls', DashL, DashF')
  BY <1>1, <1>2, DashCallsCanBeOld, DashKinds, BehindKeeps
<1> QED BY <1>2, <1>3 DEF DashListed, DashShown, DashC, DashL

LEMMA DashListInit ==
    ASSUME Dashboard!Init
    PROVE  Dashboard!ListIInv
<1> DEFINE c == Dashboard!Call("load", FALSE, None)
<1>1. calls = << c >> /\ c.op = "load" /\ c.state = "sent"
  BY DEF Dashboard!Init, Dashboard!Call
<1> HIDE DEF c
<1>2. DOMAIN calls = {1} /\ calls[1] = c
  BY <1>1
<1>3. Dashboard!Doing("load") = {1} /\ \A j \in Dashboard!Latest(Dashboard!Doing("load")) : j = 1
  BY <1>1, <1>2 DEF Dashboard!Doing, Dashboard!Latest
<1> QED BY <1>1, <1>2, <1>3 DEF Dashboard!ListIInv

LEMMA DashListNext ==
    ASSUME Dashboard!IInv, Dashboard!IInv', Dashboard!ListIInv, Dashboard!Next
    PROVE  Dashboard!ListIInv'
<1>1. DashListed
  BY DashListHas
<1>2. DashListed'
  BY <1>1, DashListClicked, DashListLoadEnded, DashListLoadsAgain, DashListThrew, DashListServed, DashListOther
     DEF Dashboard!Next
<1> QED BY <1>2, DashListStep

\* The list is what is stored when its calls have ended, and a card counts the rows that its
\* click would leave: without the deleted products every row that is listed is active.
LEMMA DashShows ==
    ASSUME Dashboard!ListIInv
    PROVE  Dashboard!ShowsStored
<1> SUFFICES ASSUME calls = << >>, ui.status = "ready", ~behind
             PROVE  /\ ui.products = Dashboard!Listed(ui.includeInactive)
                    /\ ~ui.includeInactive =>
                         /\ Dashboard!StatLowStock = Dashboard!Cardinality(Dashboard!Visible("bajo"))
                         /\ Dashboard!StatOutOfStock = Dashboard!Cardinality(Dashboard!Visible("agotado"))
  BY DEF Dashboard!ShowsStored, Dashboard!Quiet
<1>1. DOMAIN calls = {}
  OBVIOUS
<1>2. ui.products = Dashboard!Listed(ui.includeInactive)
  BY <1>1 DEF Dashboard!ListIInv, Dashboard!Unheard, Dashboard!Doing
<1>3. ASSUME ~ui.includeInactive
      PROVE  \A p \in DOMAIN ui.products : ui.products[p].active
  BY <1>2, <1>3 DEF Dashboard!Listed
<1>4. ASSUME ~ui.includeInactive
      PROVE  /\ {p \in DOMAIN ui.products : ui.products[p].active /\ Dashboard!Low(ui.products[p])}
                  = Dashboard!Visible("bajo")
             /\ {p \in DOMAIN ui.products : ui.products[p].active /\ Dashboard!Out(ui.products[p])}
                  = Dashboard!Visible("agotado")
  BY <1>3, <1>4 DEF Dashboard!Visible
<1> QED BY <1>2, <1>4 DEF Dashboard!StatLowStock, Dashboard!StatOutOfStock

-----------------------------------------------------------------------------
(* The list of users.                                                      *)

\* A call leaves, and nothing comes in its place.
LEMMA RemovedKeeps ==
    ASSUME NEW S, CanBeOld(S), calls \in Seq(S), NEW old \in Seq(S), NEW i \in DOMAIN calls,
           AsBefore(old, calls, i), NEW L, Kind(L, S)
    PROVE  /\ \A X : Ageless(X, S) /\ (\E k \in DOMAIN calls \ {i} : calls[k] \in X) => Some(RemoveAt(old, i), X)
           /\ \A F : (\A k \in DOMAIN calls \ {i} : calls[k] \in L =>
                         old[k] \in F \/ \E l \in DOMAIN calls \ {i} : l > k /\ calls[l] \in L)
                     => Fresh(RemoveAt(old, i), L, F)
<1> DEFINE more == << >>
<1>1. /\ more \in Seq(S) /\ DOMAIN more = {} /\ \A X : ~Some(more, X)
      /\ RemoveAt(old, i) \o more = RemoveAt(old, i)
  <2>1. i \in DOMAIN old
    BY LenProperties DEF AsBefore
  <2>2. RemoveAt(old, i) \in Seq(S)
    BY <2>1, RemoveAtIs
  <2> QED BY <2>2, EmptyMore
<1> HIDE DEF more
<1>2. /\ \A X : Ageless(X, S) /\ (\E k \in DOMAIN calls \ {i} : calls[k] \in X) => Some(RemoveAt(old, i) \o more, X)
      /\ \A F : /\ \A k \in DOMAIN more : more[k] \in L => more[k] \in F
                /\ \A k \in DOMAIN calls \ {i} : calls[k] \in L =>
                     \/ old[k] \in F \/ Some(more, L)
                     \/ \E l \in DOMAIN calls \ {i} : l > k /\ calls[l] \in L
                => Fresh(RemoveAt(old, i) \o more, L, F)
  BY <1>1, DropKeeps
<1> QED BY <1>1, <1>2

UsersL == {c \in UserCalls : c.op = "load"}
UsersC == {c \in UserCalls : c.op = "update" /\ c.state = "ok"}
UsersF == {c \in UserCalls : c.state = "ok" /\ ~c.old => c.data = db.user}
UsersShown == ui.status = "ready" /\ ~behind => ui.users = db.user
UsersListed ==
    Some(calls, UsersC) \/ (Fresh(calls, UsersL, UsersF) /\ (Some(calls, UsersL) \/ UsersShown))

LEMMA UsersKinds ==
    /\ Kind(UsersL, UserCalls) /\ Ageless(UsersL, UserCalls) /\ Ageless(UsersC, UserCalls)
    /\ Harmless(UsersF, UsersL, UserCalls) /\ Harmless(UsersF', UsersL, UserCalls)
    /\ Ageless(UsersF, UserCalls)
<1>1. \A c \in UserCalls :
         LET d == [c EXCEPT !.old = TRUE] IN
         d \in UserCalls /\ d.op = c.op /\ d.state = c.state /\ d.old = TRUE
  BY UserCallsCanBeOld DEF CanBeOld
<1>2. Kind(UsersL, UserCalls) /\ Ageless(UsersL, UserCalls) /\ Ageless(UsersC, UserCalls)
  BY <1>1 DEF Kind, Ageless, UsersL, UsersC
<1>3. Harmless(UsersF, UsersL, UserCalls) /\ Ageless(UsersF, UserCalls)
  BY <1>1 DEF Harmless, Ageless, UsersF
<1>4. Harmless(UsersF', UsersL, UserCalls)
  BY <1>1 DEF Harmless, UsersF
<1> QED BY <1>2, <1>3, <1>4

LEMMA UsersHas ==
    ASSUME Users!IInv
    PROVE  /\ calls \in Seq(UserCalls) /\ \A k \in DOMAIN calls : calls[k] \in UserCalls
           /\ DOMAIN calls \subseteq Nat /\ 0 \notin DOMAIN calls
           /\ ui \in [status : {"loading", "ready", "error"}, users : {None} \cup [User -> Users!UserRow]]
<1>1. calls \in Seq(UserCalls)
  BY DEF Users!IInv, UserCalls
<1>2. (\A k \in DOMAIN calls : calls[k] \in UserCalls) /\ DOMAIN calls \subseteq Nat /\ 0 \notin DOMAIN calls
  BY <1>1, ElementOfSeq, LenProperties
<1> QED BY <1>1, <1>2 DEF Users!IInv

LEMMA UsersListHas ==
    ASSUME Users!IInv, Users!ListIInv
    PROVE  UsersListed
<1>1. (\A k \in DOMAIN calls : calls[k] \in UserCalls) /\ DOMAIN calls \subseteq Nat
  BY UsersHas
<1>2. (\E k \in DOMAIN calls : calls[k] \in UsersC) <=> Users!Unheard({"update"}) # {}
  BY <1>1 DEF UsersC, Users!Unheard
<1>3. \A j \in DOMAIN calls : calls[j] \in UsersL <=> j \in Users!Doing("load")
  BY <1>1 DEF UsersL, Users!Doing
<1>4. \A j \in DOMAIN calls :
         calls[j] \in UsersL => Later(calls, j, UsersL) \/ j \in Users!Latest(Users!Doing("load"))
  BY <1>1, <1>3 DEF Later, Users!Latest, Users!Doing
<1>5. CASE Users!Unheard({"update"}) = {}
  <2>1. Fresh(calls, UsersL, UsersF)
    BY <1>1, <1>4, <1>5 DEF Fresh, UsersF, Users!ListIInv
  <2>2. Some(calls, UsersL) \/ UsersShown
    BY <1>3, <1>5 DEF Some, UsersShown, Users!ListIInv, Users!Doing
  <2> QED BY <2>1, <2>2 DEF UsersListed
<1> QED BY <1>2, <1>5 DEF UsersListed, Some

LEMMA UsersListStep ==
    ASSUME Users!IInv', UsersListed'
    PROVE  Users!ListIInv'
<1>1. calls' \in Seq(UserCalls)
  BY DEF Users!IInv, UserCalls
<1>2. DOMAIN calls' \subseteq Nat /\ \A k \in DOMAIN calls' : calls'[k] \in UserCalls
  BY <1>1, LenProperties, ElementOfSeq
<1>3. Some(calls', UsersC) => Users!Unheard({"update"})' # {}
  BY DEF UsersC, Users!Unheard, Some
<1>4. /\ \A j \in Users!Doing("load")' : j \in DOMAIN calls' /\ calls'[j] \in UsersL
      /\ \A j \in DOMAIN calls' : calls'[j] \in UsersL => j \in Users!Doing("load")'
  BY <1>2 DEF UsersL, Users!Doing
<1>5. \A j \in Users!Latest(Users!Doing("load"))' :
         j \in Users!Doing("load")' /\ ~Later(calls', j, UsersL)
  BY <1>2, <1>4 DEF Later, Users!Latest
<1>6. CASE Fresh(calls', UsersL, UsersF') /\ (Some(calls', UsersL) \/ UsersShown')
  <2>1. \A j \in Users!Latest(Users!Doing("load"))' : calls'[j] \in UsersF'
    BY <1>4, <1>5, <1>6 DEF Fresh
  <2>2. (\A j \in Users!Latest(Users!Doing("load")) :
            calls[j].state = "ok" /\ ~calls[j].old => calls[j].data = db.user)'
    BY <2>1 DEF UsersF
  <2>3. (Users!Doing("load") = {} /\ ui.status = "ready" /\ ~behind => ui.users = db.user)'
    BY <1>4, <1>6 DEF Some, UsersShown
  <2> QED BY <2>2, <2>3 DEF Users!ListIInv
<1>7. CASE Some(calls', UsersC)
  BY <1>3, <1>7 DEF Users!ListIInv
<1> QED BY <1>6, <1>7 DEF UsersListed, Some, UsersC, UsersL

LEMMA UsersSame ==
    ASSUME db'.user = db.user
    PROVE  UsersF' = UsersF /\ (ui' = ui /\ behind' = behind => UsersShown' = UsersShown)
BY DEF UsersF, UsersShown

\* The calls go on where they are, but that i may be answered.
LEMMA UsersInPlace ==
    ASSUME Users!IInv, UsersListed, calls' \in Seq(UserCalls), NEW i \in DOMAIN calls, AsBefore(calls', calls, i),
           db'.user = db.user, UNCHANGED << ui, behind >>,
           calls[i].op = calls'[i].op, calls[i] \notin UsersC, calls'[i] \in UsersF
    PROVE  UsersListed'
<1>1. /\ calls \in Seq(UserCalls) /\ DOMAIN calls' = DOMAIN calls
      /\ \A k \in DOMAIN calls : calls[k] \in UserCalls /\ calls'[k] \in UserCalls
  BY UsersHas, LenProperties, ElementOfSeq DEF AsBefore
<1>2. calls[i] \in UsersL <=> calls'[i] \in UsersL
  BY <1>1 DEF UsersL
<1>3. /\ \A X : Ageless(X, UserCalls) /\ Some(calls, X) /\ (i \in DOMAIN calls /\ calls[i] \in X => calls'[i] \in X)
                => Some(calls', X)
      /\ \A F : /\ Ageless(F, UserCalls) /\ Fresh(calls, UsersL, F)
                /\ i \in DOMAIN calls /\ calls[i] \in F => calls'[i] \in F
                => Fresh(calls', UsersL, F)
  BY <1>1, <1>2, UsersKinds, InPlaceKeeps
<1>4. Some(calls, UsersC) => Some(calls', UsersC)
  BY <1>3, UsersKinds
<1>5. Some(calls, UsersL) => Some(calls', UsersL)
  BY <1>2, <1>3, UsersKinds
<1>6. Fresh(calls, UsersL, UsersF) => Fresh(calls', UsersL, UsersF)
  BY <1>3, UsersKinds
<1> QED BY <1>4, <1>5, <1>6, UsersSame DEF UsersListed, UsersC, UsersL

LEMMA UsersListAsked ==
    ASSUME Users!IInv, Users!IInv', UsersListed, NEW u \in User,
           \/ Users!HandleRoleChange(u) \/ Users!HandleToggleActive(u)
           \/ \E a \in User \ {Me}, change \in Users!Change : Users!RequestElsewhere(a, u, change)
    PROVE  UsersListed'
<1>1. PICK c : calls' = calls \o << c >> /\ UNCHANGED << ui, db, behind >> /\ c.op # "load"
  <2>1. PICK op \in {"update", "elsewhere"}, by \in User,
             change \in Users!Change \cup {[is_active |-> ~ui.users[u].is_active]} :
           /\ Users!Start(<< Users!Call(op, [of |-> u, by |-> by, change |-> change], None) >>)
           /\ UNCHANGED << ui, db, behind >>
    <3>1. \A role \in Users!Role : [role |-> role] \in Users!Change
      BY DEF Users!Change
    <3> QED BY <3>1, ScreensAssumption
            DEF Users!HandleRoleChange, Users!HandleToggleActive, Users!PutUser, Users!RequestElsewhere
  <2> DEFINE d == Users!Call(op, [of |-> u, by |-> by, change |-> change], None)
  <2>2. d.op # "load" /\ calls' = calls \o << d >>
    BY <2>1 DEF Users!Start, Users!Call
  <2> QED BY <2>1, <2>2
<1>2. calls \in Seq(UserCalls) /\ calls' \in Seq(UserCalls)
  BY DEF Users!IInv, UserCalls
<1> DEFINE more == << c >>
<1>3. more \in Seq(UserCalls) /\ DOMAIN more = {1} /\ more[1] = c
  <2>1. Len(calls) + 1 \in DOMAIN calls' /\ calls'[Len(calls) + 1] = c
    BY <1>1, <1>2
  <2>2. c \in UserCalls
    BY <1>2, <2>1, ElementOfSeq, LenProperties
  <2> QED BY <2>2, SingleMore
<1>4. calls' = calls \o more
  BY <1>1
<1> HIDE DEF more
<1>5. /\ \A X : Some(calls, X) \/ Some(more, X) => Some(calls', X)
      /\ \A F : /\ \A k \in DOMAIN more : more[k] \in UsersL => more[k] \in F
                /\ Fresh(calls, UsersL, F) \/ Some(more, UsersL)
                => Fresh(calls', UsersL, F)
  BY <1>2, <1>3, <1>4, UsersKinds, AppendKeeps
<1>6. c \notin UsersL /\ UsersF' = UsersF /\ UsersShown' = UsersShown
  BY <1>1, UsersSame DEF UsersL
<1> QED BY <1>3, <1>5, <1>6 DEF UsersListed, UsersC, UsersL

LEMMA UsersListLoadEnded ==
    ASSUME Users!IInv, UsersListed, NEW i \in DOMAIN calls, Users!LoadReturned(i) \/ Users!LoadThrew(i)
    PROVE  UsersListed'
<1> DEFINE more == << >>
<1>1. /\ calls \in Seq(UserCalls) /\ calls[i] \in UserCalls /\ more \in Seq(UserCalls) /\ DOMAIN more = {}
      /\ ui \in [status : {"loading", "ready", "error"}, users : {None} \cup [User -> Users!UserRow]]
  BY UsersHas, EmptyMore
<1>2. calls' = Ended(i, more) /\ UNCHANGED db /\ calls[i].op = "load"
  BY UsersOps DEF Users!LoadReturned, Users!LoadThrew, Users!Returned, Users!Threw, Users!Doing
<1> HIDE DEF more
<1>3. calls[i] \in UsersL /\ calls[i] \notin UsersC /\ \A c \in UsersL : c.op = calls[i].op
  BY <1>1, <1>2 DEF UsersL, UsersC
<1>4. /\ \A X : Ageless(X, UserCalls) /\ Some(calls, X) /\ calls[i] \notin X => Some(calls', X)
      /\ Later(calls, i, UsersL) => Some(calls', UsersL)
      /\ Fresh(calls, UsersL, UsersF) => Fresh(calls', UsersL, UsersF)
  BY <1>1, <1>2, <1>3, UserCallsCanBeOld, UsersKinds, EndedKeeps
<1>5. Some(calls, UsersC) => Some(calls', UsersC)
  BY <1>3, <1>4, UsersKinds
<1>6. ASSUME Fresh(calls, UsersL, UsersF), ~Some(calls', UsersL)
      PROVE  UsersShown'
  <2>1. calls[i] \in UsersF
    BY <1>3, <1>4, <1>6 DEF Fresh
  <2>2. CASE Users!LoadThrew(i)
    BY <1>1, <2>2 DEF Users!LoadThrew, UsersShown
  <2>3. CASE Users!LoadReturned(i)
    <3>1. /\ ui' = [ui EXCEPT !.users = calls[i].data, !.status = "ready"]
          /\ behind' = calls[i].old /\ calls[i].state = "ok"
      BY <2>3 DEF Users!LoadReturned, Users!Returned
    <3>2. ~behind' => calls[i].data = db.user
      BY <2>1, <3>1 DEF UsersF
    <3>3. ui'.users = calls[i].data
      BY <1>1, <3>1
    <3> QED BY <1>2, <3>2, <3>3 DEF UsersShown
  <2> QED BY <2>2, <2>3
<1> QED BY <1>2, <1>4, <1>5, <1>6, UsersSame DEF UsersListed, UsersC, UsersL

LEMMA UsersListUpdateEnded ==
    ASSUME Users!IInv, UsersListed, NEW i \in DOMAIN calls,
           Users!UpdateReturned(i) \/ Users!UpdateThrew(i) \/ Users!HeardElsewhere(i)
    PROVE  UsersListed'
<1>1. calls \in Seq(UserCalls) /\ calls[i] \in UserCalls
  BY UsersHas
<1>2. CASE Users!UpdateReturned(i)
  <2> DEFINE c == Users!Call("load", None, None)
             more == << c >>
  <2>1. c \in UserCalls /\ c.op = "load" /\ c.state = "sent"
    BY UserLoadCall DEF Users!Call
  <2>2. calls' = Ended(i, more) /\ UNCHANGED db
    BY <1>2, UsersOps DEF Users!UpdateReturned
  <2> HIDE DEF c
  <2>3. more \in Seq(UserCalls) /\ DOMAIN more = {1} /\ more[1] = c /\ \A X : Some(more, X) <=> c \in X
    BY <2>1, SingleMore
  <2>4. c \in UsersL /\ c \in UsersF
    BY <2>1 DEF UsersL, UsersF
  <2> HIDE DEF more
  <2>5. Some(calls', UsersL) /\ Fresh(calls', UsersL, UsersF)
    BY <1>1, <2>2, <2>3, <2>4, UserCallsCanBeOld, UsersKinds, EndedKeeps
  <2> QED BY <2>2, <2>5, UsersSame DEF UsersListed, UsersC, UsersL
<1>3. CASE Users!UpdateThrew(i)
  <2>1. ThrowUnheard(i) /\ UNCHANGED << ui, db >> /\ calls[i].op = "update"
    BY <1>3, UsersOps DEF Users!UpdateThrew, Users!Threw, Users!Doing
  <2>2. calls[i] \notin UsersL /\ (calls[i] \in UsersC <=> WasServed(i)) /\ behind' = (behind \/ WasServed(i))
    BY <1>1, <2>1 DEF UsersL, UsersC, WasServed, ThrowUnheard
  <2>3. /\ \A X : Ageless(X, UserCalls) /\ Some(calls, X) /\ calls[i] \notin X => Some(calls', X)
        /\ WasServed(i) \/ Fresh(calls, UsersL, UsersF) => Fresh(calls', UsersL, UsersF)
    BY <1>1, <2>1, <2>2, UserCallsCanBeOld, UsersKinds, ThrewKeeps
  <2>4. (UsersShown => UsersShown') /\ (WasServed(i) => UsersShown')
    BY <2>1, <2>2 DEF UsersShown
  <2>5. ~WasServed(i) /\ Some(calls, UsersC) => Some(calls', UsersC)
    BY <2>2, <2>3, UsersKinds
  <2>6. Some(calls, UsersL) => Some(calls', UsersL)
    BY <2>2, <2>3, UsersKinds
  <2> QED BY <2>1, <2>3, <2>4, <2>5, <2>6, UsersSame DEF UsersListed, UsersC, UsersL
<1>4. CASE Users!HeardElsewhere(i)
  <2>1. calls' = RemoveAt(calls, i) /\ UNCHANGED << ui, db, behind >> /\ calls[i].op = "elsewhere"
    BY <1>4, UsersOps DEF Users!HeardElsewhere, Doing
  <2>2. calls[i] \notin UsersL /\ calls[i] \notin UsersC
    BY <2>1 DEF UsersL, UsersC
  <2>3. AsBefore(calls, calls, i)
    BY DEF AsBefore, Same
  <2>4. /\ \A X : Ageless(X, UserCalls) /\ (\E k \in DOMAIN calls \ {i} : calls[k] \in X) => Some(calls', X)
        /\ \A F : (\A k \in DOMAIN calls \ {i} : calls[k] \in UsersL =>
                       calls[k] \in F \/ \E l \in DOMAIN calls \ {i} : l > k /\ calls[l] \in UsersL)
                  => Fresh(calls', UsersL, F)
    BY <1>1, <2>1, <2>3, UserCallsCanBeOld, UsersKinds, RemovedKeeps
  <2>5. Fresh(calls, UsersL, UsersF) => Fresh(calls', UsersL, UsersF)
    BY <2>2, <2>4 DEF Fresh, Later
  <2>6. /\ Some(calls, UsersC) => Some(calls', UsersC)
        /\ Some(calls, UsersL) => Some(calls', UsersL)
    BY <2>2, <2>4, UsersKinds DEF Some
  <2> QED BY <2>1, <2>5, <2>6, UsersSame DEF UsersListed, UsersC, UsersL
<1> QED BY <1>2, <1>3, <1>4

LEMMA UsersListServed ==
    ASSUME Users!IInv, Users!IInv', UsersListed, NEW i \in DOMAIN calls,
           Users!ServeList(i) \/ Users!LoadUser(i) \/ Users!AssertWontRemoveLastAdmin(i)
    PROVE  UsersListed'
<1>1. calls \in Seq(UserCalls) /\ calls[i] \in UserCalls /\ DOMAIN calls[i] = CallFields
  BY UsersHas, UserCallsCanBeOld DEF CanBeOld, CallFields
<1>2. calls' \in Seq(UserCalls)
  BY DEF Users!IInv, UserCalls
<1>3. UNCHANGED << ui, db, behind >>
  BY DEF Users!ServeList, Users!LoadUser, Users!AssertWontRemoveLastAdmin
<1>4. ASSUME NEW c, calls' = [calls EXCEPT ![i] = c]
      PROVE  AsBefore(calls', calls, i) /\ calls'[i] = c /\ c \in UserCalls
  <2>1. i \in DOMAIN calls' /\ calls'[i] = c /\ \A j \in DOMAIN calls \ {i} : calls'[j] = calls[j]
    BY <1>1, <1>4
  <2>2. Len(calls') = Len(calls)
    BY <1>1, <1>2, <1>4, LenProperties
  <2>3. c \in UserCalls
    BY <1>2, <2>1, ElementOfSeq, LenProperties
  <2> QED BY <2>1, <2>2, <2>3 DEF AsBefore, Same
<1>5. \E c : /\ calls' = [calls EXCEPT ![i] = c] /\ c.op = calls[i].op
             /\ c.state # "ok" \/ c.data = db.user
  <2> DEFINE ok == [[calls[i] EXCEPT !.state = "ok"] EXCEPT !.data = db.user]
             read == [[calls[i] EXCEPT !.state = "loaded"] EXCEPT !.data = db.user[calls[i].arg.of]]
             counted == [calls[i] EXCEPT !.state = "counted"]
             no == [calls[i] EXCEPT !.state = "error"]
  <2>1. /\ ok.op = calls[i].op /\ read.op = calls[i].op /\ counted.op = calls[i].op /\ no.op = calls[i].op
        /\ ok.data = db.user /\ read.state # "ok" /\ counted.state # "ok" /\ no.state # "ok"
    BY <1>1 DEF CallFields
  <2>2. \/ calls' = [calls EXCEPT ![i] = ok] \/ calls' = [calls EXCEPT ![i] = read]
        \/ calls' = [calls EXCEPT ![i] = counted] \/ calls' = [calls EXCEPT ![i] = no]
    BY DEF Users!ServeList, Users!LoadUser, Users!AssertWontRemoveLastAdmin, Users!Reply, Users!Refusal
  <2> HIDE DEF ok, read, counted, no
  <2> QED BY <2>1, <2>2
<1>6. calls[i].op = calls'[i].op /\ calls'[i] \in UsersF
  BY <1>4, <1>5 DEF UsersF
<1>7. calls[i] \notin UsersC
  BY DEF Users!ServeList, Users!LoadUser, Users!AssertWontRemoveLastAdmin, Users!Asked, UsersC
<1> QED BY <1>2, <1>3, <1>4, <1>5, <1>6, <1>7, UsersInPlace

\* An update of the page is heard of; one of another administrator that changes a row is not.
LEMMA UsersListUpdated ==
    ASSUME Users!IInv, Users!IInv', UsersListed, NEW i \in DOMAIN calls, Users!UpdateUser(i)
    PROVE  UsersListed'
<1> DEFINE u == calls[i].arg.of
           read == calls[i].data
           to == Users!Updated(read, calls[i].arg.change)
           row == db.user[u]
           c == [[calls[i] EXCEPT !.state = "ok"] EXCEPT !.data = None]
           done == [calls EXCEPT ![i] = c]
<1>1. /\ calls \in Seq(UserCalls) /\ calls[i] \in UserCalls /\ calls[i] \in Users!UpdateCall
      /\ calls[i].state = "counted" /\ calls[i].op \in {"update", "elsewhere"} /\ u \in User
  BY UsersHas, UserCallIs DEF Users!UpdateUser, Users!UpdateCall
<1>2. c \in UserCalls /\ c.op = calls[i].op /\ c.state = "ok"
  BY <1>1 DEF UserCalls, Users!UpdateCall
<1>3. /\ db'.user = [db.user EXCEPT ![u] = [f \in DOMAIN row |-> IF to[f] # read[f] THEN to[f] ELSE row[f]]]
      /\ UNCHANGED ui
  BY DEF Users!UpdateUser
<1>4. IF calls[i].op = "update" \/ to = read
      THEN calls' = done /\ UNCHANGED behind
      ELSE calls' = Outdated(done, Answered) /\ behind' = TRUE
  BY UsersOps DEF Users!UpdateUser
<1>5. to = read => db'.user = db.user
  <2>1. db.user \in [User -> Users!UserRow] /\ row \in Users!UserRow
    BY <1>1 DEF Users!IInv
  <2>2. to = read => [f \in DOMAIN row |-> IF to[f] # read[f] THEN to[f] ELSE row[f]] = row
    BY <2>1 DEF Users!UserRow
  <2> QED BY <1>1, <1>3, <2>1, <2>2
<1> HIDE DEF u, read, to, c
<1>6. /\ done \in Seq(UserCalls) /\ AsBefore(done, calls, i) /\ DOMAIN done = DOMAIN calls /\ done[i] = c
      /\ \A j \in DOMAIN calls \ {i} : done[j] = calls[j]
  BY <1>1, <1>2, ExceptSeq, LenProperties DEF AsBefore, Same
<1> HIDE DEF done
<1>7. CASE calls[i].op = "update"
  <2>1. calls' = done /\ c \in UsersC
    BY <1>2, <1>4, <1>7 DEF UsersC
  <2> QED BY <1>6, <2>1 DEF UsersListed, Some, UsersC, UsersL
<1>8. CASE calls[i].op # "update" /\ to = read
  <2>1. /\ calls' = done /\ UNCHANGED behind /\ db'.user = db.user
        /\ calls[i] \notin UsersC /\ calls'[i].op = calls[i].op
    BY <1>2, <1>4, <1>5, <1>6, <1>8 DEF UsersC
  <2>2. Some(calls, UsersC) => Some(calls', UsersC)
    BY <1>6, <2>1 DEF Some
  <2>3. c \notin UsersL /\ calls[i] \notin UsersL
    BY <1>1, <1>2 DEF UsersL
  <2>4. Fresh(calls, UsersL, UsersF) => Fresh(calls', UsersL, UsersF)
    BY <1>6, <2>1, <2>3 DEF Fresh, Later
  <2>5. Some(calls, UsersL) => Some(calls', UsersL)
    BY <1>6, <2>1, <2>3 DEF Some
  <2> QED BY <1>3, <2>1, <2>2, <2>4, <2>5, UsersSame DEF UsersListed, UsersC, UsersL
<1>9. CASE calls[i].op # "update" /\ to # read
  <2>1. calls' = Outdated(done, Answered) /\ behind' = TRUE
    BY <1>4, <1>9
  <2>2. c \notin UsersL
    BY <1>1, <1>2 DEF UsersL
  <2>3. \A j \in DOMAIN calls : done[j] \in UsersL => done[j] = calls[j]
    BY <1>6, <2>2
  <2>4. Fresh(calls', UsersL, UsersF')
    BY <1>1, <1>6, <2>1, <2>3, UserCallsCanBeOld, UsersKinds, BehindKeeps
  <2> QED BY <2>1, <2>4 DEF UsersListed, UsersShown, UsersC, UsersL
<1> QED BY <1>7, <1>8, <1>9

LEMMA UsersListInit ==
    ASSUME Users!Init
    PROVE  Users!ListIInv
<1> DEFINE c == Users!Call("load", None, None)
<1>1. calls = << c >> /\ c.op = "load" /\ c.state = "sent"
  BY DEF Users!Init, Users!Call
<1> HIDE DEF c
<1>2. DOMAIN calls = {1} /\ calls[1] = c
  BY <1>1
<1>3. Users!Doing("load") = {1} /\ \A j \in Users!Latest(Users!Doing("load")) : j = 1
  BY <1>1, <1>2 DEF Users!Doing, Users!Latest
<1> QED BY <1>1, <1>2, <1>3 DEF Users!ListIInv

LEMMA UsersListNext ==
    ASSUME Users!IInv, Users!IInv', Users!ListIInv, Users!Next
    PROVE  Users!ListIInv'
<1>1. UsersListed
  BY UsersListHas
<1>2. UsersListed'
  BY <1>1, UsersListAsked, UsersListLoadEnded, UsersListUpdateEnded, UsersListServed, UsersListUpdated
     DEF Users!Next
<1> QED BY <1>2, UsersListStep

LEMMA UsersShows ==
    ASSUME Users!ListIInv
    PROVE  Users!ShowsStored
<1> SUFFICES ASSUME calls = << >>, ui.status = "ready", ~behind
             PROVE  ui.users = db.user
  BY DEF Users!ShowsStored, Users!Quiet
<1>1. DOMAIN calls = {}
  OBVIOUS
<1> QED BY <1>1 DEF Users!ListIInv, Users!Unheard, Users!Doing

-----------------------------------------------------------------------------
(* What is found: the last search is for what is typed, and those before   *)
(* it are overtaken when it ends.                                          *)

Finds(cs) == \A k \in DOMAIN cs : cs[k].state = "ok" => cs[k].data = db[cs[k].arg]
LastIsTyped == calls # << >> => calls[Len(calls)].old \/ calls[Len(calls)].arg = ui.query
SearchShown == calls = << >> /\ ~behind => ui.results = db[ui.query]
SearchListed == Finds(calls) /\ (~ui.debounce => LastIsTyped /\ SearchShown)

LEMMA SearchListHas ==
    ASSUME Search!IInv, Search!ListIInv
    PROVE  SearchListed
<1>1. calls \in Seq(Search!SearchCall)
  BY SearchHas
<1>2. DOMAIN calls = 1 .. Len(calls) /\ Len(calls) \in Nat /\ (calls # << >> => Len(calls) # 0)
  BY <1>1, LenProperties, EmptySeq
<1>3. calls # << >> => Len(calls) \in Search!Latest(DOMAIN calls)
  BY <1>2 DEF Search!Latest
<1> QED BY <1>3 DEF Search!ListIInv, SearchListed, Finds, LastIsTyped, SearchShown

LEMMA SearchListStep ==
    ASSUME Search!IInv', SearchListed', UNCHANGED db
    PROVE  Search!ListIInv'
<1>1. calls' \in Seq(Search!SearchCall)
  BY DEF Search!IInv
<1>2. DOMAIN calls' = 1 .. Len(calls') /\ Len(calls') \in Nat
  BY <1>1, LenProperties
<1>3. \A j \in Search!Latest(DOMAIN calls)' : j = Len(calls') /\ j \in DOMAIN calls' /\ calls' # << >>
  <2>1. Search!Latest(DOMAIN calls)' = {j \in DOMAIN calls' : \A k \in DOMAIN calls' : k <= j}
    BY DEF Search!Latest
  <2> SUFFICES ASSUME NEW j \in DOMAIN calls', \A k \in DOMAIN calls' : k <= j
               PROVE  j = Len(calls')
    BY <2>1
  <2> QED BY <1>2
<1> QED BY <1>3 DEF Search!ListIInv, SearchListed, Finds, LastIsTyped, SearchShown

LEMMA SearchListPage ==
    ASSUME Search!IInv, SearchListed,
           Search!DebounceEnded \/ \E query \in Search!Query : Search!SetQuery(query)
    PROVE  SearchListed'
<1>1. ui \in SearchUi /\ calls \in Seq(Search!SearchCall)
  BY SearchHas
<1>2. ASSUME NEW query \in Search!Query, Search!SetQuery(query)
      PROVE  SearchListed'
  <2>1. ui'.debounce = TRUE /\ UNCHANGED << db, calls >>
    BY <1>1, <1>2 DEF Search!SetQuery, SearchUi
  <2> QED BY <2>1 DEF SearchListed, Finds
<1>3. CASE Search!DebounceEnded
  <2> DEFINE c == Search!Call("search", ui.query, None)
  <2>1. /\ UNCHANGED db /\ calls' = calls \o << c >>
        /\ ui' = [ui EXCEPT !.debounce = FALSE, !.status = "loading"]
    BY <1>3, SearchOps DEF Search!DebounceEnded, Start
  <2>2. c \in Search!SearchCall /\ c.state = "sent" /\ c.arg = ui.query
    BY <1>1 DEF SearchUi, Search!SearchCall, Search!Call
  <2> HIDE DEF c
  <2>3. ui'.query = ui.query
    BY <1>1, <2>1 DEF SearchUi
  <2> DEFINE more == << c >>
  <2>6. more \in Seq(Search!SearchCall) /\ DOMAIN more = {1} /\ more[1] = c /\ calls' = calls \o more
    BY <2>1, <2>2, SingleMore
  <2> HIDE DEF more
  <2>7. /\ calls' \in Seq(Search!SearchCall) /\ Len(calls') = Len(calls) + 1 /\ Len(calls) \in Nat
        /\ DOMAIN calls' = 1 .. Len(calls) + 1 /\ DOMAIN calls = 1 .. Len(calls)
        /\ \A j \in 1 .. Len(calls) + 1 : calls'[j] = IF j <= Len(calls) THEN calls[j] ELSE c
    <3>1. Len(more) = 1
      BY <2>6, LenProperties
    <3>2. /\ calls' \in Seq(Search!SearchCall) /\ Len(calls') = Len(calls) + 1
          /\ \A j \in 1 .. Len(calls) + 1 : calls'[j] = IF j <= Len(calls) THEN calls[j] ELSE more[j - Len(calls)]
      BY <1>1, <2>6, <3>1, ConcatProperties
    <3>3. DOMAIN calls' = 1 .. Len(calls) + 1 /\ DOMAIN calls = 1 .. Len(calls) /\ Len(calls) \in Nat
      BY <1>1, <3>2, LenProperties
    <3> QED BY <2>6, <3>2, <3>3
  <2>4. /\ calls' # << >> /\ calls'[Len(calls')] = c
        /\ \A k \in DOMAIN calls' : calls'[k] = c \/ (k \in DOMAIN calls /\ calls'[k] = calls[k])
    <3>1. calls' # << >>
      BY <2>7, EmptySeq
    <3>2. calls'[Len(calls')] = c
      BY <2>7
    <3>3. \A k \in DOMAIN calls' : calls'[k] = c \/ (k \in DOMAIN calls /\ calls'[k] = calls[k])
      <4> TAKE k \in DOMAIN calls'
      <4>1. CASE k <= Len(calls)
        BY <2>7, <4>1
      <4>2. CASE ~(k <= Len(calls))
        BY <2>7, <4>2
      <4> QED BY <4>1, <4>2
    <3> QED BY <3>1, <3>2, <3>3
  <2>5. Finds(calls) => Finds(calls)'
    BY <2>1, <2>2, <2>4 DEF Finds
  <2> QED BY <2>2, <2>3, <2>4, <2>5 DEF SearchListed, LastIsTyped, SearchShown
<1> QED BY <1>2, <1>3

LEMMA SearchListEnded ==
    ASSUME Search!IInv, SearchListed, NEW i \in DOMAIN calls,
           Search!SearchReturned(i) \/ Search!SearchThrew(i)
    PROVE  SearchListed'
<1> DEFINE o == Outdated(calls, {j \in DOMAIN calls : j < i})
           n == Len(calls)
<1>1. /\ calls \in Seq(Search!SearchCall) /\ ui \in SearchUi
      /\ \A k \in DOMAIN calls : calls[k] \in Search!SearchCall
      /\ DOMAIN calls = 1 .. n /\ n \in Nat /\ i \in 1 .. n
  BY SearchHas, LenProperties
<1>2. /\ o \in Seq(Search!SearchCall) /\ DOMAIN o = 1 .. n /\ Len(o) = n
      /\ \A j \in 1 .. n : o[j] = IF j < i THEN [calls[j] EXCEPT !.old = TRUE] ELSE calls[j]
  BY <1>1, OutdatedIs, SearchCanBeOld
<1>3. UNCHANGED db /\ calls' = RemoveAt(o, i)
  BY SearchOps DEF Search!SearchReturned, Search!SearchThrew
<1> HIDE DEF o
<1>4. /\ calls' \in Seq(Search!SearchCall) /\ Len(calls') = n - 1 /\ DOMAIN calls' = 1 .. (n - 1)
      /\ \A j \in 1 .. (n - 1) : calls'[j] = IF j < i THEN o[j] ELSE o[j + 1]
  <2>1. i \in DOMAIN o
    BY <1>1, <1>2
  <2> HIDE DEF n
  <2>2. /\ calls' \in Seq(Search!SearchCall) /\ Len(calls') = n - 1
        /\ \A j \in 1 .. (n - 1) : calls'[j] = IF j < i THEN o[j] ELSE o[j + 1]
    BY <1>2, <1>3, <2>1, RemoveAtIs
  <2> QED BY <2>2, LenProperties
<1>5. /\ \A j \in 1 .. (n - 1) : j < i => calls'[j] = [calls[j] EXCEPT !.old = TRUE]
      /\ \A j \in 1 .. (n - 1) : j >= i => calls'[j] = calls[j + 1]
  BY <1>1, <1>2, <1>4
<1>6. Finds(calls)'
  <2> SUFFICES ASSUME NEW j \in 1 .. (n - 1), calls'[j].state = "ok"
               PROVE  calls'[j].data = db[calls'[j].arg]
    BY <1>3, <1>4 DEF Finds
  <2>1. CASE j < i
    <3>1. j \in DOMAIN calls /\ calls[j] \in Search!SearchCall /\ calls'[j] = [calls[j] EXCEPT !.old = TRUE]
      BY <1>1, <1>5, <2>1
    <3>2. calls'[j].state = calls[j].state /\ calls'[j].data = calls[j].data /\ calls'[j].arg = calls[j].arg
      BY <3>1 DEF Search!SearchCall
    <3> QED BY <3>1, <3>2 DEF SearchListed, Finds
  <2>2. CASE j >= i
    <3>1. j + 1 \in DOMAIN calls /\ calls'[j] = calls[j + 1]
      BY <1>1, <1>5, <2>2
    <3> QED BY <3>1 DEF SearchListed, Finds
  <2> QED BY <1>1, <2>1, <2>2
<1>7. ui'.debounce = ui.debounce /\ ui'.query = ui.query
  BY <1>1 DEF Search!SearchReturned, Search!SearchThrew, SearchUi
<1>8. ASSUME ~ui.debounce
      PROVE  LastIsTyped'
  <2> SUFFICES ASSUME calls' # << >>
               PROVE  calls'[n - 1].old \/ calls'[n - 1].arg = ui.query
    BY <1>4, <1>7 DEF LastIsTyped
  <2>1. n - 1 \in 1 .. (n - 1) /\ n \in DOMAIN calls
    BY <1>1, <1>4, EmptySeq
  <2>2. CASE i = n
    <3>1. n - 1 \in 1 .. (n - 1) /\ n - 1 < i /\ n - 1 \in DOMAIN calls
      BY <1>1, <2>1, <2>2
    <3>2. calls'[n - 1] = [calls[n - 1] EXCEPT !.old = TRUE]
      BY <1>5, <3>1
    <3> QED BY <1>1, <3>1, <3>2 DEF Search!SearchCall
  <2>3. CASE i # n
    <3>1. calls'[n - 1] = calls[n] /\ calls # << >>
      BY <1>1, <1>5, <2>1, <2>3
    <3> QED BY <1>8, <3>1 DEF SearchListed, LastIsTyped
  <2> QED BY <2>2, <2>3
<1>9. ASSUME ~ui.debounce, calls' = << >>, ~behind'
      PROVE  ui'.results = db[ui.query]
  <2>1. n = 1 /\ i = n /\ calls # << >>
    <3>1. Len(calls') = 0 /\ calls # << >>
      BY <1>1, <1>9, EmptySeq
    <3>2. n - 1 = 0 /\ n \in Nat /\ i \in 1 .. n
      BY <1>1, <1>4, <3>1
    <3> HIDE DEF n
    <3>3. n = 1 /\ i = n
      BY <3>2
    <3> QED BY <3>1, <3>3
  <2>2. calls[i].old \/ calls[i].arg = ui.query
    BY <1>9, <2>1 DEF SearchListed, LastIsTyped
  <2>3. /\ Search!Returned(i, "search") /\ behind' = calls[i].old
        /\ ui' = [ui EXCEPT !.results = calls[i].data, !.status = "ready"]
    BY <1>9 DEF Search!SearchReturned, Search!SearchThrew
  <2>4. calls[i].data = db[calls[i].arg]
    BY <2>3 DEF Search!Returned, SearchListed, Finds
  <2>5. ui'.results = calls[i].data
    BY <1>1, <2>3 DEF SearchUi
  <2> QED BY <1>9, <2>2, <2>3, <2>4, <2>5
<1> QED BY <1>3, <1>6, <1>7, <1>8, <1>9 DEF SearchListed, SearchShown

LEMMA SearchListServed ==
    ASSUME Search!IInv, SearchListed, NEW i \in DOMAIN calls, Search!ServeSearch(i)
    PROVE  SearchListed'
<1> DEFINE found == db[calls[i].arg]
           c == [[calls[i] EXCEPT !.state = "ok"] EXCEPT !.data = found]
<1>1. calls \in Seq(Search!SearchCall) /\ calls[i] \in Search!SearchCall
  BY SearchHas
<1>2. UNCHANGED << ui, db, behind >> /\ calls' = [calls EXCEPT ![i] = c]
  BY DEF Search!ServeSearch, Search!Reply
<1> HIDE DEF found
<1>3. c.data = found /\ c.arg = calls[i].arg /\ c.old = calls[i].old
  BY <1>1 DEF Search!SearchCall
<1> HIDE DEF c
<1>4. /\ DOMAIN calls' = DOMAIN calls /\ Len(calls') = Len(calls) /\ calls # << >> /\ calls'[i] = c
      /\ \A j \in DOMAIN calls \ {i} : calls'[j] = calls[j]
      /\ calls' # << >> => Len(calls) \in DOMAIN calls
  BY <1>1, <1>2
<1>5. Finds(calls)'
  BY <1>2, <1>3, <1>4 DEF SearchListed, Finds, found
<1>6. LastIsTyped => LastIsTyped'
  BY <1>2, <1>3, <1>4 DEF LastIsTyped
<1>7. calls' # << >>
  BY <1>4
<1> QED BY <1>2, <1>5, <1>6, <1>7 DEF SearchListed, SearchShown

LEMMA SearchListInit ==
    ASSUME Search!Init
    PROVE  Search!ListIInv
<1>1. DOMAIN calls = {} /\ ui.debounce = TRUE
  BY DEF Search!Init
<1> QED BY <1>1 DEF Search!ListIInv

LEMMA SearchListNext ==
    ASSUME Search!IInv, Search!IInv', Search!ListIInv, Search!Next
    PROVE  Search!ListIInv'
<1>1. SearchListed
  BY SearchListHas
<1>2. SearchListed' /\ UNCHANGED db
  BY <1>1, SearchListPage, SearchListEnded, SearchListServed
     DEF Search!Next, Search!DebounceEnded, Search!SetQuery, Search!SearchReturned, Search!SearchThrew,
         Search!ServeSearch
<1> QED BY <1>2, SearchListStep

LEMMA SearchShows ==
    ASSUME Search!ListIInv
    PROVE  Search!ShowsStored
BY DEF Search!ListIInv, Search!ShowsStored, Search!Quiet

-----------------------------------------------------------------------------
(* The settings: the page loads them once, and hears of what it changes;   *)
(* and then each listener loads them again.                                *)

SettingsOfPage == {c \in SettingsCalls : c.op = "fetchAppSettings" /\ c.arg = "page"}
SettingsL(l) == {c \in SettingsCalls : c.op = "fetchAppSettings" /\ c.arg = l}
SettingsF == {c \in SettingsCalls : c.state = "ok" /\ ~c.old => c.data = db.row}

SettingsH == {c \in SettingsCalls : c.op \in LogoOps \cup NameOps /\ c.then = "here"}
SettingsC == {c \in SettingsH : c.state \in {"committed", "ok"}}
ColumnOf(c) == IF c.op \in NameOps THEN "name" ELSE "logo"
SettingsHeard(f) == {c \in SettingsC : ColumnOf(c) = f}
SettingsReadAgain == {c \in SettingsCalls : c.state = "ok" /\ ~c.old => c.data = db.row[ColumnOf(c)]}

SettingsShown(l) == l \notin behind => ui.brand[l] = db.row
Listens(l) ==
    \/ Some(calls, SettingsC)
    \/ Fresh(calls, SettingsL(l), SettingsF) /\ (Some(calls, SettingsL(l)) \/ SettingsShown(l))
SettingsPageOK ==
    /\ \A j, k \in DOMAIN calls : calls[j] \in SettingsOfPage /\ calls[k] \in SettingsOfPage => j = k
    /\ \A k \in DOMAIN calls :
         /\ calls[k] \in SettingsOfPage => ui.status = "loading" /\ calls[k] \in SettingsF
         /\ calls[k] \in SettingsH => ui.status = "ready"
         /\ calls[k] \in SettingsC => calls[k] \in SettingsReadAgain
    /\ ui.status = "ready" =>
         \A f \in Settings!Setting \ behind : ui.page[f] = db.row[f] \/ Some(calls, SettingsHeard(f))
SettingsListed == SettingsPageOK /\ \A l \in Listener : Listens(l)

LEMMA SettingsKinds ==
    /\ \A l : /\ Kind(SettingsL(l), SettingsCalls) /\ Ageless(SettingsL(l), SettingsCalls)
              /\ Harmless(SettingsF, SettingsL(l), SettingsCalls)
              /\ Harmless(SettingsF', SettingsL(l), SettingsCalls)
    /\ Ageless(SettingsF, SettingsCalls) /\ Ageless(SettingsC, SettingsCalls)
    /\ \A f : Ageless(SettingsHeard(f), SettingsCalls)
<1>1. \A c \in SettingsCalls :
         LET d == [c EXCEPT !.old = TRUE] IN
         /\ d \in SettingsCalls /\ d.op = c.op /\ d.arg = c.arg /\ d.then = c.then /\ d.state = c.state
         /\ d.old = TRUE
  BY SettingsCallsCanBeOld DEF CanBeOld
<1>2. \A l : /\ Kind(SettingsL(l), SettingsCalls) /\ Ageless(SettingsL(l), SettingsCalls)
             /\ Harmless(SettingsF, SettingsL(l), SettingsCalls)
  BY <1>1 DEF Kind, Ageless, SettingsL, Harmless, SettingsF
<1>3. \A l : Harmless(SettingsF', SettingsL(l), SettingsCalls)
  BY <1>1 DEF Harmless, SettingsL, SettingsF
<1>4. Ageless(SettingsF, SettingsCalls) /\ Ageless(SettingsC, SettingsCalls)
  BY <1>1 DEF Ageless, SettingsF, SettingsC, SettingsH
<1>5. \A f : Ageless(SettingsHeard(f), SettingsCalls)
  BY <1>1 DEF Ageless, SettingsHeard, SettingsC, SettingsH, ColumnOf
<1> QED BY <1>2, <1>3, <1>4, <1>5

LEMMA SettingsHas ==
    ASSUME Settings!IInv
    PROVE  /\ calls \in Seq(SettingsCalls) /\ DOMAIN calls \subseteq Nat
           /\ \A k \in DOMAIN calls : calls[k] \in SettingsCalls
           /\ ui \in SettingsUi /\ behind \subseteq Settings!Setting \cup Listener
           /\ db.row \in Settings!SettingsRow
<1>1. calls \in Seq(SettingsCalls)
  BY DEF Settings!IInv, SettingsCalls
<1>2. DOMAIN calls \subseteq Nat /\ \A k \in DOMAIN calls : calls[k] \in SettingsCalls
  BY <1>1, LenProperties, ElementOfSeq
<1> QED BY <1>1, <1>2 DEF Settings!IInv, Settings!TypeOK, SettingsUi

\* What the sets say of a call.
LEMMA SettingsSets ==
    ASSUME Settings!IInv
    PROVE  /\ Settings!Changing = {k \in DOMAIN calls : calls[k].op \in LogoOps \cup NameOps}
           /\ Settings!Pending = {k \in DOMAIN calls : calls[k] \in SettingsC}
           /\ \A l : Settings!LoadsOf(l) = {k \in DOMAIN calls : calls[k] \in SettingsL(l)}
           /\ \A k \in DOMAIN calls : calls[k] \in SettingsC => Settings!Column(k) = ColumnOf(calls[k])
<1>1. \A k \in DOMAIN calls : calls[k] \in SettingsCalls
  BY SettingsHas
<1>2. Settings!Changing = {k \in DOMAIN calls : calls[k].op \in LogoOps \cup NameOps}
  BY DEF Settings!Changing, Settings!Doing, LogoOps, NameOps
<1>3. Settings!Pending = {k \in DOMAIN calls : calls[k] \in SettingsC}
  BY <1>1, <1>2 DEF Settings!Pending, SettingsC, SettingsH
<1>4. \A l : Settings!LoadsOf(l) = {k \in DOMAIN calls : calls[k] \in SettingsL(l)}
  BY <1>1 DEF Settings!LoadsOf, Settings!Doing, SettingsL
<1>5. \A k \in DOMAIN calls : Settings!Column(k) = ColumnOf(calls[k])
  BY DEF Settings!Column, ColumnOf, NameOps
<1> QED BY <1>2, <1>3, <1>4, <1>5

LEMMA SettingsListHas ==
    ASSUME Settings!IInv, Settings!ListIInv
    PROVE  SettingsListed
<1>1. \A k \in DOMAIN calls : calls[k] \in SettingsCalls
  BY SettingsHas
<1>2. SettingsOfPage = SettingsL("page")
  BY DEF SettingsOfPage, SettingsL
<1>3. SettingsPageOK
  <2>1. \A j, k \in DOMAIN calls : calls[j] \in SettingsOfPage /\ calls[k] \in SettingsOfPage => j = k
    BY <1>2, SettingsSets DEF Settings!ListIInv, Settings!PageLoad
  <2> SUFFICES ASSUME NEW k \in DOMAIN calls
               PROVE  /\ calls[k] \in SettingsOfPage => ui.status = "loading" /\ calls[k] \in SettingsF
                      /\ calls[k] \in SettingsH => ui.status = "ready"
                      /\ calls[k] \in SettingsC => calls[k] \in SettingsReadAgain
    <3>1. ui.status = "ready" =>
            \A f \in Settings!Setting \ behind : ui.page[f] = db.row[f] \/ Some(calls, SettingsHeard(f))
      BY SettingsSets DEF Settings!ListIInv, Some, SettingsHeard
    <3> QED BY <2>1, <3>1 DEF SettingsPageOK
  <2>2. calls[k] \in SettingsOfPage => ui.status = "loading" /\ calls[k] \in SettingsF
    BY <1>1, <1>2, SettingsSets DEF Settings!ListIInv, Settings!PageLoad, SettingsF
  <2>3. calls[k] \in SettingsH => ui.status = "ready"
    BY SettingsSets DEF Settings!ListIInv, Settings!PageLoad, SettingsH
  <2>4. calls[k] \in SettingsC => calls[k] \in SettingsReadAgain
    BY <1>1, SettingsSets DEF Settings!ListIInv, SettingsReadAgain
  <2> QED BY <2>2, <2>3, <2>4
<1>4. ASSUME NEW l \in Listener, ~Some(calls, SettingsC)
      PROVE  Fresh(calls, SettingsL(l), SettingsF) /\ (Some(calls, SettingsL(l)) \/ SettingsShown(l))
  <2>1. Settings!Pending = {}
    BY <1>4, SettingsSets DEF Some
  <2>2. \A j \in DOMAIN calls : calls[j] \in SettingsL(l) =>
            Later(calls, j, SettingsL(l)) \/ j \in Settings!Latest(Settings!LoadsOf(l))
    BY SettingsHas, SettingsSets DEF Later, Settings!Latest
  <2>3. Fresh(calls, SettingsL(l), SettingsF)
    BY <1>1, <2>1, <2>2 DEF Fresh, SettingsF, Settings!ListIInv
  <2>4. Some(calls, SettingsL(l)) \/ SettingsShown(l)
    BY <2>1, SettingsSets DEF Some, SettingsShown, Settings!ListIInv
  <2> QED BY <2>3, <2>4
<1> QED BY <1>3, <1>4 DEF SettingsListed, Listens

LEMMA SettingsSetsNext ==
    ASSUME Settings!IInv'
    PROVE  /\ DOMAIN calls' \subseteq Nat /\ \A k \in DOMAIN calls' : calls'[k] \in SettingsCalls
           /\ Settings!Changing' = {k \in DOMAIN calls' : calls'[k].op \in LogoOps \cup NameOps}
           /\ Settings!Pending' = {k \in DOMAIN calls' : calls'[k] \in SettingsC}
           /\ \A l : Settings!LoadsOf(l)' = {k \in DOMAIN calls' : calls'[k] \in SettingsL(l)}
           /\ \A k : Settings!Column(k)' = ColumnOf(calls'[k])
<1>1. calls' \in Seq(SettingsCalls)
  BY DEF Settings!IInv, SettingsCalls
<1>2. DOMAIN calls' \subseteq Nat /\ \A k \in DOMAIN calls' : calls'[k] \in SettingsCalls
  BY <1>1, LenProperties, ElementOfSeq
<1>3. Settings!Changing' = {k \in DOMAIN calls' : calls'[k].op \in LogoOps \cup NameOps}
  BY DEF Settings!Changing, Settings!Doing, LogoOps, NameOps
<1>4. Settings!Pending' = {k \in DOMAIN calls' : calls'[k] \in SettingsC}
  BY <1>2, <1>3 DEF Settings!Pending, SettingsC, SettingsH
<1>5. \A l : Settings!LoadsOf(l)' = {k \in DOMAIN calls' : calls'[k] \in SettingsL(l)}
  BY <1>2 DEF Settings!LoadsOf, Settings!Doing, SettingsL
<1>6. \A k : Settings!Column(k)' = ColumnOf(calls'[k])
  BY DEF Settings!Column, ColumnOf, NameOps
<1> QED BY <1>2, <1>3, <1>4, <1>5, <1>6

LEMMA SettingsListStep ==
    ASSUME Settings!IInv', SettingsListed'
    PROVE  Settings!ListIInv'
<1>1. \A k \in DOMAIN calls' : calls'[k] \in SettingsCalls
  BY SettingsSetsNext
<1>2. SettingsOfPage = SettingsL("page")
  BY DEF SettingsOfPage, SettingsL
<1>3. /\ \A j, k \in DOMAIN calls' : calls'[j] \in SettingsOfPage /\ calls'[k] \in SettingsOfPage => j = k
      /\ \A k \in DOMAIN calls' :
           /\ calls'[k] \in SettingsOfPage => ui'.status = "loading" /\ calls'[k] \in SettingsF'
           /\ calls'[k] \in SettingsH => ui'.status = "ready"
           /\ calls'[k] \in SettingsC => calls'[k] \in SettingsReadAgain'
      /\ ui'.status = "ready" =>
           \A f \in Settings!Setting \ behind' : ui'.page[f] = db'.row[f] \/ Some(calls', SettingsHeard(f))
  BY DEF SettingsListed, SettingsPageOK
<1>4. Settings!PageLoad'
  <2>1. (\A i, j \in Settings!LoadsOf("page") : i = j)'
    BY <1>2, <1>3, SettingsSetsNext
  <2>2. (\A i \in Settings!LoadsOf("page") :
            ui.status = "loading" /\ (calls[i].state = "ok" /\ ~calls[i].old => calls[i].data = db.row))'
    BY <1>2, <1>3, SettingsSetsNext DEF SettingsF
  <2>3. (\A i \in Settings!Changing : calls[i].then = "here" => ui.status = "ready")'
    BY <1>1, <1>3, SettingsSetsNext DEF SettingsH
  <2> QED BY <2>1, <2>2, <2>3 DEF Settings!PageLoad
<1>5. (\A i \in Settings!Pending :
           calls[i].state = "ok" /\ ~calls[i].old => calls[i].data = db.row[Settings!Column(i)])'
  BY <1>3, SettingsSetsNext DEF SettingsReadAgain
<1>6. (ui.status = "ready" =>
         \A f \in Settings!Setting \ behind :
            ui.page[f] = db.row[f] \/ \E i \in Settings!Pending : Settings!Column(i) = f)'
  <2> SUFFICES ASSUME ui'.status = "ready", NEW f \in Settings!Setting \ behind', ui'.page[f] # db'.row[f]
               PROVE  \E i \in Settings!Pending' : Settings!Column(i)' = f
    OBVIOUS
  <2>1. PICK k \in DOMAIN calls' : calls'[k] \in SettingsHeard(f)
    BY <1>3 DEF Some
  <2> QED BY <2>1, SettingsSetsNext DEF SettingsHeard
<1>7. ASSUME NEW l \in Listener, Settings!Pending' = {}
      PROVE  (/\ \A j \in Settings!Latest(Settings!LoadsOf(l)) :
                   calls[j].state = "ok" /\ ~calls[j].old => calls[j].data = db.row
              /\ Settings!LoadsOf(l) = {} /\ l \notin behind => ui.brand[l] = db.row)'
  <2>1. ~Some(calls', SettingsC)
    BY <1>7, SettingsSetsNext DEF Some
  <2>2. Fresh(calls', SettingsL(l), SettingsF') /\ (Some(calls', SettingsL(l)) \/ SettingsShown(l)')
    BY <2>1 DEF SettingsListed, Listens, Some, SettingsC, SettingsH, SettingsL
  <2>3. \A j \in Settings!Latest(Settings!LoadsOf(l))' :
            j \in DOMAIN calls' /\ calls'[j] \in SettingsL(l) /\ ~Later(calls', j, SettingsL(l))
    BY SettingsSetsNext DEF Later, Settings!Latest
  <2>4. \A j \in Settings!Latest(Settings!LoadsOf(l))' : calls'[j] \in SettingsF'
    BY <2>2, <2>3 DEF Fresh
  <2>5. (\A j \in Settings!Latest(Settings!LoadsOf(l)) :
            calls[j].state = "ok" /\ ~calls[j].old => calls[j].data = db.row)'
    BY <2>4 DEF SettingsF
  <2>6. (Settings!LoadsOf(l) = {} /\ l \notin behind => ui.brand[l] = db.row)'
    BY <2>2, SettingsSetsNext DEF Some, SettingsShown
  <2> QED BY <2>5, <2>6
<1> QED BY <1>4, <1>5, <1>6, <1>7 DEF Settings!ListIInv

\* The listeners load the settings, each of them.
LEMMA SettingsLoadsAll ==
    /\ Settings!Loads \in Seq(SettingsCalls)
    /\ \A k \in DOMAIN Settings!Loads :
         LET c == Settings!Loads[k] IN
         c.op = "fetchAppSettings" /\ c.state = "sent" /\ c.then = None /\ c.arg \in Listener
    /\ \A l \in Listener : Some(Settings!Loads, SettingsL(l))
<1> DEFINE n == Cardinality(Listener)
           f == Settings!SetToSeq(Listener)
           c(k) == Settings!Call("fetchAppSettings", f[k], None)
<1>1. Settings!Cardinality(Listener) = n
  BY DEF Settings!Cardinality, Cardinality, Settings!IsFiniteSet, IsFiniteSet
<1>2. n \in Nat /\ ExistsBijection(1 .. n, Listener) /\ IsFiniteSet(Listener)
  BY ScreensAssumption, FS_CardinalityType
<1>3. PICK g \in [1 .. n -> Listener] : \A a, b \in 1 .. n : g[a] = g[b] => a = b
  BY <1>2 DEF ExistsBijection, Bijection, Injection, IsInjective
<1>4. f = CHOOSE h \in [1 .. n -> Listener] : Settings!IsInjective(h)
  BY <1>1 DEF Settings!SetToSeq
<1>5. Settings!IsInjective(g)
  BY <1>3 DEF Settings!IsInjective
<1> HIDE DEF n, f
<1>6. f \in [1 .. n -> Listener] /\ Settings!IsInjective(f)
  BY <1>4, <1>5
<1>7. f \in Injection(1 .. n, Listener)
  BY <1>6 DEF Injection, Settings!IsInjective, IsInjective
<1>8. Cardinality(1 .. n) = Cardinality(Listener)
  BY <1>2, FS_Interval DEF n
<1>9. f \in Surjection(1 .. n, Listener)
  BY <1>2, <1>7, <1>8, FS_Injection
<1>10. \A l \in Listener : \E k \in 1 .. n : f[k] = l
  BY <1>9 DEF Surjection
<1>11. Settings!Loads = [k \in 1 .. n |-> c(k)]
  BY <1>1 DEF Settings!Loads, f, n
<1>12. \A k \in 1 .. n : /\ c(k) \in SettingsCalls /\ c(k).op = "fetchAppSettings" /\ c(k).state = "sent"
                         /\ c(k).then = None /\ c(k).arg = f[k]
  BY <1>6 DEF Settings!Call, SettingsCalls, Settings!FetchCall
<1> HIDE DEF c
<1>13. DOMAIN Settings!Loads = 1 .. n /\ \A k \in 1 .. n : Settings!Loads[k] = c(k)
  BY <1>11
<1>14. Settings!Loads \in Seq(SettingsCalls)
  BY <1>2, <1>11, <1>12, IsASeq
<1>15. \A l \in Listener : Some(Settings!Loads, SettingsL(l))
  BY <1>10, <1>12, <1>13 DEF Some, SettingsL
<1>16. \A k \in 1 .. n : c(k).arg \in Listener
  BY <1>6, <1>12
<1> QED BY <1>12, <1>13, <1>14, <1>15, <1>16

\* The row of the settings is left as it is: what the page shows of it.
LEMMA SettingsPageKeeps ==
    ASSUME Settings!IInv, SettingsPageOK, db'.row = db.row, NEW R, NEW more \in Seq(SettingsCalls),
           calls' \in Seq(SettingsCalls), Becomes(calls', calls, R, more),
           \/ \A k \in DOMAIN more : more[k] \notin SettingsOfPage
           \/ DOMAIN more = {1} /\ \A k \in DOMAIN calls \ R : calls[k] \notin SettingsOfPage,
           \A k \in DOMAIN more :
              /\ more[k] \in SettingsOfPage => ui'.status = "loading" /\ more[k] \in SettingsF
              /\ more[k] \in SettingsH => ui'.status = "ready"
              /\ more[k] \in SettingsC => more[k] \in SettingsReadAgain,
           \/ ui'.status = ui.status
           \/ \A k \in DOMAIN calls \ R : calls[k] \notin SettingsOfPage /\ calls[k] \notin SettingsH,
           ui'.status = "ready" =>
              \A f \in Settings!Setting \ behind' :
                  \/ ui'.page[f] = db.row[f]
                  \/ \E k \in DOMAIN calls \ R : calls[k] \in SettingsHeard(f)
                  \/ Some(more, SettingsHeard(f))
    PROVE  SettingsPageOK'
<1>1. calls \in Seq(SettingsCalls) /\ \A k \in DOMAIN calls : calls[k] \in SettingsCalls
  BY SettingsHas
<1>2. \A k \in DOMAIN calls' : calls'[k] \in SettingsCalls
  BY ElementOfSeq, LenProperties
<1>3. SettingsF' = SettingsF /\ SettingsReadAgain' = SettingsReadAgain
  BY DEF SettingsF, SettingsReadAgain
<1>4. \A c, d : c \in SettingsCalls /\ d \in SettingsCalls /\ Follows(c, d) =>
         /\ c \in SettingsOfPage <=> d \in SettingsOfPage
         /\ c \in SettingsH <=> d \in SettingsH
         /\ c \in SettingsC <=> d \in SettingsC
         /\ d \in SettingsF => c \in SettingsF
         /\ d \in SettingsReadAgain => c \in SettingsReadAgain
  BY DEF Follows, Alike, SettingsOfPage, SettingsC, SettingsH, SettingsF, SettingsReadAgain, ColumnOf
<1>5. ASSUME NEW j \in DOMAIN calls', NEW k \in DOMAIN calls', j # k
      PROVE  ~(calls'[j] \in SettingsOfPage /\ calls'[k] \in SettingsOfPage)
  <2>1. \/ \E l, n \in DOMAIN calls \ R : l # n /\ Follows(calls'[j], calls[l]) /\ Follows(calls'[k], calls[n])
        \/ \E l \in DOMAIN calls \ R, n \in DOMAIN more : Follows(calls'[j], calls[l]) /\ calls'[k] = more[n]
        \/ \E l \in DOMAIN more, n \in DOMAIN calls \ R : calls'[j] = more[l] /\ Follows(calls'[k], calls[n])
        \/ \E l, n \in DOMAIN more : l # n /\ calls'[j] = more[l] /\ calls'[k] = more[n]
    BY <1>1, <1>5, SettingsCallsCanBeOld, PairFrom
  <2>2. CASE \E l, n \in DOMAIN calls \ R : l # n /\ Follows(calls'[j], calls[l]) /\ Follows(calls'[k], calls[n])
    BY <1>1, <1>2, <1>4, <2>2 DEF SettingsPageOK
  <2>3. CASE \E l \in DOMAIN calls \ R, n \in DOMAIN more : Follows(calls'[j], calls[l]) /\ calls'[k] = more[n]
    BY <1>1, <1>2, <1>4, <2>3
  <2>4. CASE \E l \in DOMAIN more, n \in DOMAIN calls \ R : calls'[j] = more[l] /\ Follows(calls'[k], calls[n])
    BY <1>1, <1>2, <1>4, <2>4
  <2>5. CASE \E l, n \in DOMAIN more : l # n /\ calls'[j] = more[l] /\ calls'[k] = more[n]
    BY <2>5
  <2> QED BY <2>1, <2>2, <2>3, <2>4, <2>5
<1>6. ASSUME NEW j \in DOMAIN calls'
      PROVE  /\ calls'[j] \in SettingsOfPage => ui'.status = "loading" /\ calls'[j] \in SettingsF
             /\ calls'[j] \in SettingsH => ui'.status = "ready"
             /\ calls'[j] \in SettingsC => calls'[j] \in SettingsReadAgain
  <2>1. CameFrom(calls'[j], calls, R, more)
    BY <1>1, SettingsCallsCanBeOld, ComesFrom
  <2>2. CASE \E k \in DOMAIN calls \ R : Follows(calls'[j], calls[k])
    <3>1. PICK k \in DOMAIN calls \ R : Follows(calls'[j], calls[k])
      BY <2>2
    <3>2. /\ calls[k] \in SettingsOfPage => ui'.status = "loading" /\ calls[k] \in SettingsF
          /\ calls[k] \in SettingsH => ui'.status = "ready"
          /\ calls[k] \in SettingsC => calls[k] \in SettingsReadAgain
      BY DEF SettingsPageOK
    <3> QED BY <1>1, <1>2, <1>4, <3>1, <3>2
  <2>3. CASE \E k \in DOMAIN more : calls'[j] = more[k]
    BY <2>3
  <2> QED BY <2>1, <2>2, <2>3 DEF CameFrom, Follows
<1>7. ASSUME ui'.status = "ready", NEW f \in Settings!Setting \ behind', ui'.page[f] # db.row[f]
      PROVE  Some(calls', SettingsHeard(f))
  <2>1. CASE \E k \in DOMAIN calls \ R : calls[k] \in SettingsHeard(f)
    <3>1. PICK k \in DOMAIN calls \ R : calls[k] \in SettingsHeard(f)
      BY <2>1
    <3>2. PICK j \in DOMAIN calls' : Alike(calls'[j], calls[k])
      BY <1>1, SettingsCallsCanBeOld, GoesOn
    <3>3. calls'[j] \in SettingsHeard(f)
      BY <1>2, <3>1, <3>2 DEF Alike, SettingsHeard, SettingsC, SettingsH, ColumnOf
    <3> QED BY <3>3 DEF Some
  <2>2. CASE Some(more, SettingsHeard(f))
    <3>1. PICK k \in DOMAIN more : more[k] \in SettingsHeard(f)
      BY <2>2 DEF Some
    <3>2. \E j \in DOMAIN calls' : calls'[j] = more[k]
      BY <1>1, Appears
    <3> QED BY <3>1, <3>2 DEF Some
  <2> QED BY <1>7, <2>1, <2>2
<1> QED BY <1>3, <1>5, <1>6, <1>7 DEF SettingsPageOK

\* The page is not touched, and what it waits to hear of is still to come.
LEMMA SettingsPageWaits ==
    ASSUME Settings!IInv, SettingsPageOK, db'.row = db.row, NEW R, NEW more \in Seq(SettingsCalls),
           calls' \in Seq(SettingsCalls), Becomes(calls', calls, R, more),
           \A k \in DOMAIN more : more[k] \notin SettingsOfPage /\ more[k] \notin SettingsC,
           \A k \in DOMAIN more : more[k] \in SettingsH => ui.status = "ready",
           ui'.status = ui.status, ui'.page = ui.page,
           \A f \in Settings!Setting \ behind' :
              /\ f \notin behind
              /\ \A k \in R : k \in DOMAIN calls => calls[k] \notin SettingsHeard(f)
    PROVE  SettingsPageOK'
<1>1. ui'.status = "ready" =>
        \A f \in Settings!Setting \ behind' :
            \/ ui'.page[f] = db.row[f]
            \/ \E k \in DOMAIN calls \ R : calls[k] \in SettingsHeard(f)
            \/ Some(more, SettingsHeard(f))
  BY DEF SettingsPageOK, Some
<1> QED BY <1>1, SettingsPageKeeps

LEMMA SettingsSame ==
    ASSUME db'.row = db.row
    PROVE  /\ SettingsF' = SettingsF
           /\ \A l : behind' = behind /\ ui'.brand[l] = ui.brand[l] => (SettingsShown(l)' <=> SettingsShown(l))
BY DEF SettingsF, SettingsShown

LEMMA SettingsListAsked ==
    ASSUME Settings!IInv, SettingsListed,
           \/ Settings!HandleFileChange \/ Settings!HandleDelete
           \/ \E name \in Name \cup {None} :
                \/ Settings!HandleSaveName(name)
                \/ \E op \in {"uploadLogo", "deleteLogo", "updateCompanyName"} :
                     Settings!RequestElsewhere(op, name)
    PROVE  SettingsListed'
<1>1. PICK c \in SettingsCalls : /\ calls' = calls \o << c >> /\ UNCHANGED << ui, db, behind >>
                                 /\ c.state = "sent" /\ c.op \in LogoOps \cup NameOps
                                 /\ c.then = "here" => ui.status = "ready"
  <2> SUFFICES \E op, arg, by :
                  /\ by \in Settings!Owner
                  /\ (op \in LogoOps /\ arg = None) \/ (op \in NameOps /\ arg \in Name \cup {None})
                  /\ calls' = calls \o << Settings!Call(op, arg, by) >> /\ UNCHANGED << ui, db, behind >>
                  /\ by = "here" => ui.status = "ready"
    <3>1. ASSUME NEW op, NEW arg, NEW by \in Settings!Owner,
                 (op \in LogoOps /\ arg = None) \/ (op \in NameOps /\ arg \in Name \cup {None})
          PROVE  /\ Settings!Call(op, arg, by) \in SettingsCalls /\ Settings!Call(op, arg, by).state = "sent"
                 /\ Settings!Call(op, arg, by).op = op /\ Settings!Call(op, arg, by).then = by
      BY <3>1, SettingsNewCall
    <3>2. PICK op, arg, by :
            /\ by \in Settings!Owner
            /\ (op \in LogoOps /\ arg = None) \/ (op \in NameOps /\ arg \in Name \cup {None})
            /\ calls' = calls \o << Settings!Call(op, arg, by) >> /\ UNCHANGED << ui, db, behind >>
            /\ by = "here" => ui.status = "ready"
      OBVIOUS
    <3> DEFINE d == Settings!Call(op, arg, by)
    <3>3. d \in SettingsCalls /\ d.state = "sent" /\ d.op = op /\ d.then = by
      BY <3>1, <3>2
    <3>4. calls' = calls \o << d >>
      BY <3>2
    <3> HIDE DEF d
    <3>5. d.op \in LogoOps \cup NameOps /\ (d.then = "here" => ui.status = "ready")
      BY <3>2, <3>3
    <3> QED BY <3>2, <3>3, <3>4, <3>5
  <2>1. CASE Settings!HandleFileChange
    BY <2>1 DEF Settings!HandleFileChange, Settings!Start, Settings!Owner, LogoOps
  <2>2. CASE Settings!HandleDelete
    BY <2>2 DEF Settings!HandleDelete, Settings!Start, Settings!Owner, LogoOps
  <2>3. ASSUME NEW name \in Name \cup {None}, Settings!HandleSaveName(name)
        PROVE  \E op, arg, by :
                  /\ by \in Settings!Owner
                  /\ (op \in LogoOps /\ arg = None) \/ (op \in NameOps /\ arg \in Name \cup {None})
                  /\ calls' = calls \o << Settings!Call(op, arg, by) >> /\ UNCHANGED << ui, db, behind >>
                  /\ by = "here" => ui.status = "ready"
    BY <2>3 DEF Settings!HandleSaveName, Settings!Start, Settings!Owner, NameOps
  <2>4. ASSUME NEW name \in Name \cup {None}, NEW op \in {"uploadLogo", "deleteLogo", "updateCompanyName"},
               Settings!RequestElsewhere(op, name)
        PROVE  /\ "elsewhere" \in Settings!Owner
               /\ (op \in LogoOps /\ name = None) \/ (op \in NameOps /\ name \in Name \cup {None})
               /\ calls' = calls \o << Settings!Call(op, name, "elsewhere") >> /\ UNCHANGED << ui, db, behind >>
    BY <2>4 DEF Settings!RequestElsewhere, Settings!Start, Settings!Owner, LogoOps, NameOps
  <2>5. "elsewhere" # "here"
    OBVIOUS
  <2> QED BY <2>1, <2>2, <2>3, <2>4, <2>5
<1> DEFINE more == << c >>
<1>2. more \in Seq(SettingsCalls) /\ DOMAIN more = {1} /\ more[1] = c /\ calls' = calls \o more
  BY <1>1, SingleMore
<1> HIDE DEF more
<1>3. /\ c \notin SettingsOfPage /\ c \notin SettingsC /\ (c \in SettingsH => ui.status = "ready")
      /\ \A l : c \notin SettingsL(l)
  BY <1>1 DEF SettingsOfPage, SettingsC, SettingsH, SettingsL, LogoOps, NameOps
<1>4. calls \in Seq(SettingsCalls) /\ calls' \in Seq(SettingsCalls) /\ Becomes(calls', calls, {}, more)
  BY <1>2, SettingsHas, Started
<1>5. SettingsPageOK'
  BY <1>1, <1>2, <1>3, <1>4, SettingsPageWaits DEF SettingsListed
<1>6. ASSUME NEW l \in Listener
      PROVE  Listens(l)'
  <2>1. /\ \A X : Some(calls, X) \/ Some(more, X) => Some(calls', X)
        /\ \A F : /\ \A k \in DOMAIN more : more[k] \in SettingsL(l) => more[k] \in F
                  /\ Fresh(calls, SettingsL(l), F) \/ Some(more, SettingsL(l))
                  => Fresh(calls', SettingsL(l), F)
    BY <1>2, <1>4, AppendKeeps
  <2>2. Fresh(calls, SettingsL(l), SettingsF) => Fresh(calls', SettingsL(l), SettingsF)
    BY <1>2, <1>3, <2>1
  <2>3. SettingsF' = SettingsF /\ (SettingsShown(l) => SettingsShown(l)')
    BY <1>1, SettingsSame
  <2> QED BY <2>1, <2>2, <2>3 DEF SettingsListed, Listens, SettingsC, SettingsH, SettingsL
<1> QED BY <1>5, <1>6 DEF SettingsListed

\* A call that is not a load of l is taken away, and the others may be overtaken.
LEMMA ListensOn ==
    ASSUME Settings!IInv, NEW l, Listens(l), NEW old \in Seq(SettingsCalls), NEW i \in DOMAIN calls,
           AsBefore(old, calls, i), calls' = RemoveAt(old, i), db'.row = db.row,
           calls[i] \notin SettingsL(l), calls[i] \notin SettingsC, SettingsShown(l) => SettingsShown(l)'
    PROVE  Listens(l)'
<1>1. calls \in Seq(SettingsCalls) /\ DOMAIN calls = DOMAIN old /\ \A k \in DOMAIN calls : calls[k] \in SettingsCalls
  BY SettingsHas, LenProperties DEF AsBefore
<1>2. /\ \A X : Ageless(X, SettingsCalls) /\ (\E k \in DOMAIN calls \ {i} : calls[k] \in X) => Some(calls', X)
      /\ \A F : (\A k \in DOMAIN calls \ {i} : calls[k] \in SettingsL(l) =>
                     old[k] \in F \/ \E m \in DOMAIN calls \ {i} : m > k /\ calls[m] \in SettingsL(l))
                => Fresh(calls', SettingsL(l), F)
  BY <1>1, SettingsKinds, SettingsCallsCanBeOld, RemovedKeeps
<1>3. /\ Some(calls, SettingsC) => Some(calls', SettingsC)
      /\ Some(calls, SettingsL(l)) => Some(calls', SettingsL(l))
  BY <1>2, SettingsKinds DEF Some
<1>4. \A k \in DOMAIN calls \ {i} : calls[k] \in SettingsF => old[k] \in SettingsF
  BY <1>1, SettingsKinds DEF AsBefore, Same, Ageless
<1>5. Fresh(calls, SettingsL(l), SettingsF) => Fresh(calls', SettingsL(l), SettingsF)
  BY <1>2, <1>4 DEF Fresh, Later
<1> QED BY <1>3, <1>5, SettingsSame DEF Listens, SettingsC, SettingsH, SettingsL

LEMMA SettingsListLoadEnded ==
    ASSUME Settings!IInv, SettingsListed, NEW i \in DOMAIN calls,
           Settings!LoadReturned(i) \/ Settings!LoadThrew(i)
    PROVE  SettingsListed'
<1>1. /\ calls \in Seq(SettingsCalls) /\ calls[i] \in SettingsCalls /\ ui \in SettingsUi
      /\ \A k \in DOMAIN calls : calls[k] \in SettingsCalls
  BY SettingsHas
<1>2. /\ calls' = RemoveAt(calls, i) /\ UNCHANGED db /\ calls[i] \in SettingsOfPage
      /\ behind \subseteq behind' /\ behind' \subseteq behind \cup Settings!Setting
  BY <1>1, SettingsOps DEF Settings!LoadReturned, Settings!LoadThrew, Settings!Returned, Settings!Threw,
                           Settings!Doing, SettingsOfPage
<1>3. ui'.brand = ui.brand
  BY <1>1 DEF Settings!LoadReturned, Settings!LoadThrew, SettingsUi
<1>4. \A k \in DOMAIN calls \ {i} : calls[k] \notin SettingsOfPage /\ calls[k] \notin SettingsH
  BY <1>2 DEF SettingsListed, SettingsPageOK
<1>5. /\ << >> \in Seq(SettingsCalls) /\ DOMAIN << >> = {} /\ calls' \in Seq(SettingsCalls)
      /\ Becomes(calls', calls, {i}, << >>)
  BY <1>1, <1>2, SettingsRemoved, EmptyMore
<1>6. ui'.status = "ready" => \A f \in Settings!Setting \ behind' : ui'.page[f] = db.row[f]
  <2>1. CASE Settings!LoadThrew(i)
    BY <1>1, <2>1 DEF Settings!LoadThrew, SettingsUi
  <2>2. CASE Settings!LoadReturned(i)
    <3>1. /\ ui' = [ui EXCEPT !.status = "ready", !.page = calls[i].data] /\ calls[i].state = "ok"
          /\ behind' = IF calls[i].old THEN behind \cup Settings!Setting ELSE behind
      BY <2>2 DEF Settings!LoadReturned, Settings!Returned
    <3>2. calls[i] \in SettingsF
      BY <1>2 DEF SettingsListed, SettingsPageOK
    <3>3. ui'.page = calls[i].data
      BY <1>1, <3>1 DEF SettingsUi
    <3> QED BY <3>1, <3>2, <3>3 DEF SettingsF
  <2> QED BY <2>1, <2>2
<1>7. SettingsPageOK'
  BY <1>2, <1>4, <1>5, <1>6, SettingsPageKeeps DEF SettingsListed
<1>8. ASSUME NEW l \in Listener
      PROVE  Listens(l)'
  <2>1. calls[i] \notin SettingsL(l) /\ calls[i] \notin SettingsC
    BY <1>2, ScreensAssumption DEF SettingsOfPage, SettingsL, SettingsC, SettingsH, LogoOps, NameOps
  <2>2. SettingsShown(l) => SettingsShown(l)'
    BY <1>2, <1>3 DEF SettingsShown
  <2>3. AsBefore(calls, calls, i)
    BY DEF AsBefore, Same
  <2> QED BY <1>1, <1>2, <2>1, <2>2, <2>3, ListensOn DEF SettingsListed
<1> QED BY <1>7, <1>8 DEF SettingsListed

\* A listener shows its answer, and the loads that were made before it do no harm.
LEMMA SettingsListBrand ==
    ASSUME Settings!IInv, SettingsListed, NEW i \in DOMAIN calls,
           Settings!BrandLoaded(i) \/ Settings!BrandThrew(i)
    PROVE  SettingsListed'
<1>0. PICK m : m = calls[i].arg
  OBVIOUS
<1> DEFINE old == Outdated(calls, Settings!Overtaken(i))
<1>1. /\ calls \in Seq(SettingsCalls) /\ calls[i] \in SettingsCalls /\ ui \in SettingsUi
      /\ \A k \in DOMAIN calls : calls[k] \in SettingsCalls
      /\ DOMAIN calls \subseteq Nat
  BY SettingsHas
<1>2. /\ calls' = RemoveAt(old, i) /\ UNCHANGED db /\ m \in Listener
      /\ calls[i].op = "fetchAppSettings"
      /\ behind' = IF Settings!BrandThrew(i) \/ calls[i].old THEN behind \cup {m} ELSE behind \ {m}
  BY <1>0, SettingsOps DEF Settings!BrandLoaded, Settings!BrandThrew, Settings!Returned, Settings!Threw,
                     Settings!Doing, Settings!Late
<1>3. /\ calls[i] \in SettingsL(m) /\ calls[i] \notin SettingsC
      /\ \A l : l # m => calls[i] \notin SettingsL(l)
  BY <1>0, <1>1, <1>2 DEF SettingsL, SettingsC, SettingsH, LogoOps, NameOps
<1>4. m \notin Settings!Setting /\ m # "page"
  BY <1>2, ScreensAssumption DEF Settings!Setting
<1>5. /\ old \in Seq(SettingsCalls) /\ AsBefore(old, calls, i) /\ DOMAIN old = DOMAIN calls
      /\ \A j \in DOMAIN calls :
           old[j] = IF j \in Settings!Overtaken(i) THEN [calls[j] EXCEPT !.old = TRUE] ELSE calls[j]
  BY <1>1, SettingsCallsCanBeOld, OutdatedIs, Overtaken
<1>6. \A j \in DOMAIN calls : calls[j] \in SettingsL(m) /\ j < i =>
         j \in Settings!Overtaken(i) \/ (calls[j].state = "sent" /\ calls[j].data = None)
  BY <1>0 DEF Settings!Overtaken, Settings!Doing, Settings!Answered, SettingsL
<1>7. /\ ui'.status = ui.status /\ ui'.page = ui.page
      /\ \A l \in Listener \ {m} : ui'.brand[l] = ui.brand[l]
      /\ Settings!BrandLoaded(i) => ui'.brand[m] = calls[i].data /\ calls[i].state = "ok"
  <2>1. CASE Settings!BrandThrew(i)
    <3>1. ui' = ui
      BY <2>1 DEF Settings!BrandThrew
    <3>2. calls[i].state = "ok" => TRUE
      OBVIOUS
    <3>3. CASE ~Settings!BrandLoaded(i)
      BY <3>1, <3>3
    <3>4. CASE Settings!BrandLoaded(i)
      <4>1. ui' = [ui EXCEPT !.brand[m] = calls[i].data] /\ calls[i].state = "ok"
        BY <1>0, <3>4 DEF Settings!BrandLoaded, Settings!Returned
      <4> QED BY <1>1, <1>2, <3>1, <4>1 DEF SettingsUi
    <3> QED BY <3>3, <3>4
  <2>2. CASE Settings!BrandLoaded(i)
    <3>1. ui' = [ui EXCEPT !.brand[m] = calls[i].data] /\ calls[i].state = "ok"
      BY <1>0, <2>2 DEF Settings!BrandLoaded, Settings!Returned
    <3> QED BY <1>1, <1>2, <3>1 DEF SettingsUi
  <2> QED BY <2>1, <2>2
<1> HIDE DEF old
<1>8. SettingsPageOK'
  <2>1. /\ << >> \in Seq(SettingsCalls) /\ DOMAIN << >> = {} /\ calls' \in Seq(SettingsCalls)
        /\ Becomes(calls', calls, {i}, << >>)
    BY <1>1, <1>2, <1>5, SettingsCallsCanBeOld, RemovedBecomes, EmptyMore
  <2>2. \A f \in Settings!Setting \ behind' :
           f \notin behind /\ \A k \in {i} : k \in DOMAIN calls => calls[k] \notin SettingsHeard(f)
    BY <1>2, <1>3, <1>4 DEF SettingsHeard
  <2>3. db'.row = db.row
    BY <1>2
  <2> DEFINE none == << >>
             R == {i}
  <2>4. none \in Seq(SettingsCalls) /\ DOMAIN none = {} /\ Becomes(calls', calls, R, none)
    BY <2>1
  <2> HIDE DEF none, R
  <2>5. /\ \A k \in DOMAIN none : none[k] \notin SettingsOfPage /\ none[k] \notin SettingsC
        /\ \A k \in DOMAIN none : none[k] \in SettingsH => ui.status = "ready"
    BY <2>4
  <2>6. \A f \in Settings!Setting \ behind' :
           f \notin behind /\ \A k \in R : k \in DOMAIN calls => calls[k] \notin SettingsHeard(f)
    BY <2>2 DEF R
  <2> QED BY <1>7, <2>1, <2>3, <2>4, <2>5, <2>6, SettingsPageWaits DEF SettingsListed
<1>9. ASSUME NEW l \in Listener, l # m
      PROVE  Listens(l)'
  <2>1. SettingsShown(l) => SettingsShown(l)'
    BY <1>2, <1>7, <1>9 DEF SettingsShown
  <2> QED BY <1>2, <1>3, <1>5, <1>9, <2>1, ListensOn DEF SettingsListed
<1>10. Listens(m)'
  <2>1. /\ \A X : Ageless(X, SettingsCalls) /\ (\E k \in DOMAIN calls \ {i} : calls[k] \in X) => Some(calls', X)
        /\ \A F : (\A k \in DOMAIN calls \ {i} : calls[k] \in SettingsL(m) =>
                       old[k] \in F \/ \E l \in DOMAIN calls \ {i} : l > k /\ calls[l] \in SettingsL(m))
                  => Fresh(calls', SettingsL(m), F)
    BY <1>1, <1>2, <1>5, SettingsKinds, SettingsCallsCanBeOld, RemovedKeeps
  <2>2. Some(calls, SettingsC) => Some(calls', SettingsC)
    BY <1>3, <2>1, SettingsKinds DEF Some
  <2>3. Later(calls, i, SettingsL(m)) => Some(calls', SettingsL(m))
    BY <1>1, <2>1, SettingsKinds DEF Later
  <2>4. ASSUME Fresh(calls, SettingsL(m), SettingsF), NEW k \in DOMAIN calls \ {i}, calls[k] \in SettingsL(m),
               ~\E l \in DOMAIN calls \ {i} : l > k /\ calls[l] \in SettingsL(m)
        PROVE  old[k] \in SettingsF
    <3>1. Harmless(SettingsF, SettingsL(m), SettingsCalls)
      BY SettingsKinds
    <3>2. CASE calls[k] \in SettingsF
      BY <1>1, <1>5, <2>4, <3>1, <3>2 DEF Harmless
    <3>3. CASE Later(calls, k, SettingsL(m))
      <4>1. i > k
        BY <2>4, <3>3 DEF Later
      <4>2. k \in Settings!Overtaken(i) \/ (calls[k].state = "sent" /\ calls[k].data = None)
        BY <1>1, <1>6, <2>4, <4>1
      <4> QED BY <1>1, <1>5, <2>4, <3>1, <4>2 DEF Harmless
    <3> QED BY <2>4, <3>2, <3>3 DEF Fresh
  <2>5. Fresh(calls, SettingsL(m), SettingsF) => Fresh(calls', SettingsL(m), SettingsF)
    BY <2>1, <2>4
  <2>6. ASSUME Fresh(calls, SettingsL(m), SettingsF), ~Some(calls', SettingsL(m))
        PROVE  SettingsShown(m)'
    <3>1. calls[i] \in SettingsF
      BY <1>3, <2>3, <2>6 DEF Fresh
    <3>2. m \notin behind' => Settings!BrandLoaded(i) /\ ~calls[i].old
      BY <1>2
    <3> QED BY <1>2, <1>7, <3>1, <3>2 DEF SettingsShown, SettingsF
  <2>7. SettingsF' = SettingsF
    BY <1>2, SettingsSame
  <2>8. Listens(m)
    BY <1>2 DEF SettingsListed
  <2> QED BY <2>2, <2>5, <2>6, <2>7, <2>8 DEF Listens, SettingsC, SettingsH, SettingsL
<1> QED BY <1>8, <1>9, <1>10 DEF SettingsListed

\* The page hears of what it has changed, and each listener loads the settings again.
LEMMA SettingsListSaved ==
    ASSUME Settings!IInv, SettingsListed, NEW i \in DOMAIN calls, Settings!NameSaved(i) \/ Settings!LogoChanged(i)
    PROVE  SettingsListed'
<1> DEFINE more == Settings!Loads
           f == ColumnOf(calls[i])
<1>1. /\ calls \in Seq(SettingsCalls) /\ calls[i] \in SettingsCalls /\ ui \in SettingsUi
      /\ \A k \in DOMAIN calls : calls[k] \in SettingsCalls
  BY SettingsHas
<1>2. /\ calls' = RemoveAt(calls, i) \o more /\ UNCHANGED db
      /\ calls[i].op \in LogoOps \cup NameOps /\ calls[i].then = "here" /\ calls[i].state = "ok"
      /\ f \in Settings!Setting /\ behind' = IF calls[i].old THEN behind \cup {f} ELSE behind \ {f}
  BY SettingsOps DEF Settings!NameSaved, Settings!LogoChanged, Settings!NameCalls, Settings!LogoCalls,
                     Settings!Doing, Settings!notifyAppSettingsChanged, Settings!Late, LogoOps, NameOps, ColumnOf,
                     Settings!Setting
<1>3. /\ more \in Seq(SettingsCalls) /\ \A l \in Listener : Some(more, SettingsL(l))
      /\ \A k \in DOMAIN more : /\ more[k].op = "fetchAppSettings" /\ more[k].state = "sent"
                                /\ more[k].then = None /\ more[k].arg \in Listener
                                /\ more[k] \in SettingsCalls
  BY SettingsLoadsAll, ElementOfSeq, LenProperties
<1> HIDE DEF more
<1>4. \A k \in DOMAIN more : /\ more[k] \notin SettingsOfPage /\ more[k] \notin SettingsH /\ more[k] \notin SettingsC
                             /\ more[k] \in SettingsF
  BY <1>3, ScreensAssumption DEF SettingsOfPage, SettingsH, SettingsC, SettingsF, LogoOps, NameOps
<1>5. AsBefore(calls, calls, i)
  BY DEF AsBefore, Same
<1>6. calls' \in Seq(SettingsCalls) /\ Becomes(calls', calls, {i}, more)
  BY <1>1, <1>2, <1>3, <1>5, Dropped
<1>7. calls[i] \in SettingsH /\ calls[i] \in SettingsC /\ calls[i] \in SettingsReadAgain /\ ui.status = "ready"
  <2>1. calls[i] \in SettingsH /\ calls[i] \in SettingsC
    BY <1>1, <1>2 DEF SettingsH, SettingsC
  <2> QED BY <2>1 DEF SettingsListed, SettingsPageOK
<1>8. /\ ui'.status = ui.status
      /\ ui'.page[f] = calls[i].data /\ \A g \in Settings!Setting \ {f} : ui'.page[g] = ui.page[g]
  <2>1. CASE Settings!NameSaved(i)
    <3>1. f = "name" /\ ui' = [ui EXCEPT !.page.name = calls[i].data]
      BY <2>1 DEF Settings!NameSaved, Settings!NameCalls, Settings!Doing, ColumnOf, NameOps
    <3> QED BY <1>1, <3>1 DEF SettingsUi, Settings!SettingsRow, Settings!Setting
  <2>2. CASE Settings!LogoChanged(i)
    <3>1. f = "logo" /\ ui' = [ui EXCEPT !.page.logo = calls[i].data]
      BY <2>2 DEF Settings!LogoChanged, Settings!LogoCalls, Settings!Doing, ColumnOf, NameOps
    <3> QED BY <1>1, <3>1 DEF SettingsUi, Settings!SettingsRow, Settings!Setting
  <2> QED BY <2>1, <2>2
<1> HIDE DEF f
<1>9. ASSUME NEW g \in Settings!Setting \ behind'
      PROVE  ui'.page[g] = db.row[g] \/ \E k \in DOMAIN calls \ {i} : calls[k] \in SettingsHeard(g)
  <2>1. CASE g = f
    <3>1. ~calls[i].old
      BY <1>2, <1>9, <2>1
    <3> QED BY <1>2, <1>7, <1>8, <2>1, <3>1 DEF SettingsReadAgain, f
  <2>2. CASE g # f
    <3>1. g \notin behind /\ calls[i] \notin SettingsHeard(g)
      BY <1>2, <1>9, <2>2 DEF SettingsHeard, f
    <3> QED BY <1>7, <1>8, <2>2, <3>1 DEF SettingsListed, SettingsPageOK, Some
  <2> QED BY <2>1, <2>2
<1>10. SettingsPageOK'
  BY <1>2, <1>3, <1>4, <1>6, <1>8, <1>9, SettingsPageKeeps DEF SettingsListed
<1>11. ASSUME NEW l \in Listener
       PROVE  Listens(l)'
  <2>1. /\ \A X : Some(more, X) => Some(calls', X)
        /\ \A F : /\ \A k \in DOMAIN more : more[k] \in SettingsL(l) => more[k] \in F
                  /\ \A k \in DOMAIN calls \ {i} : calls[k] \in SettingsL(l) =>
                       \/ calls[k] \in F \/ Some(more, SettingsL(l))
                       \/ \E m \in DOMAIN calls \ {i} : m > k /\ calls[m] \in SettingsL(l)
                  => Fresh(calls', SettingsL(l), F)
    BY <1>1, <1>2, <1>3, <1>5, SettingsKinds, DropKeeps
  <2>2. Some(calls', SettingsL(l)) /\ Fresh(calls', SettingsL(l), SettingsF)
    BY <1>3, <1>4, <2>1
  <2>3. SettingsF' = SettingsF
    BY <1>2, SettingsSame
  <2> QED BY <2>2, <2>3 DEF Listens, SettingsL
<1> QED BY <1>10, <1>11 DEF SettingsListed

\* A change that the page will not hear of, or one of another administrator, ends.
LEMMA SettingsListThrew ==
    ASSUME Settings!IInv, SettingsListed, NEW i \in DOMAIN calls,
           Settings!ChangeThrew(i) \/ Settings!EndedElsewhere(i)
    PROVE  SettingsListed'
<1> DEFINE unheard == calls[i].then = "here" /\ calls[i].state \in {"committed", "ok"}
           old == IF unheard THEN Outdated(calls, Answered) ELSE calls
           none == << >>
           R == {i}
<1>1. /\ calls \in Seq(SettingsCalls) /\ calls[i] \in SettingsCalls
      /\ \A k \in DOMAIN calls : calls[k] \in SettingsCalls
  BY SettingsHas
<1>2. /\ calls' = RemoveAt(old, i) /\ UNCHANGED << ui, db >> /\ calls[i].op \in LogoOps \cup NameOps
      /\ behind' = IF unheard THEN behind \cup {ColumnOf(calls[i])} \cup Listener ELSE behind
  <2>1. CASE Settings!ChangeThrew(i)
    <3>1. /\ calls[i].then = "here" /\ calls[i].op \in LogoOps \cup NameOps
          /\ Settings!Column(i) = ColumnOf(calls[i])
      BY <2>1 DEF Settings!ChangeThrew, Settings!Changing, Settings!Doing, LogoOps, NameOps,
                  Settings!Column, ColumnOf
    <3> QED BY <2>1, <3>1, SettingsOps DEF Settings!ChangeThrew
  <2>2. CASE Settings!EndedElsewhere(i)
    <3>1. calls[i].then = "elsewhere" /\ calls[i].op \in LogoOps \cup NameOps
      BY <2>2 DEF Settings!EndedElsewhere, Settings!Changing, Settings!Doing, LogoOps, NameOps
    <3> QED BY <2>2, <3>1, SettingsOps DEF Settings!EndedElsewhere
  <2> QED BY <2>1, <2>2
<1>3. /\ old \in Seq(SettingsCalls) /\ AsBefore(old, calls, i) /\ DOMAIN old = DOMAIN calls
      /\ \A j \in DOMAIN calls :
           old[j] = IF unheard /\ j \in Answered THEN [calls[j] EXCEPT !.old = TRUE] ELSE calls[j]
  BY <1>1, SettingsCallsCanBeOld, OutdatedIs, Overtaken
<1>4. calls[i] \in SettingsC <=> unheard
  BY <1>1, <1>2 DEF SettingsC, SettingsH
<1>5. \A j \in DOMAIN calls : j \in Answered \/ (calls[j].state = "sent" /\ calls[j].data = None)
  BY DEF Answered
<1>6. \A f : calls[i] \in SettingsHeard(f) => unheard /\ f = ColumnOf(calls[i])
  BY <1>4 DEF SettingsHeard
<1> HIDE DEF old, unheard
<1>7. /\ none \in Seq(SettingsCalls) /\ DOMAIN none = {} /\ calls' \in Seq(SettingsCalls)
      /\ Becomes(calls', calls, R, none)
  BY <1>1, <1>2, <1>3, SettingsCallsCanBeOld, RemovedBecomes, EmptyMore
<1>8. \A f \in Settings!Setting \ behind' :
         f \notin behind /\ \A k \in R : k \in DOMAIN calls => calls[k] \notin SettingsHeard(f)
  BY <1>2, <1>6
<1> HIDE DEF none, R
<1>9. SettingsPageOK'
  <2>1. /\ \A k \in DOMAIN none : none[k] \notin SettingsOfPage /\ none[k] \notin SettingsC
        /\ \A k \in DOMAIN none : none[k] \in SettingsH => ui.status = "ready"
    BY <1>7
  <2> QED BY <1>2, <1>7, <1>8, <2>1, SettingsPageWaits DEF SettingsListed
<1>10. ASSUME NEW l \in Listener
       PROVE  Listens(l)'
  <2>1. calls[i] \notin SettingsL(l)
    BY <1>2 DEF SettingsL, LogoOps, NameOps
  <2>2. CASE unheard
    <3>1. \A F : (\A k \in DOMAIN calls \ {i} : calls[k] \in SettingsL(l) =>
                     old[k] \in F \/ \E m \in DOMAIN calls \ {i} : m > k /\ calls[m] \in SettingsL(l))
                  => Fresh(calls', SettingsL(l), F)
      BY <1>1, <1>2, <1>3, SettingsKinds, SettingsCallsCanBeOld, RemovedKeeps
    <3>2. \A k \in DOMAIN calls : calls[k] \in SettingsL(l) => old[k] \in SettingsF'
      BY <1>1, <1>3, <1>5, <2>2, SettingsKinds DEF Harmless
    <3>3. Fresh(calls', SettingsL(l), SettingsF')
      BY <3>1, <3>2
    <3>4. SettingsShown(l)'
      BY <1>2, <2>2 DEF SettingsShown
    <3> QED BY <3>3, <3>4 DEF Listens, SettingsL
  <2>3. CASE ~unheard
    <3>1. SettingsShown(l) => SettingsShown(l)'
      BY <1>2, <2>3 DEF SettingsShown
    <3> QED BY <1>1, <1>2, <1>3, <1>4, <2>1, <2>3, <3>1, ListensOn DEF SettingsListed
  <2> QED BY <2>2, <2>3
<1> QED BY <1>9, <1>10 DEF SettingsListed

\* The row is left as it is, and a call goes on where it is.
LEMMA SettingsInPlace ==
    ASSUME Settings!IInv, SettingsListed, NEW i \in DOMAIN calls, NEW c \in SettingsCalls,
           calls' = [calls EXCEPT ![i] = c], UNCHANGED << ui, behind >>, db'.row = db.row,
           c.op = calls[i].op, c.then = calls[i].then,
           c.op = "fetchAppSettings" => c.arg = calls[i].arg /\ c \in SettingsF,
           calls[i] \in SettingsC => c \in SettingsC,
           c \in SettingsC => c \in SettingsReadAgain
    PROVE  SettingsListed'
<1>1. /\ calls \in Seq(SettingsCalls) /\ calls[i] \in SettingsCalls
      /\ \A k \in DOMAIN calls : calls[k] \in SettingsCalls
  BY SettingsHas
<1>2. /\ calls' \in Seq(SettingsCalls) /\ DOMAIN calls' = DOMAIN calls /\ calls'[i] = c
      /\ \A k \in DOMAIN calls \ {i} : calls'[k] = calls[k]
      /\ Len(calls') = Len(calls)
  BY <1>1, ExceptSeq, LenProperties
<1>3. AsBefore(calls', calls, i)
  BY <1>2 DEF AsBefore, Same
<1>4. /\ SettingsF' = SettingsF /\ SettingsReadAgain' = SettingsReadAgain
      /\ \A l : SettingsShown(l) => SettingsShown(l)'
  BY DEF SettingsF, SettingsReadAgain, SettingsShown
<1>5. /\ c \in SettingsOfPage <=> calls[i] \in SettingsOfPage
      /\ c \in SettingsOfPage => c \in SettingsF
      /\ c \in SettingsH <=> calls[i] \in SettingsH
      /\ \A f : calls[i] \in SettingsHeard(f) => c \in SettingsHeard(f)
      /\ \A l : c \in SettingsL(l) <=> calls[i] \in SettingsL(l)
      /\ \A l : c \in SettingsL(l) => c \in SettingsF
  <2>1. c \in SettingsOfPage <=> calls[i] \in SettingsOfPage
    BY <1>1 DEF SettingsOfPage
  <2>2. c \in SettingsH <=> calls[i] \in SettingsH
    BY <1>1 DEF SettingsH
  <2>3. \A f : calls[i] \in SettingsHeard(f) => c \in SettingsHeard(f)
    BY DEF SettingsHeard, ColumnOf
  <2>4. \A l : c \in SettingsL(l) <=> calls[i] \in SettingsL(l)
    BY <1>1 DEF SettingsL
  <2>5. (c \in SettingsOfPage => c \in SettingsF) /\ \A l : c \in SettingsL(l) => c \in SettingsF
    BY DEF SettingsOfPage, SettingsL
  <2> QED BY <2>1, <2>2, <2>3, <2>4, <2>5
<1>6. SettingsPageOK'
  <2>1. \A j, k \in DOMAIN calls' : calls'[j] \in SettingsOfPage /\ calls'[k] \in SettingsOfPage => j = k
    BY <1>2, <1>5 DEF SettingsListed, SettingsPageOK
  <2>2. \A k \in DOMAIN calls' :
          /\ calls'[k] \in SettingsOfPage => ui'.status = "loading" /\ calls'[k] \in SettingsF
          /\ calls'[k] \in SettingsH => ui'.status = "ready"
          /\ calls'[k] \in SettingsC => calls'[k] \in SettingsReadAgain
    <3> TAKE k \in DOMAIN calls'
    <3>1. CASE k = i
      BY <1>2, <1>5, <3>1 DEF SettingsListed, SettingsPageOK
    <3>2. CASE k # i
      BY <1>2, <3>2 DEF SettingsListed, SettingsPageOK
    <3> QED BY <3>1, <3>2
  <2>3. \A f : Some(calls, SettingsHeard(f)) => Some(calls', SettingsHeard(f))
    BY <1>2, <1>5 DEF Some
  <2>4. ui'.status = "ready" =>
         \A f \in Settings!Setting \ behind' : ui'.page[f] = db'.row[f] \/ Some(calls', SettingsHeard(f))
    BY <2>3 DEF SettingsListed, SettingsPageOK
  <2> QED BY <1>4, <2>1, <2>2, <2>4 DEF SettingsPageOK
<1>7. ASSUME NEW l \in Listener
      PROVE  Listens(l)'
  <2>5. /\ Kind(SettingsL(l), SettingsCalls)
        /\ i \in DOMAIN calls => (calls[i] \in SettingsL(l) <=> calls'[i] \in SettingsL(l))
    BY <1>2, <1>5, SettingsKinds
  <2>1. /\ \A X : Ageless(X, SettingsCalls) /\ Some(calls, X) /\ (i \in DOMAIN calls /\ calls[i] \in X => calls'[i] \in X)
                  => Some(calls', X)
        /\ \A F : /\ Ageless(F, SettingsCalls) /\ Fresh(calls, SettingsL(l), F)
                  /\ i \in DOMAIN calls /\ calls[i] \in F => calls'[i] \in F
                  => Fresh(calls', SettingsL(l), F)
    BY <1>1, <1>2, <1>3, <2>5, InPlaceKeeps
  <2>2. Some(calls, SettingsC) => Some(calls', SettingsC)
    BY <1>2, <2>1, SettingsKinds
  <2>3. Some(calls, SettingsL(l)) => Some(calls', SettingsL(l))
    BY <1>2, <1>5, <2>1, SettingsKinds
  <2>4. Fresh(calls, SettingsL(l), SettingsF) => Fresh(calls', SettingsL(l), SettingsF)
    <3>1. CASE calls[i] \in SettingsL(l)
      BY <1>2, <1>5, <2>1, <3>1, SettingsKinds
    <3>2. CASE calls[i] \notin SettingsL(l)
      BY <1>2, <1>5, <3>2 DEF Fresh, Later
    <3> QED BY <3>1, <3>2
  <2> QED BY <1>4, <2>2, <2>3, <2>4 DEF SettingsListed, Listens, SettingsC, SettingsH, SettingsL
<1> QED BY <1>6, <1>7 DEF SettingsListed

LEMMA SettingsListServed ==
    ASSUME Settings!IInv, Settings!IInv', SettingsListed, NEW i \in DOMAIN calls,
           \/ Settings!ServeSettings(i) \/ Settings!GetSettingsRow(i) \/ Settings!RefreshAndDelete(i)
    PROVE  SettingsListed'
<1>1. /\ calls \in Seq(SettingsCalls) /\ calls[i] \in SettingsCalls
      /\ DOMAIN calls[i] = {"op", "arg", "then", "state", "data", "old"}
  BY SettingsHas, SettingsCallsCanBeOld DEF CanBeOld
<1>2. calls' \in Seq(SettingsCalls)
  BY DEF Settings!IInv, SettingsCalls
<1>3. ASSUME NEW c, calls' = [calls EXCEPT ![i] = c]
      PROVE  c \in SettingsCalls
  <2>1. i \in DOMAIN calls' /\ calls'[i] = c
    BY <1>1, <1>3
  <2> QED BY <1>2, <2>1, ElementOfSeq, LenProperties
<1>4. CASE Settings!ServeSettings(i)
  <2> DEFINE c == [[calls[i] EXCEPT !.state = "ok"] EXCEPT !.data = db.row]
  <2>1. /\ calls' = [calls EXCEPT ![i] = c] /\ UNCHANGED << ui, db, behind >> /\ calls[i].op = "fetchAppSettings"
    BY <1>4 DEF Settings!ServeSettings, Settings!Reply, Settings!Asked, Settings!Doing
  <2>2. c \in SettingsCalls
    BY <1>3, <2>1
  <2>3. c.op = calls[i].op /\ c.then = calls[i].then /\ c.arg = calls[i].arg /\ c.data = db.row
    BY <1>1
  <2> HIDE DEF c
  <2>4. c \in SettingsF /\ c \notin SettingsC /\ calls[i] \notin SettingsC
    BY <2>1, <2>2, <2>3 DEF SettingsF, SettingsC, SettingsH, LogoOps, NameOps
  <2>5. UNCHANGED << ui, behind >> /\ db'.row = db.row
    BY <2>1
  <2> QED BY <2>1, <2>2, <2>3, <2>4, <2>5, SettingsInPlace
<1>5. CASE Settings!GetSettingsRow(i)
  <2>1. PICK c : /\ calls' = [calls EXCEPT ![i] = c] /\ c.op = calls[i].op /\ c.then = calls[i].then
                 /\ c.state = "loaded"
    <3>1. CASE calls[i].op # "uploadLogo"
      <4> DEFINE d == [[calls[i] EXCEPT !.state = "loaded"] EXCEPT !.data = db.row[Settings!Column(i)]]
      <4>1. calls' = [calls EXCEPT ![i] = d]
        BY <1>5, <3>1 DEF Settings!GetSettingsRow
      <4>2. d.op = calls[i].op /\ d.then = calls[i].then /\ d.state = "loaded"
        BY <1>1
      <4> QED BY <4>1, <4>2
    <3>2. CASE calls[i].op = "uploadLogo"
      <4> DEFINE d == [[[calls[i] EXCEPT !.state = "loaded"] EXCEPT !.data = db.row.logo] EXCEPT !.arg = db.used + 1]
      <4>1. calls' = [calls EXCEPT ![i] = d]
        BY <1>5, <3>2 DEF Settings!GetSettingsRow
      <4>2. d.op = calls[i].op /\ d.then = calls[i].then /\ d.state = "loaded"
        BY <1>1
      <4> QED BY <4>1, <4>2
    <3> QED BY <3>1, <3>2
  <2>2. /\ UNCHANGED << ui, behind >> /\ db'.row = db.row
        /\ calls[i].op \in LogoOps \cup NameOps /\ calls[i].state = "sent"
    <3>1. db \in [row : Settings!SettingsRow, objects : SUBSET Settings!Key, used : 0 .. LastKey]
      BY DEF Settings!IInv, Settings!TypeOK
    <3> QED BY <1>5, <3>1 DEF Settings!GetSettingsRow, Settings!Changing, Settings!Doing, LogoOps, NameOps
  <2>3. c \in SettingsCalls
    BY <1>3, <2>1
  <2>4. /\ c.op = "fetchAppSettings" => c.arg = calls[i].arg /\ c \in SettingsF
        /\ c \notin SettingsC /\ calls[i] \notin SettingsC
    BY <2>1, <2>2 DEF SettingsC, SettingsH, LogoOps, NameOps
  <2> QED BY <2>1, <2>2, <2>3, <2>4, SettingsInPlace
<1>6. CASE Settings!RefreshAndDelete(i)
  <2> DEFINE c == [[calls[i] EXCEPT !.state = "ok"] EXCEPT !.data = db.row[Settings!Column(i)]]
  <2>1. /\ calls' = [calls EXCEPT ![i] = c] /\ UNCHANGED << ui, behind >> /\ db'.row = db.row
        /\ calls[i].op \in LogoOps \cup NameOps
    <3>1. db \in [row : Settings!SettingsRow, objects : SUBSET Settings!Key, used : 0 .. LastKey]
      BY DEF Settings!IInv, Settings!TypeOK
    <3> QED BY <1>6, <3>1 DEF Settings!RefreshAndDelete, Settings!Reply, Settings!Changing, Settings!Doing,
                              LogoOps, NameOps
  <2>2. c \in SettingsCalls
    BY <1>3, <2>1
  <2>3. /\ c.op = calls[i].op /\ c.then = calls[i].then /\ c.state = "ok"
        /\ c.data = db.row[Settings!Column(i)]
    BY <1>1
  <2>4. Settings!Column(i) = ColumnOf(calls[i])
    BY DEF Settings!Column, ColumnOf, NameOps
  <2> HIDE DEF c
  <2>5. c \in SettingsReadAgain
    BY <2>2, <2>3, <2>4 DEF SettingsReadAgain, ColumnOf
  <2>6. calls[i] \in SettingsC => c \in SettingsC
    BY <2>2, <2>3 DEF SettingsC, SettingsH
  <2>7. c.op # "fetchAppSettings"
    BY <2>1, <2>3 DEF LogoOps, NameOps
  <2> QED BY <2>1, <2>2, <2>3, <2>5, <2>6, <2>7, SettingsInPlace
<1> QED BY <1>4, <1>5, <1>6

\* A change is committed.  One of this page will be heard of; of another's, what was answered is
\* overtaken, and nothing that could be wrong of the column or of the listeners is believed.
LEMMA SettingsListCommit ==
    ASSUME Settings!IInv, SettingsListed, NEW i \in DOMAIN calls, Settings!Commit(i)
    PROVE  SettingsListed'
<1>0. PICK f : f = ColumnOf(calls[i])
  OBVIOUS
<1> DEFINE c == [calls[i] EXCEPT !.state = "committed"]
           told == [calls EXCEPT ![i] = c]
           row == IF calls[i].arg = calls[i].data THEN db.row
                  ELSE [db.row EXCEPT ![f] = calls[i].arg]
           out == calls[i].then = "elsewhere" /\ row # db.row
<1>1. /\ calls \in Seq(SettingsCalls) /\ calls[i] \in SettingsCalls /\ DOMAIN calls \subseteq Nat
      /\ \A k \in DOMAIN calls : calls[k] \in SettingsCalls
      /\ db \in [row : Settings!SettingsRow, objects : SUBSET Settings!Key, used : 0 .. LastKey]
  BY SettingsHas DEF Settings!IInv, Settings!TypeOK
<1>2. Settings!Column(i) = f
  BY <1>0 DEF Settings!Column, ColumnOf, NameOps
<1>3. /\ calls[i].op \in LogoOps \cup NameOps /\ calls[i].state = "loaded" /\ ui' = ui
      /\ db' = [db EXCEPT !.row = row]
      /\ IF out THEN behind' = behind \cup {f} \cup Listener /\ calls' = Outdated(told, Answered)
         ELSE calls' = told /\ behind' = behind
  BY <1>2, SettingsOps DEF Settings!Commit, Settings!Changing, Settings!Doing, LogoOps, NameOps
<1>4. db'.row = row /\ \A g \in Settings!Setting \ {f} : row[g] = db.row[g]
  BY <1>1, <1>3 DEF Settings!SettingsRow, Settings!Setting
<1>5. /\ c \in SettingsCalls /\ c.op = calls[i].op /\ c.then = calls[i].then /\ c.arg = calls[i].arg
      /\ c.state = "committed"
  BY <1>1, <1>3 DEF SettingsCalls, Settings!FetchCall, Settings!LogoCall, Settings!NameCall
<1> HIDE DEF c
<1>6. /\ told \in Seq(SettingsCalls) /\ DOMAIN told = DOMAIN calls /\ told[i] = c
      /\ \A j \in DOMAIN calls \ {i} : told[j] = calls[j]
  BY <1>1, <1>5, ExceptSeq, LenProperties
<1>7. /\ c \notin SettingsOfPage /\ calls[i] \notin SettingsOfPage
      /\ c \in SettingsH <=> calls[i] \in SettingsH
      /\ calls[i] \notin SettingsC /\ (c \in SettingsC <=> calls[i].then = "here")
      /\ \A g : c \in SettingsHeard(g) <=> (calls[i].then = "here" /\ g = f)
      /\ c \in SettingsReadAgain /\ c.op # "fetchAppSettings" /\ \A l : c \notin SettingsL(l)
  <2>1. ColumnOf(c) = f
    BY <1>0, <1>5 DEF ColumnOf
  <2> QED BY <1>1, <1>3, <1>5, <2>1
          DEF SettingsOfPage, SettingsH, SettingsC, SettingsHeard, SettingsReadAgain, SettingsL, LogoOps, NameOps
<1> HIDE DEF told, row, out
<1>8. CASE row = db.row /\ calls[i].then # "here"
  <2>1. calls' = told /\ behind' = behind
    BY <1>3, <1>8 DEF out
  <2>2. /\ calls' = [calls EXCEPT ![i] = c] /\ UNCHANGED << ui, behind >> /\ db'.row = db.row
    BY <1>3, <1>4, <1>8, <2>1 DEF told
  <2> QED BY <1>5, <1>7, <2>2, SettingsInPlace
<1>9. CASE calls[i].then = "here"
  <2>1. calls' = told /\ behind' = behind /\ c \in SettingsC
    BY <1>3, <1>7, <1>9 DEF out
  <2>2. Some(calls', SettingsC)
    BY <1>6, <2>1 DEF Some
  <2>3. calls[i] \in SettingsH /\ ui.status = "ready"
    <3>1. calls[i] \in SettingsH
      BY <1>7, <2>1 DEF SettingsC
    <3> QED BY <3>1 DEF SettingsListed, SettingsPageOK
  <2>4. \A k \in DOMAIN calls : calls[k] \notin SettingsOfPage
    BY <2>3 DEF SettingsListed, SettingsPageOK
  <2>5. ASSUME NEW k \in DOMAIN calls \ {i}, calls[k] \in SettingsC
        PROVE  ColumnOf(calls[k]) # f /\ ColumnOf(calls[k]) \in Settings!Setting
    <3>1. calls[k] \in SettingsH /\ calls[k].op \in LogoOps \cup NameOps /\ calls[k].then = "here"
      BY <2>5 DEF SettingsC, SettingsH
    <3>2. Alone(calls, LogoOps, {"here"}) /\ Alone(calls, NameOps, {"here"})
      BY SettingsAlone DEF Settings!IInv, Settings!TypeOK
    <3> QED BY <1>0, <1>3, <1>9, <2>5, <3>1, <3>2 DEF Alone, Of, ColumnOf, LogoOps, NameOps, Settings!Setting
  <2>6. \A k \in DOMAIN calls' : calls'[k] \in SettingsC => calls'[k] \in SettingsReadAgain'
    <3> SUFFICES ASSUME NEW k \in DOMAIN calls, told[k] \in SettingsC PROVE told[k] \in SettingsReadAgain'
      BY <1>6, <2>1
    <3>1. CASE k = i
      BY <1>5, <1>6, <3>1 DEF SettingsReadAgain
    <3>2. CASE k # i
      <4>1. told[k] = calls[k] /\ calls[k] \in SettingsReadAgain
        BY <1>6, <3>2 DEF SettingsListed, SettingsPageOK
      <4>2. db'.row[ColumnOf(calls[k])] = db.row[ColumnOf(calls[k])]
        BY <1>4, <2>5, <3>2, <4>1
      <4> QED BY <4>1, <4>2 DEF SettingsReadAgain
    <3> QED BY <3>1, <3>2
  <2>7. \A k \in DOMAIN calls' : calls'[k] \notin SettingsOfPage
    BY <1>6, <1>7, <2>1, <2>4
  <2>8. \A g \in Settings!Setting \ behind' : ui'.page[g] = db'.row[g] \/ Some(calls', SettingsHeard(g))
    <3> TAKE g \in Settings!Setting \ behind'
    <3>1. CASE g = f
      BY <1>6, <1>7, <1>9, <2>1, <3>1 DEF Some
    <3>2. CASE g # f
      <4>1. ui.page[g] = db.row[g] \/ Some(calls, SettingsHeard(g))
        BY <2>1, <2>3 DEF SettingsListed, SettingsPageOK
      <4>2. Some(calls, SettingsHeard(g)) => Some(calls', SettingsHeard(g))
        BY <1>6, <1>7, <2>1 DEF Some, SettingsHeard
      <4> QED BY <1>3, <1>4, <3>2, <4>1, <4>2
    <3> QED BY <3>1, <3>2
  <2>9. SettingsPageOK'
    BY <1>3, <2>3, <2>6, <2>7, <2>8 DEF SettingsPageOK
  <2> QED BY <2>2, <2>9 DEF SettingsListed, Listens, Some, SettingsC, SettingsH
<1>10. CASE row # db.row /\ calls[i].then # "here"
  <2>1. out
    BY <1>1, <1>3, <1>10 DEF out, SettingsCalls, Settings!FetchCall, Settings!LogoCall, Settings!NameCall,
                             Settings!Owner, LogoOps, NameOps
  <2>2. calls' = Outdated(told, Answered) /\ behind' = behind \cup {f} \cup Listener
    BY <1>3, <2>1
  <2>3. /\ DOMAIN calls' = DOMAIN calls
        /\ \A j \in DOMAIN calls :
             calls'[j] = IF j \in Answered THEN [told[j] EXCEPT !.old = TRUE] ELSE told[j]
    BY <1>6, <2>2, SettingsCallsCanBeOld, OutdatedIs
  <2>4. \A j \in DOMAIN calls : j \in Answered \/ (calls[j].state = "sent" /\ calls[j].data = None)
    BY DEF Answered
  <2>5. i \in Answered
    BY <1>3 DEF Answered
  <2>6. ASSUME NEW j \in DOMAIN calls
        PROVE  /\ calls'[j] \in SettingsCalls
               /\ calls'[j].op = calls[j].op /\ calls'[j].arg = calls[j].arg /\ calls'[j].then = calls[j].then
               /\ calls'[j].old = TRUE \/ calls'[j].state = "sent"
               /\ j # i => calls'[j].state = calls[j].state
    <3>1. told[j] \in SettingsCalls
      BY <1>6, ElementOfSeq, LenProperties
    <3>2. LET d == [told[j] EXCEPT !.old = TRUE] IN
          /\ d \in SettingsCalls /\ d.op = told[j].op /\ d.arg = told[j].arg /\ d.then = told[j].then
          /\ d.old = TRUE /\ d.state = told[j].state
      BY <3>1, SettingsCallsCanBeOld DEF CanBeOld
    <3>3. /\ calls'[j] \in SettingsCalls
          /\ calls'[j].op = told[j].op /\ calls'[j].arg = told[j].arg /\ calls'[j].then = told[j].then
          /\ calls'[j].state = told[j].state /\ (j \in Answered => calls'[j].old = TRUE)
      BY <2>3, <3>1, <3>2
    <3>4. CASE j = i
      BY <1>5, <1>6, <2>5, <3>3, <3>4
    <3>5. CASE j # i
      BY <1>6, <2>4, <3>3, <3>5
    <3> QED BY <3>4, <3>5
  <2>7. ASSUME NEW j \in DOMAIN calls
        PROVE  /\ calls'[j] \in SettingsF' /\ calls'[j] \in SettingsReadAgain'
               /\ calls'[j] \in SettingsOfPage <=> calls[j] \in SettingsOfPage
               /\ calls'[j] \in SettingsH <=> calls[j] \in SettingsH
               /\ \A g : calls[j] \in SettingsHeard(g) => calls'[j] \in SettingsHeard(g)
    <3>1. calls'[j] \in SettingsF' /\ calls'[j] \in SettingsReadAgain'
      BY <2>6 DEF SettingsF, SettingsReadAgain
    <3>2. /\ calls'[j] \in SettingsOfPage <=> calls[j] \in SettingsOfPage
          /\ calls'[j] \in SettingsH <=> calls[j] \in SettingsH
      BY <1>1, <2>6 DEF SettingsOfPage, SettingsH
    <3>3. \A g : calls[j] \in SettingsHeard(g) => calls'[j] \in SettingsHeard(g)
      BY <1>7, <2>6 DEF SettingsHeard, SettingsC, SettingsH, ColumnOf
    <3> QED BY <3>1, <3>2, <3>3
  <2>8. SettingsPageOK'
    <3>1. \A j, k \in DOMAIN calls' : calls'[j] \in SettingsOfPage /\ calls'[k] \in SettingsOfPage => j = k
      BY <2>3, <2>7 DEF SettingsListed, SettingsPageOK
    <3>2. \A k \in DOMAIN calls' :
            /\ calls'[k] \in SettingsOfPage => ui'.status = "loading" /\ calls'[k] \in SettingsF'
            /\ calls'[k] \in SettingsH => ui'.status = "ready"
            /\ calls'[k] \in SettingsC => calls'[k] \in SettingsReadAgain'
      BY <1>3, <2>3, <2>7 DEF SettingsListed, SettingsPageOK
    <3>3. \A g : Some(calls, SettingsHeard(g)) => Some(calls', SettingsHeard(g))
      BY <2>3, <2>7 DEF Some
    <3>4. ui'.status = "ready" =>
            \A g \in Settings!Setting \ behind' : ui'.page[g] = db'.row[g] \/ Some(calls', SettingsHeard(g))
      BY <1>3, <1>4, <2>2, <3>3 DEF SettingsListed, SettingsPageOK
    <3> QED BY <3>1, <3>2, <3>4 DEF SettingsPageOK
  <2>9. ASSUME NEW l \in Listener
        PROVE  Listens(l)'
    <3>1. Fresh(calls', SettingsL(l), SettingsF') /\ SettingsShown(l)'
      BY <2>2, <2>3, <2>7 DEF Fresh, SettingsShown
    <3> QED BY <3>1 DEF Listens, SettingsL
  <2> QED BY <2>8, <2>9 DEF SettingsListed
<1> QED BY <1>8, <1>9, <1>10

LEMMA SettingsListInit ==
    ASSUME Settings!Init
    PROVE  Settings!ListIInv
<1> DEFINE c == Settings!Call("fetchAppSettings", "page", None)
           one == << c >>
           more == Settings!Loads
<1>2. /\ c \in SettingsCalls /\ c.op = "fetchAppSettings" /\ c.arg = "page" /\ c.state = "sent"
  BY DEF Settings!Call, SettingsCalls, Settings!FetchCall
<1>3. calls = one \o more /\ ui.status = "loading"
  BY DEF Settings!Init
<1> HIDE DEF c
<1>4. one \in Seq(SettingsCalls) /\ DOMAIN one = {1} /\ one[1] = c /\ Len(one) = 1
  BY <1>2, SingleMore
<1>5. /\ more \in Seq(SettingsCalls) /\ \A l \in Listener : Some(more, SettingsL(l))
      /\ \A k \in DOMAIN more : more[k].op = "fetchAppSettings" /\ more[k].state = "sent" /\ more[k].arg # "page"
  BY SettingsLoadsAll, ScreensAssumption
<1> HIDE DEF one, more
<1>6. /\ DOMAIN calls = 1 .. 1 + Len(more) /\ DOMAIN more = 1 .. Len(more) /\ Len(more) \in Nat
      /\ \A i \in 1 .. 1 + Len(more) : calls[i] = IF i <= 1 THEN one[i] ELSE more[i - 1]
  <2>1. /\ calls \in Seq(SettingsCalls) /\ Len(calls) = Len(one) + Len(more)
        /\ \A i \in 1 .. Len(one) + Len(more) :
             calls[i] = IF i <= Len(one) THEN one[i] ELSE more[i - Len(one)]
    BY <1>3, <1>4, <1>5, ConcatProperties
  <2>2. DOMAIN more = 1 .. Len(more) /\ Len(more) \in Nat
    BY <1>5, LenProperties
  <2>3. DOMAIN calls = 1 .. Len(calls)
    BY <2>1, LenProperties
  <2> QED BY <1>4, <2>1, <2>2, <2>3
<1>7. \A k \in DOMAIN calls : /\ k = 1 \/ calls[k].arg # "page"
                              /\ calls[k].op = "fetchAppSettings" /\ calls[k].state = "sent"
  <2> TAKE k \in DOMAIN calls
  <2>1. CASE k = 1
    BY <1>2, <1>4, <1>6, <2>1
  <2>2. CASE k # 1
    <3>1. k - 1 \in DOMAIN more /\ k > 1 /\ k \in Nat
      BY <1>6, <2>2
    <3>2. calls[k] = more[k - 1]
      BY <1>6, <3>1
    <3> QED BY <1>5, <3>1, <3>2
  <2> QED BY <2>1, <2>2
<1>8. Settings!PageLoad
  BY <1>3, <1>7 DEF Settings!PageLoad, Settings!LoadsOf, Settings!Doing, Settings!Changing
<1>9. Settings!Pending = {}
  BY <1>7 DEF Settings!Pending, Settings!Changing, Settings!Doing
<1>10. \A l \in Listener : /\ \A j \in Settings!LoadsOf(l) : calls[j].state = "sent"
                           /\ Settings!LoadsOf(l) # {}
  <2> TAKE l \in Listener
  <2>1. PICK k \in DOMAIN calls : calls[k] \in SettingsL(l)
    BY <1>3, <1>4, <1>5, AppendKeeps DEF Some
  <2>2. Settings!LoadsOf(l) # {}
    BY <2>1 DEF SettingsL, Settings!LoadsOf, Settings!Doing
  <2> QED BY <1>7, <2>2 DEF Settings!LoadsOf, Settings!Doing
<1> QED BY <1>3, <1>8, <1>9, <1>10 DEF Settings!ListIInv, Settings!Latest

LEMMA SettingsListNext ==
    ASSUME Settings!IInv, Settings!IInv', Settings!ListIInv, Settings!Next
    PROVE  Settings!ListIInv'
<1>1. SettingsListed
  BY SettingsListHas
<1>2. SettingsListed'
  BY <1>1, SettingsListAsked, SettingsListLoadEnded, SettingsListBrand, SettingsListSaved, SettingsListThrew,
     SettingsListServed, SettingsListCommit
     DEF Settings!Next
<1> QED BY <1>2, SettingsListStep

LEMMA SettingsShows ==
    ASSUME Settings!ListIInv
    PROVE  Settings!ShowsStored
<1> SUFFICES ASSUME calls = << >>, ui.status = "ready"
             PROVE  /\ \A f \in Settings!Setting \ behind : ui.page[f] = db.row[f]
                    /\ \A l \in Listener \ behind : ui.brand[l] = db.row
  BY DEF Settings!ShowsStored, Settings!Quiet
<1>1. DOMAIN calls = {}
  OBVIOUS
<1>2. Settings!Pending = {} /\ \A l : Settings!LoadsOf(l) = {}
  BY <1>1 DEF Settings!Pending, Settings!Changing, Settings!LoadsOf, Settings!Doing
<1> QED BY <1>2 DEF Settings!ListIInv

-----------------------------------------------------------------------------
(* The list of sales.  Sales are numbered, so the k-th of the newest of a  *)
(* range is one of its sales, and the pages of the list are as many as its *)
(* sales need.                                                             *)

LEMMA SalesCounts ==
    /\ \A S : SalesDashboard!Cardinality(S) = Cardinality(S)
    /\ \A r \in SalesDashboard!Ranges : SalesDashboard!Summarized(r) \subseteq 1 .. LastSale
    /\ \A r \in SalesDashboard!Ranges : SalesDashboard!InRange(r) \subseteq 1 .. LastSale
    /\ LastSale \in Nat /\ LastSale > 0 /\ PageSize \in Nat /\ PageSize > 0
<1>1. \A S : SalesDashboard!Cardinality(S) = Cardinality(S)
  BY DEF SalesDashboard!Cardinality, Cardinality
<1>2. Today \subseteq 1 .. LastSale /\ Month \subseteq 1 .. LastSale
  BY ScreensAssumption
<1>3. \A r \in SalesDashboard!Ranges : SalesDashboard!Summarized(r) \subseteq 1 .. LastSale
  BY <1>2 DEF SalesDashboard!Summarized
<1>4. \A r \in SalesDashboard!Ranges : SalesDashboard!InRange(r) \subseteq 1 .. LastSale
  BY <1>2 DEF SalesDashboard!InRange, SalesDashboard!Ranges, SalesDashboard!Sale
<1>5. LastSale \in Nat /\ LastSale > 0 /\ PageSize \in Nat /\ PageSize > 0
  BY ScreensAssumption, AnswersAssumption
<1> QED BY <1>1, <1>3, <1>4, <1>5

LEMMA SomeSales ==
    ASSUME NEW S \in SUBSET (1 .. LastSale)
    PROVE  IsFiniteSet(S) /\ Cardinality(S) \in 0 .. LastSale
<1>1. IsFiniteSet(1 .. LastSale) /\ Cardinality(1 .. LastSale) = LastSale
  BY SalesCounts, FS_Interval
<1>2. IsFiniteSet(S) /\ Cardinality(S) <= LastSale
  BY <1>1, FS_Subset
<1> QED BY <1>2, SalesCounts, FS_CardinalityType

\* In a strict order of a finite set, each place is of one element: that of which as many are
\* before it.
Orders(S, R) ==
    /\ \A p \in S : << p, p >> \notin R
    /\ \A p, q \in S : p = q \/ << p, q >> \in R \/ << q, p >> \in R
    /\ \A p, q, r \in S : << p, q >> \in R /\ << q, r >> \in R => << p, r >> \in R
Ahead(S, R, p) == {q \in S : << q, p >> \in R}
Ranks(S, R) ==
    /\ Cardinality(S) \in Nat
    /\ \A p \in S : Cardinality(Ahead(S, R, p)) \in 0 .. Cardinality(S) - 1
    /\ \A p, q \in S : Cardinality(Ahead(S, R, p)) = Cardinality(Ahead(S, R, q)) => p = q
    /\ \A k \in 1 .. Cardinality(S) : \E p \in S : Cardinality(Ahead(S, R, p)) = k - 1

LEMMA PlacesAreTaken ==
    ASSUME NEW S, NEW R, IsFiniteSet(S), Orders(S, R)
    PROVE  Ranks(S, R)
<1> DEFINE n == Cardinality(S)
           f == [s \in S |-> Cardinality(Ahead(S, R, s)) + 1]
<1>1. IsFiniteSet(S) /\ n \in Nat
  BY FS_CardinalityType
<1>2. ASSUME NEW s \in S
      PROVE  /\ IsFiniteSet(Ahead(S, R, s)) /\ Cardinality(Ahead(S, R, s)) \in Nat
             /\ Cardinality(Ahead(S, R, s)) <= n - 1
  <2>1. IsFiniteSet(S \ {s}) /\ Cardinality(S \ {s}) = n - 1
    BY <1>1, FS_RemoveElement
  <2>2. Ahead(S, R, s) \in SUBSET (S \ {s})
    BY DEF Ahead, Orders
  <2> HIDE DEF n
  <2> QED BY <2>1, <2>2, FS_Subset, FS_CardinalityType
<1>3. ASSUME NEW s \in S, NEW t \in S, << t, s >> \in R
      PROVE  Cardinality(Ahead(S, R, s)) # Cardinality(Ahead(S, R, t))
  <2>1. /\ Ahead(S, R, t) \in SUBSET Ahead(S, R, s) /\ t \in Ahead(S, R, s)
        /\ t \notin Ahead(S, R, t)
    BY <1>3 DEF Ahead, Orders
  <2> QED BY <1>2, <2>1, FS_Subset
<1>4. f \in [S -> 1 .. n] /\ \A s \in S : f[s] = Cardinality(Ahead(S, R, s)) + 1
  BY <1>1, <1>2
<1> HIDE DEF f
<1>5. ASSUME NEW s \in S, NEW t \in S, Cardinality(Ahead(S, R, s)) = Cardinality(Ahead(S, R, t))
      PROVE  s = t
  BY <1>3, <1>5 DEF Orders
<1>6. f \in Injection(S, 1 .. n)
  <2>1. \A s, t \in S : f[s] = f[t] => s = t
    BY <1>2, <1>4, <1>5
  <2> QED BY <1>4, <2>1 DEF Injection, IsInjective
<1>7. IsFiniteSet(1 .. n) /\ Cardinality(1 .. n) = n
  BY <1>1, FS_Interval
<1>8. f \in Surjection(S, 1 .. n)
  BY <1>6, <1>7, FS_Injection
<1>9. ASSUME NEW k \in 1 .. n
      PROVE  \E p \in S : Cardinality(Ahead(S, R, p)) = k - 1
  <2>1. PICK s \in S : f[s] = k
    BY <1>8 DEF Surjection
  <2> QED BY <1>1, <1>2, <1>4, <2>1
<1> QED BY <1>1, <1>2, <1>5, <1>9 DEF Ranks

\* Of n sales, the k-th newest is one of them.
LEMMA NewestIs ==
    ASSUME NEW S \in SUBSET (1 .. LastSale), NEW k \in 1 .. Cardinality(S)
    PROVE  SalesDashboard!Newest(S, k) \in S
<1> DEFINE R == {x \in S \X S : x[1] > x[2]}
<1>1. IsFiniteSet(S)
  BY SomeSales
<1>2. Orders(S, R)
  <2>1. S \subseteq Int
    OBVIOUS
  <2> QED BY <2>1 DEF Orders
<1>3. \A p \in S : Ahead(S, R, p) = {newer \in S : newer > p}
  BY DEF Ahead
<1> HIDE DEF R
<1>4. PICK s \in S : Cardinality(Ahead(S, R, s)) = k - 1
  <2>1. Ranks(S, R)
    BY <1>1, <1>2, PlacesAreTaken
  <2> QED BY <2>1 DEF Ranks
<1>5. SalesDashboard!Cardinality({newer \in S : newer > s}) = k - 1
  BY <1>3, <1>4, SalesCounts
<1> QED BY <1>5 DEF SalesDashboard!Newest

LEMMA PagesAre ==
    /\ \A n \in 0 .. LastSale : SalesDashboard!Pages(n) \in 1 .. LastSale
    /\ \A m, n \in 0 .. LastSale : m <= n => SalesDashboard!Pages(m) <= SalesDashboard!Pages(n)
<1> DEFINE q(n) == (n + PageSize - 1) \div PageSize
<1>1. ASSUME NEW n \in Nat
      PROVE  /\ q(n) \in Int /\ q(n) * PageSize \in Int /\ q(n) * PageSize <= n + PageSize - 1
             /\ n + PageSize - 1 < q(n) * PageSize + PageSize
  BY SalesCounts
<1>2. ASSUME NEW a \in Int, NEW b \in Int, a > b
      PROVE  a * PageSize >= b * PageSize + PageSize
  BY <1>2, SalesCounts
<1>3. \A n \in 0 .. LastSale : SalesDashboard!Pages(n) = IF n = 0 THEN 1 ELSE q(n)
  BY DEF SalesDashboard!Pages
<1> HIDE DEF q
<1>4. ASSUME NEW n \in 1 .. LastSale
      PROVE  q(n) >= 1 /\ q(n) <= n
  <2>1. CASE q(n) > n
    <3>1. q(n) * PageSize >= n * PageSize + PageSize
      BY <1>1, <1>2, <2>1
    <3>2. n \in Nat /\ n * PageSize >= n /\ n * PageSize \in Int
      BY SalesCounts
    <3>3. PICK a \in Int, b \in Int : a = n * PageSize /\ b = q(n) * PageSize
      BY <1>1, <3>2
    <3>4. b >= a + PageSize /\ a >= n /\ b <= n + PageSize - 1
      BY <1>1, <3>1, <3>2, <3>3
    <3> QED BY <3>2, <3>3, <3>4, SalesCounts
  <2>2. CASE 1 > q(n)
    <3>1. 1 * PageSize >= q(n) * PageSize + PageSize
      BY <1>1, <1>2, <2>2
    <3> QED BY <1>1, <3>1, SalesCounts
  <2> QED BY <1>1, <2>1, <2>2, SalesCounts
<1>5. ASSUME NEW m \in 0 .. LastSale, NEW n \in 0 .. LastSale, m <= n
      PROVE  SalesDashboard!Pages(m) <= SalesDashboard!Pages(n)
  <2>1. CASE m = 0
    BY <1>1, <1>3, <1>4, <2>1, SalesCounts
  <2>2. CASE m # 0
    <3>1. q(m) <= q(n)
      <4>1. CASE q(m) > q(n)
        <5>1. q(m) * PageSize >= q(n) * PageSize + PageSize
          BY <1>1, <1>2, <4>1
        <5> QED BY <1>1, <1>5, <5>1, SalesCounts
      <4> QED BY <1>1, <4>1
    <3> QED BY <1>3, <1>5, <2>2, <3>1
  <2> QED BY <2>1, <2>2
<1>6. \A n \in 0 .. LastSale : SalesDashboard!Pages(n) \in 1 .. LastSale
  BY <1>1, <1>3, <1>4, SalesCounts
<1> QED BY <1>5, <1>6

\* What the server answers, of a range and of one of its pages.
LEMMA MadeIs ==
    ASSUME NEW r \in SalesDashboard!Ranges
    PROVE  /\ SalesDashboard!Made(SalesDashboard!InRange(r)) \in SUBSET (1 .. LastSale)
           /\ SalesDashboard!Total(r) = Cardinality(SalesDashboard!Made(SalesDashboard!InRange(r)))
           /\ SalesDashboard!Total(r) \in 0 .. LastSale
<1>1. SalesDashboard!Made(SalesDashboard!InRange(r)) \in SUBSET (1 .. LastSale)
  BY SalesCounts DEF SalesDashboard!Made
<1>2. SalesDashboard!Total(r) = Cardinality(SalesDashboard!Made(SalesDashboard!InRange(r)))
  BY SalesCounts DEF SalesDashboard!Total
<1> QED BY <1>1, <1>2, SomeSales

LEMMA SummaryIs ==
    ASSUME db \in [SalesDashboard!Sale -> SalesDashboard!Estado], NEW r \in SalesDashboard!Ranges
    PROVE  /\ SalesDashboard!GetSummary(r) \in SalesDashboard!Summary
           /\ r # "abierto" =>
                SalesDashboard!GetSummary(r).ventas + SalesDashboard!GetSummary(r).anuladas = SalesDashboard!Total(r)
<1> DEFINE M == SalesDashboard!Summarized(r)
           sold == SalesDashboard!With(M, "completada")
           undone == SalesDashboard!With(M, "anulada")
<1>1. M \subseteq 1 .. LastSale
  BY SalesCounts
<1>2. sold \in SUBSET (1 .. LastSale) /\ undone \in SUBSET (1 .. LastSale) /\ sold \cap undone = {}
  BY <1>1 DEF SalesDashboard!With
<1>3. sold \cup undone = SalesDashboard!Made(M)
  <2>1. \A s \in M : db[s] \in SalesDashboard!Estado
    BY <1>1 DEF SalesDashboard!Sale
  <2> QED BY <2>1 DEF SalesDashboard!Made, SalesDashboard!With, SalesDashboard!Estado
<1>4. SalesDashboard!GetSummary(r) = [ventas |-> Cardinality(sold), anuladas |-> Cardinality(undone)]
  BY SalesCounts DEF SalesDashboard!GetSummary
<1>5. r # "abierto" => M = SalesDashboard!InRange(r)
  BY DEF SalesDashboard!Summarized, SalesDashboard!InRange, SalesDashboard!Ranges
<1> HIDE DEF M, sold, undone
<1>6. /\ IsFiniteSet(sold) /\ IsFiniteSet(undone)
      /\ Cardinality(sold) \in 0 .. LastSale /\ Cardinality(undone) \in 0 .. LastSale
  BY <1>2, SomeSales
<1>7. Cardinality(sold \cup undone) = Cardinality(sold) + Cardinality(undone)
  <2>1. Cardinality(sold \cap undone) = 0
    BY <1>2, FS_EmptySet
  <2>2. Cardinality(sold \cup undone) = Cardinality(sold) + Cardinality(undone) - Cardinality(sold \cap undone)
    BY <1>6, FS_Union
  <2> QED BY <1>6, <2>1, <2>2, SalesCounts
<1>8. sold \cup undone \in SUBSET (1 .. LastSale)
  BY <1>2
<1>9. Cardinality(sold) + Cardinality(undone) <= LastSale
  BY <1>7, <1>8, SomeSales
<1>10. SalesDashboard!GetSummary(r) \in SalesDashboard!Summary
  BY <1>4, <1>6, <1>9 DEF SalesDashboard!Summary
<1>11. r # "abierto" => Cardinality(sold) + Cardinality(undone) = SalesDashboard!Total(r)
  BY <1>3, <1>5, <1>7, MadeIs
<1> QED BY <1>4, <1>10, <1>11

LEMMA PageIs ==
    ASSUME db \in [SalesDashboard!Sale -> SalesDashboard!Estado],
           NEW r \in SalesDashboard!Ranges, NEW p \in 1 .. LastSale
    PROVE  /\ SalesDashboard!GetPage(r, p) \in SalesDashboard!ListPage
           /\ SalesDashboard!PageFits(SalesDashboard!GetPage(r, p), r)
           /\ SalesDashboard!GetPage(r, p).total = SalesDashboard!Total(r)
<1> DEFINE all == SalesDashboard!Made(SalesDashboard!InRange(r))
           total == Cardinality(all)
           offset == (p - 1) * PageSize
           size == IF total - offset < PageSize THEN total - offset ELSE PageSize
           row(s) == [id |-> s, estado |-> db[s]]
           items == [k \in 1 .. size |-> row(SalesDashboard!Newest(all, offset + k))]
<1>1. all \in SUBSET (1 .. LastSale) /\ total \in 0 .. LastSale /\ total = SalesDashboard!Total(r)
  BY MadeIs
<1>2. SalesDashboard!GetPage(r, p) = [items |-> items, total |-> total]
  BY SalesCounts DEF SalesDashboard!GetPage
<1> HIDE DEF all
<1>3. offset \in Nat
  <2>1. PICK q \in Nat : q = p - 1
    BY SalesCounts
  <2>2. q * PageSize \in Nat
    BY SalesCounts
  <2> QED BY <2>1, <2>2
<1> HIDE DEF total, offset
<1>4. size \in Int /\ size <= PageSize /\ size <= total - offset
  BY <1>1, <1>3, SalesCounts
<1> HIDE DEF size
<1>5. \A k \in 1 .. size : row(SalesDashboard!Newest(all, offset + k)) \in [id : SalesDashboard!Sale, estado : SalesDashboard!Estado]
  <2> SUFFICES ASSUME NEW k \in 1 .. size
               PROVE  row(SalesDashboard!Newest(all, offset + k)) \in [id : SalesDashboard!Sale, estado : SalesDashboard!Estado]
    OBVIOUS
  <2>1. offset + k \in 1 .. Cardinality(all)
    BY <1>1, <1>3, <1>4, SalesCounts DEF total
  <2>2. SalesDashboard!Newest(all, offset + k) \in all
    BY <1>1, <2>1, NewestIs
  <2>3. SalesDashboard!Newest(all, offset + k) \in SalesDashboard!Sale
    BY <1>1, <2>2 DEF SalesDashboard!Sale
  <2> QED BY <2>3
<1> HIDE DEF row
<1>6. PICK n \in Nat : 1 .. size = 1 .. n /\ n <= PageSize
  <2>1. CASE size >= 0
    BY <1>4, <2>1
  <2>2. CASE size < 0
    <3>1. 1 .. size = 1 .. 0 /\ 0 \in Nat /\ 0 <= PageSize
      BY <1>4, <2>2, SalesCounts
    <3> QED BY <3>1
  <2> QED BY <1>4, <2>1, <2>2
<1>7. items \in Seq([id : SalesDashboard!Sale, estado : SalesDashboard!Estado]) /\ Len(items) = n
  <2>1. items = [k \in 1 .. n |-> row(SalesDashboard!Newest(all, offset + k))]
    BY <1>6
  <2> DEFINE T == [id : SalesDashboard!Sale, estado : SalesDashboard!Estado]
  <2>2. \A k \in 1 .. n : items[k] \in T
    BY <1>5, <1>6
  <2>3. DOMAIN items = 1 .. n
    BY <1>6
  <2> HIDE DEF T, items
  <2>4. items = [k \in 1 .. n |-> items[k]]
    BY <2>1, <2>3 DEF items
  <2>5. items \in Seq(T)
    BY <2>2, <2>4, IsASeq
  <2>6. Len(items) = n
    BY <2>3, <2>5, LenProperties
  <2> QED BY <2>5, <2>6 DEF T
<1> HIDE DEF items
<1> QED BY <1>1, <1>2, <1>6, <1>7 DEF SalesDashboard!ListPage, SalesDashboard!PageFits

\* Sales are made and never unmade.
LEMMA TotalGrows ==
    ASSUME \A s \in SalesDashboard!Sale : db[s] # "ninguna" => db'[s] # "ninguna", NEW r \in SalesDashboard!Ranges
    PROVE  /\ SalesDashboard!Total(r)' \in 0 .. LastSale /\ SalesDashboard!Total(r) <= SalesDashboard!Total(r)'
<1> DEFINE R == SalesDashboard!InRange(r)
           T == SalesDashboard!Made(R)'
<1>1. R \subseteq 1 .. LastSale
  BY SalesCounts
<1>2. T \in SUBSET (1 .. LastSale)
  BY <1>1 DEF SalesDashboard!Made
<1>3. SalesDashboard!Made(R) \in SUBSET T
  BY <1>1 DEF SalesDashboard!Made, SalesDashboard!With, SalesDashboard!Sale
<1>4. SalesDashboard!Total(r)' = Cardinality(T)
  BY SalesCounts DEF SalesDashboard!Total
<1>5. SalesDashboard!Total(r) = Cardinality(SalesDashboard!Made(R))
  BY MadeIs
<1> HIDE DEF T, R
<1> QED BY <1>2, <1>3, <1>4, <1>5, SomeSales, FS_Subset

LEMMA SalesSame ==
    ASSUME UNCHANGED db, NEW r, NEW p
    PROVE  /\ SalesDashboard!GetSummary(r)' = SalesDashboard!GetSummary(r)
           /\ SalesDashboard!GetPage(r, p)' = SalesDashboard!GetPage(r, p)
           /\ SalesDashboard!Total(r)' = SalesDashboard!Total(r)
<1>1. \A S, e : SalesDashboard!With(S, e)' = SalesDashboard!With(S, e)
  BY DEF SalesDashboard!With
<1>2. SalesDashboard!Made(SalesDashboard!InRange(r))' = SalesDashboard!Made(SalesDashboard!InRange(r))
  BY <1>1 DEF SalesDashboard!Made
<1>3. SalesDashboard!GetSummary(r)' = SalesDashboard!GetSummary(r)
  BY <1>1 DEF SalesDashboard!GetSummary
<1>4. SalesDashboard!Total(r)' = SalesDashboard!Total(r)
  BY <1>2 DEF SalesDashboard!Total
<1>5. SalesDashboard!GetPage(r, p)' = SalesDashboard!GetPage(r, p)
  BY <1>2 DEF SalesDashboard!GetPage
<1> QED BY <1>3, <1>4, <1>5

\* A load is answered in two parts, each as the sales are when it is served; only a voided
\* sale is asked for again.
SalesCalls == SalesDashboard!LoadCall \cup SalesDashboard!VoidCall \cup SalesDashboard!DetailCall
SalesKept == {c \in SalesCalls : c.op = "load" => SalesDashboard!LoadOK(c)}
SalesL == {c \in SalesCalls : c.op = "load"}
SalesC == {c \in SalesCalls : c.op = "void" /\ c.state = "ok"}
SalesF == {c \in SalesCalls : c.op = "load" => c.old \/ SalesDashboard!IsStored(c)}

SalesFits ==
    IF ui.status = "ready"
    THEN /\ ui.shown \in SalesDashboard!Answer /\ None \notin {ui.shown.summary, ui.shown.page}
         /\ Len(ui.shown.page.items) <= PageSize
         /\ ~behind => SalesDashboard!PageFits(ui.shown.page, ui.range)
    ELSE ui.shown = None
SalesPage ==
    /\ db \in [SalesDashboard!Sale -> SalesDashboard!Estado] /\ behind \in BOOLEAN
    /\ ui.status \in {"loading", "ready", "error"}
    /\ ui.range \in SalesDashboard!Ranges /\ ui.page \in 1 .. LastSale /\ ui.strayed \in BOOLEAN
    /\ ui.target \in SalesDashboard!Sale \cup {None} /\ ui.detail \in SalesDashboard!Sale \cup {None}
    /\ SalesFits
    /\ ui.strayed \/ ui.page <= SalesDashboard!Pages(SalesDashboard!Total(ui.range))
    /\ ui.status = "loading" => Some(calls, SalesL)

SalesShown ==
    ui.status = "ready" /\ ~behind =>
        ui.shown = [summary |-> SalesDashboard!GetSummary(ui.range),
                    page |-> SalesDashboard!GetPage(ui.range, ui.page)]
SalesUpToDate ==
    Some(calls, SalesC) \/ (Fresh(calls, SalesL, SalesF) /\ (Some(calls, SalesL) \/ SalesShown))
SalesListed == SalesPage /\ calls \in Seq(SalesKept) /\ SalesUpToDate

LEMMA SalesCallIs ==
    ASSUME NEW c \in SalesCalls
    PROVE  /\ c.op \in {"load", "void", "detail"} /\ DOMAIN c = CallFields /\ c.old \in BOOLEAN
           /\ [c EXCEPT !.old = TRUE] \in SalesCalls
           /\ c.op = "load" => c \in SalesDashboard!LoadCall
           /\ c.op = "void" => c \in SalesDashboard!VoidCall
           /\ c.op = "detail" => c \in SalesDashboard!DetailCall
BY DEF SalesCalls, CallFields, SalesDashboard!LoadCall, SalesDashboard!VoidCall, SalesDashboard!DetailCall

LEMMA SalesKinds ==
    /\ CanBeOld(SalesKept) /\ SalesKept \subseteq SalesCalls
    /\ Kind(SalesL, SalesKept) /\ Ageless(SalesL, SalesKept) /\ Ageless(SalesC, SalesKept)
    /\ Ageless(SalesF, SalesKept)
    /\ Harmless(SalesF, SalesL, SalesKept) /\ Harmless(SalesF', SalesL, SalesKept)
<1>1. \A c \in SalesCalls :
         LET d == [c EXCEPT !.old = TRUE] IN
         /\ d \in SalesCalls /\ d.op = c.op /\ d.state = c.state /\ d.data = c.data /\ d.arg = c.arg /\ d.old = TRUE
         /\ DOMAIN c = {"op", "arg", "then", "state", "data", "old"}
  <2> SUFFICES ASSUME NEW c \in SalesCalls
               PROVE  LET d == [c EXCEPT !.old = TRUE] IN
                      /\ d \in SalesCalls /\ d.op = c.op /\ d.state = c.state /\ d.data = c.data /\ d.arg = c.arg
                      /\ d.old = TRUE /\ DOMAIN c = {"op", "arg", "then", "state", "data", "old"}
    OBVIOUS
  <2>1. DOMAIN c = {"op", "arg", "then", "state", "data", "old"} /\ [c EXCEPT !.old = TRUE] \in SalesCalls
    BY SalesCallIs DEF CallFields
  <2> QED BY <2>1
<1>2. SalesKept \subseteq SalesCalls
  BY DEF SalesKept
<1>3. CanBeOld(SalesKept)
  BY <1>1 DEF CanBeOld, SalesKept, SalesDashboard!LoadOK
<1>4. Kind(SalesL, SalesKept) /\ Ageless(SalesL, SalesKept) /\ Ageless(SalesC, SalesKept)
  BY <1>1, <1>2 DEF Kind, Ageless, SalesL, SalesC
<1>5. Ageless(SalesF, SalesKept)
  BY <1>1, <1>2 DEF Ageless, SalesF
<1>6. Harmless(SalesF, SalesL, SalesKept)
  BY <1>1, <1>2 DEF Harmless, SalesF, SalesL, SalesDashboard!IsStored
<1>7. Harmless(SalesF', SalesL, SalesKept)
  BY <1>1, <1>2 DEF Harmless, SalesF, SalesL, SalesDashboard!IsStored
<1> QED BY <1>2, <1>3, <1>4, <1>5, <1>6, <1>7

LEMMA SalesCallsHas ==
    ASSUME calls \in Seq(SalesKept)
    PROVE  /\ \A k \in DOMAIN calls : calls[k] \in SalesKept /\ calls[k] \in SalesCalls
           /\ DOMAIN calls \subseteq Nat /\ 0 \notin DOMAIN calls
BY ElementOfSeq, LenProperties, SalesKinds

LEMMA SalesListHas ==
    ASSUME SalesDashboard!ListIInv
    PROVE  SalesListed
<1>1. calls \in Seq(SalesCalls) /\ SalesDashboard!TypeOK
  BY DEF SalesCalls, SalesDashboard!ListIInv
<1>2. /\ DOMAIN calls = 1 .. Len(calls) /\ Len(calls) \in Nat
      /\ \A k \in DOMAIN calls : calls[k] \in SalesCalls
  BY <1>1, ElementOfSeq, LenProperties
<1>3. \A j \in DOMAIN calls : calls[j] \in SalesL <=> j \in SalesDashboard!Doing("load")
  BY <1>2 DEF SalesL, SalesDashboard!Doing
<1>4. \A k \in DOMAIN calls : calls[k] \in SalesKept
  BY <1>2 DEF SalesKept, SalesDashboard!ListIInv, SalesDashboard!Doing
<1>5. calls \in Seq(SalesKept)
  <2>1. calls = [k \in 1 .. Len(calls) |-> calls[k]]
    BY <1>1, LenProperties
  <2> HIDE DEF SalesKept
  <2> QED BY <1>2, <1>4, <2>1, IsASeq
<1>6. SalesFits
  BY <1>1, AnswersAssumption DEF SalesFits, SalesDashboard!TypeOK, SalesDashboard!ListIInv
<1>7. SalesPage
  <2>1. ui.status = "loading" => Some(calls, SalesL)
    BY <1>1, <1>3 DEF SalesDashboard!TypeOK, SalesDashboard!Doing, Some
  <2> QED BY <1>1, <1>6, <2>1 DEF SalesPage, SalesDashboard!TypeOK, SalesDashboard!ListIInv
<1>8. (\E k \in DOMAIN calls : calls[k] \in SalesC) <=> SalesDashboard!Unheard({"void"}) # {}
  BY <1>2 DEF SalesC, SalesDashboard!Unheard
<1>9. \A j \in DOMAIN calls :
         calls[j] \in SalesL => Later(calls, j, SalesL) \/ j \in SalesDashboard!Latest(SalesDashboard!Doing("load"))
  BY <1>2, <1>3 DEF Later, SalesDashboard!Latest, SalesDashboard!Doing
<1>10. ASSUME SalesDashboard!Unheard({"void"}) = {}
       PROVE  SalesUpToDate
  <2>1. \A j \in SalesDashboard!Latest(SalesDashboard!Doing("load")) :
            calls[j].old \/ SalesDashboard!IsStored(calls[j])
    BY <1>10 DEF SalesDashboard!ListIInv
  <2>2. Fresh(calls, SalesL, SalesF)
    BY <1>2, <1>9, <2>1 DEF Fresh, SalesF
  <2>3. Some(calls, SalesL) \/ SalesShown
    BY <1>3, <1>10 DEF Some, SalesShown, SalesDashboard!ListIInv, SalesDashboard!Doing
  <2> QED BY <2>2, <2>3 DEF SalesUpToDate
<1>11. SalesUpToDate
  BY <1>8, <1>10 DEF SalesUpToDate, Some
<1> QED BY <1>5, <1>7, <1>11 DEF SalesListed

LEMMA SalesListStep ==
    ASSUME SalesDashboard!DialogOK', SalesListed'
    PROVE  SalesDashboard!ListIInv'
<1>1. calls' \in Seq(SalesKept') /\ SalesKept' \subseteq SalesCalls
  BY DEF SalesListed, SalesKept
<1>2. /\ DOMAIN calls' \subseteq Nat
      /\ \A k \in DOMAIN calls' : calls'[k] \in SalesKept' /\ calls'[k] \in SalesCalls
  BY <1>1, ElementOfSeq, LenProperties
<1>3. calls' \in Seq(SalesCalls)
  BY <1>1, SeqMonotonic
<1>4. /\ \A j \in SalesDashboard!Doing("load")' : j \in DOMAIN calls' /\ calls'[j] \in SalesL
      /\ \A j \in DOMAIN calls' : calls'[j] \in SalesL => j \in SalesDashboard!Doing("load")'
  BY <1>2 DEF SalesL, SalesDashboard!Doing
<1>5. (\A j \in SalesDashboard!Doing("load") : SalesDashboard!LoadOK(calls[j]))'
  <2>1. \A j \in SalesDashboard!Doing("load")' : calls'[j] \in SalesKept' /\ calls'[j].op = "load"
    BY <1>2 DEF SalesDashboard!Doing
  <2> QED BY <2>1 DEF SalesKept
<1>6. SalesPage'
  BY DEF SalesListed
<1>7. (ui.shown \in {None} \cup SalesDashboard!Answer)'
  BY <1>6 DEF SalesPage, SalesFits
<1>8. (ui.status = "ready" =>
         /\ ui.shown.summary.ventas + ui.shown.summary.anuladas <= LastSale
         /\ Len(ui.shown.page.items) <= PageSize
         /\ None \notin {ui.shown.summary, ui.shown.page}
         /\ ~behind => SalesDashboard!PageFits(ui.shown.page, ui.range))'
  <2>1. (ui.status = "ready" => ui.shown.summary \in SalesDashboard!Summary)'
    BY <1>6 DEF SalesPage, SalesFits, SalesDashboard!Answer
  <2> QED BY <1>6, <2>1 DEF SalesPage, SalesFits, SalesDashboard!Summary
<1>9. SalesDashboard!TypeOK'
  <2>1. (ui.submitting = (SalesDashboard!Doing("void") # {}) /\ \A i, j \in SalesDashboard!Doing("void") : i = j)'
    BY DEF SalesDashboard!DialogOK
  <2>2. (ui.status = "loading" => SalesDashboard!Doing("load") # {})'
    BY <1>4, <1>6 DEF SalesPage, Some, SalesL
  <2>3. ((ui.shown = None) = (ui.status # "ready"))'
    BY <1>6, AnswersAssumption DEF SalesPage, SalesFits
  <2> QED BY <1>6, <1>8, <2>1, <2>2, <2>3 DEF SalesPage, SalesDashboard!TypeOK
<1>10. Some(calls', SalesC) => SalesDashboard!Unheard({"void"})' # {}
  BY DEF SalesC, SalesDashboard!Unheard, Some
<1>11. \A j \in SalesDashboard!Latest(SalesDashboard!Doing("load"))' :
          j \in SalesDashboard!Doing("load")' /\ ~Later(calls', j, SalesL)
  BY <1>2, <1>4 DEF Later, SalesDashboard!Latest
<1>12. (SalesDashboard!Unheard({"void"}) = {} =>
          /\ \A j \in SalesDashboard!Latest(SalesDashboard!Doing("load")) :
               calls[j].old \/ SalesDashboard!IsStored(calls[j])
          /\ SalesDashboard!Doing("load") = {} /\ ui.status = "ready" /\ ~behind =>
               ui.shown = [summary |-> SalesDashboard!GetSummary(ui.range),
                           page |-> SalesDashboard!GetPage(ui.range, ui.page)])'
  <2>1. CASE Some(calls', SalesC)
    BY <1>10, <2>1
  <2>2. CASE Fresh(calls', SalesL, SalesF') /\ (Some(calls', SalesL) \/ SalesShown')
    <3>1. \A j \in SalesDashboard!Latest(SalesDashboard!Doing("load"))' : calls'[j] \in SalesF' /\ calls'[j].op = "load"
      BY <1>4, <1>11, <2>2 DEF Fresh, SalesL
    <3>2. (\A j \in SalesDashboard!Latest(SalesDashboard!Doing("load")) :
              calls[j].old \/ SalesDashboard!IsStored(calls[j]))'
      BY <3>1 DEF SalesF
    <3>3. (SalesDashboard!Doing("load") = {} /\ ui.status = "ready" /\ ~behind =>
              ui.shown = [summary |-> SalesDashboard!GetSummary(ui.range),
                          page |-> SalesDashboard!GetPage(ui.range, ui.page)])'
      BY <1>4, <2>2 DEF Some, SalesShown
    <3> QED BY <3>2, <3>3
  <2> QED BY <2>1, <2>2 DEF SalesListed, SalesUpToDate, Some, Fresh, SalesL, SalesC
<1> QED BY <1>3, <1>5, <1>6, <1>7, <1>8, <1>9, <1>12 DEF SalesCalls, SalesPage, SalesDashboard!ListIInv

\* As long as no sale is made or voided, the answers are what they were.
LEMMA SalesStay ==
    ASSUME UNCHANGED db
    PROVE  /\ SalesF' = SalesF /\ SalesKept' = SalesKept
           /\ (\A x \in {"status", "range", "page", "shown"} : ui'[x] = ui[x]) /\ behind' = behind =>
                SalesShown' = SalesShown
<1>1. \A r, p : /\ SalesDashboard!GetSummary(r)' = SalesDashboard!GetSummary(r)
                /\ SalesDashboard!GetPage(r, p)' = SalesDashboard!GetPage(r, p)
                /\ SalesDashboard!Total(r)' = SalesDashboard!Total(r)
  BY SalesSame
<1>2. \A c : SalesDashboard!IsStored(c)' <=> SalesDashboard!IsStored(c)
  BY <1>1 DEF SalesDashboard!IsStored
<1>3. \A c : SalesDashboard!LoadOK(c)' <=> SalesDashboard!LoadOK(c)
  BY <1>1 DEF SalesDashboard!LoadOK, SalesDashboard!PageFits
<1>4. SalesF' = SalesF
  BY <1>2 DEF SalesF
<1>5. SalesKept' = SalesKept
  BY <1>3 DEF SalesKept
<1>6. ASSUME \A x \in {"status", "range", "page", "shown"} : ui'[x] = ui[x], behind' = behind
      PROVE  SalesShown' = SalesShown
  <2>1. ui'.status = ui.status /\ ui'.range = ui.range /\ ui'.page = ui.page /\ ui'.shown = ui.shown
    BY <1>6
  <2>2. (SalesDashboard!GetSummary(ui.range))' = SalesDashboard!GetSummary(ui.range)
    BY <2>1 DEF SalesDashboard!GetSummary, SalesDashboard!With
  <2>3. (SalesDashboard!GetPage(ui.range, ui.page))' = SalesDashboard!GetPage(ui.range, ui.page)
    BY <2>1 DEF SalesDashboard!GetPage, SalesDashboard!Made, SalesDashboard!With
  <2> QED BY <1>6, <2>1, <2>2, <2>3 DEF SalesShown
<1> QED BY <1>4, <1>5, <1>6

\* What the page shows of a range is still of sales that were made.
LEMMA SalesGrow ==
    ASSUME \A s \in SalesDashboard!Sale : db[s] # "ninguna" => db'[s] # "ninguna"
    PROVE  SalesKept \subseteq SalesKept'
<1> SUFFICES ASSUME NEW c \in SalesKept, c.op = "load"
             PROVE  SalesDashboard!LoadOK(c)'
  BY DEF SalesKept
<1>1. c \in SalesDashboard!LoadCall /\ SalesDashboard!LoadOK(c)
  BY SalesCallIs DEF SalesKept
<1>2. c.arg.range \in SalesDashboard!Ranges /\ c.data \in {None} \cup SalesDashboard!Answer
  BY <1>1 DEF SalesDashboard!LoadCall, SalesDashboard!Shown
<1>3. /\ SalesDashboard!Total(c.arg.range)' \in 0 .. LastSale /\ SalesDashboard!Total(c.arg.range) \in 0 .. LastSale
      /\ SalesDashboard!Total(c.arg.range) <= SalesDashboard!Total(c.arg.range)'
  BY <1>2, TotalGrows, MadeIs
<1>4. c.data # None /\ c.data.page # None => c.data.page.total \in 0 .. LastSale
  BY <1>2 DEF SalesDashboard!Answer, SalesDashboard!ListPage
<1> QED BY <1>1, <1>3, <1>4, SalesCounts DEF SalesDashboard!LoadOK, SalesDashboard!PageFits

\* The list does not change, but that its dialogs may, and that sales may be made.
LEMMA SalesPageKept ==
    ASSUME SalesPage, db' \in [SalesDashboard!Sale -> SalesDashboard!Estado],
           \A s \in SalesDashboard!Sale : db[s] # "ninguna" => db'[s] # "ninguna",
           \A x \in {"status", "range", "page", "shown", "strayed"} : ui'[x] = ui[x],
           ui'.target \in SalesDashboard!Sale \cup {None}, ui'.detail \in SalesDashboard!Sale \cup {None},
           behind' \in BOOLEAN, behind => behind', Some(calls, SalesL) => Some(calls', SalesL)
    PROVE  SalesPage'
<1>1. /\ ui'.status = ui.status /\ ui'.range = ui.range /\ ui'.page = ui.page /\ ui'.shown = ui.shown
      /\ ui'.strayed = ui.strayed
  OBVIOUS
<1>2. PICK r \in SalesDashboard!Ranges : r = ui.range
  BY DEF SalesPage
<1>3. /\ SalesDashboard!Total(r)' \in 0 .. LastSale /\ SalesDashboard!Total(r) \in 0 .. LastSale
      /\ SalesDashboard!Total(r) <= SalesDashboard!Total(r)'
  BY TotalGrows, MadeIs
<1>4. SalesDashboard!Total(ui.range)' = SalesDashboard!Total(r)'
  BY <1>1, <1>2
<1>5. SalesFits'
  <2>1. CASE ui.status = "ready" /\ ~behind'
    <3>1. ui.shown.page.total \in 0 .. LastSale
      BY <2>1 DEF SalesPage, SalesFits, SalesDashboard!Answer, SalesDashboard!ListPage
    <3>2. ui.shown.page.total <= SalesDashboard!Total(r)
      BY <1>2, <2>1 DEF SalesPage, SalesFits, SalesDashboard!PageFits
    <3>3. (SalesDashboard!PageFits(ui.shown.page, ui.range))'
      BY <1>1, <1>3, <1>4, <2>1, <3>1, <3>2, SalesCounts DEF SalesPage, SalesFits, SalesDashboard!PageFits
    <3> QED BY <1>1, <2>1, <3>3 DEF SalesPage, SalesFits
  <2>2. CASE ~(ui.status = "ready" /\ ~behind')
    BY <1>1, <2>2 DEF SalesPage, SalesFits
  <2> QED BY <2>1, <2>2
<1>6. (ui.strayed \/ ui.page <= SalesDashboard!Pages(SalesDashboard!Total(ui.range)))'
  <2>1. SalesDashboard!Pages(SalesDashboard!Total(r)) <= SalesDashboard!Pages(SalesDashboard!Total(r)')
    BY <1>3, PagesAre
  <2>2. /\ SalesDashboard!Pages(SalesDashboard!Total(r)) \in 1 .. LastSale
        /\ SalesDashboard!Pages(SalesDashboard!Total(r)') \in 1 .. LastSale
    BY <1>3, PagesAre
  <2>3. SalesDashboard!Pages(SalesDashboard!Total(ui.range))' = SalesDashboard!Pages(SalesDashboard!Total(r)')
    BY <1>4 DEF SalesDashboard!Pages
  <2> QED BY <1>1, <1>2, <2>1, <2>2, <2>3, SalesCounts DEF SalesPage
<1> QED BY <1>1, <1>5, <1>6 DEF SalesPage

\* A call is made.
LEMMA SalesMade ==
    ASSUME calls \in Seq(SalesKept), SalesUpToDate, NEW c \in SalesKept, calls' = calls \o << c >>, UNCHANGED db,
           c.state = "sent", c.data = None, c.op = "load" \/ (SalesShown => SalesShown')
    PROVE  /\ calls' \in Seq(SalesKept') /\ SalesUpToDate'
           /\ Some(calls, SalesL) \/ c.op = "load" => Some(calls', SalesL)
<1> DEFINE more == << c >>
<1>1. calls \in Seq(SalesKept) /\ more \in Seq(SalesKept) /\ DOMAIN more = {1} /\ more[1] = c /\ \A X : Some(more, X) <=> c \in X
  BY SingleMore
<1>2. calls' = calls \o more
  OBVIOUS
<1> HIDE DEF more
<1>3. /\ \A X : Some(calls, X) \/ Some(more, X) => Some(calls', X)
      /\ \A F : /\ \A k \in DOMAIN more : more[k] \in SalesL => more[k] \in F
                /\ Fresh(calls, SalesL, F) \/ Some(more, SalesL)
                => Fresh(calls', SalesL, F)
  <2> HIDE DEF SalesL
  <2>1. /\ \A X : Some(calls, X) \/ Some(more, X) => Some(calls \o more, X)
        /\ \A F : /\ \A k \in DOMAIN more : more[k] \in SalesL => more[k] \in F
                  /\ Fresh(calls, SalesL, F) \/ Some(more, SalesL)
                  => Fresh(calls \o more, SalesL, F)
    BY <1>1, AppendKeeps
  <2> QED BY <1>2, <2>1
<1>4. SalesF' = SalesF /\ SalesKept' = SalesKept
  BY SalesStay
<1>5. c \in SalesF /\ (c.op = "load" => c \in SalesL)
  BY SalesKinds DEF SalesF, SalesL, SalesDashboard!IsStored
<1>6. Fresh(calls, SalesL, SalesF) \/ c.op = "load" => Fresh(calls', SalesL, SalesF')
  BY <1>1, <1>3, <1>4, <1>5
<1>7. calls' \in Seq(SalesKept)
  BY <1>1, <1>2, ConcatProperties
<1>8. c.op = "load" => Some(calls', SalesL)
  BY <1>1, <1>3, <1>5
<1>9. Some(calls, SalesC) => Some(calls', SalesC)
  BY <1>3
<1>10. Some(calls, SalesL) => Some(calls', SalesL)
  BY <1>3
<1>11. SalesUpToDate'
  BY <1>6, <1>8, <1>9, <1>10 DEF SalesUpToDate, SalesC, SalesL
<1> QED BY <1>4, <1>7, <1>8, <1>10, <1>11

\* The calls go on where they are, but that i may be answered.
LEMMA SalesInPlace ==
    ASSUME calls \in Seq(SalesKept), SalesUpToDate, calls' \in Seq(SalesKept), NEW i, AsBefore(calls', calls, i),
           UNCHANGED db, SalesShown => SalesShown',
           i \in DOMAIN calls => /\ calls[i].op = calls'[i].op /\ calls[i] \notin SalesC
                                 /\ calls[i] \in SalesF => calls'[i] \in SalesF
    PROVE  /\ calls' \in Seq(SalesKept') /\ SalesUpToDate'
           /\ Some(calls, SalesL) => Some(calls', SalesL)
<1>1. /\ DOMAIN calls' = DOMAIN calls
      /\ \A k \in DOMAIN calls : calls[k] \in SalesCalls /\ calls'[k] \in SalesCalls
  <2>1. DOMAIN calls' = DOMAIN calls
    BY LenProperties DEF AsBefore
  <2>2. \A k \in DOMAIN calls : calls[k] \in SalesKept /\ calls'[k] \in SalesKept
    BY <2>1, ElementOfSeq, LenProperties
  <2> QED BY <2>1, <2>2, SalesKinds
<1>2. i \in DOMAIN calls => (calls[i] \in SalesL <=> calls'[i] \in SalesL)
  BY <1>1 DEF SalesL
<1>3. Kind(SalesL, SalesKept)
  BY SalesKinds
<1>4. /\ \A X : Ageless(X, SalesKept) /\ Some(calls, X) /\ (i \in DOMAIN calls /\ calls[i] \in X => calls'[i] \in X)
                => Some(calls', X)
      /\ \A F : /\ Ageless(F, SalesKept) /\ Fresh(calls, SalesL, F)
                /\ i \in DOMAIN calls /\ calls[i] \in F => calls'[i] \in F
                => Fresh(calls', SalesL, F)
  BY <1>2, <1>3, InPlaceKeeps
<1>5. SalesF' = SalesF /\ SalesKept' = SalesKept
  BY SalesStay
<1>6. Some(calls, SalesC) => Some(calls', SalesC)
  BY <1>4, SalesKinds
<1>7. Some(calls, SalesL) => Some(calls', SalesL)
  BY <1>2, <1>4, SalesKinds
<1>8. Fresh(calls, SalesL, SalesF) => Fresh(calls', SalesL, SalesF')
  BY <1>4, <1>5, SalesKinds
<1>9. SalesUpToDate'
  BY <1>6, <1>7, <1>8 DEF SalesUpToDate, SalesC, SalesL
<1> QED BY <1>5, <1>7, <1>9

\* Another page, or the first of another range: it exists, if the list it was counted in was
\* of the range.
LEMMA SalesListTurned ==
    ASSUME SalesDashboard!DialogOK, SalesListed,
           NEW range \in SalesDashboard!Ranges, NEW pg \in 1 .. LastSale, NEW strayed \in BOOLEAN,
           strayed \/ pg <= SalesDashboard!Pages(SalesDashboard!Total(range)),
           SalesDashboard!Show(range, pg, strayed)
    PROVE  SalesListed'
<1> DEFINE shown == [range |-> range, page |-> pg]
           c == SalesDashboard!Call("load", shown, None)
<1>1. /\ calls' = calls \o << c >> /\ UNCHANGED << db, behind >>
      /\ ui' = [ui EXCEPT !.range = range, !.page = pg, !.strayed = strayed,
                          !.status = "loading", !.shown = None]
  BY SalesOps DEF SalesDashboard!Show, Start
<1>2. c \in SalesKept /\ c.op = "load" /\ c.state = "sent" /\ c.data = None
  <2>1. c \in SalesDashboard!LoadCall /\ c.op = "load" /\ c.state = "sent" /\ c.data = None
    BY DEF SalesDashboard!LoadCall, SalesDashboard!Shown, SalesDashboard!Call
  <2> HIDE DEF c
  <2> QED BY <2>1 DEF SalesKept, SalesCalls, SalesDashboard!LoadOK
<1> HIDE DEF c
<1>3. calls' \in Seq(SalesKept') /\ SalesUpToDate' /\ Some(calls', SalesL)
  BY <1>1, <1>2, SalesMade DEF SalesListed
<1>4. /\ ui'.status = "loading" /\ ui'.range = range /\ ui'.page = pg /\ ui'.strayed = strayed
      /\ ui'.shown = None /\ ui'.target = ui.target /\ ui'.detail = ui.detail
  BY <1>1, SalesHas DEF SalesFields
<1>5. SalesDashboard!Pages(SalesDashboard!Total(ui.range))' = SalesDashboard!Pages(SalesDashboard!Total(range))
  <2>1. SalesDashboard!Total(range)' = SalesDashboard!Total(range)
    BY <1>1, SalesSame
  <2>2. SalesDashboard!Total(ui.range)' = SalesDashboard!Total(range)'
    BY <1>4
  <2> QED BY <2>1, <2>2 DEF SalesDashboard!Pages
<1>6. SalesPage'
  <2>1. SalesPage
    BY DEF SalesListed
  <2> QED BY <1>1, <1>3, <1>4, <1>5, <2>1 DEF SalesPage, SalesFits
<1> QED BY <1>3, <1>6 DEF SalesListed

LEMMA SalesListPaged ==
    ASSUME SalesDashboard!DialogOK, SalesListed,
           \/ SalesDashboard!Anterior \/ SalesDashboard!Siguiente
           \/ \E r \in SalesDashboard!Ranges : SalesDashboard!HandleRangeChange(r)
    PROVE  SalesListed'
<1>1. SalesPage
  BY DEF SalesListed
<1>2. /\ ui.range \in SalesDashboard!Ranges /\ ui.page \in 1 .. LastSale /\ ui.strayed \in BOOLEAN /\ behind \in BOOLEAN
      /\ ui.strayed \/ ui.page <= SalesDashboard!Pages(SalesDashboard!Total(ui.range))
  BY <1>1 DEF SalesPage
<1>3. \A r \in SalesDashboard!Ranges : /\ SalesDashboard!Total(r) \in 0 .. LastSale
                                       /\ SalesDashboard!Pages(SalesDashboard!Total(r)) \in 1 .. LastSale
  BY MadeIs, PagesAre
<1>4. CASE SalesDashboard!Anterior
  <2>1. ui.page > 1 /\ SalesDashboard!Show(ui.range, ui.page - 1, ui.strayed)
    BY <1>4 DEF SalesDashboard!Anterior
  <2>2. /\ ui.page - 1 \in 1 .. LastSale
        /\ ui.strayed \/ ui.page - 1 <= SalesDashboard!Pages(SalesDashboard!Total(ui.range))
    BY <1>2, <1>3, <2>1, SalesCounts
  <2> QED BY <1>2, <2>1, <2>2, SalesListTurned
<1>5. CASE SalesDashboard!Siguiente
  <2>1. /\ ui.status = "ready" /\ ui.page < SalesDashboard!Pages(ui.shown.page.total)
        /\ SalesDashboard!Show(ui.range, ui.page + 1, behind)
    BY <1>5 DEF SalesDashboard!Siguiente, SalesDashboard!Paging, SalesDashboard!TotalPages
  <2>2. ui.shown.page.total \in 0 .. LastSale
    BY <1>1, <2>1 DEF SalesPage, SalesFits, SalesDashboard!Answer, SalesDashboard!ListPage
  <2>3. ~behind => ui.shown.page.total <= SalesDashboard!Total(ui.range)
    BY <1>1, <2>1 DEF SalesPage, SalesFits, SalesDashboard!PageFits
  <2>4. /\ SalesDashboard!Pages(ui.shown.page.total) \in 1 .. LastSale
        /\ ~behind => SalesDashboard!Pages(ui.shown.page.total) <= SalesDashboard!Pages(SalesDashboard!Total(ui.range))
    BY <1>2, <1>3, <2>2, <2>3, PagesAre
  <2>5. /\ ui.page + 1 \in 1 .. LastSale
        /\ behind \/ ui.page + 1 <= SalesDashboard!Pages(SalesDashboard!Total(ui.range))
    BY <1>2, <1>3, <2>1, <2>4, SalesCounts
  <2> QED BY <1>2, <2>1, <2>5, SalesListTurned
<1>6. ASSUME NEW r \in SalesDashboard!Ranges, SalesDashboard!HandleRangeChange(r)
      PROVE  SalesListed'
  <2>1. SalesDashboard!Show(r, 1, FALSE)
    BY <1>6 DEF SalesDashboard!HandleRangeChange
  <2>2. 1 \in 1 .. LastSale /\ 1 <= SalesDashboard!Pages(SalesDashboard!Total(r))
    BY <1>3, SalesCounts
  <2> QED BY <2>1, <2>2, SalesListTurned
<1> QED BY <1>4, <1>5, <1>6

\* The dialogs: the list stays as it is.
LEMMA SalesListStays ==
    ASSUME SalesListed, UNCHANGED << db, behind >>,
           \A x \in {"status", "range", "page", "shown", "strayed"} : ui'[x] = ui[x],
           ui'.target \in SalesDashboard!Sale \cup {None}, ui'.detail \in SalesDashboard!Sale \cup {None}
    PROVE  /\ SalesShown => SalesShown'
           /\ calls' \in Seq(SalesKept') /\ SalesUpToDate' /\ (Some(calls, SalesL) => Some(calls', SalesL)) => SalesListed'
<1>1. SalesShown => SalesShown'
  BY SalesStay
<1>2. ASSUME Some(calls, SalesL) => Some(calls', SalesL)
      PROVE  SalesPage'
  <2>1. SalesPage
    BY DEF SalesListed
  <2>2. /\ db' \in [SalesDashboard!Sale -> SalesDashboard!Estado] /\ behind' \in BOOLEAN /\ (behind => behind')
        /\ \A s \in SalesDashboard!Sale : db[s] # "ninguna" => db'[s] # "ninguna"
    BY <2>1 DEF SalesPage
  <2> QED BY <1>2, <2>1, <2>2, SalesPageKept
<1> QED BY <1>1, <1>2 DEF SalesListed

LEMMA SalesListRow ==
    ASSUME SalesPage, NEW row \in SalesDashboard!Rows
    PROVE  row.id \in SalesDashboard!Sale
<1>1. ui.status = "ready" /\ row \in SalesDashboard!ToSet(ui.shown.page.items)
  BY DEF SalesDashboard!Rows
<1>2. ui.shown.page.items \in Seq([id : SalesDashboard!Sale, estado : SalesDashboard!Estado])
  BY <1>1 DEF SalesPage, SalesFits, SalesDashboard!Answer, SalesDashboard!ListPage
<1> DEFINE Row == [id : SalesDashboard!Sale, estado : SalesDashboard!Estado]
<1>3. PICK k \in DOMAIN ui.shown.page.items : row = ui.shown.page.items[k]
  BY <1>1 DEF SalesDashboard!ToSet
<1>4. row \in Row
  <2> HIDE DEF Row
  <2>1. PICK items \in Seq(Row) : items = ui.shown.page.items
    BY <1>2 DEF Row
  <2>2. k \in 1 .. Len(items)
    BY <1>3, <2>1, LenProperties
  <2> QED BY <1>3, <2>1, <2>2, ElementOfSeq
<1> QED BY <1>4

LEMMA SalesListDialogs ==
    ASSUME SalesDashboard!DialogOK, SalesListed,
           \/ SalesDashboard!HandleSubmit \/ SalesDashboard!Volver \/ SalesDashboard!CloseDetail
           \/ \E row \in SalesDashboard!Rows : SalesDashboard!Anular(row) \/ SalesDashboard!HandleViewDetail(row)
    PROVE  SalesListed'
<1>1. /\ SalesPage /\ calls \in Seq(SalesKept) /\ SalesUpToDate /\ DOMAIN ui = SalesFields /\ 0 \notin DOMAIN calls
      /\ ui.target \in SalesDashboard!Sale \cup {None} /\ ui.detail \in SalesDashboard!Sale \cup {None}
  BY SalesHas, SalesCallsHas DEF SalesListed, SalesPage
<1>2. CASE SalesDashboard!HandleSubmit
  <2> DEFINE c == SalesDashboard!Call("void", ui.target, SalesDashboard!View)
  <2>1. /\ calls' = calls \o << c >> /\ UNCHANGED << db, behind >> /\ ui.target # None
        /\ ui' = [ui EXCEPT !.submitting = TRUE, !.notice = None]
    BY <1>2, SalesOps DEF SalesDashboard!HandleSubmit, SalesDashboard!Submit, Start
  <2>2. c \in SalesKept /\ c.op = "void" /\ c.state = "sent" /\ c.data = None
    <3>1. SalesDashboard!View \in SalesDashboard!Shown
      BY <1>1 DEF SalesPage, SalesDashboard!View, SalesDashboard!Shown
    <3>2. c \in SalesDashboard!VoidCall /\ c.op = "void" /\ c.state = "sent" /\ c.data = None
      BY <1>1, <2>1, <3>1 DEF SalesDashboard!VoidCall, SalesDashboard!Call
    <3> HIDE DEF c
    <3> QED BY <3>2 DEF SalesKept, SalesCalls
  <2> HIDE DEF c
  <2>3. /\ \A x \in {"status", "range", "page", "shown", "strayed"} : ui'[x] = ui[x]
        /\ ui'.target = ui.target /\ ui'.detail = ui.detail
    BY <1>1, <2>1 DEF SalesFields
  <2>4. SalesShown => SalesShown'
    BY <1>1, <2>1, <2>3, SalesListStays
  <2>5. calls' \in Seq(SalesKept') /\ SalesUpToDate' /\ (Some(calls, SalesL) => Some(calls', SalesL))
    BY <1>1, <2>1, <2>2, <2>4, SalesMade
  <2> QED BY <1>1, <2>1, <2>3, <2>5, SalesListStays
<1>3. ASSUME NEW row \in SalesDashboard!Rows, SalesDashboard!HandleViewDetail(row)
      PROVE  SalesListed'
  <2> DEFINE c == SalesDashboard!Call("detail", row.id, None)
  <2>1. calls' = calls \o << c >> /\ UNCHANGED << ui, db, behind >>
    BY <1>3, SalesOps DEF SalesDashboard!HandleViewDetail, Start
  <2>2. c \in SalesKept /\ c.op = "detail" /\ c.state = "sent" /\ c.data = None
    <3>1. c \in SalesDashboard!DetailCall /\ c.op = "detail" /\ c.state = "sent" /\ c.data = None
      BY <1>1, SalesListRow DEF SalesDashboard!DetailCall, SalesDashboard!Call
    <3> HIDE DEF c
    <3> QED BY <3>1 DEF SalesKept, SalesCalls
  <2> HIDE DEF c
  <2>3. SalesShown => SalesShown'
    BY <1>1, <2>1, SalesListStays
  <2>4. calls' \in Seq(SalesKept') /\ SalesUpToDate' /\ (Some(calls, SalesL) => Some(calls', SalesL))
    BY <1>1, <2>1, <2>2, <2>3, SalesMade
  <2> QED BY <1>1, <2>1, <2>4, SalesListStays
<1>4. ASSUME calls' \in Seq(SalesKept), AsBefore(calls', calls, 0), UNCHANGED << db, behind >>,
             \A x \in {"status", "range", "page", "shown", "strayed"} : ui'[x] = ui[x],
             ui'.target \in SalesDashboard!Sale \cup {None}, ui'.detail \in SalesDashboard!Sale \cup {None}
      PROVE  SalesListed'
  <2>1. SalesShown => SalesShown'
    BY <1>4, SalesListStays
  <2>2. calls' \in Seq(SalesKept') /\ SalesUpToDate' /\ (Some(calls, SalesL) => Some(calls', SalesL))
    BY <1>1, <1>4, <2>1, SalesInPlace
  <2> QED BY <1>4, <2>2, SalesListStays
<1>5. AsBefore(calls, calls, 0)
  BY DEF AsBefore, Same
<1>6. CASE SalesDashboard!Volver
  <2>1. /\ calls' = Outdated(calls, Doing("void")) /\ UNCHANGED << db, behind >>
        /\ ui' = [ui EXCEPT !.target = None, !.notice = None]
    BY <1>6, SalesOps DEF SalesDashboard!Volver, SalesDashboard!CloseDialog
  <2>2. calls' \in Seq(SalesKept) /\ AsBefore(calls', calls, 0)
    BY <1>1, <2>1, OutdatedIs, Overtaken, SalesKinds
  <2>3. /\ \A x \in {"status", "range", "page", "shown", "strayed"} : ui'[x] = ui[x]
        /\ ui'.target = None /\ ui'.detail = ui.detail
    BY <1>1, <2>1 DEF SalesFields
  <2> QED BY <1>1, <1>4, <2>1, <2>2, <2>3
<1>7. CASE SalesDashboard!CloseDetail
  <2>1. ui' = [ui EXCEPT !.detail = None] /\ UNCHANGED << db, calls, behind >>
    BY <1>7 DEF SalesDashboard!CloseDetail
  <2>2. /\ \A x \in {"status", "range", "page", "shown", "strayed"} : ui'[x] = ui[x]
        /\ ui'.target = ui.target /\ ui'.detail = None
    BY <1>1, <2>1 DEF SalesFields
  <2> QED BY <1>1, <1>4, <1>5, <2>1, <2>2
<1>8. ASSUME NEW row \in SalesDashboard!Rows, SalesDashboard!Anular(row)
      PROVE  SalesListed'
  <2>1. ui' = [ui EXCEPT !.target = row.id, !.notice = None] /\ UNCHANGED << db, calls, behind >>
    BY <1>8 DEF SalesDashboard!Anular, SalesDashboard!Opened
  <2>2. /\ \A x \in {"status", "range", "page", "shown", "strayed"} : ui'[x] = ui[x]
        /\ ui'.target = row.id /\ ui'.detail = ui.detail
    BY <1>1, <2>1 DEF SalesFields
  <2>3. row.id \in SalesDashboard!Sale
    BY <1>1, SalesListRow
  <2> QED BY <1>1, <1>4, <1>5, <2>1, <2>2, <2>3
<1> QED BY <1>2, <1>3, <1>6, <1>7, <1>8

\* A load is answered or fails.
LEMMA SalesListLoadEnded ==
    ASSUME SalesDashboard!DialogOK, SalesListed, NEW i \in DOMAIN calls,
           SalesDashboard!LoadReturned(i) \/ SalesDashboard!LoadThrew(i)
    PROVE  SalesListed'
<1> DEFINE more == << >>
<1>1. /\ SalesPage /\ calls \in Seq(SalesKept) /\ SalesUpToDate /\ DOMAIN ui = SalesFields
      /\ calls[i] \in SalesKept /\ calls[i] \in SalesCalls
      /\ more \in Seq(SalesKept) /\ DOMAIN more = {}
  BY SalesHas, SalesCallsHas, EmptyMore DEF SalesListed
<1>2. calls' = Ended(i, more) /\ UNCHANGED db /\ calls[i].op = "load"
  BY SalesOps DEF SalesDashboard!LoadReturned, SalesDashboard!LoadThrew, SalesDashboard!Returned,
                  SalesDashboard!Threw, SalesDashboard!Doing
<1> HIDE DEF more
<1>3. calls[i] \in SalesL /\ calls[i] \notin SalesC /\ \A c \in SalesL : c.op = calls[i].op
  BY <1>1, <1>2 DEF SalesL, SalesC
<1>4. calls[i] \in SalesDashboard!LoadCall /\ SalesDashboard!LoadOK(calls[i])
  BY <1>1, <1>2, SalesCallIs DEF SalesKept
<1>5. CanBeOld(SalesKept) /\ Kind(SalesL, SalesKept)
  BY SalesKinds
<1>6. calls' \in Seq(SalesKept)
  BY <1>1, <1>2, <1>5, EndedBecomes
<1>7. /\ \A X : Ageless(X, SalesKept) /\ Some(calls, X) /\ calls[i] \notin X => Some(calls', X)
      /\ Later(calls, i, SalesL) => Some(calls', SalesL)
      /\ \A F : /\ Harmless(F, SalesL, SalesKept) /\ \A k \in DOMAIN more : more[k] \in SalesL => more[k] \in F
                /\ \/ Some(more, SalesL)
                   \/ /\ Fresh(calls, SalesL, F)
                      /\ calls[i] \in SalesL => \A k \in DOMAIN calls : calls[k] \in SalesL => calls[k].op = calls[i].op
                => Fresh(calls', SalesL, F)
  BY <1>1, <1>2, <1>5, EndedKeeps
<1>8. Fresh(calls, SalesL, SalesF) => Fresh(calls', SalesL, SalesF)
  BY <1>1, <1>3, <1>7, SalesKinds
<1>9. Some(calls, SalesC) => Some(calls', SalesC)
  BY <1>3, <1>7, SalesKinds
<1>10. /\ SalesF' = SalesF /\ SalesKept' = SalesKept
       /\ \A r, p : /\ SalesDashboard!GetSummary(r)' = SalesDashboard!GetSummary(r)
                    /\ SalesDashboard!GetPage(r, p)' = SalesDashboard!GetPage(r, p)
                    /\ SalesDashboard!Total(r)' = SalesDashboard!Total(r)
  BY <1>2, SalesStay, SalesSame
<1>11. CASE SalesDashboard!LoadThrew(i)
  <2>1. ui' = [ui EXCEPT !.status = "error", !.shown = None] /\ behind' = behind
    BY <1>11 DEF SalesDashboard!LoadThrew
  <2>2. /\ ui'.status = "error" /\ ui'.range = ui.range /\ ui'.page = ui.page /\ ui'.strayed = ui.strayed
        /\ ui'.shown = None /\ ui'.target = ui.target /\ ui'.detail = ui.detail
    BY <1>1, <2>1 DEF SalesFields
  <2>3. SalesDashboard!Pages(SalesDashboard!Total(ui.range))' = SalesDashboard!Pages(SalesDashboard!Total(ui.range))
    <3>1. SalesDashboard!Total(ui.range)' = SalesDashboard!Total(ui.range)
      BY <1>2, <2>2 DEF SalesDashboard!Total, SalesDashboard!Made, SalesDashboard!With
    <3> QED BY <3>1 DEF SalesDashboard!Pages
  <2>4. SalesPage'
    BY <1>1, <1>2, <2>1, <2>2, <2>3 DEF SalesPage, SalesFits
  <2>5. SalesShown'
    BY <2>2 DEF SalesShown
  <2>6. SalesUpToDate'
    BY <1>1, <1>8, <1>9, <1>10, <2>5 DEF SalesUpToDate, SalesC, SalesL
  <2> QED BY <1>6, <1>10, <2>4, <2>6 DEF SalesListed
<1>12. CASE SalesDashboard!LoadReturned(i)
  <2>1. /\ ui' = [ui EXCEPT !.status = "ready", !.shown = calls[i].data]
        /\ behind' = (calls[i].old \/ calls[i].arg # SalesDashboard!View)
        /\ calls[i].state = "ok"
    BY <1>12 DEF SalesDashboard!LoadReturned, SalesDashboard!Returned
  <2>2. /\ ui'.status = "ready" /\ ui'.range = ui.range /\ ui'.page = ui.page /\ ui'.strayed = ui.strayed
        /\ ui'.shown = calls[i].data /\ ui'.target = ui.target /\ ui'.detail = ui.detail
    BY <1>1, <2>1 DEF SalesFields
  <2>3. /\ (SalesDashboard!Total(ui.range))' = SalesDashboard!Total(ui.range)
        /\ SalesDashboard!Pages(SalesDashboard!Total(ui.range))' = SalesDashboard!Pages(SalesDashboard!Total(ui.range))
    <3>1. SalesDashboard!Total(ui.range)' = SalesDashboard!Total(ui.range)
      BY <1>2, <2>2 DEF SalesDashboard!Total, SalesDashboard!Made, SalesDashboard!With
    <3> QED BY <3>1 DEF SalesDashboard!Pages
  <2>4. /\ calls[i].data \in SalesDashboard!Answer /\ None \notin {calls[i].data.summary, calls[i].data.page}
        /\ calls[i].data # None /\ calls[i].old \in BOOLEAN
        /\ SalesDashboard!PageFits(calls[i].data.page, calls[i].arg.range)
    BY <1>1, <1>4, <2>1, AnswersAssumption, SalesCallIs DEF SalesDashboard!LoadOK
  <2>5. ~behind' => ~calls[i].old /\ calls[i].arg.range = ui.range /\ calls[i].arg.page = ui.page
    <3>1. ~behind' => ~calls[i].old /\ calls[i].arg = SalesDashboard!View
      BY <2>1, <2>4
    <3>2. SalesDashboard!View.range = ui.range /\ SalesDashboard!View.page = ui.page
      BY DEF SalesDashboard!View
    <3> QED BY <3>1, <3>2
  <2>6. SalesFits'
    <3>1. Len(calls[i].data.page.items) <= PageSize
      BY <2>4 DEF SalesDashboard!PageFits
    <3>2. ~behind' => SalesDashboard!PageFits(ui.shown.page, ui.range)'
      BY <2>2, <2>3, <2>4, <2>5 DEF SalesDashboard!PageFits
    <3> QED BY <2>2, <2>4, <3>1, <3>2 DEF SalesFits
  <2>7. behind' \in BOOLEAN
    BY <2>1, <2>4
  <2>8. SalesPage'
    BY <1>1, <1>2, <2>2, <2>3, <2>6, <2>7 DEF SalesPage
  <2>9. ASSUME Fresh(calls, SalesL, SalesF), ~Some(calls', SalesL)
        PROVE  SalesShown'
    <3>1. calls[i] \in SalesF
      BY <1>3, <1>7, <2>9 DEF Fresh
    <3>2. ASSUME ~behind'
          PROVE  calls[i].data = [summary |-> SalesDashboard!GetSummary(ui.range),
                                  page |-> SalesDashboard!GetPage(ui.range, ui.page)]
      <4>1. /\ calls[i].data.summary = SalesDashboard!GetSummary(ui.range)
            /\ calls[i].data.page = SalesDashboard!GetPage(ui.range, ui.page)
        BY <1>2, <2>4, <2>5, <3>1, <3>2 DEF SalesF, SalesDashboard!IsStored
      <4> QED BY <2>4, <4>1 DEF SalesDashboard!Answer
    <3>3. SalesDashboard!GetSummary(ui.range)' = SalesDashboard!GetSummary(ui.range)
      BY <1>2, <2>2 DEF SalesDashboard!GetSummary, SalesDashboard!With
    <3>4. SalesDashboard!GetPage(ui.range, ui.page)' = SalesDashboard!GetPage(ui.range, ui.page)
      BY <1>2, <2>2 DEF SalesDashboard!GetPage, SalesDashboard!Made, SalesDashboard!With
    <3> QED BY <2>2, <3>2, <3>3, <3>4 DEF SalesShown
  <2>10. SalesUpToDate'
    BY <1>1, <1>8, <1>9, <1>10, <2>9 DEF SalesUpToDate, SalesC, SalesL
  <2> QED BY <1>6, <1>10, <2>8, <2>10 DEF SalesListed
<1> QED BY <1>11, <1>12

\* A sale is voided: the page it was voided from is loaded again.
LEMMA SalesListVoided ==
    ASSUME SalesDashboard!DialogOK, SalesListed, NEW i \in DOMAIN calls, SalesDashboard!VoidReturned(i)
    PROVE  SalesListed'
<1> DEFINE c == SalesDashboard!Call("load", calls[i].then, None)
           more == << c >>
<1>1. /\ SalesPage /\ calls \in Seq(SalesKept) /\ DOMAIN ui = SalesFields
      /\ calls[i] \in SalesKept /\ calls[i] \in SalesCalls
  BY SalesHas, SalesCallsHas DEF SalesListed
<1>2. /\ calls' = Ended(i, more) /\ UNCHANGED << db, behind >> /\ calls[i].op = "void"
      /\ ui' = [ui EXCEPT !.target = None, !.submitting = FALSE, !.notice = None,
                          !.status = "loading", !.shown = None]
  BY SalesOps DEF SalesDashboard!VoidReturned, SalesDashboard!Returned, SalesDashboard!Doing
<1>3. c \in SalesKept /\ c \in SalesL /\ c \in SalesF
  <2>1. calls[i].then \in SalesDashboard!Shown
    BY <1>1, <1>2, SalesCallIs DEF SalesDashboard!VoidCall
  <2>2. c \in SalesDashboard!LoadCall /\ c.op = "load" /\ c.state = "sent" /\ c.data = None
    BY <2>1 DEF SalesDashboard!LoadCall, SalesDashboard!Call
  <2> HIDE DEF c
  <2> QED BY <2>2 DEF SalesKept, SalesCalls, SalesL, SalesF, SalesDashboard!LoadOK, SalesDashboard!IsStored
<1> HIDE DEF c
<1>4. more \in Seq(SalesKept) /\ DOMAIN more = {1} /\ more[1] = c /\ \A X : Some(more, X) <=> c \in X
  BY <1>3, SingleMore
<1> HIDE DEF more
<1>5. CanBeOld(SalesKept) /\ Kind(SalesL, SalesKept) /\ Harmless(SalesF, SalesL, SalesKept)
  BY SalesKinds
<1>6. calls' \in Seq(SalesKept)
  BY <1>1, <1>2, <1>4, <1>5, EndedBecomes
<1>7. /\ \A X : Some(more, X) => Some(calls', X)
      /\ \A F : /\ Harmless(F, SalesL, SalesKept) /\ \A k \in DOMAIN more : more[k] \in SalesL => more[k] \in F
                /\ \/ Some(more, SalesL)
                   \/ /\ Fresh(calls, SalesL, F)
                      /\ calls[i] \in SalesL => \A k \in DOMAIN calls : calls[k] \in SalesL => calls[k].op = calls[i].op
                => Fresh(calls', SalesL, F)
  BY <1>1, <1>2, <1>4, <1>5, EndedKeeps
<1>8. Some(calls', SalesL) /\ Fresh(calls', SalesL, SalesF)
  BY <1>3, <1>4, <1>5, <1>7
<1>9. SalesF' = SalesF /\ SalesKept' = SalesKept
  BY <1>2, SalesStay
<1>10. /\ ui'.status = "loading" /\ ui'.range = ui.range /\ ui'.page = ui.page /\ ui'.strayed = ui.strayed
       /\ ui'.shown = None /\ ui'.target = None /\ ui'.detail = ui.detail
  BY <1>1, <1>2 DEF SalesFields
<1>11. SalesDashboard!Pages(SalesDashboard!Total(ui.range))' = SalesDashboard!Pages(SalesDashboard!Total(ui.range))
  <2>1. SalesDashboard!Total(ui.range)' = SalesDashboard!Total(ui.range)
    BY <1>2, <1>10 DEF SalesDashboard!Total, SalesDashboard!Made, SalesDashboard!With
  <2> QED BY <2>1 DEF SalesDashboard!Pages
<1>12. SalesPage'
  BY <1>1, <1>2, <1>8, <1>10, <1>11 DEF SalesPage, SalesFits, SalesL
<1> QED BY <1>6, <1>8, <1>9, <1>12 DEF SalesListed, SalesUpToDate, SalesL

\* Voiding fails, and the page does not load again; or a ticket is shown.
LEMMA SalesListHeard ==
    ASSUME SalesDashboard!DialogOK, SalesListed, NEW i \in DOMAIN calls,
           SalesDashboard!VoidThrew(i) \/ SalesDashboard!DetailEnded(i)
    PROVE  SalesListed'
<1>1. /\ SalesPage /\ calls \in Seq(SalesKept) /\ SalesUpToDate /\ DOMAIN ui = SalesFields
      /\ calls[i] \in SalesKept /\ calls[i] \in SalesCalls
  BY SalesHas, SalesCallsHas DEF SalesListed
<1>2. CanBeOld(SalesKept) /\ Kind(SalesL, SalesKept) /\ Harmless(SalesF, SalesL, SalesKept)
  BY SalesKinds
<1>3. CASE SalesDashboard!VoidThrew(i)
  <2> DEFINE notice == IF ui.target = None THEN None
                       ELSE [what |-> "error", of |-> calls[i].arg, late |-> calls[i].old]
  <2>1. ThrowUnheard(i) /\ UNCHANGED db /\ calls[i].op = "void"
    BY <1>3, SalesOps DEF SalesDashboard!VoidThrew, SalesDashboard!Threw, SalesDashboard!Doing
  <2>2. ui' = [ui EXCEPT !.submitting = FALSE, !.notice = notice]
    BY <1>3 DEF SalesDashboard!VoidThrew, SalesDashboard!Noticed
  <2> HIDE DEF notice
  <2>3. /\ \A x \in {"status", "range", "page", "shown", "strayed"} : ui'[x] = ui[x]
        /\ ui'.target = ui.target /\ ui'.detail = ui.detail /\ ui'.status = ui.status
    BY <1>1, <2>2 DEF SalesFields
  <2>4. behind' = (behind \/ WasServed(i)) /\ WasServed(i) \in BOOLEAN
    BY <2>1 DEF ThrowUnheard, WasServed
  <2>5. calls' \in Seq(SalesKept)
    BY <1>1, <1>2, <2>1, ThrewBecomes
  <2>6. calls[i] \notin SalesL /\ (calls[i] \in SalesC <=> WasServed(i))
    BY <1>1, <2>1 DEF SalesL, SalesC, WasServed
  <2>7. /\ \A X : Ageless(X, SalesKept) /\ Some(calls, X) /\ calls[i] \notin X => Some(calls', X)
        /\ \A F : Harmless(F, SalesL, SalesKept) /\ (WasServed(i) \/ Fresh(calls, SalesL, F)) => Fresh(calls', SalesL, F)
    BY <1>1, <1>2, <2>1, <2>6, ThrewKeeps
  <2>8. WasServed(i) \/ Fresh(calls, SalesL, SalesF) => Fresh(calls', SalesL, SalesF)
    BY <1>2, <2>7
  <2>9. /\ Some(calls, SalesL) => Some(calls', SalesL)
        /\ ~WasServed(i) /\ Some(calls, SalesC) => Some(calls', SalesC)
    BY <2>6, <2>7, SalesKinds
  <2>10. SalesShown \/ WasServed(i) => SalesShown'
    <3>1. CASE WasServed(i)
      BY <2>4, <3>1 DEF SalesShown
    <3>2. CASE ~WasServed(i)
      <4>1. behind \in BOOLEAN
        BY <1>1 DEF SalesPage
      <4>2. behind' = behind
        BY <2>4, <3>2, <4>1
      <4> QED BY <2>1, <2>3, <3>2, <4>2, SalesStay
    <3> QED BY <3>1, <3>2
  <2>11. SalesF' = SalesF /\ SalesKept' = SalesKept
    BY <2>1, SalesStay
  <2>12. SalesUpToDate'
    BY <1>1, <2>8, <2>9, <2>10, <2>11 DEF SalesUpToDate, SalesC, SalesL
  <2>13. behind' \in BOOLEAN /\ (behind => behind')
    BY <1>1, <2>4 DEF SalesPage
  <2>14. /\ db' \in [SalesDashboard!Sale -> SalesDashboard!Estado]
         /\ \A s \in SalesDashboard!Sale : db[s] # "ninguna" => db'[s] # "ninguna"
         /\ ui'.target \in SalesDashboard!Sale \cup {None} /\ ui'.detail \in SalesDashboard!Sale \cup {None}
    BY <1>1, <2>1, <2>3 DEF SalesPage
  <2>15. SalesPage'
    BY <1>1, <2>3, <2>9, <2>13, <2>14, SalesPageKept
  <2> QED BY <2>5, <2>11, <2>12, <2>15 DEF SalesListed
<1>4. CASE SalesDashboard!DetailEnded(i)
  <2> DEFINE more == << >>
  <2>1. more \in Seq(SalesKept) /\ DOMAIN more = {}
    BY <1>1, EmptyMore
  <2>2. /\ calls' = Ended(i, more) /\ UNCHANGED << db, behind >> /\ calls[i].op = "detail"
        /\ ui' = [ui EXCEPT !.detail = calls[i].arg]
    BY <1>4, SalesOps DEF SalesDashboard!DetailEnded, SalesDashboard!Threw, SalesDashboard!Doing
  <2> HIDE DEF more
  <2>3. /\ \A x \in {"status", "range", "page", "shown", "strayed"} : ui'[x] = ui[x]
        /\ ui'.target \in SalesDashboard!Sale \cup {None} /\ ui'.detail \in SalesDashboard!Sale \cup {None}
    <3>1. calls[i].arg \in SalesDashboard!Sale
      BY <1>1, <2>2, SalesCallIs DEF SalesDashboard!DetailCall
    <3> QED BY <1>1, <2>2, <3>1 DEF SalesFields, SalesPage
  <2>4. calls' \in Seq(SalesKept)
    BY <1>1, <1>2, <2>1, <2>2, EndedBecomes
  <2>5. calls[i] \notin SalesL /\ calls[i] \notin SalesC
    BY <2>2 DEF SalesL, SalesC
  <2>6. /\ \A X : Ageless(X, SalesKept) /\ Some(calls, X) /\ calls[i] \notin X => Some(calls', X)
        /\ \A F : /\ Harmless(F, SalesL, SalesKept) /\ \A k \in DOMAIN more : more[k] \in SalesL => more[k] \in F
                  /\ \/ Some(more, SalesL)
                     \/ /\ Fresh(calls, SalesL, F)
                        /\ calls[i] \in SalesL => \A k \in DOMAIN calls : calls[k] \in SalesL => calls[k].op = calls[i].op
                  => Fresh(calls', SalesL, F)
    BY <1>1, <1>2, <2>1, <2>2, EndedKeeps
  <2>7. Fresh(calls, SalesL, SalesF) => Fresh(calls', SalesL, SalesF)
    BY <1>2, <2>1, <2>5, <2>6
  <2>8. (Some(calls, SalesL) => Some(calls', SalesL)) /\ (Some(calls, SalesC) => Some(calls', SalesC))
    BY <2>5, <2>6, SalesKinds
  <2>9. SalesF' = SalesF /\ SalesKept' = SalesKept
    BY <2>2, SalesStay
  <2>10. SalesShown => SalesShown'
    BY <2>2, <2>3, SalesListStays
  <2>11. SalesUpToDate'
    BY <1>1, <2>7, <2>8, <2>9, <2>10 DEF SalesUpToDate, SalesC, SalesL
  <2> QED BY <2>2, <2>3, <2>4, <2>8, <2>9, <2>11, SalesListStays
<1> QED BY <1>3, <1>4

\* Half of a load is served, as the sales are: it does no more harm than it did.
LEMMA SalesListPart ==
    ASSUME SalesDashboard!DialogOK, SalesListed, NEW i \in DOMAIN calls,
           SalesDashboard!ServeSummary(i) \/ SalesDashboard!ServePage(i)
    PROVE  SalesListed'
<1>1. /\ SalesPage /\ calls \in Seq(SalesKept) /\ SalesUpToDate
      /\ calls[i] \in SalesKept /\ calls[i] \in SalesCalls /\ DOMAIN calls[i] = CallFields
  BY SalesHas, SalesCallsHas DEF SalesListed
<1>2. UNCHANGED << ui, db, behind >> /\ calls[i].op = "load" /\ calls[i].state = "sent"
  BY DEF SalesDashboard!ServeSummary, SalesDashboard!ServePage, SalesDashboard!ServePart,
         SalesDashboard!Asked, SalesDashboard!Doing
<1>3. calls[i] \in SalesDashboard!LoadCall /\ SalesDashboard!LoadOK(calls[i])
  BY <1>1, <1>2, SalesCallIs DEF SalesKept
<1> DEFINE R == calls[i].arg.range
           P == calls[i].arg.page
           had == IF calls[i].data = None THEN SalesDashboard!Unanswered ELSE calls[i].data
<1>4. R \in SalesDashboard!Ranges /\ P \in 1 .. LastSale
  BY <1>3 DEF SalesDashboard!LoadCall, SalesDashboard!Shown
<1>5. /\ SalesDashboard!GetSummary(R) \in SalesDashboard!Summary
      /\ SalesDashboard!GetPage(R, P) \in SalesDashboard!ListPage
      /\ SalesDashboard!PageFits(SalesDashboard!GetPage(R, P), R)
  BY <1>1, <1>4, SummaryIs, PageIs DEF SalesPage
<1>6. had \in SalesDashboard!Answer /\ (had.page # None => SalesDashboard!PageFits(had.page, R))
  BY <1>3 DEF SalesDashboard!LoadCall, SalesDashboard!LoadOK, SalesDashboard!Unanswered, SalesDashboard!Answer
<1>7. calls[i].old \/ SalesDashboard!IsStored(calls[i]) <=>
        \/ calls[i].old
        \/ /\ had.summary \in {None, SalesDashboard!GetSummary(R)}
           /\ had.page \in {None, SalesDashboard!GetPage(R, P)}
  BY DEF SalesDashboard!IsStored, SalesDashboard!Unanswered
<1>8. PICK part \in {"summary", "page"}, answer \in {SalesDashboard!GetSummary(R), SalesDashboard!GetPage(R, P)} :
        /\ answer = IF part = "summary" THEN SalesDashboard!GetSummary(R) ELSE SalesDashboard!GetPage(R, P)
        /\ SalesDashboard!ServePart(i, part, answer)
  BY DEF SalesDashboard!ServeSummary, SalesDashboard!ServePage
<1> HIDE DEF R, P, had
<1>9. PICK has : has = [had EXCEPT ![part] = answer]
  OBVIOUS
<1>10. /\ has \in SalesDashboard!Answer
       /\ has.page # None => SalesDashboard!PageFits(has.page, R)
       /\ had.summary \in {None, SalesDashboard!GetSummary(R)} => has.summary \in {None, SalesDashboard!GetSummary(R)}
       /\ had.page \in {None, SalesDashboard!GetPage(R, P)} => has.page \in {None, SalesDashboard!GetPage(R, P)}
  <2>1. CASE part = "summary"
    BY <1>5, <1>6, <1>8, <1>9, <2>1 DEF SalesDashboard!Answer
  <2>2. CASE part = "page"
    BY <1>5, <1>6, <1>8, <1>9, <2>2 DEF SalesDashboard!Answer
  <2> QED BY <2>1, <2>2
<1>11. calls' = IF None \in {has.summary, has.page} THEN [calls EXCEPT ![i].data = has]
                                                    ELSE [calls EXCEPT ![i].state = "ok", ![i].data = has]
  BY <1>8, <1>9 DEF SalesDashboard!ServePart, SalesDashboard!Reply, had
<1> DEFINE d == IF None \in {has.summary, has.page} THEN [calls[i] EXCEPT !.data = has]
                                                    ELSE [[calls[i] EXCEPT !.state = "ok"] EXCEPT !.data = has]
<1>12. calls' = [calls EXCEPT ![i] = d]
  BY <1>11
<1>13. /\ d.op = "load" /\ d.arg = calls[i].arg /\ d.data = has /\ d.old = calls[i].old
       /\ d.state = (IF None \in {has.summary, has.page} THEN calls[i].state ELSE "ok")
       /\ d \in SalesDashboard!LoadCall
  <2>1. CASE None \in {has.summary, has.page}
    BY <1>1, <1>2, <1>3, <1>10, <2>1 DEF CallFields, SalesDashboard!LoadCall
  <2>2. CASE None \notin {has.summary, has.page}
    BY <1>1, <1>2, <1>3, <1>10, <2>2 DEF CallFields, SalesDashboard!LoadCall
  <2> QED BY <2>1, <2>2
<1> HIDE DEF d
<1>14. d \in SalesKept
  <2>1. SalesDashboard!LoadOK(d)
    BY <1>2, <1>10, <1>13 DEF SalesDashboard!LoadOK, R
  <2> QED BY <1>13, <2>1 DEF SalesKept, SalesCalls
<1>15. calls[i] \in SalesF => d \in SalesF
  BY <1>2, <1>7, <1>10, <1>13 DEF SalesF, SalesCalls, SalesDashboard!IsStored, R, P
<1>16. calls' \in Seq(SalesKept) /\ AsBefore(calls', calls, i) /\ i \in DOMAIN calls' /\ calls'[i] = d
  <2>1. calls' \in Seq(SalesKept) /\ Len(calls') = Len(calls) /\ DOMAIN calls' = DOMAIN calls
    BY <1>1, <1>12, <1>14, ExceptSeq, LenProperties
  <2>2. calls'[i] = d /\ \A j \in DOMAIN calls \ {i} : calls'[j] = calls[j]
    BY <1>12
  <2> QED BY <2>1, <2>2 DEF AsBefore, Same
<1>17. calls[i].op = calls'[i].op /\ calls[i] \notin SalesC /\ (calls[i] \in SalesF => calls'[i] \in SalesF)
  BY <1>2, <1>13, <1>15, <1>16 DEF SalesC
<1>18. /\ ui'.target \in SalesDashboard!Sale \cup {None} /\ ui'.detail \in SalesDashboard!Sale \cup {None}
       /\ \A x \in {"status", "range", "page", "shown", "strayed"} : ui'[x] = ui[x]
  BY <1>1, <1>2 DEF SalesPage
<1>19. SalesShown => SalesShown'
  BY <1>2, <1>18, SalesListStays
<1>20. calls' \in Seq(SalesKept') /\ SalesUpToDate' /\ (Some(calls, SalesL) => Some(calls', SalesL))
  BY <1>1, <1>2, <1>16, <1>17, <1>19, SalesInPlace
<1> QED BY <1>2, <1>18, <1>20, SalesListStays

\* A sale is voided, here or elsewhere, or made: the totals only grow.
LEMMA SalesListChanged ==
    ASSUME SalesDashboard!DialogOK, SalesListed,
           SalesDashboard!ElsewhereChanged \/ \E i \in DOMAIN calls : SalesDashboard!ServeVoid(i)
    PROVE  SalesListed'
<1>1. /\ SalesPage /\ calls \in Seq(SalesKept) /\ SalesUpToDate
      /\ \A k \in DOMAIN calls : calls[k] \in SalesKept /\ calls[k] \in SalesCalls /\ DOMAIN calls[k] = CallFields
      /\ db \in [SalesDashboard!Sale -> SalesDashboard!Estado]
      /\ ui.target \in SalesDashboard!Sale \cup {None} /\ ui.detail \in SalesDashboard!Sale \cup {None}
  BY SalesHas, SalesCallsHas DEF SalesListed, SalesPage
<1>2. CanBeOld(SalesKept) /\ Kind(SalesL, SalesKept) /\ Harmless(SalesF', SalesL, SalesKept)
  BY SalesKinds
<1>3. ASSUME NEW s \in SalesDashboard!Sale, NEW e \in {"completada", "anulada"}, db' = [db EXCEPT ![s] = e]
      PROVE  /\ db' \in [SalesDashboard!Sale -> SalesDashboard!Estado]
             /\ \A t \in SalesDashboard!Sale : db[t] # "ninguna" => db'[t] # "ninguna"
             /\ SalesKept \subseteq SalesKept'
  <2>1. /\ db' \in [SalesDashboard!Sale -> SalesDashboard!Estado]
        /\ \A t \in SalesDashboard!Sale : db[t] # "ninguna" => db'[t] # "ninguna"
    BY <1>1, <1>3 DEF SalesDashboard!Estado
  <2> QED BY <2>1, SalesGrow
<1>4. CASE SalesDashboard!ElsewhereChanged
  <2>1. /\ \E s \in SalesDashboard!Sale, e \in {"completada", "anulada"} : db' = [db EXCEPT ![s] = e]
        /\ calls' = Outdated(calls, Answered) /\ UNCHANGED ui /\ behind' = TRUE
    BY <1>4, SalesOps DEF SalesDashboard!ElsewhereChanged, SalesDashboard!RowsChangeBehind
  <2>2. calls' \in Seq(SalesKept)
    BY <1>1, <1>2, <2>1, OutdatedIs
  <2>3. /\ \A X : Ageless(X, SalesKept) /\ Some(calls, X) => Some(calls', X)
        /\ \A F : Harmless(F, SalesL, SalesKept) /\ Kind(SalesL, SalesKept) => Fresh(calls', SalesL, F)
    BY <1>1, <1>2, <2>1, BehindKeeps
  <2>4. Fresh(calls', SalesL, SalesF')
    BY <1>2, <2>3
  <2>5. Some(calls, SalesL) => Some(calls', SalesL)
    BY <2>3, SalesKinds
  <2>6. SalesShown'
    BY <2>1 DEF SalesShown
  <2>7. SalesUpToDate'
    BY <2>4, <2>6 DEF SalesUpToDate, SalesC, SalesL
  <2>8. /\ db' \in [SalesDashboard!Sale -> SalesDashboard!Estado] /\ SalesKept \subseteq SalesKept'
        /\ \A t \in SalesDashboard!Sale : db[t] # "ninguna" => db'[t] # "ninguna"
    BY <1>3, <2>1
  <2>9. /\ behind' \in BOOLEAN /\ (behind => behind')
        /\ \A x \in {"status", "range", "page", "shown", "strayed"} : ui'[x] = ui[x]
        /\ ui'.target \in SalesDashboard!Sale \cup {None} /\ ui'.detail \in SalesDashboard!Sale \cup {None}
    BY <1>1, <2>1
  <2>10. SalesPage'
    BY <1>1, <2>5, <2>8, <2>9, SalesPageKept
  <2>11. calls' \in Seq(SalesKept')
    BY <2>2, <2>8, SeqMonotonic
  <2> QED BY <2>7, <2>10, <2>11 DEF SalesListed
<1>5. ASSUME NEW i \in DOMAIN calls, SalesDashboard!ServeVoid(i)
      PROVE  SalesListed'
  <2>1. /\ UNCHANGED << ui, behind >> /\ calls[i].op = "void" /\ calls[i].state = "sent"
        /\ calls[i] \in SalesDashboard!VoidCall /\ calls[i].arg \in SalesDashboard!Sale
    <3>1. UNCHANGED << ui, behind >> /\ calls[i].op = "void" /\ calls[i].state = "sent"
      BY <1>5 DEF SalesDashboard!ServeVoid, SalesDashboard!Asked, SalesDashboard!Doing
    <3>2. calls[i] \in SalesDashboard!VoidCall
      BY <1>1, <3>1, SalesCallIs
    <3> QED BY <3>1, <3>2 DEF SalesDashboard!VoidCall
  <2>2. ASSUME NEW d \in SalesDashboard!VoidCall, calls' = [calls EXCEPT ![i] = d]
        PROVE  /\ calls' \in Seq(SalesKept) /\ AsBefore(calls', calls, i) /\ i \in DOMAIN calls' /\ calls'[i] = d
               /\ d \in SalesCalls /\ d.op = "void" /\ d \in SalesF /\ d \notin SalesL
    <3>1. d \in SalesKept /\ d \in SalesCalls /\ d.op = "void" /\ d \in SalesF /\ d \notin SalesL
      BY DEF SalesKept, SalesCalls, SalesF, SalesL, SalesDashboard!VoidCall
    <3>2. calls' \in Seq(SalesKept) /\ Len(calls') = Len(calls) /\ DOMAIN calls' = DOMAIN calls
      BY <1>1, <2>2, <3>1, ExceptSeq, LenProperties
    <3>3. calls'[i] = d /\ \A j \in DOMAIN calls \ {i} : calls'[j] = calls[j]
      BY <2>2
    <3> QED BY <3>1, <3>2, <3>3 DEF AsBefore, Same
  <2>3. CASE db[calls[i].arg] = "anulada"
    <3> DEFINE d == [calls[i] EXCEPT !.state = "error"]
    <3>1. calls' = [calls EXCEPT ![i] = d] /\ UNCHANGED db
      BY <1>5, <2>3 DEF SalesDashboard!ServeVoid, SalesDashboard!Refusal
    <3>2. d \in SalesDashboard!VoidCall
      BY <2>1 DEF SalesDashboard!VoidCall
    <3> HIDE DEF d
    <3>3. /\ calls' \in Seq(SalesKept) /\ AsBefore(calls', calls, i)
          /\ calls[i].op = calls'[i].op /\ calls[i] \notin SalesC /\ calls'[i] \in SalesF
      BY <2>1, <2>2, <3>1, <3>2 DEF SalesC
    <3>4. /\ ui'.target \in SalesDashboard!Sale \cup {None} /\ ui'.detail \in SalesDashboard!Sale \cup {None}
          /\ \A x \in {"status", "range", "page", "shown", "strayed"} : ui'[x] = ui[x]
      BY <1>1, <2>1
    <3>5. SalesShown => SalesShown'
      BY <2>1, <3>1, <3>4, SalesListStays
    <3>6. calls' \in Seq(SalesKept') /\ SalesUpToDate' /\ (Some(calls, SalesL) => Some(calls', SalesL))
      BY <1>1, <3>1, <3>3, <3>5, SalesInPlace
    <3> QED BY <2>1, <3>1, <3>4, <3>6, SalesListStays
  <2>4. CASE db[calls[i].arg] # "anulada"
    <3> DEFINE d == [[calls[i] EXCEPT !.state = "ok"] EXCEPT !.data = None]
    <3>1. calls' = [calls EXCEPT ![i] = d] /\ db' = [db EXCEPT ![calls[i].arg] = "anulada"]
      BY <1>5, <2>4 DEF SalesDashboard!ServeVoid, SalesDashboard!Reply
    <3>2. d \in SalesDashboard!VoidCall /\ d.state = "ok"
      BY <2>1 DEF SalesDashboard!VoidCall
    <3> HIDE DEF d
    <3>3. /\ calls' \in Seq(SalesKept) /\ AsBefore(calls', calls, i)
          /\ i \in DOMAIN calls' /\ calls'[i] = d /\ d \in SalesC /\ d \notin SalesL
      BY <2>2, <3>1, <3>2 DEF SalesC
    <3>4. SalesUpToDate'
      BY <3>3 DEF SalesUpToDate, Some, SalesC, SalesL
    <3>5. Some(calls, SalesL) => Some(calls', SalesL)
      <4>1. calls[i] \notin SalesL
        BY <2>1 DEF SalesL
      <4>2. \A X : Ageless(X, SalesKept) /\ Some(calls, X) /\ (i \in DOMAIN calls /\ calls[i] \in X => calls'[i] \in X)
                   => Some(calls', X)
        BY <1>1, <1>2, <3>3, <4>1, InPlaceKeeps
      <4> QED BY <4>1, <4>2, SalesKinds
    <3>6. /\ db' \in [SalesDashboard!Sale -> SalesDashboard!Estado] /\ SalesKept \subseteq SalesKept'
          /\ \A t \in SalesDashboard!Sale : db[t] # "ninguna" => db'[t] # "ninguna"
      BY <1>3, <2>1, <3>1
    <3>7. /\ behind' \in BOOLEAN /\ (behind => behind')
          /\ \A x \in {"status", "range", "page", "shown", "strayed"} : ui'[x] = ui[x]
          /\ ui'.target \in SalesDashboard!Sale \cup {None} /\ ui'.detail \in SalesDashboard!Sale \cup {None}
      BY <1>1, <2>1 DEF SalesPage
    <3>8. SalesPage'
      BY <1>1, <3>5, <3>6, <3>7, SalesPageKept
    <3>9. calls' \in Seq(SalesKept')
      BY <3>3, <3>6, SeqMonotonic
    <3> QED BY <3>4, <3>8, <3>9 DEF SalesListed
  <2> QED BY <2>3, <2>4
<1> QED BY <1>4, <1>5

LEMMA SalesListInit ==
    ASSUME SalesDashboard!Init
    PROVE  SalesDashboard!ListIInv
<1> DEFINE c == SalesDashboard!Call("load", SalesDashboard!View, None)
<1>1. /\ calls = << c >> /\ behind = FALSE /\ db \in [SalesDashboard!Sale -> SalesDashboard!Estado]
      /\ ui = [status |-> "loading", range |-> "mes", page |-> 1, shown |-> None,
               target |-> None, submitting |-> FALSE, notice |-> None, detail |-> None, strayed |-> FALSE]
  BY DEF SalesDashboard!Init
<1>2. SalesDashboard!View \in SalesDashboard!Shown
  BY <1>1, SalesCounts DEF SalesDashboard!View, SalesDashboard!Shown, SalesDashboard!Ranges
<1>3. c \in SalesDashboard!LoadCall /\ c.op = "load" /\ c.state = "sent" /\ c.data = None
  BY <1>2 DEF SalesDashboard!LoadCall, SalesDashboard!Call
<1> HIDE DEF c
<1>4. DOMAIN calls = {1} /\ calls[1] = c
  BY <1>1
<1>5. /\ SalesDashboard!Doing("load") = {1} /\ SalesDashboard!Doing("void") = {}
      /\ \A j \in SalesDashboard!Latest(SalesDashboard!Doing("load")) : j = 1
  BY <1>3, <1>4 DEF SalesDashboard!Doing, SalesDashboard!Latest
<1>6. 1 <= SalesDashboard!Pages(SalesDashboard!Total("mes")) /\ "mes" \in SalesDashboard!Ranges /\ 1 \in 1 .. LastSale
  <2>1. "mes" \in SalesDashboard!Ranges
    BY DEF SalesDashboard!Ranges
  <2>2. SalesDashboard!Pages(SalesDashboard!Total("mes")) \in 1 .. LastSale
    BY <2>1, MadeIs, PagesAre
  <2> QED BY <2>1, <2>2, SalesCounts
<1>7. SalesDashboard!TypeOK
  BY <1>1, <1>5, <1>6 DEF SalesDashboard!TypeOK
<1>8. calls \in Seq(SalesDashboard!LoadCall \cup SalesDashboard!VoidCall \cup SalesDashboard!DetailCall)
  <2>1. c \in SalesCalls
    BY <1>3 DEF SalesCalls
  <2>2. calls \in Seq(SalesCalls)
    BY <1>1, <2>1, SingleMore
  <2> QED BY <2>2 DEF SalesCalls
<1>9. SalesDashboard!LoadOK(c) /\ SalesDashboard!IsStored(c)
  BY <1>3 DEF SalesDashboard!LoadOK, SalesDashboard!IsStored
<1>10. /\ ui.shown \in {None} \cup SalesDashboard!Answer /\ behind \in BOOLEAN /\ ui.strayed \in BOOLEAN
       /\ ui.status = "loading" /\ ui.page = 1 /\ ui.range = "mes"
  BY <1>1
<1> QED BY <1>4, <1>5, <1>6, <1>7, <1>8, <1>9, <1>10 DEF SalesDashboard!ListIInv

LEMMA SalesListNext ==
    ASSUME SalesDashboard!DialogOK, SalesDashboard!DialogOK', SalesDashboard!ListIInv, SalesDashboard!Next
    PROVE  SalesDashboard!ListIInv'
<1>1. SalesListed
  BY SalesListHas
<1>2. SalesListed'
  BY <1>1, SalesListPaged, SalesListDialogs, SalesListLoadEnded, SalesListVoided, SalesListHeard,
     SalesListPart, SalesListChanged
     DEF SalesDashboard!Next
<1> QED BY <1>2, SalesListStep

\* The list is the page that it says, which exists, and its summary counts the sales of the
\* list: every sale that was made is sold or voided.
LEMMA SalesShows ==
    ASSUME SalesDashboard!ListIInv
    PROVE  SalesDashboard!ShowsStored
<1> SUFFICES ASSUME calls = << >>, ui.status = "ready", ~behind
             PROVE  /\ ui.shown.page = SalesDashboard!GetPage(ui.range, ui.page)
                    /\ ui.strayed \/ ui.page <= SalesDashboard!TotalPages
                    /\ ui.range # "abierto" =>
                         ui.shown.summary.ventas + ui.shown.summary.anuladas = ui.shown.page.total
  BY DEF SalesDashboard!ShowsStored, SalesDashboard!Quiet
<1>1. DOMAIN calls = {}
  OBVIOUS
<1>2. /\ ui.shown.summary = SalesDashboard!GetSummary(ui.range)
      /\ ui.shown.page = SalesDashboard!GetPage(ui.range, ui.page)
  BY <1>1 DEF SalesDashboard!ListIInv, SalesDashboard!Unheard, SalesDashboard!Doing
<1>3. /\ db \in [SalesDashboard!Sale -> SalesDashboard!Estado]
      /\ ui.range \in SalesDashboard!Ranges /\ ui.page \in 1 .. LastSale
      /\ ui.strayed \/ ui.page <= SalesDashboard!Pages(SalesDashboard!Total(ui.range))
  BY DEF SalesDashboard!ListIInv, SalesDashboard!TypeOK
<1>4. ui.shown.page.total = SalesDashboard!Total(ui.range)
  BY <1>2, <1>3, PageIs
<1>5. ui.strayed \/ ui.page <= SalesDashboard!TotalPages
  BY <1>3, <1>4 DEF SalesDashboard!TotalPages
<1>6. ui.range # "abierto" =>
        ui.shown.summary.ventas + ui.shown.summary.anuladas = ui.shown.page.total
  BY <1>2, <1>3, <1>4, SummaryIs
<1> QED BY <1>2, <1>5, <1>6

-----------------------------------------------------------------------------
(* The grid of the catalog.  Its order is strict whatever it is sorted by, *)
(* since products of a price are told apart, so each has a place of its own.*)

LEMMA CatCounts ==
    /\ \A S : Catalog!Cardinality(S) = Cardinality(S)
    /\ Catalog!ProductId = 1 .. LastProduct /\ LastProduct \in Nat /\ None \notin Category
    /\ Price \subseteq Int /\ Catalog!ProductId \subseteq Int
    /\ \A S \in SUBSET Catalog!ProductId : IsFiniteSet(S)
    /\ Catalog!ToSet(Catalog!Listed) \subseteq Catalog!ProductId
<1>1. \A S : Catalog!Cardinality(S) = Cardinality(S)
  BY DEF Catalog!Cardinality, Cardinality
<1>2. /\ Catalog!ProductId = 1 .. LastProduct /\ LastProduct \in Nat /\ None \notin Category
      /\ Price \subseteq Int
  BY ScreensAssumption DEF Catalog!ProductId
<1>3. \A S \in SUBSET Catalog!ProductId : IsFiniteSet(S)
  <2>1. IsFiniteSet(1 .. LastProduct)
    BY <1>2, FS_Interval
  <2> QED BY <1>2, <2>1, FS_Subset
<1>4. Catalog!ToSet(Catalog!Listed) \subseteq Catalog!ProductId
  BY CatListed, ElementOfSeq, LenProperties DEF Catalog!ToSet
<1> QED BY <1>1, <1>2, <1>3, <1>4

CatOrder(kept, sort) == {x \in kept \X kept : Catalog!Before(x[1], x[2], sort)}

LEMMA CatOrders ==
    ASSUME NEW kept \in SUBSET Catalog!ProductId, NEW sort, db \in [Catalog!ProductId -> Catalog!ProductRow]
    PROVE  Orders(kept, CatOrder(kept, sort))
<1> DEFINE R == CatOrder(kept, sort)
           price(p) == db[p].price
           before(p, q) == Catalog!Before(p, q, sort)
<1>1. \A p \in kept : p \in Int /\ price(p) \in Int
  BY CatCounts DEF Catalog!ProductRow
<1>2. \A p, q \in kept : << p, q >> \in R <=> before(p, q)
  BY DEF CatOrder
<1>3. ASSUME NEW p \in kept, NEW q \in kept
      PROVE  /\ sort = "price-asc" =>
                  (before(p, q) <=> price(p) < price(q) \/ (price(p) = price(q) /\ p > q))
             /\ sort = "price-desc" =>
                  (before(p, q) <=> price(p) > price(q) \/ (price(p) = price(q) /\ p > q))
             /\ sort \notin {"price-asc", "price-desc"} => (before(p, q) <=> p > q)
  <2>1. p \in Int /\ q \in Int /\ price(p) \in Int /\ price(q) \in Int
    BY <1>1
  <2>2. before(p, q) <=>
          CASE sort = "price-asc" /\ price(p) # price(q) -> price(p) < price(q)
            [] sort = "price-desc" /\ price(p) # price(q) -> price(p) > price(q)
            [] OTHER -> p > q
    BY DEF Catalog!Before
  <2> HIDE DEF before, price
  <2>3. CASE price(p) = price(q)
    BY <2>1, <2>2, <2>3
  <2>4. CASE price(p) # price(q)
    BY <2>1, <2>2, <2>4
  <2> QED BY <2>3, <2>4
<1> HIDE DEF R, price, before
<1>4. \A p \in kept : ~before(p, p)
  BY <1>1, <1>3
<1>5. \A p, q \in kept : p = q \/ before(p, q) \/ before(q, p)
  <2> TAKE p, q \in kept
  <2>1. p \in Int /\ q \in Int /\ price(p) \in Int /\ price(q) \in Int
    BY <1>1
  <2> QED BY <1>3, <2>1
<1>6. \A p, q, r \in kept : before(p, q) /\ before(q, r) => before(p, r)
  <2> TAKE p, q, r \in kept
  <2>1. /\ p \in Int /\ q \in Int /\ r \in Int
        /\ price(p) \in Int /\ price(q) \in Int /\ price(r) \in Int
    BY <1>1
  <2> QED BY <1>3, <2>1
<1> QED BY <1>2, <1>4, <1>5, <1>6 DEF Orders, R

\* Sorting the products that are kept loses none, and shows none twice.
LEMMA CatSorted ==
    ASSUME NEW kept \in SUBSET Catalog!ProductId, NEW sort, db \in [Catalog!ProductId -> Catalog!ProductRow]
    PROVE  /\ Catalog!ToSet(Catalog!Sorted(kept, sort)) = kept
           /\ Catalog!IsInjective(Catalog!Sorted(kept, sort))
           /\ Len(Catalog!Sorted(kept, sort)) = Cardinality(kept)
<1> DEFINE R == CatOrder(kept, sort)
           n == Cardinality(kept)
           ahead(p) == Cardinality(Ahead(kept, R, p))
           at(k) == CHOOSE p \in kept : ahead(p) = k - 1
           g == [k \in 1 .. n |-> at(k)]
<1>1. Ranks(kept, R)
  BY CatOrders, CatCounts, PlacesAreTaken
<1>2. /\ n \in Nat /\ \A p \in kept : ahead(p) \in 0 .. n - 1
      /\ \A p, q \in kept : ahead(p) = ahead(q) => p = q
      /\ \A k \in 1 .. n : \E p \in kept : ahead(p) = k - 1
  BY <1>1 DEF Ranks
<1>3. \A p \in kept : Ahead(kept, R, p) = {q \in kept : Catalog!Before(q, p, sort)}
  BY DEF Ahead, CatOrder
<1>4. Catalog!Sorted(kept, sort) = g
  <2>1. /\ Catalog!Cardinality(kept) = n
        /\ \A p \in kept : Catalog!Cardinality({q \in kept : Catalog!Before(q, p, sort)}) = ahead(p)
    BY <1>3, CatCounts
  <2> HIDE DEF ahead, n
  <2>2. \A k : (CHOOSE p \in kept : Catalog!Cardinality({q \in kept : Catalog!Before(q, p, sort)}) = k - 1)
                 = at(k)
    BY <2>1
  <2> HIDE DEF at
  <2>3. Catalog!Sorted(kept, sort) =
          [k \in 1 .. n |->
            CHOOSE p \in kept : Catalog!Cardinality({q \in kept : Catalog!Before(q, p, sort)}) = k - 1]
    BY <2>1 DEF Catalog!Sorted
  <2> QED BY <2>2, <2>3
<1> HIDE DEF ahead, n
<1>5. \A k \in 1 .. n : at(k) \in kept /\ ahead(at(k)) = k - 1
  BY <1>2
<1> HIDE DEF at
<1>6. DOMAIN g = 1 .. n /\ \A k \in 1 .. n : g[k] = at(k)
  OBVIOUS
<1>7. Len(g) = n
  <2>1. [k \in 1 .. n |-> at(k)] \in Seq(kept)
    BY <1>2, <1>5, IsASeq
  <2> QED BY <1>2, <1>6, <2>1, LenProperties
<1> HIDE DEF g
<1>8. Catalog!IsInjective(g)
  <2>1. \A j, k \in 1 .. n : at(j) = at(k) => j = k
    BY <1>5
  <2> QED BY <1>6, <2>1 DEF Catalog!IsInjective
<1>9. Catalog!ToSet(g) = kept
  <2>1. \A p \in kept : ahead(p) + 1 \in 1 .. n /\ at(ahead(p) + 1) = p
    <3> TAKE p \in kept
    <3>1. ahead(p) + 1 \in 1 .. n /\ (ahead(p) + 1) - 1 = ahead(p)
      BY <1>2
    <3> QED BY <1>2, <1>5, <3>1
  <2>2. Catalog!ToSet(g) = {g[k] : k \in 1 .. n}
    BY <1>6 DEF Catalog!ToSet
  <2> QED BY <1>5, <1>6, <2>1, <2>2
<1> QED BY <1>4, <1>7, <1>8, <1>9 DEF n

\* What each step must keep to: the rows stay, what the page shows is the list or nothing, no
\* call but a load that is served has the list, and what is picked is of a product of it.
Carried(c) == c.op = "load" /\ c.state = "ok" => c.data = Catalog!Listed

LEMMA CatListStep ==
    ASSUME Catalog!ListIInv, UNCHANGED db, ui'.products \in {<< >>, Catalog!Listed},
           ui'.category = ui.category \/ ui'.category = None
             \/ \E p \in Catalog!ToSet(Catalog!Listed) : db[p].category = ui'.category,
           \A k \in DOMAIN calls' : Carried(calls'[k])
    PROVE  Catalog!ListIInv'
<1>1. Catalog!Listed' = Catalog!Listed
  BY DEF Catalog!Listed, Catalog!ProductId
<1>2. (\A i \in Catalog!Doing("load") : calls[i].state = "ok" => calls[i].data = Catalog!Listed)'
  BY <1>1 DEF Catalog!Doing, Carried
<1>3. (ui.category # None => \E p \in Catalog!ToSet(Catalog!Listed) : db[p].category = ui.category)'
  BY <1>1 DEF Catalog!ListIInv, Catalog!ToSet
<1> QED BY <1>1, <1>2, <1>3 DEF Catalog!ListIInv

LEMMA CatListHas ==
    ASSUME Catalog!IInv, Catalog!ListIInv
    PROVE  /\ calls \in Seq(CatCalls) /\ CatUi(ui) /\ "products" \in DOMAIN ui
           /\ \A k \in DOMAIN calls : Carried(calls[k])
BY CatHas DEF Catalog!ListIInv, Catalog!Doing, Carried, CatUi, CatFields

\* Calls that are made have no answer, and those that go on or were overtaken have theirs.
LEMMA CatCarried ==
    ASSUME Catalog!IInv, Catalog!ListIInv, NEW R, NEW more, Becomes(calls', calls, R, more),
           \A k \in DOMAIN more : Carried(more[k])
    PROVE  \A k \in DOMAIN calls' : Carried(calls'[k])
<1> SUFFICES ASSUME NEW j \in DOMAIN calls'
             PROVE  Carried(calls'[j])
  OBVIOUS
<1>1. CameFrom(calls'[j], calls, R, more)
  BY CatListHas, ComesFrom, CatCallsCanBeOld
<1> QED BY <1>1, CatListHas DEF CameFrom, Alike, Carried

LEMMA CatListEnded ==
    ASSUME Catalog!IInv, Catalog!ListIInv, NEW i \in DOMAIN calls,
           \/ Catalog!LoadReturned(i) \/ Catalog!LoadThrew(i)
           \/ Catalog!ScanReturned(i) \/ Catalog!ScanThrew(i)
    PROVE  Catalog!ListIInv'
<1>1. calls \in Seq(CatCalls) /\ CatUi(ui) /\ "products" \in DOMAIN ui /\ Carried(calls[i])
  BY CatListHas
<1>2. calls' = RemoveAt(calls, i) /\ UNCHANGED db
  BY CatOps DEF Catalog!LoadReturned, Catalog!LoadThrew, Catalog!ScanReturned, Catalog!ScanThrew
<1>3. AsBefore(calls, calls, i)
  BY DEF AsBefore, Same
<1> DEFINE more == << >>
<1>4. DOMAIN more = {} /\ Becomes(calls', calls, {i}, more)
  BY <1>1, <1>2, <1>3, RemovedBecomes, CatCallsCanBeOld
<1> HIDE DEF more
<1>5. \A k \in DOMAIN calls' : Carried(calls'[k])
  BY <1>4, CatCarried
<1>6. ui.products \in {<< >>, Catalog!Listed}
  BY DEF Catalog!ListIInv
<1>7. ui'.products \in {<< >>, Catalog!Listed} /\ ui'.category = ui.category
  <2>1. CASE Catalog!LoadReturned(i)
    <3>1. calls[i].data = Catalog!Listed /\ ui' = [ui EXCEPT !.status = "ready", !.products = calls[i].data]
      BY <1>1, <2>1 DEF Catalog!LoadReturned, Catalog!Returned, Catalog!Doing, Carried
    <3> QED BY <1>1, <3>1
  <2>2. CASE Catalog!LoadThrew(i)
    BY <1>1, <1>6, <2>2 DEF Catalog!LoadThrew
  <2>3. CASE Catalog!ScanReturned(i) \/ Catalog!ScanThrew(i)
    <3>1. ui'.products = ui.products /\ ui'.category = ui.category
      <4> PICK status : ui' = Catalog!Shows(i, status)
        BY <2>3 DEF Catalog!ScanReturned, Catalog!ScanThrew
      <4>1. CASE ui.scan.status = "closed"
        BY <4>1 DEF Catalog!Shows
      <4>2. CASE ui.scan.status # "closed"
        <5> PICK arg, late : arg = calls[i].arg /\ late = (ui.scan.late \/ calls[i].old)
          OBVIOUS
        <5>1. ui' = [ui EXCEPT !.scan.status = status, !.scan.result = arg, !.scan.late = late]
          BY <4>2 DEF Catalog!Shows
        <5> QED BY <1>1, <5>1 DEF CatUi, CatFields
      <4> QED BY <4>1, <4>2
    <3> QED BY <1>6, <3>1
  <2> QED BY <2>1, <2>2, <2>3
<1> QED BY <1>2, <1>5, <1>7, CatListStep

LEMMA CatListChosen ==
    ASSUME Catalog!IInv, Catalog!ListIInv,
           \/ Catalog!Search \/ Catalog!OpenScan \/ Catalog!CloseScan \/ Catalog!HandleCapture
           \/ \E category \in Category \cup {None} : Catalog!PickCategory(category)
           \/ \E sort \in {"recent", "price-asc", "price-desc"} : Catalog!SetSort(sort)
    PROVE  Catalog!ListIInv'
<1>1. calls \in Seq(CatCalls) /\ DOMAIN ui = CatFields /\ \A k \in DOMAIN calls : Carried(calls[k])
  BY CatListHas DEF CatUi
<1>2. ui.products \in {<< >>, Catalog!Listed} /\ UNCHANGED db
  BY DEF Catalog!ListIInv, Catalog!Search, Catalog!OpenScan, Catalog!CloseScan, Catalog!HandleCapture,
         Catalog!PickCategory, Catalog!SetSort
<1>3. \A k \in DOMAIN calls' : Carried(calls'[k])
  <2>1. CASE Catalog!CloseScan
    <3>1. calls' = Outdated(calls, Doing("scan"))
      BY <2>1, CatOps DEF Catalog!CloseScan
    <3> DEFINE more == << >>
    <3>2. DOMAIN more = {} /\ Becomes(calls', calls, {}, more)
      BY <1>1, <3>1, ClosedOfNone, CatCallsCanBeOld
    <3> HIDE DEF more
    <3> QED BY <3>2, CatCarried
  <2>2. CASE Catalog!HandleCapture
    <3> DEFINE c == Catalog!Call("scan", ui.photos + 1, None)
               more == << c >>
    <3>1. calls' = calls \o more
      BY <2>2, CatOps DEF Catalog!HandleCapture, Start
    <3>2. Carried(c)
      BY DEF Carried, Catalog!Call
    <3> HIDE DEF c
    <3>3. more \in Seq({c} \cup CatCalls) /\ DOMAIN more = {1} /\ more[1] = c
      BY OneMore
    <3> HIDE DEF more
    <3>4. ui.photos + 1 \in 1 .. LastPhoto
      <4>1. ui.photos \in Nat /\ LastPhoto \in Nat
        BY CatListHas, ScreensAssumption DEF CatUi
      <4>2. ui.photos + 1 <= LastPhoto
        BY <2>2 DEF Catalog!HandleCapture
      <4> QED BY <4>1, <4>2
    <3>5. c \in CatCalls
      BY <3>4 DEF c, CatCalls, Catalog!ScanCall, Catalog!Call
    <3>6. more \in Seq(CatCalls)
      BY <3>5, OneMore DEF more
    <3>7. Becomes(calls', calls, {}, more)
      BY <1>1, <3>1, <3>6, Started
    <3> QED BY <3>2, <3>3, <3>7, CatCarried
  <2>3. CASE ~Catalog!CloseScan /\ ~Catalog!HandleCapture
    <3>1. calls' = calls
      BY <2>3 DEF Catalog!Search, Catalog!OpenScan, Catalog!PickCategory, Catalog!SetSort
    <3> QED BY <1>1, <3>1
  <2> QED BY <2>1, <2>2, <2>3
<1>4. ui'.products = ui.products
  BY <1>1 DEF Catalog!Search, Catalog!OpenScan, Catalog!CloseScan, Catalog!HandleCapture,
              Catalog!PickCategory, Catalog!SetSort, CatFields
<1>5. \/ ui'.category = ui.category \/ ui'.category = None
      \/ \E p \in Catalog!ToSet(Catalog!Listed) : db[p].category = ui'.category
  <2>1. CASE \E category \in Category \cup {None} : Catalog!PickCategory(category)
    <3>1. PICK category \in Category \cup {None} : Catalog!PickCategory(category)
      BY <2>1
    <3>2. /\ ui'.category = category /\ ui.products # << >>
          /\ category # None => category \in DOMAIN Catalog!categorySummaries
      BY <1>1, <3>1 DEF Catalog!PickCategory, Catalog!ready, CatFields
    <3>3. category # None => \E p \in Catalog!ToSet(ui.products) : db[p].category = category
      BY <3>2 DEF Catalog!categorySummaries
    <3> QED BY <1>2, <3>2, <3>3
  <2>2. CASE ~\E category \in Category \cup {None} : Catalog!PickCategory(category)
    BY <1>1, <2>2 DEF Catalog!Search, Catalog!OpenScan, Catalog!CloseScan, Catalog!HandleCapture,
                      Catalog!SetSort, CatFields
  <2> QED BY <2>1, <2>2
<1> QED BY <1>2, <1>3, <1>4, <1>5, CatListStep

LEMMA CatListServed ==
    ASSUME Catalog!IInv, Catalog!ListIInv, NEW i \in DOMAIN calls,
           Catalog!ServeList(i) \/ Catalog!ServeScan(i)
    PROVE  Catalog!ListIInv'
<1>1. calls \in Seq(CatCalls) /\ \A k \in DOMAIN calls : calls[k] \in CatCalls /\ Carried(calls[k])
  BY CatListHas, CatHas
<1>2. UNCHANGED << ui, db >> /\ ui.products \in {<< >>, Catalog!Listed}
  BY DEF Catalog!ListIInv, Catalog!ServeList, Catalog!ServeScan
<1>3. /\ DOMAIN calls' = DOMAIN calls /\ \A k \in DOMAIN calls \ {i} : calls'[k] = calls[k]
      /\ Carried(calls'[i])
  <2> DEFINE list == Catalog!Listed
  <2>1. ASSUME NEW data, calls' = [calls EXCEPT ![i].state = "ok", ![i].data = data],
               data = list \/ calls[i].op # "load"
        PROVE  /\ DOMAIN calls' = DOMAIN calls /\ \A k \in DOMAIN calls \ {i} : calls'[k] = calls[k]
               /\ Carried(calls'[i])
    <3>1. calls'[i] = [[calls[i] EXCEPT !.state = "ok"] EXCEPT !.data = data]
      BY <2>1
    <3>2. calls'[i].op = calls[i].op /\ calls'[i].data = data
      BY <1>1, <3>1 DEF CatCalls, Catalog!LoadCall, Catalog!ScanCall
    <3> QED BY <2>1, <3>2 DEF Carried
  <2>2. \/ calls' = [calls EXCEPT ![i].state = "ok", ![i].data = list]
        \/ calls' = [calls EXCEPT ![i].state = "ok", ![i].data = None] /\ calls[i].op # "load"
    BY DEF Catalog!ServeList, Catalog!ServeScan, Catalog!Asked, Catalog!Doing, Catalog!Reply
  <2> HIDE DEF list
  <2> QED BY <2>1, <2>2
<1>4. \A k \in DOMAIN calls' : Carried(calls'[k])
  BY <1>1, <1>3
<1> QED BY <1>2, <1>4, CatListStep

LEMMA CatListInit ==
    ASSUME Catalog!Init
    PROVE  Catalog!ListIInv
<1> DEFINE c == Catalog!Call("load", None, None)
<1>1. calls = << c >> /\ c.state = "sent" /\ ui.products = << >> /\ ui.category = None
  BY DEF Catalog!Init, Catalog!Call
<1> HIDE DEF c
<1>2. DOMAIN calls = {1} /\ calls[1] = c
  BY <1>1
<1> QED BY <1>1, <1>2 DEF Catalog!ListIInv, Catalog!Doing

LEMMA CatListNext ==
    ASSUME Catalog!IInv, Catalog!ListIInv, Catalog!Next
    PROVE  Catalog!ListIInv'
BY CatListEnded, CatListChosen, CatListServed DEF Catalog!Next

\* A circle and the grid below it count the same products, and the first that is in stock is
\* one that the grid has while nothing is picked or searched for.
LEMMA CatShows ==
    ASSUME Catalog!IInv, Catalog!ListIInv
    PROVE  Catalog!GridIsOfCircle
<1> SUFFICES ASSUME Catalog!ready
             PROVE  /\ Catalog!ToSet(Catalog!grid) = Catalog!Filtered(ui.category, ui.searching)
                    /\ Catalog!IsInjective(Catalog!grid)
                    /\ ~ui.searching /\ ui.category # None =>
                         Len(Catalog!grid) = Catalog!categorySummaries[ui.category]
                    /\ Catalog!showHero => Catalog!featured \in Catalog!ToSet(Catalog!grid)
  BY DEF Catalog!GridIsOfCircle
<1> DEFINE kept == Catalog!Filtered(ui.category, ui.searching)
<1>1. db \in [Catalog!ProductId -> Catalog!ProductRow]
  BY CatHas
<1>2. /\ ui.products = Catalog!Listed /\ ui.products # << >>
      /\ ui.category # None => \E p \in Catalog!ToSet(ui.products) : db[p].category = ui.category
  BY DEF Catalog!ready, Catalog!ListIInv
<1>3. kept \in SUBSET Catalog!ProductId
  BY <1>2, CatCounts DEF Catalog!Filtered
<1> HIDE DEF kept
<1>4. /\ Catalog!ToSet(Catalog!grid) = kept /\ Catalog!IsInjective(Catalog!grid)
      /\ Len(Catalog!grid) = Cardinality(kept)
  BY <1>1, <1>3, CatSorted DEF Catalog!grid, kept
<1>5. ASSUME ~ui.searching, ui.category # None
      PROVE  Cardinality(kept) = Catalog!categorySummaries[ui.category]
  <2> DEFINE named == {p \in Catalog!ToSet(ui.products) : db[p].category # None}
  <2>1. kept = {p \in named : db[p].category = ui.category}
    BY <1>5 DEF kept, Catalog!Filtered
  <2>2. ui.category \in {db[p].category : p \in named}
    BY <1>2, <1>5
  <2> HIDE DEF named
  <2>3. Catalog!categorySummaries =
          [c \in {db[p].category : p \in named} |->
             Catalog!Cardinality({p \in named : db[p].category = c})]
    BY DEF Catalog!categorySummaries, named
  <2> QED BY <2>1, <2>2, <2>3, CatCounts
<1>6. ASSUME Catalog!showHero
      PROVE  Catalog!featured \in kept
  <2> DEFINE inStock == {k \in DOMAIN ui.products : db[ui.products[k]].inStock}
             R == {x \in inStock \X inStock : x[1] < x[2]}
  <2>1. kept = Catalog!ToSet(ui.products)
    BY <1>6 DEF kept, Catalog!Filtered, Catalog!showHero
  <2>2. ui.products \in Seq(Catalog!ProductId)
    BY <1>2, CatListed
  <2>3. DOMAIN ui.products = 1 .. Len(ui.products) /\ Len(ui.products) \in Nat /\ 1 \in DOMAIN ui.products
    BY <1>2, <2>2, LenProperties, EmptySeq
  <2>4. CASE inStock = {}
    <3>1. Catalog!featured = Head(ui.products)
      BY <2>4 DEF Catalog!featured
    <3>2. Head(ui.products) = ui.products[1]
      BY <2>2, <1>2
    <3> QED BY <2>1, <2>3, <3>1, <3>2 DEF Catalog!ToSet
  <2>5. CASE inStock # {}
    <3>1. inStock \in SUBSET (1 .. Len(ui.products))
      BY <2>3
    <3>2. Catalog!featured = ui.products[Catalog!Min(inStock)]
      BY <2>5 DEF Catalog!featured
    <3> HIDE DEF inStock
    <3>3. IsFiniteSet(inStock)
      <4>1. IsFiniteSet(1 .. Len(ui.products))
        BY <2>3, FS_Interval
      <4> QED BY <3>1, <4>1, FS_Subset
    <3>4. Orders(inStock, R)
      <4>1. inStock \subseteq Int
        BY <3>1
      <4> QED BY <4>1 DEF Orders
    <3>5. \A k \in inStock : Ahead(inStock, R, k) = {j \in inStock : j < k}
      BY DEF Ahead
    <3> HIDE DEF R
    <3>6. Cardinality(inStock) \in Nat /\ Cardinality(inStock) # 0
      BY <2>5, <3>3, FS_CardinalityType, FS_EmptySet
    <3>7. PICK k \in inStock : Cardinality(Ahead(inStock, R, k)) = 0
      <4>1. Ranks(inStock, R)
        BY <3>3, <3>4, PlacesAreTaken
      <4>2. 1 \in 1 .. Cardinality(inStock) /\ 1 - 1 = 0
        BY <3>6
      <4> QED BY <4>1, <4>2 DEF Ranks
    <3>8. {j \in inStock : j < k} = {}
      <4>1. Cardinality({j \in inStock : j < k}) = 0
        BY <3>5, <3>7
      <4>2. IsFiniteSet({j \in inStock : j < k})
        BY <3>3, FS_Subset
      <4> QED BY <4>1, <4>2, FS_EmptySet
    <3>9. \A j \in inStock : k <= j
      BY <3>1, <3>8
    <3>10. Catalog!Min(inStock) \in inStock
      BY <3>9 DEF Catalog!Min
    <3> QED BY <2>1, <2>3, <3>1, <3>2, <3>10 DEF Catalog!ToSet
  <2> QED BY <2>4, <2>5
<1> QED BY <1>4, <1>5, <1>6 DEF kept

-----------------------------------------------------------------------------
(* The screens.                                                            *)

\* Nothing happens, in any of the lists.
LEMMA StutterLists ==
    ASSUME IInv, IInv', ListsIInv, UNCHANGED vars
    PROVE  ListsIInv'
<1>1. UNCHANGED << ui, db, calls, behind, page >>
  BY DEF vars
<1>2. Dashboard!ListIInv => Dashboard!ListIInv'
  <2>1. /\ Dashboard!Unheard({"delete", "restore"})' = Dashboard!Unheard({"delete", "restore"})
        /\ Dashboard!Doing("load")' = Dashboard!Doing("load")
    BY <1>1 DEF Dashboard!Unheard, Dashboard!Doing
  <2>2. Dashboard!Latest(Dashboard!Doing("load"))' = Dashboard!Latest(Dashboard!Doing("load"))
    BY <2>1 DEF Dashboard!Latest
  <2> QED BY <1>1, <2>1, <2>2 DEF Dashboard!ListIInv, Dashboard!Listed
<1>3. ASSUME page = "ventas", SalesDashboard!ListIInv
      PROVE  SalesDashboard!ListIInv'
  <2>1. SalesListed /\ SalesDashboard!DialogOK'
    BY <1>1, <1>3, SalesListHas DEF IInv
  <2>2. SalesPage /\ calls \in Seq(SalesKept) /\ SalesUpToDate /\ 0 \notin DOMAIN calls
    BY <2>1, SalesCallsHas DEF SalesListed
  <2>3. calls' \in Seq(SalesKept) /\ AsBefore(calls', calls, 0)
    BY <1>1, <2>2 DEF AsBefore, Same
  <2>4. /\ ui'.target \in SalesDashboard!Sale \cup {None} /\ ui'.detail \in SalesDashboard!Sale \cup {None}
        /\ \A x \in {"status", "range", "page", "shown", "strayed"} : ui'[x] = ui[x]
    BY <1>1, <2>2 DEF SalesPage
  <2>5. SalesShown => SalesShown'
    BY <1>1, <2>1, <2>4, SalesListStays
  <2>6. calls' \in Seq(SalesKept') /\ SalesUpToDate' /\ (Some(calls, SalesL) => Some(calls', SalesL))
    BY <1>1, <2>2, <2>3, <2>5, SalesInPlace
  <2>7. SalesListed'
    BY <1>1, <2>1, <2>4, <2>6, SalesListStays
  <2> QED BY <2>1, <2>7, SalesListStep
<1>4. Users!ListIInv => Users!ListIInv'
  <2>1. /\ Users!Unheard({"update"})' = Users!Unheard({"update"})
        /\ Users!Doing("load")' = Users!Doing("load")
    BY <1>1 DEF Users!Unheard, Users!Doing
  <2>2. Users!Latest(Users!Doing("load"))' = Users!Latest(Users!Doing("load"))
    BY <2>1 DEF Users!Latest
  <2> QED BY <1>1, <2>1, <2>2 DEF Users!ListIInv
<1>5. Settings!ListIInv => Settings!ListIInv'
  <2>1. /\ Settings!Pending' = Settings!Pending
        /\ \A l : Settings!LoadsOf(l)' = Settings!LoadsOf(l)
        /\ \A i : Settings!Column(i)' = Settings!Column(i)
        /\ Settings!PageLoad' <=> Settings!PageLoad
    BY <1>1 DEF Settings!Pending, Settings!LoadsOf, Settings!Column, Settings!PageLoad, Settings!Doing,
                Settings!Changing, Settings!LogoCalls, Settings!NameCalls
  <2>2. \A l : Settings!Latest(Settings!LoadsOf(l))' = Settings!Latest(Settings!LoadsOf(l))
    BY <2>1 DEF Settings!Latest
  <2> QED BY <1>1, <2>1, <2>2 DEF Settings!ListIInv
<1>6. Search!ListIInv => Search!ListIInv'
  <2>1. Search!Latest(DOMAIN calls)' = Search!Latest(DOMAIN calls)
    BY <1>1 DEF Search!Latest
  <2> QED BY <1>1, <2>1 DEF Search!ListIInv
<1>7. ASSUME page = "catalogo", Catalog!ListIInv
      PROVE  Catalog!ListIInv'
  <2>1. Catalog!IInv
    BY <1>7 DEF IInv
  <2>2. /\ \A k \in DOMAIN calls' : Carried(calls'[k])
        /\ ui'.products \in {<< >>, Catalog!Listed} /\ ui'.category = ui.category
    BY <1>1, <1>7, <2>1, CatListHas DEF Catalog!ListIInv
  <2> QED BY <1>1, <1>7, <2>2, CatListStep
<1> QED BY <1>1, <1>2, <1>3, <1>4, <1>5, <1>6, <1>7 DEF ListsIInv

LEMMA NextLists ==
    ASSUME IInv, IInv', ListsIInv, Next
    PROVE  ListsIInv'
<1>1. page' = page
  BY DEF Next
<1>2. CASE page = "dashboard"
  BY <1>1, <1>2, DashListNext DEF Next, IInv, ListsIInv
<1>3. CASE page = "ventas"
  BY <1>1, <1>3, SalesListNext DEF Next, IInv, ListsIInv
<1>4. CASE page = "usuarios"
  BY <1>1, <1>4, UsersListNext DEF Next, IInv, ListsIInv
<1>5. CASE page = "configuracion"
  BY <1>1, <1>5, SettingsListNext DEF Next, IInv, ListsIInv
<1>6. CASE page = "busqueda"
  BY <1>1, <1>6, SearchListNext DEF Next, IInv, ListsIInv
<1>7. CASE page = "catalogo"
  BY <1>1, <1>7, CatListNext DEF Next, IInv, ListsIInv
<1> QED BY <1>1, <1>2, <1>3, <1>4, <1>5, <1>6, <1>7 DEF ListsIInv

\* AdminDashboardPage.tsx, AdminSalesDashboardPage.tsx, AdminUsersPage.tsx, AdminSettingsPage.tsx,
\* PublicCatalogPage.tsx and ProductSearch.tsx: each list keeps to its invariant, whatever is called, served, answered
\* and changed elsewhere, and in whatever order.
THEOREM ListsInvariance == Spec => []ListsIInv
<1>1. Init => ListsIInv
  BY DashListInit, SalesListInit, UsersListInit, SettingsListInit, CatListInit, SearchListInit
     DEF Init, ListsIInv
<1>2. IInv /\ IInv' /\ ListsIInv /\ [Next]_vars => ListsIInv'
  BY NextLists, StutterLists
<1> QED BY <1>1, <1>2, Invariance, PTL DEF Spec

\* When the calls of a page have ended it shows what is stored, and counts what it lists, for
\* any rows and any number of calls under way, unless it could not hear of a change.
THEOREM ListsAreOfStored == Spec => []ListsShowStored
<1>1. ListsIInv => ListsShowStored
  BY DashShows, SalesShows, UsersShows, SettingsShows, SearchShows DEF ListsIInv, ListsShowStored
<1> QED BY <1>1, ListsInvariance, PTL

\* The catalog shows each product of a circle, or that a search finds, once, as many as the
\* circle counts whatever they are sorted by, and features one that it shows.
THEOREM GridsAreOfTheirCircles == Spec => []GridsAreOfCircles
<1>1. IInv /\ ListsIInv => GridsAreOfCircles
  BY CatShows DEF IInv, ListsIInv, GridsAreOfCircles
<1> QED BY <1>1, Invariance, ListsInvariance, PTL

\* Every page keeps to its types, and is loading, scanning or submitting only while its call is
\* under way.
THEOREM TypeCorrect == Spec => []TypeOK
<1>1. IInv /\ ListsIInv => TypeOK
  BY DEF IInv, ListsIInv, TypeOK, Dashboard!IInv, SalesDashboard!ListIInv, Users!IInv, Reset!IInv,
         Settings!IInv, Catalog!IInv, Search!IInv, Form!IInv
<1> QED BY <1>1, Invariance, ListsInvariance, PTL

=============================================================================
