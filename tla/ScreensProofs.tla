---------------------------- MODULE ScreensProofs ----------------------------
(***************************************************************************)
(* Theorems about the screens of MCScreens, for every set of sources and   *)
(* Signals and every bound on clicks, requests and versions.                *)
(*                                                                         *)
(* The requests of a screen are a bag, for two equal ones may be under way. *)
(* What an operation on the bag leaves of each is said first, of any bag:   *)
(* which requests are there (Total, Fits), which of them the screen waits   *)
(* for (Has, Wants, Alone), and what a request made, answered, overtaken or *)
(* aborted does to that (Stay, LeftOf).  Then each screen has an invariant  *)
(* that ties its flags to the requests it waits for.                        *)
(***************************************************************************)
EXTENDS MCScreens, Integers, FiniteSetTheorems, FunctionTheorems, WellFoundedInduction, TLAPS

-----------------------------------------------------------------------------
(* Bags of requests.                                                       *)


Total(f) ==
    LET DSum[S \in SUBSET DOMAIN f] ==
          LET elt == CHOOSE e \in S : TRUE
          IN  IF S = {} THEN 0 ELSE f[elt] + DSum[S \ {elt}]
    IN  DSum[DOMAIN f]

OverOf(d, kinds) == IF d.kind \in kinds /\ d.on THEN [d EXCEPT !.on = FALSE] ELSE d
CutOf(d, kinds)  == IF d.kind \in kinds /\ d.on THEN [d EXCEPT !.cut = d.at = "sent"] ELSE d

LEMMA OvertakenIs ==
    ASSUME NEW calls, NEW kinds
    PROVE  Overtaken(calls, kinds) =
             [e \in {OverOf(d, kinds) : d \in DOMAIN calls} |->
                Total([d \in DOMAIN calls |-> IF OverOf(d, kinds) = e THEN calls[d] ELSE 0])]
BY DEF Overtaken, Each, BagOfAll, BagToSet, Total, OverOf

LEMMA AbortedIs ==
    ASSUME NEW calls, NEW kinds
    PROVE  Aborted(calls, kinds) =
             [e \in {CutOf(d, kinds) : d \in DOMAIN calls} |->
                Total([d \in DOMAIN calls |-> IF CutOf(d, kinds) = e THEN calls[d] ELSE 0])]
BY DEF Aborted, Each, BagOfAll, BagToSet, Total, CutOf
LEMMA LeastNatural ==
    ASSUME NEW T, T \subseteq Nat, T # {} PROVE \E x \in T : \A y \in T : x <= y
<1>1. IsWellFoundedOn(OpToRel(<, Nat), Nat)
  BY NatLessThanWellFounded
<1>2. PICK x \in T : \A y \in T : <<y, x>> \notin OpToRel(<, Nat)
  BY <1>1, WFMin
<1>3. ASSUME NEW y \in T PROVE x <= y
  <2>1. <<y, x>> \in Nat \X Nat
    BY <1>3
  <2>2. ~(y < x)
    BY <1>2, <2>1 DEF OpToRel
  <2> QED
    BY <2>1, <2>2
<1> QED
  BY <1>3

Picked(S) == CHOOSE e \in S : TRUE

LEMMA PickedIn == ASSUME NEW S, S # {} PROVE Picked(S) \in S
BY DEF Picked

\* One turn of the recursion with which Bags adds up.
Adds(f, g, S) == IF S = {} THEN 0 ELSE f[Picked(S)] + g[S \ {Picked(S)}]

LEMMA SmallerSubset ==
    ASSUME NEW D, IsFiniteSet(D), NEW S \in SUBSET D, S # {}
    PROVE  /\ IsFiniteSet(S) /\ S \ {Picked(S)} \in SUBSET D
           /\ Cardinality(S) \in Nat /\ Cardinality(S \ {Picked(S)}) \in Nat
           /\ Cardinality(S \ {Picked(S)}) = Cardinality(S) - 1
<1>1. IsFiniteSet(S) /\ Picked(S) \in S
  BY FS_Subset, PickedIn
<1>2. IsFiniteSet(S \ {Picked(S)}) /\ Cardinality(S \ {Picked(S)}) = Cardinality(S) - 1
  BY <1>1, FS_RemoveElement
<1> QED BY <1>1, <1>2, FS_CardinalityType

\* The recursion has a solution.
LEMMA TotalExists ==
    ASSUME NEW D, IsFiniteSet(D), NEW f \in [D -> Nat]
    PROVE  \E g \in [SUBSET D -> Nat] : \A S \in SUBSET D : g[S] = Adds(f, g, S)
<1> DEFINE Solves(g, n) == \A S \in SUBSET D : Cardinality(S) <= n => g[S] = Adds(f, g, S)
           Bad == {n \in Nat : ~\E g \in [SUBSET D -> Nat] : Solves(g, n)}
<1>1. ASSUME NEW g \in [SUBSET D -> Nat], NEW S \in SUBSET D PROVE Adds(f, g, S) \in Nat
  <2>1. CASE S = {}
    BY <2>1 DEF Adds
  <2>2. CASE S # {}
    <3>1. Picked(S) \in D /\ S \ {Picked(S)} \in SUBSET D
      BY <2>2, PickedIn
    <3>2. f[Picked(S)] \in Nat /\ g[S \ {Picked(S)}] \in Nat
      BY <3>1
    <3> QED BY <2>2, <3>2 DEF Adds
  <2> QED BY <2>1, <2>2
<1>2. ASSUME NEW n \in Nat, NEW g \in [SUBSET D -> Nat], Solves(g, n)
      PROVE  \E h \in [SUBSET D -> Nat] : Solves(h, n + 1)
  <2> DEFINE h == [S \in SUBSET D |-> Adds(f, g, S)]
  <2>1. h \in [SUBSET D -> Nat]
    BY <1>1
  <2>2. ASSUME NEW S \in SUBSET D, Cardinality(S) <= n + 1 PROVE h[S] = Adds(f, h, S)
    <3>1. h[S] = Adds(f, g, S)
      OBVIOUS
    <3>2. CASE S = {}
      BY <3>1, <3>2 DEF Adds
    <3>3. CASE S # {}
      <4> DEFINE R == S \ {Picked(S)}
      <4>0. /\ R \in SUBSET D /\ Cardinality(S) \in Nat /\ Cardinality(R) \in Nat
            /\ Cardinality(R) = Cardinality(S) - 1
        BY ONLY IsFiniteSet(D), S \in SUBSET D, <3>3, SmallerSubset
      <4>1. R \in SUBSET D /\ Cardinality(R) <= n
        BY ONLY <4>0, <2>2, n \in Nat
      <4>2. g[R] = Adds(f, g, R) /\ h[R] = Adds(f, g, R)
        BY <4>1, <1>2
      <4>3. h[S] = f[Picked(S)] + g[R]
        BY ONLY <3>1, <3>3 DEF Adds
      <4>4. Adds(f, h, S) = f[Picked(S)] + h[R]
        BY ONLY <3>3 DEF Adds
      <4> QED BY ONLY <4>2, <4>3, <4>4
    <3> QED BY ONLY <3>2, <3>3
  <2> HIDE DEF h
  <2> QED BY <2>1, <2>2
<1>3. 0 \notin Bad
  <2> DEFINE g == [S \in SUBSET D |-> 0]
  <2>1. g \in [SUBSET D -> Nat]
    OBVIOUS
  <2>2. ASSUME NEW S \in SUBSET D, Cardinality(S) <= 0 PROVE g[S] = Adds(f, g, S)
    <3>1. S = {}
      <4> SUFFICES ASSUME S # {} PROVE FALSE
        OBVIOUS
      <4>1. /\ Cardinality(S) \in Nat /\ Cardinality(S \ {Picked(S)}) \in Nat
            /\ Cardinality(S \ {Picked(S)}) = Cardinality(S) - 1
        BY ONLY IsFiniteSet(D), S \in SUBSET D, S # {}, SmallerSubset
      <4> QED BY ONLY <4>1, <2>2
    <3>2. {} \in SUBSET D /\ Adds(f, g, {}) = 0 /\ g[{}] = 0
      BY DEF Adds
    <3> QED BY <3>1, <3>2
  <2> HIDE DEF g
  <2> QED BY <2>1, <2>2
<1>4. Bad = {}
  <2> SUFFICES ASSUME Bad # {} PROVE FALSE
    OBVIOUS
  <2>1. PICK n \in Bad : \A m \in Bad : n <= m
    <3>1. Bad \subseteq Nat
      OBVIOUS
    <3> HIDE DEF Bad
    <3> QED BY <3>1, LeastNatural
  <2>2. n \in Nat /\ n # 0 /\ n - 1 \in Nat /\ n - 1 \notin Bad
    <3>1. n \in Nat /\ n # 0
      BY <2>1, <1>3
    <3> HIDE DEF Bad
    <3> QED BY <2>1, <3>1
  <2>3. PICK g \in [SUBSET D -> Nat] : Solves(g, n - 1)
    BY <2>2
  <2> HIDE DEF Solves
  <2>4. \E h \in [SUBSET D -> Nat] : Solves(h, (n - 1) + 1)
    BY <2>2, <2>3, <1>2
  <2>5. (n - 1) + 1 = n
    BY <2>2
  <2> QED BY <2>4, <2>5, <2>1
<1>5. Cardinality(D) \in Nat /\ \A S \in SUBSET D : Cardinality(S) <= Cardinality(D)
  BY FS_CardinalityType, FS_Subset
<1>6. PICK g \in [SUBSET D -> Nat] : Solves(g, Cardinality(D))
  BY <1>4, <1>5
<1>7. \A S \in SUBSET D : g[S] = Adds(f, g, S)
  BY <1>5, <1>6
<1> QED
  BY <1>7

\* What a total is.
LEMMA TotalIs ==
    ASSUME NEW D, IsFiniteSet(D), NEW f \in [D -> Nat]
    PROVE  \E g : g = [S \in SUBSET D |-> Adds(f, g, S)] /\ Total(f) = g[D]
<1>1. DOMAIN f = D
  OBVIOUS
<1>2. \E g : g = [S \in SUBSET D |-> Adds(f, g, S)]
  <2>1. PICK g \in [SUBSET D -> Nat] : \A S \in SUBSET D : g[S] = Adds(f, g, S)
    BY TotalExists
  <2>2. g = [S \in SUBSET D |-> Adds(f, g, S)]
    BY <2>1
  <2> QED BY <2>2
<1> DEFINE h == CHOOSE g : g = [S \in SUBSET D |-> Adds(f, g, S)]
<1>3. h = [S \in SUBSET D |-> Adds(f, h, S)]
  BY <1>2
<1>4. Total(f) = h[D]
  BY <1>1 DEF Total, Adds, Picked
<1> HIDE DEF h
<1> QED BY <1>3, <1>4

LEMMA TotalFacts ==
    ASSUME NEW D, IsFiniteSet(D), NEW f \in [D -> Nat]
    PROVE  /\ Total(f) \in Nat
           /\ \A d \in D : f[d] <= Total(f)
           /\ \A x \in D : (\A d \in D \ {x} : f[d] = 0) => Total(f) = f[x]
<1>1. PICK g : g = [S \in SUBSET D |-> Adds(f, g, S)] /\ Total(f) = g[D]
  BY TotalIs
<1>2. \A S \in SUBSET D : g[S] = Adds(f, g, S)
  BY <1>1
<1> DEFINE Good(S) ==
             /\ g[S] \in Nat
             /\ \A d \in S : f[d] <= g[S]
             /\ \A x \in D : (\A d \in D \ {x} : f[d] = 0) => g[S] = IF x \in S THEN f[x] ELSE 0
           Bad == {Cardinality(S) : S \in {T \in SUBSET D : ~Good(T)}}
<1>3. Good({})
  <2>1. g[{}] = 0
    <3>1. g[{}] = Adds(f, g, {})
      BY <1>2
    <3> QED BY <3>1 DEF Adds
  <2> QED BY <2>1
<1>4. ASSUME NEW S \in SUBSET D, S # {}, Good(S \ {Picked(S)}) PROVE Good(S)
  <2> DEFINE e == Picked(S)
             R == S \ {e}
  <2>1. e \in S /\ e \in D /\ R \in SUBSET D /\ f[e] \in Nat /\ g[R] \in Nat
    BY <1>4, PickedIn
  <2>2. g[S] = f[e] + g[R]
    BY <1>2, <1>4 DEF Adds
  <2>3. Good(R)
    BY <1>4
  <2> HIDE DEF e
  <2>4. g[S] \in Nat
    BY <2>1, <2>2
  <2>5. ASSUME NEW d \in S PROVE f[d] <= g[S]
    <3>1. d \in D /\ f[d] \in Nat
      OBVIOUS
    <3>2. CASE d = e
      BY <3>2, <2>1, <2>2
    <3>3. CASE d # e
      <4>1. f[d] <= g[R]
        BY <3>3, <2>3
      <4> QED BY <4>1, <3>1, <2>1, <2>2
    <3> QED BY <3>2, <3>3
  <2>6. ASSUME NEW x \in D, \A d \in D \ {x} : f[d] = 0
        PROVE  g[S] = IF x \in S THEN f[x] ELSE 0
    <3>1. g[R] = IF x \in R THEN f[x] ELSE 0
      BY <2>3, <2>6
    <3>2. f[x] \in Nat
      BY <2>6
    <3>3. CASE x = e
      BY <3>1, <3>2, <3>3, <2>1, <2>2
    <3>4. CASE x # e
      <4>1. f[e] = 0
        BY <3>4, <2>6, <2>1
      <4> QED BY <3>1, <3>2, <3>4, <4>1, <2>1, <2>2
    <3> QED BY <3>3, <3>4
  <2> QED BY <2>4, <2>5, <2>6
<1>5. Bad = {}
  <2> SUFFICES ASSUME Bad # {} PROVE FALSE
    OBVIOUS
  <2> HIDE DEF Good
  <2>1. PICK n \in Bad : \A m \in Bad : n <= m
    <3>1. Bad \subseteq Nat
      BY FS_Subset, FS_CardinalityType
    <3> HIDE DEF Bad
    <3> QED BY <3>1, LeastNatural
  <2>2. PICK S \in SUBSET D : ~Good(S) /\ n = Cardinality(S)
    BY <2>1
  <2>3. S # {}
    BY <2>2, <1>3
  <2>4. ~Good(S \ {Picked(S)})
    BY <2>2, <2>3, <1>4
  <2>5. Cardinality(S \ {Picked(S)}) \in Bad
    BY <2>3, <2>4, SmallerSubset
  <2>6. n <= Cardinality(S \ {Picked(S)})
    BY <2>1, <2>5
  <2> QED BY <2>2, <2>3, <2>6, SmallerSubset
<1>6. Good(D)
  BY <1>5
<1> QED BY <1>1, <1>6
-----------------------------------------------------------------------------
(* What the operators of ApiRequest do to the requests under way.            *)

IsCall(c) ==
    /\ DOMAIN c = {"at", "kind", "of", "arg", "on", "cut", "ans"} /\ c = [i \in DOMAIN c |-> c[i]]
    /\ c.at \in {"sent", "read"} /\ c.on \in BOOLEAN /\ c.cut \in BOOLEAN

CallsOK(B) ==
    /\ IsFiniteSet(DOMAIN B)
    /\ B \in [DOMAIN B -> Nat \ {0}]
    /\ \A c \in DOMAIN B : IsCall(c)

\* What is left of a request that was overtaken or aborted.
Follows(e, d) ==
    /\ e.kind = d.kind /\ e.of = d.of /\ e.arg = d.arg /\ e.at = d.at /\ e.ans = d.ans
    /\ e.on => d.on

\* C is what is left of B when requests of kinds K are overtaken, aborted or dropped.
LeftOf(B, C, K) ==
    /\ CallsOK(C)
    /\ \A e \in DOMAIN C : \E d \in DOMAIN B : Follows(e, d)
    /\ \A e \in DOMAIN C : e.kind \notin K => e \in DOMAIN B /\ C[e] = B[e]
    /\ \A d \in DOMAIN B : d.kind \notin K => d \in DOMAIN C

\* None of these kinds is still wanted.
Off(B, K) == \A c \in DOMAIN B : c.kind \in K => ~c.on

\* A request that was just made.
Fresh(c, k, of, arg) ==
    IsCall(c) /\ c.kind = k /\ c.of = of /\ c.arg = arg /\ c.on /\ c.at = "sent" /\ ~c.cut

LEMMA SentIs == ASSUME NEW k, NEW of, NEW arg PROVE Fresh(Sent(k, of, arg), k, of, arg)
BY DEF Sent, IsCall, Fresh

LEMMA OverOfIs ==
    ASSUME NEW d, IsCall(d), NEW K
    PROVE  /\ IsCall(OverOf(d, K)) /\ Follows(OverOf(d, K), d)
           /\ OverOf(d, K).cut = d.cut
           /\ OverOf(d, K).on = (d.on /\ d.kind \notin K)
           /\ d.kind \notin K => OverOf(d, K) = d
<1> DEFINE r == [d EXCEPT !.on = FALSE]
<1>1. /\ IsCall(r) /\ r.kind = d.kind /\ r.of = d.of /\ r.arg = d.arg /\ r.at = d.at
      /\ r.ans = d.ans /\ r.cut = d.cut /\ r.on = FALSE
  BY DEF IsCall
<1> HIDE DEF r
<1>2. CASE d.kind \in K /\ d.on
  <2>1. OverOf(d, K) = r
    BY ONLY <1>2 DEF OverOf, r
  <2> QED BY <1>2, <2>1, <1>1 DEF Follows
<1>3. CASE ~(d.kind \in K /\ d.on)
  <2>1. OverOf(d, K) = d
    BY ONLY <1>3 DEF OverOf
  <2>2. d.on \in BOOLEAN
    BY DEF IsCall
  <2> QED BY <1>3, <2>1, <2>2 DEF Follows
<1> QED BY <1>2, <1>3

LEMMA CutOfIs ==
    ASSUME NEW d, IsCall(d), NEW K
    PROVE  /\ IsCall(CutOf(d, K)) /\ Follows(CutOf(d, K), d)
           /\ CutOf(d, K).on = d.on
           /\ CutOf(d, K).cut = IF d.kind \in K /\ d.on THEN d.at = "sent" ELSE d.cut
           /\ d.kind \notin K => CutOf(d, K) = d
<1> DEFINE r == [d EXCEPT !.cut = d.at = "sent"]
<1>1. /\ IsCall(r) /\ r.kind = d.kind /\ r.of = d.of /\ r.arg = d.arg /\ r.at = d.at
      /\ r.ans = d.ans /\ r.on = d.on /\ r.cut = (d.at = "sent")
  BY DEF IsCall
<1> HIDE DEF r
<1>2. CASE d.kind \in K /\ d.on
  <2>1. CutOf(d, K) = r
    BY ONLY <1>2 DEF CutOf, r
  <2> QED BY <1>2, <2>1, <1>1 DEF Follows
<1>3. CASE ~(d.kind \in K /\ d.on)
  <2>1. CutOf(d, K) = d
    BY ONLY <1>3 DEF CutOf
  <2> QED BY <1>3, <2>1 DEF Follows
<1> QED BY <1>2, <1>3

\* A bag whose requests are replaced, several by one perhaps.
LEMMA Replaced ==
    ASSUME NEW B, CallsOK(B), NEW C, NEW f, f = [d \in DOMAIN B |-> f[d]],
           C = [e \in {f[d] : d \in DOMAIN B} |->
                  Total([d \in DOMAIN B |-> IF f[d] = e THEN B[d] ELSE 0])]
    PROVE  /\ IsFiniteSet(DOMAIN C) /\ C \in [DOMAIN C -> Nat \ {0}]
           /\ \A e \in DOMAIN B : (\A d \in DOMAIN B : f[d] = e <=> d = e) => C[e] = B[e]
<1>1. DOMAIN C = {f[d] : d \in DOMAIN B}
  OBVIOUS
<1>2. IsFiniteSet(DOMAIN C)
  <2>1. f \in Surjection(DOMAIN B, DOMAIN C)
    <3>1. f \in [DOMAIN B -> DOMAIN C] /\ \A e \in DOMAIN C : \E d \in DOMAIN B : f[d] = e
      BY <1>1
    <3> QED BY <3>1, Fun_IsSurj
  <2> QED BY <2>1, FS_Surjection DEF CallsOK, ExistsSurjection
<1>3. ASSUME NEW e \in DOMAIN C
      PROVE  /\ C[e] \in Nat \ {0}
             /\ e \in DOMAIN B /\ (\A d \in DOMAIN B : f[d] = e <=> d = e) => C[e] = B[e]
  <2> DEFINE g == [d \in DOMAIN B |-> IF f[d] = e THEN B[d] ELSE 0]
  <2>1. g \in [DOMAIN B -> Nat]
    BY DEF CallsOK
  <2>2. C[e] = Total(g)
    BY <1>1
  <2>3. PICK d \in DOMAIN B : f[d] = e
    BY <1>1
  <2>4. g[d] = B[d] /\ B[d] \in Nat \ {0}
    BY <2>3 DEF CallsOK
  <2>5. e \in DOMAIN B /\ (\A x \in DOMAIN B : f[x] = e <=> x = e) =>
          g[e] = B[e] /\ \A x \in DOMAIN B \ {e} : g[x] = 0
    OBVIOUS
  <2> HIDE DEF g
  <2>6. /\ Total(g) \in Nat /\ g[d] <= Total(g)
        /\ \A x \in DOMAIN B : (\A y \in DOMAIN B \ {x} : g[y] = 0) => Total(g) = g[x]
    BY <2>1, <2>3, TotalFacts DEF CallsOK
  <2> QED BY <2>2, <2>4, <2>5, <2>6
<1>4. \A e \in DOMAIN B : (\A d \in DOMAIN B : f[d] = e <=> d = e) => e \in DOMAIN C
  BY <1>1
<1>5. C \in [DOMAIN C -> Nat \ {0}]
  <2>1. C = [e \in DOMAIN C |-> C[e]]
    BY <1>1
  <2> QED BY <2>1, <1>3
<1> QED BY <1>2, <1>3, <1>4, <1>5

LEMMA OvertakenLeaves ==
    ASSUME NEW B, CallsOK(B), NEW K
    PROVE  LeftOf(B, Overtaken(B, K), K) /\ Off(Overtaken(B, K), K)
<1> DEFINE f == [d \in DOMAIN B |-> OverOf(d, K)]
           C == Overtaken(B, K)
<1>1. C = [e \in {f[d] : d \in DOMAIN B} |->
             Total([d \in DOMAIN B |-> IF f[d] = e THEN B[d] ELSE 0])]
  BY OvertakenIs
<1>2. f = [d \in DOMAIN B |-> f[d]]
  OBVIOUS
<1>3. \A d \in DOMAIN B : f[d] = OverOf(d, K)
  OBVIOUS
<1> HIDE DEF f, C
<1>4. /\ IsFiniteSet(DOMAIN C) /\ C \in [DOMAIN C -> Nat \ {0}]
      /\ \A e \in DOMAIN B : (\A d \in DOMAIN B : f[d] = e <=> d = e) => C[e] = B[e]
  BY <1>1, <1>2, Replaced
<1>5. \A e \in DOMAIN C : \E d \in DOMAIN B : e = f[d]
  BY <1>1
<1>6. \A d \in DOMAIN B : f[d] \in DOMAIN C
  BY <1>1
<1>7. \A d \in DOMAIN B :
         /\ IsCall(f[d]) /\ Follows(f[d], d) /\ f[d].kind = d.kind
         /\ f[d].on = (d.on /\ d.kind \notin K)
         /\ d.kind \notin K => f[d] = d
  BY <1>3, OverOfIs DEF CallsOK, Follows
<1>8. CallsOK(C)
  BY <1>4, <1>5, <1>7 DEF CallsOK
<1>9. \A e \in DOMAIN C : \E d \in DOMAIN B : Follows(e, d)
  BY <1>5, <1>7
<1>10. \A d \in DOMAIN B : d.kind \notin K => d \in DOMAIN C
  BY <1>6, <1>7
<1>11. ASSUME NEW e \in DOMAIN C, e.kind \notin K PROVE e \in DOMAIN B /\ C[e] = B[e]
  <2>1. PICK d \in DOMAIN B : e = f[d]
    BY <1>5
  <2>2. d.kind \notin K /\ d = e
    BY <2>1, <1>7, <1>11
  <2>3. \A x \in DOMAIN B : f[x] = e <=> x = e
    BY <2>1, <2>2, <1>7, <1>11
  <2> QED BY <2>2, <2>3, <1>4
<1>12. Off(C, K)
  BY <1>5, <1>7 DEF Off
<1> QED BY <1>8, <1>9, <1>10, <1>11, <1>12 DEF LeftOf, C

\* An aborted request is wanted as before.
LEMMA AbortedLeaves ==
    ASSUME NEW B, CallsOK(B), NEW K
    PROVE  /\ LeftOf(B, Aborted(B, K), K)
           /\ \A d \in DOMAIN B : \E e \in DOMAIN Aborted(B, K) : Follows(e, d) /\ e.on = d.on
           /\ \A e \in DOMAIN Aborted(B, K) : \E d \in DOMAIN B :
                 /\ Follows(e, d)
                 /\ e.cut = IF d.kind \in K /\ d.on THEN d.at = "sent" ELSE d.cut
<1> DEFINE f == [d \in DOMAIN B |-> CutOf(d, K)]
           C == Aborted(B, K)
<1>1. C = [e \in {f[d] : d \in DOMAIN B} |->
             Total([d \in DOMAIN B |-> IF f[d] = e THEN B[d] ELSE 0])]
  BY AbortedIs
<1>2. f = [d \in DOMAIN B |-> f[d]]
  OBVIOUS
<1>3. \A d \in DOMAIN B : f[d] = CutOf(d, K)
  OBVIOUS
<1> HIDE DEF f, C
<1>4. /\ IsFiniteSet(DOMAIN C) /\ C \in [DOMAIN C -> Nat \ {0}]
      /\ \A e \in DOMAIN B : (\A d \in DOMAIN B : f[d] = e <=> d = e) => C[e] = B[e]
  BY <1>1, <1>2, Replaced
<1>5. \A e \in DOMAIN C : \E d \in DOMAIN B : e = f[d]
  BY <1>1
<1>6. \A d \in DOMAIN B : f[d] \in DOMAIN C
  BY <1>1
<1>7. \A d \in DOMAIN B :
         /\ IsCall(f[d]) /\ Follows(f[d], d) /\ f[d].kind = d.kind
         /\ f[d].on = d.on
         /\ f[d].cut = IF d.kind \in K /\ d.on THEN d.at = "sent" ELSE d.cut
         /\ d.kind \notin K => f[d] = d
  BY <1>3, CutOfIs DEF CallsOK, Follows
<1>8. CallsOK(C)
  BY <1>4, <1>5, <1>7 DEF CallsOK
<1>9. \A e \in DOMAIN C : \E d \in DOMAIN B :
         Follows(e, d) /\ e.cut = IF d.kind \in K /\ d.on THEN d.at = "sent" ELSE d.cut
  BY <1>5, <1>7
<1>10. \A d \in DOMAIN B : d.kind \notin K => d \in DOMAIN C
  BY <1>6, <1>7
<1>11. ASSUME NEW e \in DOMAIN C, e.kind \notin K PROVE e \in DOMAIN B /\ C[e] = B[e]
  <2>1. PICK d \in DOMAIN B : e = f[d]
    BY <1>5
  <2>2. d.kind \notin K /\ d = e
    BY <2>1, <1>7, <1>11
  <2>3. \A x \in DOMAIN B : f[x] = e <=> x = e
    BY <2>1, <2>2, <1>7, <1>11
  <2> QED BY <2>2, <2>3, <1>4
<1>12. \A d \in DOMAIN B : \E e \in DOMAIN C : Follows(e, d) /\ e.on = d.on
  BY <1>6, <1>7
<1> QED BY <1>8, <1>9, <1>10, <1>11, <1>12 DEF LeftOf, C

LEMMA LeftOfLeft ==
    ASSUME NEW B, NEW C, NEW D, NEW K, NEW L, LeftOf(B, C, K), LeftOf(C, D, L)
    PROVE  LeftOf(B, D, K \cup L)
<1>1. CallsOK(D)
  BY DEF LeftOf
<1>2. \A e \in DOMAIN D : \E d \in DOMAIN B : Follows(e, d)
  <2> TAKE e \in DOMAIN D
  <2>1. PICK c \in DOMAIN C : Follows(e, c)
    BY DEF LeftOf
  <2>2. PICK d \in DOMAIN B : Follows(c, d)
    BY DEF LeftOf
  <2> QED BY <2>1, <2>2 DEF Follows
<1>3. \A e \in DOMAIN D : e.kind \notin K \cup L => e \in DOMAIN B /\ D[e] = B[e]
  BY DEF LeftOf
<1>4. \A d \in DOMAIN B : d.kind \notin K \cup L => d \in DOMAIN D
  BY DEF LeftOf
<1> QED BY <1>1, <1>2, <1>3, <1>4 DEF LeftOf

\* What is no longer wanted stays so.
LEMMA OffStays ==
    ASSUME NEW B, NEW C, NEW K, NEW L, LeftOf(B, C, K), Off(B, L)
    PROVE  Off(C, L)
BY DEF LeftOf, Off, Follows

LEMMA WithdrawnLeaves ==
    ASSUME NEW B, CallsOK(B), NEW K
    PROVE  LeftOf(B, Withdrawn(B, K), K) /\ Off(Withdrawn(B, K), K)
<1> DEFINE A == {d \in Wanted(B, K) : d.at = "sent"}
           C == [c \in BagToSet(B) \ A |-> B[c]]
<1>1. \A c \in A : c.kind \in K
  BY DEF Wanted, Pending
<1>2. DOMAIN C = DOMAIN B \ A /\ \A c \in DOMAIN C : C[c] = B[c] /\ c \in DOMAIN B
  BY DEF BagToSet
<1>3. Withdrawn(B, K) = Overtaken(C, K)
  BY DEF Withdrawn
<1>4. C = [c \in DOMAIN C |-> C[c]]
  BY DEF BagToSet
<1> HIDE DEF A, C
<1>5. CallsOK(C)
  <2>1. IsFiniteSet(DOMAIN C)
    BY <1>2, FS_Subset DEF CallsOK
  <2>2. C \in [DOMAIN C -> Nat \ {0}]
    BY <1>2, <1>4 DEF CallsOK
  <2> QED BY <2>1, <2>2, <1>2 DEF CallsOK
<1>6. LeftOf(B, C, K)
  BY <1>1, <1>2, <1>5 DEF LeftOf, Follows
<1>7. LeftOf(C, Overtaken(C, K), K) /\ Off(Overtaken(C, K), K)
  BY <1>5, OvertakenLeaves
<1>8. LeftOf(B, Overtaken(C, K), K \cup K)
  BY <1>6, <1>7, LeftOfLeft
<1>9. K \cup K = K
  OBVIOUS
<1> QED BY <1>3, <1>7, <1>8, <1>9

LEMMA BeginIs ==
    ASSUME NEW B, CallsOK(B), NEW call, IsCall(call)
    PROVE  /\ CallsOK(Begin(B, call))
           /\ DOMAIN Begin(B, call) = DOMAIN B \cup {call}
           /\ \A c \in DOMAIN B : c # call => Begin(B, call)[c] = B[c]
           /\ call \notin DOMAIN B => Begin(B, call)[call] = 1
<1> DEFINE C == [e \in DOMAIN B \cup {call} |->
                   (IF e \in DOMAIN B THEN B[e] ELSE 0) + (IF e = call THEN 1 ELSE 0)]
<1>1. Begin(B, call) = C
  <2>1. SetToBag({call}) = [e \in {call} |-> 1]
    BY DEF SetToBag
  <2>2. DOMAIN SetToBag({call}) = {call} /\ SetToBag({call})[call] = 1
    BY <2>1
  <2>3. Begin(B, call) =
          [e \in DOMAIN B \cup {call} |->
             (IF e \in DOMAIN B THEN B[e] ELSE 0)
             + (IF e \in {call} THEN SetToBag({call})[e] ELSE 0)]
    BY <2>2 DEF Begin, (+)
  <2>4. \A e \in DOMAIN B \cup {call} :
           (IF e \in {call} THEN SetToBag({call})[e] ELSE 0) = (IF e = call THEN 1 ELSE 0)
    BY <2>2
  <2> QED BY <2>3, <2>4
<1>2. \A e \in DOMAIN B \cup {call} : C[e] \in Nat \ {0}
  BY DEF CallsOK
<1>3. IsFiniteSet(DOMAIN B \cup {call})
  BY FS_AddElement DEF CallsOK
<1>4. \A c \in DOMAIN B : c # call => C[c] = B[c]
  BY DEF CallsOK
<1>5. call \notin DOMAIN B => C[call] = 1
  OBVIOUS
<1>6. CallsOK(C)
  BY <1>2, <1>3 DEF CallsOK
<1> QED BY <1>1, <1>4, <1>5, <1>6

LEMMA EndedIs ==
    ASSUME NEW B, CallsOK(B), NEW call
    PROVE  /\ LeftOf(B, Ended(B, call), {call.kind})
           /\ \A c \in DOMAIN Ended(B, call) : c \in DOMAIN B /\ (c # call => Ended(B, call)[c] = B[c])
           /\ \A c \in DOMAIN B : c # call => c \in DOMAIN Ended(B, call)
           /\ call \in DOMAIN B /\ B[call] = 1 => call \notin DOMAIN Ended(B, call)
<1> DEFINE A == [e \in DOMAIN B |-> IF e = call THEN B[e] - 1 ELSE B[e]]
           C == [e \in {d \in DOMAIN B : A[d] > 0} |-> A[e]]
<1>1. Ended(B, call) = C
  <2>1. SetToBag({call}) = [e \in {call} |-> 1]
    BY DEF SetToBag
  <2>2. DOMAIN SetToBag({call}) = {call} /\ SetToBag({call})[call] = 1
    BY <2>1
  <2> DEFINE A0 == [e \in DOMAIN B |-> IF e \in DOMAIN SetToBag({call})
                                       THEN B[e] - SetToBag({call})[e] ELSE B[e]]
  <2>3. A0 = A
    BY <2>2
  <2>4. Ended(B, call) = [e \in {d \in DOMAIN A0 : A0[d] > 0} |-> A0[e]]
    BY DEF Ended, (-)
  <2>5. DOMAIN A = DOMAIN B
    OBVIOUS
  <2> HIDE DEF A0, A
  <2> QED BY <2>3, <2>4, <2>5
<1>2. \A e \in DOMAIN B : B[e] \in Nat \ {0} /\ (e # call => A[e] = B[e]) /\ (e = call => A[e] = B[e] - 1)
  BY DEF CallsOK
<1>3. DOMAIN C = {d \in DOMAIN B : A[d] > 0} /\ \A c \in DOMAIN C : C[c] = A[c]
  OBVIOUS
<1>4. C = [c \in DOMAIN C |-> C[c]]
  OBVIOUS
<1> HIDE DEF A, C
<1>5. \A c \in DOMAIN C : c \in DOMAIN B /\ C[c] \in Nat \ {0} /\ (c # call => C[c] = B[c])
  BY <1>2, <1>3
<1>6. \A c \in DOMAIN B : c # call => c \in DOMAIN C
  BY <1>2, <1>3
<1>7. call \in DOMAIN B /\ B[call] = 1 => call \notin DOMAIN C
  BY <1>2, <1>3
<1>8. CallsOK(C)
  <2>1. IsFiniteSet(DOMAIN C)
    BY <1>5, FS_Subset DEF CallsOK
  <2>2. C \in [DOMAIN C -> Nat \ {0}]
    BY <1>4, <1>5
  <2> QED BY <2>1, <2>2, <1>5 DEF CallsOK
<1>9. LeftOf(B, C, {call.kind})
  BY <1>5, <1>6, <1>8 DEF LeftOf, Follows
<1> QED BY <1>1, <1>5, <1>6, <1>7, <1>9

\* A request when its answer is there.
Read(call, answer) == [call EXCEPT !.at = "read", !.ans = answer]

LEMMA ReadIs ==
    ASSUME NEW call, IsCall(call), NEW answer
    PROVE  /\ IsCall(Read(call, answer))
           /\ Read(call, answer).kind = call.kind /\ Read(call, answer).of = call.of
           /\ Read(call, answer).arg = call.arg /\ Read(call, answer).on = call.on
           /\ Read(call, answer).cut = call.cut
           /\ Read(call, answer).at = "read" /\ Read(call, answer).ans = answer
BY DEF IsCall, Read

LEMMA AnsweredIs ==
    ASSUME NEW B, CallsOK(B), NEW call \in DOMAIN B, NEW answer
    PROVE  /\ CallsOK(Answered(B, call, answer))
           /\ \A c \in DOMAIN Answered(B, call, answer) :
                 c = Read(call, answer) \/ (c \in DOMAIN B /\ Ended(B, call)[c] = Answered(B, call, answer)[c]
                                            /\ c \in DOMAIN Ended(B, call))
           /\ \A c \in DOMAIN B : c # call => c \in DOMAIN Answered(B, call, answer)
           /\ Read(call, answer) \in DOMAIN Answered(B, call, answer)
           /\ Read(call, answer) \notin DOMAIN Ended(B, call) =>
                 Answered(B, call, answer)[Read(call, answer)] = 1
<1> DEFINE r == Read(call, answer)
           C == Ended(B, call)
<1>1. Answered(B, call, answer) = Begin(C, r)
  BY DEF Answered, Read
<1>2. CallsOK(C) /\ \A c \in DOMAIN C : c \in DOMAIN B
  BY EndedIs DEF LeftOf
<1>3. \A c \in DOMAIN B : c # call => c \in DOMAIN C
  BY EndedIs
<1>4. IsCall(r)
  BY ReadIs DEF CallsOK
<1> HIDE DEF r, C
<1>5. /\ CallsOK(Begin(C, r)) /\ DOMAIN Begin(C, r) = DOMAIN C \cup {r}
      /\ \A c \in DOMAIN C : c # r => Begin(C, r)[c] = C[c]
      /\ r \notin DOMAIN C => Begin(C, r)[r] = 1
  BY <1>2, <1>4, BeginIs
<1> QED BY <1>1, <1>2, <1>3, <1>5 DEF r, C

\* There is a request of these kinds, or one that is still wanted.
Has(B, K)   == \E c \in DOMAIN B : c.kind \in K
Wants(B, K) == \E c \in DOMAIN B : c.kind \in K /\ c.on

LEMMA WantsIs ==
    ASSUME NEW B, NEW K
    PROVE  /\ Has(B, K) <=> Pending(B, K) # {}
           /\ Wants(B, K) <=> Wanted(B, K) # {}
BY DEF Has, Wants, Wanted, Pending, BagToSet

LEMMA LeftHas ==
    ASSUME NEW B, NEW C, NEW K, LeftOf(B, C, K), NEW L, \A k \in L : k \notin K
    PROVE  (Has(B, L) => Has(C, L)) /\ (Wants(B, L) => Wants(C, L))
BY DEF LeftOf, Has, Wants

LEMMA BeginHas ==
    ASSUME NEW B, CallsOK(B), NEW call, IsCall(call), NEW L
    PROVE  /\ Has(B, L) => Has(Begin(B, call), L)
           /\ Wants(B, L) => Wants(Begin(B, call), L)
           /\ call.kind \in L => Has(Begin(B, call), L)
           /\ call.kind \in L /\ call.on => Wants(Begin(B, call), L)
<1>1. DOMAIN Begin(B, call) = DOMAIN B \cup {call}
  BY BeginIs
<1> QED BY <1>1 DEF Has, Wants

LEMMA EndedHas ==
    ASSUME NEW B, CallsOK(B), NEW call, NEW L
    PROVE  /\ call.kind \notin L => (Has(B, L) => Has(Ended(B, call), L))
           /\ call.kind \notin L \/ ~call.on => (Wants(B, L) => Wants(Ended(B, call), L))
<1>1. \A c \in DOMAIN B : c # call => c \in DOMAIN Ended(B, call)
  BY EndedIs
<1> QED BY <1>1 DEF Has, Wants

LEMMA AnsweredHas ==
    ASSUME NEW B, CallsOK(B), NEW call \in DOMAIN B, NEW answer, NEW L
    PROVE  /\ Has(B, L) => Has(Answered(B, call, answer), L)
           /\ Wants(B, L) => Wants(Answered(B, call, answer), L)
<1>1. IsCall(call)
  BY DEF CallsOK
<1>2. Read(call, answer).kind = call.kind /\ Read(call, answer).on = call.on
  BY <1>1, ReadIs
<1>3. /\ \A c \in DOMAIN B : c # call => c \in DOMAIN Answered(B, call, answer)
      /\ Read(call, answer) \in DOMAIN Answered(B, call, answer)
  BY AnsweredIs
<1> QED BY <1>2, <1>3 DEF Has, Wants

\* At most one request of a kind is wanted, and it was made once.
Alone(B, k) ==
    \A c, d \in DOMAIN B : c.kind = k /\ d.kind = k /\ c.on /\ d.on => c = d /\ B[c] = 1

LEMMA OffAlone == ASSUME NEW B, NEW k, Off(B, {k}) PROVE Alone(B, k)
BY DEF Off, Alone

LEMMA LeftAlone ==
    ASSUME NEW B, NEW C, NEW K, LeftOf(B, C, K), NEW k, Alone(B, k), k \notin K \/ Off(C, {k})
    PROVE  Alone(C, k)
BY DEF LeftOf, Alone, Off

LEMMA BeginAlone ==
    ASSUME NEW B, CallsOK(B), NEW call, IsCall(call), NEW k, Alone(B, k),
           call.kind # k \/ Off(B, {k})
    PROVE  Alone(Begin(B, call), k)
<1>1. /\ DOMAIN Begin(B, call) = DOMAIN B \cup {call}
      /\ \A c \in DOMAIN B : c # call => Begin(B, call)[c] = B[c]
      /\ call \notin DOMAIN B => Begin(B, call)[call] = 1
  BY BeginIs
<1>2. CASE call.kind # k
  BY <1>1, <1>2 DEF Alone
<1>3. CASE Off(B, {k})
  BY <1>1, <1>3 DEF Alone, Off
<1> QED BY <1>2, <1>3

LEMMA EndedAlone ==
    ASSUME NEW B, CallsOK(B), NEW call \in DOMAIN B, NEW k, Alone(B, k)
    PROVE  /\ Alone(Ended(B, call), k)
           /\ call.kind = k /\ call.on => Off(Ended(B, call), {k})
<1>1. /\ \A c \in DOMAIN Ended(B, call) : c \in DOMAIN B /\ (c # call => Ended(B, call)[c] = B[c])
      /\ B[call] = 1 => call \notin DOMAIN Ended(B, call)
  BY EndedIs
<1>2. CASE call.kind = k /\ call.on
  <2>1. Off(Ended(B, call), {k})
    BY <1>1, <1>2 DEF Alone, Off
  <2> QED BY <2>1, OffAlone
<1>3. CASE ~(call.kind = k /\ call.on)
  BY <1>1, <1>3 DEF Alone
<1> QED BY <1>2, <1>3

LEMMA AnsweredAlone ==
    ASSUME NEW B, CallsOK(B), NEW call \in DOMAIN B, NEW answer, NEW k, Alone(B, k)
    PROVE  Alone(Answered(B, call, answer), k)
<1>1. IsCall(call) /\ CallsOK(Ended(B, call))
  BY EndedIs DEF CallsOK, LeftOf
<1>2. Answered(B, call, answer) = Begin(Ended(B, call), Read(call, answer))
  BY DEF Answered, Read
<1>3. IsCall(Read(call, answer)) /\ Read(call, answer).kind = call.kind
      /\ Read(call, answer).on = call.on
  BY <1>1, ReadIs
<1>4. Alone(Ended(B, call), k) /\ (call.kind = k /\ call.on => Off(Ended(B, call), {k}))
  BY EndedAlone
<1>5. CASE call.kind # k \/ call.on
  BY <1>1, <1>2, <1>3, <1>4, <1>5, BeginAlone
<1>6. CASE call.kind = k /\ ~call.on
  <2>1. /\ DOMAIN Begin(Ended(B, call), Read(call, answer)) = DOMAIN Ended(B, call) \cup {Read(call, answer)}
        /\ \A c \in DOMAIN Ended(B, call) : c # Read(call, answer) =>
              Begin(Ended(B, call), Read(call, answer))[c] = Ended(B, call)[c]
    BY <1>1, <1>3, BeginIs
  <2>2. ~Read(call, answer).on
    BY <1>3, <1>6
  <2> QED BY <2>1, <2>2, <1>2, <1>4 DEF Alone
<1> QED BY <1>5, <1>6

-----------------------------------------------------------------------------
(* What an operation leaves of the requests.                               *)


\* What does not concern the requests of kinds H, nor the wanted ones of
\* kinds W, leaves the others waited for as they are.
Stay(B, C, H, W) ==
    /\ \A k : k \notin H => (Has(B, {k}) => Has(C, {k}))
    /\ \A k : k \notin W => (Wants(B, {k}) => Wants(C, {k}))

LEMMA HasOne == ASSUME NEW B, NEW K PROVE Has(B, K) <=> \E k \in K : Has(B, {k})
BY DEF Has

LEMMA WantsOne == ASSUME NEW B, NEW K PROVE Wants(B, K) <=> \E k \in K : Wants(B, {k})
BY DEF Wants

LEMMA BeginStays ==
    ASSUME NEW B, CallsOK(B), NEW call, IsCall(call)
    PROVE  /\ Stay(B, Begin(B, call), {}, {})
           /\ Has(Begin(B, call), {call.kind})
           /\ call.on => Wants(Begin(B, call), {call.kind})
<1>1. DOMAIN Begin(B, call) = DOMAIN B \cup {call}
  BY BeginIs
<1> QED BY <1>1 DEF Stay, Has, Wants

LEMMA LeftStays ==
    ASSUME NEW B, NEW C, NEW K, LeftOf(B, C, K) PROVE Stay(B, C, K, K)
BY DEF LeftOf, Has, Wants, Stay

LEMMA EndedStays ==
    ASSUME NEW B, CallsOK(B), NEW call
    PROVE  /\ Stay(B, Ended(B, call), {call.kind}, {call.kind})
           /\ ~call.on => Stay(B, Ended(B, call), {call.kind}, {})
<1>1. \A c \in DOMAIN B : c # call => c \in DOMAIN Ended(B, call)
  BY EndedIs
<1> QED BY <1>1 DEF Has, Wants, Stay

LEMMA AnsweredStays ==
    ASSUME NEW B, CallsOK(B), NEW call \in DOMAIN B, NEW answer
    PROVE  Stay(B, Answered(B, call, answer), {}, {})
<1>1. IsCall(call)
  BY DEF CallsOK
<1>2. Read(call, answer).kind = call.kind /\ Read(call, answer).on = call.on
  BY <1>1, ReadIs
<1>3. /\ \A c \in DOMAIN B : c # call => c \in DOMAIN Answered(B, call, answer)
      /\ Read(call, answer) \in DOMAIN Answered(B, call, answer)
  BY AnsweredIs
<1> QED BY <1>2, <1>3 DEF Has, Wants, Stay

\* What is left of B and a request that was just made.
LEMMA BegunIs ==
    ASSUME NEW B, NEW X, NEW K, LeftOf(B, X, K), NEW k \in K, NEW of, NEW arg,
           NEW C, C = Begin(X, Sent(k, of, arg))
    PROVE  /\ CallsOK(C) /\ Stay(B, C, K, K)
           /\ Has(C, {k}) /\ Wants(C, {k})
           /\ \A c \in DOMAIN C : Fresh(c, k, of, arg) \/ c \in DOMAIN X
           /\ \A c \in DOMAIN X : c \in DOMAIN C
           /\ Off(X, {k}) => Alone(C, k)
<1>1. PICK call : call = Sent(k, of, arg)
  OBVIOUS
<1>2. Fresh(call, k, of, arg)
  BY ONLY <1>1, SentIs
<1>3. CallsOK(X) /\ IsCall(call) /\ call.kind = k /\ call.on
  BY <1>2 DEF Fresh, LeftOf
<1>4. C = Begin(X, call)
  BY <1>1
<1>5. CallsOK(C) /\ DOMAIN C = DOMAIN X \cup {call}
  <2>1. CallsOK(Begin(X, call)) /\ DOMAIN Begin(X, call) = DOMAIN X \cup {call}
    BY ONLY <1>3, BeginIs
  <2> QED BY ONLY <2>1, <1>4
<1>6. Stay(B, X, K, K) /\ Stay(X, C, {}, {}) /\ Has(C, {k}) /\ Wants(C, {k})
  BY <1>3, <1>4, LeftStays, BeginStays
<1>7. Stay(B, C, K, K)
  BY <1>6 DEF Stay
<1>8. Off(X, {k}) => Alone(C, k)
  BY <1>3, <1>4, OffAlone, BeginAlone
<1> QED BY <1>2, <1>5, <1>6, <1>7, <1>8

LEMMA LeftWhole == ASSUME NEW B, CallsOK(B) PROVE LeftOf(B, B, {})
BY DEF LeftOf, Follows

LEMMA LeftMore ==
    ASSUME NEW B, NEW C, NEW K, LeftOf(B, C, K), NEW L, K \subseteq L PROVE LeftOf(B, C, L)
BY DEF LeftOf

-----------------------------------------------------------------------------
(* NoteForm.                                                               *)

Texts == Typed \cup {Blank, Imported}

PanelType == [open : BOOLEAN, loading : BOOLEAN, ready : BOOLEAN, initial : Texts]

NoteTypes ==
    /\ CallsOK(noteCalls)
    /\ form \in Texts
    /\ importing \in BOOLEAN /\ creating \in BOOLEAN
    /\ panels \in [Archives -> PanelType]
    /\ DOMAIN repo = {"open", "loading", "preview", "path", "file"}
    /\ repo.loading \in BOOLEAN

\* Whoever waits has somebody to wait for.
NoteWaits ==
    /\ importing => Wants(noteCalls, {"file"})
    /\ creating => Has(noteCalls, {"create"})
    /\ repo.loading => Has(noteCalls, GithubKinds)
    /\ \A k \in Archives : panels[k].loading => Wants(noteCalls, {k})

\* A text file is wanted only while the tab is open.
FileOnTab == \A c \in DOMAIN noteCalls : c.kind = "file" /\ c.on => onTab

NoteInv == NoteTypes /\ NoteWaits /\ FileOnTab

LEMMA NoteStart == NotesInit => NoteInv
<1> SUFFICES ASSUME NotesInit PROVE NoteInv
  OBVIOUS
<1>1. DOMAIN noteCalls = {} /\ CallsOK(noteCalls)
  BY FS_EmptySet DEF NotesInit, EmptyBag, SetToBag, CallsOK
<1>2. NoteTypes
  BY <1>1 DEF NotesInit, NoteTypes, PanelType, Closed, NoRepo, Texts
<1>3. NoteWaits /\ FileOnTab
  BY <1>1 DEF NotesInit, NoteWaits, FileOnTab, Closed, NoRepo
<1> QED BY <1>2, <1>3 DEF NoteInv

\* A step goes on with what is waited for.
LEMMA NoteGoesOn ==
    ASSUME NoteInv, NEW H, NEW W, Stay(noteCalls, noteCalls', H, W),
           importing' => Wants(noteCalls', {"file"}) \/ (importing /\ "file" \notin W),
           creating' => Has(noteCalls', {"create"}) \/ (creating /\ "create" \notin H),
           repo'.loading => Has(noteCalls', GithubKinds) \/ (repo.loading /\ \A k \in GithubKinds : k \notin H),
           \A k \in Archives : panels'[k].loading =>
              Wants(noteCalls', {k}) \/ (panels[k].loading /\ k \notin W)
    PROVE  NoteWaits'
<1>1. importing' => Wants(noteCalls', {"file"})
  BY DEF NoteInv, NoteWaits, Stay
<1>2. creating' => Has(noteCalls', {"create"})
  BY DEF NoteInv, NoteWaits, Stay
<1>3. ASSUME repo'.loading, repo.loading, \A k \in GithubKinds : k \notin H
      PROVE  Has(noteCalls', GithubKinds)
  <2>1. Has(noteCalls, GithubKinds)
    BY <1>3 DEF NoteInv, NoteWaits
  <2>2. PICK k \in GithubKinds : Has(noteCalls, {k})
    BY <2>1, HasOne
  <2>3. Has(noteCalls', {k})
    BY <2>2, <1>3 DEF Stay
  <2> QED BY <2>3, HasOne
<1>4. \A k \in Archives : panels'[k].loading => Wants(noteCalls', {k})
  BY DEF NoteInv, NoteWaits, Stay
<1> QED BY <1>1, <1>2, <1>3, <1>4 DEF NoteWaits

\* The steps that make a request.
LEMMA NoteBegins ==
    ASSUME NoteInv, NEW call, IsCall(call), Started(call), UNCHANGED onTab
    PROVE  /\ CallsOK(noteCalls') /\ FileOnTab' /\ Stay(noteCalls, noteCalls', {}, {})
           /\ Has(noteCalls', {call.kind}) /\ (call.on => Wants(noteCalls', {call.kind}))
<1>1. CallsOK(noteCalls) /\ noteCalls' = Begin(noteCalls, call) /\ onTab
  BY DEF NoteInv, NoteTypes, Started
<1>2. DOMAIN noteCalls' = DOMAIN noteCalls \cup {call} /\ CallsOK(noteCalls')
  BY <1>1, BeginIs
<1>3. FileOnTab'
  BY <1>1, <1>2 DEF NoteInv, FileOnTab
<1>4. /\ Stay(noteCalls, noteCalls', {}, {}) /\ Has(noteCalls', {call.kind})
      /\ call.on => Wants(noteCalls', {call.kind})
  BY <1>1, BeginStays
<1> QED BY <1>2, <1>3, <1>4

\* The steps that overtake or drop requests of kinds K.
LEMMA NoteLeaves ==
    ASSUME NoteInv, NEW K, LeftOf(noteCalls, noteCalls', K), onTab' = onTab \/ Off(noteCalls', {"file"})
    PROVE  CallsOK(noteCalls') /\ FileOnTab' /\ Stay(noteCalls, noteCalls', K, K)
<1>1. FileOnTab'
  BY DEF NoteInv, FileOnTab, LeftOf, Off, Follows
<1> QED BY <1>1, LeftStays DEF LeftOf

\* The steps in which a request's handler goes on.
LEMMA NoteEnds ==
    ASSUME NoteInv, NEW call \in DOMAIN noteCalls, noteCalls' = Ended(noteCalls, call), UNCHANGED onTab
    PROVE  /\ CallsOK(noteCalls') /\ FileOnTab'
           /\ Stay(noteCalls, noteCalls', {call.kind}, {call.kind})
           /\ ~call.on => Stay(noteCalls, noteCalls', {call.kind}, {})
<1>1. CallsOK(noteCalls)
  BY DEF NoteInv, NoteTypes
<1>2. CallsOK(noteCalls') /\ \A c \in DOMAIN noteCalls' : c \in DOMAIN noteCalls
  BY <1>1, EndedIs DEF LeftOf
<1>3. FileOnTab'
  BY <1>2 DEF NoteInv, FileOnTab
<1> QED BY <1>1, <1>2, <1>3, EndedStays

LEMMA NoteKeeps == NoteInv /\ [NotesNext]_noteVars => NoteInv'
<1> SUFFICES ASSUME NoteInv, [NotesNext]_noteVars PROVE NoteInv'
  OBVIOUS
<1> USE DEF NoteInv
<1>t. /\ CallsOK(noteCalls) /\ form \in Texts /\ importing \in BOOLEAN /\ creating \in BOOLEAN
      /\ panels \in [Archives -> PanelType]
      /\ DOMAIN repo = {"open", "loading", "preview", "path", "file"} /\ repo.loading \in BOOLEAN
      /\ \A k \in Archives : panels[k] \in PanelType
  BY DEF NoteTypes
<1>1. ASSUME UNCHANGED noteVars PROVE NoteInv'
  BY <1>1 DEF noteVars, NoteTypes, NoteWaits, FileOnTab, PanelType
<1>2. ASSUME NEW text \in Typed \cup {Blank}, Type(text) PROVE NoteInv'
  BY <1>2 DEF Type, NoteTypes, NoteWaits, FileOnTab, PanelType, Texts
<1>3. CASE handleCreate
  <2>c. PICK call : call = Sent("create", form, None)
    OBVIOUS
  <2>1. IsCall(call) /\ call.kind = "create" /\ call.on
    BY ONLY <2>c, SentIs DEF Fresh
  <2>2. Started(call) /\ UNCHANGED <<form, importing, panels, repo, onTab>> /\ creating' = TRUE
    BY <1>3, <2>c DEF handleCreate
  <2>3. /\ CallsOK(noteCalls') /\ FileOnTab' /\ Stay(noteCalls, noteCalls', {}, {})
        /\ Has(noteCalls', {"create"})
    BY <2>1, <2>2, NoteBegins
  <2>4. NoteTypes'
    BY <1>t, <2>2, <2>3 DEF NoteTypes
  <2>5. NoteWaits'
    BY <2>2, <2>3, NoteGoesOn
  <2> QED BY <2>3, <2>4, <2>5
<1>4. CASE handleImportTextFile
  <2>c. PICK call : call = Sent("file", None, [initial |-> form])
    OBVIOUS
  <2>1. IsCall(call) /\ call.kind = "file" /\ call.on
    BY ONLY <2>c, SentIs DEF Fresh
  <2>2. Started(call) /\ UNCHANGED <<form, creating, panels, repo, onTab>> /\ importing' = TRUE
    BY <1>4, <2>c DEF handleImportTextFile
  <2>3. /\ CallsOK(noteCalls') /\ FileOnTab' /\ Stay(noteCalls, noteCalls', {}, {})
        /\ Wants(noteCalls', {"file"})
    BY <2>1, <2>2, NoteBegins
  <2>4. NoteTypes'
    BY <1>t, <2>2, <2>3 DEF NoteTypes
  <2>5. NoteWaits'
    BY <2>2, <2>3, NoteGoesOn
  <2> QED BY <2>3, <2>4, <2>5
<1>5. ASSUME NEW k \in Archives, handleFile(k) PROVE NoteInv'
  <2>c. PICK call : call = Sent(k, None, None)
    OBVIOUS
  <2> DEFINE p == [panels[k] EXCEPT !.loading = TRUE, !.ready = FALSE, !.initial = form]
  <2>1. IsCall(call) /\ call.kind = k /\ call.on
    BY ONLY <2>c, SentIs DEF Fresh
  <2>2. Started(call) /\ UNCHANGED <<form, creating, importing, repo, onTab>>
        /\ panels' = [panels EXCEPT ![k] = p]
    BY <1>5, <2>c DEF handleFile
  <2>p. p \in PanelType
    BY <1>t DEF PanelType
  <2> HIDE DEF p
  <2>3. /\ CallsOK(noteCalls') /\ FileOnTab' /\ Stay(noteCalls, noteCalls', {}, {})
        /\ Wants(noteCalls', {k})
    BY <2>1, <2>2, NoteBegins
  <2>4. panels' \in [Archives -> PanelType] /\ \A j \in Archives : panels'[j] = IF j = k THEN p ELSE panels[j]
    BY <1>t, <2>2, <2>p
  <2>5. NoteTypes'
    BY <1>t, <2>2, <2>3, <2>4 DEF NoteTypes
  <2>6. NoteWaits'
    BY <2>2, <2>3, <2>4, NoteGoesOn
  <2> QED BY <2>3, <2>5, <2>6
<1>6. ASSUME NEW call, RunRepo(call), IsCall(call), call.kind \in GithubKinds,
             DOMAIN repo' = DOMAIN repo, repo'.loading \in BOOLEAN
      PROVE  NoteInv'
  <2>2. Started(call) /\ UNCHANGED <<form, creating, importing, panels, onTab>>
    BY <1>6 DEF RunRepo
  <2>3. /\ CallsOK(noteCalls') /\ FileOnTab' /\ Stay(noteCalls, noteCalls', {}, {})
        /\ Has(noteCalls', GithubKinds)
    BY <1>6, <2>2, NoteBegins, HasOne
  <2>4. NoteTypes'
    BY <1>t, <1>6, <2>2, <2>3 DEF NoteTypes
  <2>5. NoteWaits'
    BY <2>2, <2>3, NoteGoesOn
  <2> QED BY <2>3, <2>4, <2>5
<1>r. /\ [repo EXCEPT !.loading = TRUE].loading = TRUE
      /\ \A path : [repo EXCEPT !.loading = TRUE, !.path = path].loading = TRUE
  BY <1>t
<1>7. CASE Preview
  <2>1. RunRepo(Sent("preview", None, None)) /\ DOMAIN repo' = DOMAIN repo /\ repo'.loading = TRUE
    BY <1>7, <1>r DEF Preview
  <2> QED BY <2>1, <1>6, SentIs DEF GithubKinds, Fresh
<1>8. ASSUME NEW path \in Paths, ReadFile(path) PROVE NoteInv'
  <2>1. RunRepo(Sent("read", path, None)) /\ DOMAIN repo' = DOMAIN repo /\ repo'.loading = TRUE
    BY <1>8, <1>r DEF ReadFile
  <2> QED BY <2>1, <1>6, SentIs DEF GithubKinds, Fresh
<1>9. CASE SaveReviewed
  <2>1. RunRepo(Sent("import", repo.file, None)) /\ DOMAIN repo' = DOMAIN repo /\ repo'.loading = TRUE
    BY <1>9, <1>r DEF SaveReviewed
  <2> QED BY <2>1, <1>6, SentIs DEF GithubKinds, Fresh
<1>10. ASSUME NEW K, K \subseteq Archives \cup {"file"}, LeftOf(noteCalls, noteCalls', K),
              UNCHANGED creating, DOMAIN repo' = DOMAIN repo, repo'.loading = repo.loading,
              onTab' = onTab \/ Off(noteCalls', {"file"}),
              form' \in Texts,
              importing' \in BOOLEAN, importing' => importing /\ "file" \notin K,
              panels' \in [Archives -> PanelType],
              \A k \in Archives : panels'[k].loading => panels[k].loading /\ k \notin K
       PROVE  NoteInv'
  <2>1. CallsOK(noteCalls') /\ FileOnTab' /\ Stay(noteCalls, noteCalls', K, K)
    BY <1>10, NoteLeaves
  <2>2. NoteTypes'
    BY <1>t, <1>10, <2>1 DEF NoteTypes
  <2>3. "create" \notin K /\ \A k \in GithubKinds : k \notin K
    BY <1>10 DEF GithubKinds, Archives
  <2>4. NoteWaits'
    BY <1>10, <2>1, <2>3, NoteGoesOn
  <2> QED BY <2>1, <2>2, <2>4
<1>11. ASSUME NEW call, call \in DOMAIN noteCalls, CreateReturns(call) PROVE NoteInv'
  <2>1. noteCalls' = Ended(noteCalls, call) /\ call.kind = "create" /\ creating' = FALSE
        /\ UNCHANGED <<importing, panels, repo, onTab>> /\ form' \in Texts
    BY <1>11, <1>t DEF CreateReturns, Returning, Pending, Texts
  <2>2. CallsOK(noteCalls') /\ FileOnTab' /\ Stay(noteCalls, noteCalls', {"create"}, {"create"})
    BY <1>11, <2>1, NoteEnds
  <2>3. NoteTypes'
    BY <1>t, <2>1, <2>2 DEF NoteTypes
  <2>4. "create" \notin Archives /\ "create" \notin GithubKinds /\ "file" \notin {"create"}
    BY DEF Archives, GithubKinds
  <2>5. NoteWaits'
    BY <2>1, <2>2, <2>4, NoteGoesOn
  <2> QED BY <2>2, <2>3, <2>5
<1>12. ASSUME NEW call, call \in DOMAIN noteCalls, FileReturns(call) PROVE NoteInv'
  <2>1. noteCalls' = Ended(noteCalls, call) /\ call.kind = "file" /\ importing' = (importing /\ ~call.on)
        /\ UNCHANGED <<creating, panels, repo, onTab>> /\ call.on \in BOOLEAN
    BY <1>11, <1>t, <1>12 DEF FileReturns, Returning, Pending, CallsOK, IsCall
  <2>f. form' \in Texts
    BY <1>t, <1>12 DEF FileReturns, Replaces, Keeps, Texts
  <2>2. /\ CallsOK(noteCalls') /\ FileOnTab' /\ Stay(noteCalls, noteCalls', {"file"}, {"file"})
        /\ ~call.on => Stay(noteCalls, noteCalls', {"file"}, {})
    BY <1>12, <2>1, NoteEnds
  <2>3. NoteTypes'
    BY <1>t, <2>1, <2>2, <2>f DEF NoteTypes
  <2>4. "file" \notin Archives /\ "file" \notin GithubKinds /\ "create" \notin {"file"}
    BY DEF Archives, GithubKinds
  <2>5. CASE call.on
    <3>1. NoteWaits'
      BY <2>1, <2>2, <2>4, <2>5, NoteGoesOn
    <3> QED BY <2>2, <2>3, <3>1
  <2>6. CASE ~call.on
    <3>1. NoteWaits'
      BY <2>1, <2>2, <2>4, <2>6, NoteGoesOn
    <3> QED BY <2>2, <2>3, <3>1
  <2> QED BY <2>1, <2>5, <2>6
<1>13. ASSUME NEW call, call \in DOMAIN noteCalls, RepoReturns(call) PROVE NoteInv'
  <2>1. noteCalls' = Ended(noteCalls, call) /\ call.kind \in GithubKinds
        /\ UNCHANGED <<form, creating, importing, panels, onTab>>
    BY <1>13 DEF RepoReturns, Returning, Pending
  <2>r. DOMAIN repo' = DOMAIN repo /\ repo'.loading = FALSE
    BY <1>13, <1>t, <2>1 DEF RepoReturns, GithubKinds
  <2>2. CallsOK(noteCalls') /\ FileOnTab' /\ Stay(noteCalls, noteCalls', {call.kind}, {call.kind})
    BY <1>13, <2>1, NoteEnds
  <2>3. NoteTypes'
    BY <1>t, <2>1, <2>2, <2>r DEF NoteTypes
  <2>4. call.kind \notin Archives /\ call.kind \notin {"file", "create"}
    BY <2>1 DEF Archives, GithubKinds
  <2>5. NoteWaits'
    BY <2>1, <2>2, <2>4, <2>r, NoteGoesOn
  <2> QED BY <2>2, <2>3, <2>5
<1>14. ASSUME NEW call, call \in DOMAIN noteCalls, NEW k \in Archives, PanelReturns(k, call) PROVE NoteInv'
  <2> DEFINE p == [panels[k] EXCEPT !.loading = FALSE, !.ready = Result(call).code = "ok"]
  <2>1. noteCalls' = Ended(noteCalls, call) /\ call.kind = k
        /\ UNCHANGED <<form, creating, importing, repo, onTab>> /\ call.on \in BOOLEAN
        /\ panels' = IF call.on THEN [panels EXCEPT ![k] = p] ELSE panels
    BY <1>14, <1>t DEF PanelReturns, Returning, Pending, CallsOK, IsCall
  <2>p. p \in PanelType /\ p.loading = FALSE
    BY <1>t DEF PanelType
  <2> HIDE DEF p
  <2>2. /\ CallsOK(noteCalls') /\ FileOnTab' /\ Stay(noteCalls, noteCalls', {k}, {k})
        /\ ~call.on => Stay(noteCalls, noteCalls', {k}, {})
    BY <1>14, <2>1, NoteEnds
  <2>3. panels' \in [Archives -> PanelType]
        /\ (call.on => \A j \in Archives : panels'[j].loading => panels[j].loading /\ j \notin {k})
    BY <1>t, <2>1, <2>p
  <2>4. NoteTypes'
    BY <1>t, <2>1, <2>2, <2>3 DEF NoteTypes
  <2>5. k \notin {"file", "create"} /\ \A g \in GithubKinds : g \notin {k}
    BY DEF Archives, GithubKinds
  <2>6. CASE call.on
    <3>1. NoteWaits'
      BY <2>1, <2>2, <2>3, <2>5, <2>6, NoteGoesOn
    <3> QED BY <2>2, <2>4, <3>1
  <2>7. CASE ~call.on
    <3>1. NoteWaits'
      BY <2>1, <2>2, <2>3, <2>5, <2>7, NoteGoesOn
    <3> QED BY <2>2, <2>4, <3>1
  <2> QED BY <2>1, <2>6, <2>7
<1>15. ASSUME NEW call, call \in DOMAIN noteCalls, NoteAnswered(call) PROVE NoteInv'
  <2>1. PICK out : noteCalls' = Answered(noteCalls, call, out)
    BY <1>15 DEF NoteAnswered
  <2>2. UNCHANGED <<form, creating, importing, panels, repo, onTab>>
    BY <1>15 DEF NoteAnswered
  <2>3. /\ CallsOK(noteCalls')
        /\ \A c \in DOMAIN noteCalls' : c = Read(call, out) \/ c \in DOMAIN noteCalls
        /\ Read(call, out).kind = call.kind /\ Read(call, out).on = call.on
    BY <1>15, <1>t, <2>1, AnsweredIs, ReadIs DEF CallsOK
  <2>4. FileOnTab'
    BY <1>15, <2>2, <2>3 DEF FileOnTab
  <2>5. Stay(noteCalls, noteCalls', {}, {})
    BY <1>15, <1>t, <2>1, AnsweredStays
  <2>6. NoteTypes'
    BY <1>t, <2>2, <2>3 DEF NoteTypes
  <2>7. NoteWaits'
    BY <2>2, <2>5, NoteGoesOn
  <2> QED BY <2>4, <2>6, <2>7
<1>c. Closed \in PanelType /\ Closed.loading = FALSE
      /\ \A x \in BOOLEAN : [Closed EXCEPT !.open = x] \in PanelType
                            /\ [Closed EXCEPT !.open = x].loading = FALSE
  BY DEF Closed, PanelType, Texts
<1>16. ASSUME NEW k \in Archives, OpenPanel(k) PROVE NoteInv'
  <2>1. panels' \in [Archives -> PanelType] /\ \A j \in Archives : ~panels'[j].loading
    BY <1>16, <1>c DEF OpenPanel
  <2>2. noteCalls' = Withdrawn(noteCalls, Archives) /\ UNCHANGED <<form, creating, importing, repo, onTab>>
    BY <1>16 DEF OpenPanel
  <2>3. LeftOf(noteCalls, noteCalls', Archives)
    BY <1>t, <2>2, WithdrawnLeaves
  <2>4. "file" \notin Archives
    BY DEF Archives
  <2> QED BY <1>t, <2>1, <2>2, <2>3, <2>4, <1>10
<1>17. ASSUME NEW k \in Archives, ClosePanel(k) PROVE NoteInv'
  <2>1. panels' \in [Archives -> PanelType]
        /\ \A j \in Archives : panels'[j].loading => panels[j].loading /\ j \notin {k}
    BY <1>17, <1>t, <1>c DEF ClosePanel
  <2>2. noteCalls' = Withdrawn(noteCalls, {k}) /\ UNCHANGED <<form, creating, importing, repo, onTab>>
    BY <1>17 DEF ClosePanel
  <2>3. LeftOf(noteCalls, noteCalls', {k})
    BY <1>t, <2>2, WithdrawnLeaves
  <2>4. "file" \notin {k}
    BY DEF Archives
  <2> QED BY <1>t, <2>1, <2>2, <2>3, <2>4, <1>10
<1>n. LeftOf(noteCalls, noteCalls, {})
  BY <1>t DEF LeftOf, Follows
<1>18. ASSUME NEW k \in Archives, ImportArchive(k) PROVE NoteInv'
  <2>1. UNCHANGED <<creating, importing, repo, onTab>> /\ form' \in Texts
    BY <1>18, <1>t DEF ImportArchive, Replaces, Keeps, Texts
  <2>2. CASE UNCHANGED <<panels, noteCalls>>
    BY <1>t, <1>n, <2>1, <2>2, <1>10
  <2>3. CASE panels' = [panels EXCEPT ![k] = Closed] /\ noteCalls' = Withdrawn(noteCalls, {k})
    <3>1. panels' \in [Archives -> PanelType]
          /\ \A j \in Archives : panels'[j].loading => panels[j].loading /\ j \notin {k}
      BY <2>3, <1>t, <1>c
    <3>2. LeftOf(noteCalls, noteCalls', {k})
      BY <1>t, <2>3, WithdrawnLeaves
    <3>3. "file" \notin {k}
      BY DEF Archives
    <3> QED BY <1>t, <2>1, <3>1, <3>2, <3>3, <1>10
  <2> QED BY <1>18, <2>2, <2>3 DEF ImportArchive
<1>19. CASE OpenRepo
  <2>1. panels' \in [Archives -> PanelType] /\ \A j \in Archives : ~panels'[j].loading
    BY <1>19, <1>c DEF OpenRepo
  <2>2. noteCalls' = Withdrawn(noteCalls, Archives) /\ UNCHANGED <<form, creating, importing, onTab>>
        /\ DOMAIN repo' = DOMAIN repo /\ repo'.loading = repo.loading
    BY <1>19, <1>t DEF OpenRepo
  <2>3. LeftOf(noteCalls, noteCalls', Archives)
    BY <1>t, <2>2, WithdrawnLeaves
  <2>4. "file" \notin Archives
    BY DEF Archives
  <2> QED BY <1>t, <2>1, <2>2, <2>3, <2>4, <1>10
<1>20. CASE CloseRepo
  <2>1. UNCHANGED <<form, noteCalls, creating, importing, panels, onTab>>
        /\ DOMAIN repo' = DOMAIN repo /\ repo'.loading = repo.loading
    BY <1>20, <1>t DEF CloseRepo
  <2> QED BY <1>t, <1>n, <2>1, <1>10
<1>21. CASE LeaveTab
  <2>1. panels' \in [Archives -> PanelType] /\ \A j \in Archives : ~panels'[j].loading
    BY <1>21, <1>c DEF LeaveTab
  <2>2. noteCalls' = Withdrawn(Overtaken(noteCalls, {"file"}), Archives)
        /\ UNCHANGED <<form, creating, repo>> /\ importing' = FALSE
    BY <1>21 DEF LeaveTab
  <2>3. LeftOf(noteCalls, Overtaken(noteCalls, {"file"}), {"file"}) /\ Off(Overtaken(noteCalls, {"file"}), {"file"})
    BY <1>t, OvertakenLeaves
  <2>4. LeftOf(Overtaken(noteCalls, {"file"}), noteCalls', Archives)
    BY <2>2, <2>3, WithdrawnLeaves DEF LeftOf
  <2>5. LeftOf(noteCalls, noteCalls', {"file"} \cup Archives) /\ Off(noteCalls', {"file"})
    BY <2>3, <2>4, LeftOfLeft, OffStays
  <2>6. {"file"} \cup Archives \subseteq Archives \cup {"file"}
    OBVIOUS
  <2> QED BY <1>t, <2>1, <2>2, <2>5, <2>6, <1>10
<1>22. CASE ReturnToTab
  <2>1. ~onTab /\ UNCHANGED <<form, noteCalls, creating, importing, panels, repo>>
    BY <1>22 DEF ReturnToTab
  <2>2. FileOnTab' /\ NoteTypes' /\ NoteWaits'
    BY <2>1 DEF FileOnTab, NoteTypes, NoteWaits
  <2> QED BY <2>2
<1> QED
  BY <1>1, <1>2, <1>3, <1>4, <1>5, <1>7, <1>8, <1>9, <1>11, <1>12, <1>13, <1>14, <1>15, <1>16, <1>17,
     <1>18, <1>19, <1>20, <1>21, <1>22 DEF NotesNext, BagToSet

\* The wait's end, and what a step may replace, in the words of the screen.
LEMMA NoteWaitsFollow == NoteInv => NoteWaitsEnd
<1>1. /\ Has(noteCalls, {"create"}) => Pending(noteCalls, {"create"}) # {}
      /\ Has(noteCalls, GithubKinds) => Pending(noteCalls, GithubKinds) # {}
      /\ \A k : Wants(noteCalls, {k}) => Wanted(noteCalls, {k}) # {}
  BY WantsIs
<1> QED BY <1>1 DEF NoteInv, NoteWaits, NoteWaitsEnd

LEMMA TypedStays ==
    ASSUME NoteInv, [NotesNext]_noteVars, form' = Imported, form # Imported
    PROVE  onTab /\ (form # Blank => asked')
<1> USE DEF NoteInv
<1>1. ASSUME NEW initial, Replaces(initial) PROVE form # Blank => asked'
  BY <1>1 DEF Replaces, MustAsk
<1>2. ASSUME NEW k \in Archives, ImportArchive(k) PROVE onTab /\ (form # Blank => asked')
  BY <1>1, <1>2 DEF ImportArchive, Keeps
<1>3. ASSUME NEW call \in DOMAIN noteCalls, FileReturns(call) PROVE onTab /\ (form # Blank => asked')
  <2>1. call.on /\ call.kind = "file" /\ Replaces(call.arg.initial)
    BY <1>3 DEF FileReturns, Keeps, Returning, Pending
  <2> QED BY <1>1, <2>1 DEF FileOnTab
<1>4. ASSUME NEW text \in Typed \cup {Blank}, Type(text) PROVE FALSE
  BY <1>4 DEF Type, Typed, Blank, Imported
<1>5. ASSUME NEW call, CreateReturns(call) PROVE FALSE
  BY <1>5 DEF CreateReturns, Blank, Imported
<1>6. UNCHANGED form => FALSE
  OBVIOUS
<1>7. \/ UNCHANGED form \/ (\E k \in Archives : ImportArchive(k))
      \/ (\E call \in DOMAIN noteCalls : FileReturns(call) \/ CreateReturns(call))
      \/ \E text \in Typed \cup {Blank} : Type(text)
  BY DEF NotesNext, noteVars, BagToSet, handleCreate, handleImportTextFile, OpenPanel, ClosePanel, handleFile,
         OpenRepo, CloseRepo, Preview, SaveReviewed, ReadFile, RunRepo, LeaveTab, ReturnToTab, RepoReturns,
         NoteAnswered, PanelReturns
<1> QED BY <1>2, <1>3, <1>4, <1>5, <1>7

-----------------------------------------------------------------------------
(* DraftLists.                                                             *)

Ats == [page : ListPages, filter : ListFilters]

PaneOK(l) ==
    /\ DOMAIN l = {"page", "filter", "data", "key", "loading", "error", "due"}
    /\ l.page \in ListPages /\ l.filter \in ListFilters
    /\ l.loading \in BOOLEAN /\ l.error \in BOOLEAN /\ l.due \in BOOLEAN

\* A request for the list or for a change, and what it was answered.
ListCall(c) ==
    /\ c.kind \in {"load", "change"} /\ c.arg \in Ats
    /\ c.at = "read" => c.ans.code # "aborted"
    /\ c.at = "read" /\ c.ans.code = "ok" =>
          /\ c.ans.body.shows \in Nat /\ c.ans.body.shows <= changes
          /\ c.ans.body.pages \in ListPages

\* A list that is still wanted is the one the key names, is not aborted, and
\* shows every change that was known when it was asked for.
LoadCall(c) ==
    c.kind = "load" /\ c.on /\ ~ended =>
       /\ ~c.cut /\ pane.key \in {None, c.arg}
       /\ c.at = "read" /\ c.ans.code = "ok" => c.ans.body.shows >= settled

\* A list at rest is the one the key names, and the one that is chosen.
AtRest ==
    ~ended /\ pane.data # None /\ ~pane.loading /\ ~pane.error =>
       /\ pane.key # None => pane.data.at = pane.key
       /\ ~pane.due => pane.data.at = Chosen(pane)
       /\ pane.data.shows >= settled

ListTypes ==
    /\ CallsOK(listCalls) /\ PaneOK(pane) /\ ended \in BOOLEAN
    /\ settled \in Nat /\ changes \in Nat /\ settled <= changes

ListInv ==
    /\ ListTypes
    /\ pane.loading => Wants(listCalls, {"load"})
    /\ \A c \in DOMAIN listCalls : ListCall(c) /\ LoadCall(c)
    /\ ~ended => Alone(listCalls, "load")
    /\ AtRest

LEMMA ListStart == ListsInit => ListInv
<1> SUFFICES ASSUME ListsInit PROVE ListInv
  OBVIOUS
<1>1. DOMAIN listCalls = {} /\ CallsOK(listCalls)
  BY FS_EmptySet DEF ListsInit, EmptyBag, SetToBag, CallsOK
<1>2. PaneOK(pane) /\ ~pane.loading /\ pane.data = None
  BY DEF ListsInit, NoPage, PaneOK, ListPages, ListFilters
<1>3. ended = FALSE /\ changes = 0 /\ settled = 0
  BY DEF ListsInit
<1>4. ListTypes
  <2>1. ended \in BOOLEAN
    BY ONLY <1>3
  <2>2. settled \in Nat /\ changes \in Nat /\ settled <= changes
    BY ONLY <1>3
  <2> QED BY <1>1, <1>2, <2>1, <2>2 DEF ListTypes
<1>5. AtRest /\ Alone(listCalls, "load")
  BY <1>1, <1>2 DEF AtRest, Alone
<1> QED BY <1>1, <1>2, <1>4, <1>5 DEF ListInv

LEMMA AsksIs ==
    ASSUME NEW l, PaneOK(l), NEW at
    PROVE  /\ PaneOK(Asks(l, at)) /\ Asks(l, at).loading
           /\ Asks(l, at).key = at /\ Asks(l, at).due = l.due
BY DEF PaneOK, Asks

\* A new request for the list leaves it the only one that is wanted.
RequestOf(C, at) ==
    /\ CallsOK(C) /\ Wants(C, {"load"}) /\ Alone(C, "load")
    /\ \A c \in DOMAIN C :
          \/ Fresh(c, "load", None, at)
          \/ \E d \in DOMAIN listCalls : Follows(c, d) /\ (c.kind = "load" => ~c.on)

LEMMA RequestIs ==
    ASSUME CallsOK(listCalls), NEW at
    PROVE  /\ RequestOf(ListRequest(at), at)
           /\ \A d \in DOMAIN listCalls : d.kind # "load" => d \in DOMAIN ListRequest(at)
<1>1. PICK W : W = Withdrawn(listCalls, {"load"})
  OBVIOUS
<1>2. PICK C : C = ListRequest(at)
  OBVIOUS
<1>3. LeftOf(listCalls, W, {"load"}) /\ Off(W, {"load"})
  BY <1>1, WithdrawnLeaves
<1>4. C = Begin(W, Sent("load", None, at))
  BY <1>1, <1>2 DEF ListRequest
<1>5. /\ CallsOK(C) /\ Wants(C, {"load"}) /\ Alone(C, "load")
      /\ \A c \in DOMAIN C : Fresh(c, "load", None, at) \/ c \in DOMAIN W
      /\ \A c \in DOMAIN W : c \in DOMAIN C
  BY <1>3, <1>4, BegunIs
<1>6. \A c \in DOMAIN W : \E d \in DOMAIN listCalls : Follows(c, d) /\ (c.kind = "load" => ~c.on)
  BY <1>3 DEF LeftOf, Off
<1>7. \A d \in DOMAIN listCalls : d.kind # "load" => d \in DOMAIN C
  BY <1>3, <1>5 DEF LeftOf
<1> QED BY <1>2, <1>5, <1>6, <1>7 DEF RequestOf

\* What stays in force of the requests when a new one is made.
LEMMA RequestKeeps ==
    ASSUME ListInv, NEW at \in Ats, NEW C, RequestOf(C, at), pane'.key = at, NEW s \in Nat, s <= changes',
           UNCHANGED <<changes, ended>>
    PROVE  \A c \in DOMAIN C : ListCall(c)' /\ LoadCall(c)'
<1> TAKE c \in DOMAIN C
<1>1. CASE Fresh(c, "load", None, at)
  BY <1>1 DEF Fresh, ListCall, LoadCall
<1>2. ASSUME NEW d \in DOMAIN listCalls, Follows(c, d), c.kind = "load" => ~c.on
      PROVE  ListCall(c)' /\ LoadCall(c)'
  <2>1. ListCall(d)
    BY DEF ListInv
  <2> QED BY <1>2, <2>1 DEF Follows, ListCall, LoadCall
<1> QED BY <1>1, <1>2 DEF RequestOf

LEMMA ListKeeps == ListInv /\ [ListsNext]_listVars => ListInv'
<1> SUFFICES ASSUME ListInv, [ListsNext]_listVars PROVE ListInv'
  OBVIOUS
<1>t. /\ CallsOK(listCalls) /\ PaneOK(pane) /\ ended \in BOOLEAN
      /\ settled \in Nat /\ changes \in Nat /\ settled <= changes
  BY DEF ListInv, ListTypes
<1>l. /\ pane.loading => Wants(listCalls, {"load"})
      /\ \A c \in DOMAIN listCalls : ListCall(c) /\ LoadCall(c)
      /\ ~ended => Alone(listCalls, "load")
      /\ AtRest
  BY DEF ListInv
<1>o. Chosen(pane) \in Ats /\ Chosen(pane) # None
  BY <1>t, ListsAssumption DEF Chosen, Ats, PaneOK
<1>s. ASSUME UNCHANGED <<listCalls, changes, settled, ended>>, PaneOK(pane'), pane'.loading = pane.loading,
             pane'.key \in {None, pane.key}, AtRest'
      PROVE  ListInv'
  <2>1. \A c \in DOMAIN listCalls' : ListCall(c)' /\ LoadCall(c)'
    BY <1>l, <1>s DEF ListCall, LoadCall
  <2> QED BY <1>t, <1>l, <1>s, <2>1 DEF ListInv, ListTypes, Alone
<1>r. ASSUME NEW at \in Ats, NEW C, RequestOf(C, at), listCalls' = C, PaneOK(pane'), pane'.loading,
             pane'.key = at, settled' \in Nat, settled' <= changes', UNCHANGED <<changes, ended>>
      PROVE  ListInv'
  <2>1. CallsOK(C) /\ Wants(C, {"load"}) /\ Alone(C, "load")
    BY <1>r DEF RequestOf
  <2>2. \A c \in DOMAIN C : ListCall(c)' /\ LoadCall(c)'
    BY <1>r, RequestKeeps
  <2>3. AtRest'
    BY <1>r DEF AtRest
  <2> QED BY <1>t, <1>r, <2>1, <2>2, <2>3 DEF ListInv, ListTypes
<1>1. ASSUME UNCHANGED listVars PROVE ListInv'
  <2>1. UNCHANGED <<pane, listCalls, changes, settled, ended>>
    BY <1>1 DEF listVars
  <2>2. AtRest'
    BY <1>l, <2>1 DEF AtRest, Chosen
  <2> QED BY <1>s, <1>t, <2>1, <2>2
<1>2. CASE ListEffectRuns
  <2>1. ~ended /\ UNCHANGED <<changes, settled, ended>>
    BY <1>2 DEF ListEffectRuns
  <2>2. CASE Known(pane, Chosen(pane))
    <3>1. UNCHANGED listCalls /\ pane' = [pane EXCEPT !.due = FALSE]
      BY <1>2, <2>2 DEF ListEffectRuns
    <3>2. /\ PaneOK(pane') /\ pane'.loading = pane.loading /\ pane'.key = pane.key
          /\ pane'.data = pane.data /\ pane'.error = pane.error /\ Chosen(pane') = Chosen(pane)
      BY <1>t, <3>1 DEF PaneOK, Chosen
    <3>3. AtRest'
      BY <1>l, <1>o, <2>1, <2>2, <3>2 DEF AtRest, Known
    <3> QED BY <1>s, <2>1, <3>1, <3>2, <3>3
  <2>3. CASE ~Known(pane, Chosen(pane))
    <3>1. pane' = [Asks(pane, Chosen(pane)) EXCEPT !.due = FALSE] /\ listCalls' = ListRequest(Chosen(pane))
      BY <1>2, <2>3 DEF ListEffectRuns
    <3>2. PaneOK(pane') /\ pane'.loading /\ pane'.key = Chosen(pane)
      BY <1>t, <3>1 DEF PaneOK, Asks
    <3>3. RequestOf(ListRequest(Chosen(pane)), Chosen(pane))
      BY <1>t, RequestIs
    <3> QED BY <1>r, <1>o, <1>t, <2>1, <3>1, <3>2, <3>3
  <2> QED BY <2>2, <2>3
<1>3. CASE RetryListLoad
  <2>1. pane' = Asks(pane, Chosen(pane)) /\ listCalls' = ListRequest(Chosen(pane))
        /\ UNCHANGED <<changes, settled, ended>>
    BY <1>3 DEF RetryListLoad
  <2>2. PaneOK(pane') /\ pane'.loading /\ pane'.key = Chosen(pane)
    BY <1>t, <2>1, AsksIs
  <2>3. RequestOf(ListRequest(Chosen(pane)), Chosen(pane))
    BY <1>t, RequestIs
  <2> QED BY <1>r, <1>o, <1>t, <2>1, <2>2, <2>3
<1>4. ASSUME NEW f \in ListFilters, ChooseFilter(f) PROVE ListInv'
  <2>1. UNCHANGED <<listCalls, changes, settled, ended>>
    BY <1>4 DEF ChooseFilter
  <2>d. PICK d \in BOOLEAN : d = (pane.due \/ kind = "calendar" \/ Chosen(pane) # [page |-> 1, filter |-> f])
    OBVIOUS
  <2>p. pane' = [pane EXCEPT !.filter = f, !.page = 1, !.key = None, !.due = d]
    BY <1>4, <2>d DEF ChooseFilter
  <2>q. /\ PaneOK(pane') /\ pane'.loading = pane.loading /\ pane'.key = None /\ pane'.due = d
        /\ pane'.data = pane.data /\ pane'.error = pane.error
        /\ pane'.page = 1 /\ pane'.filter = f
    BY <1>t, <2>p DEF PaneOK, ListPages
  <2>2. /\ PaneOK(pane') /\ pane'.loading = pane.loading /\ pane'.key = None
        /\ pane'.data = pane.data /\ pane'.error = pane.error
        /\ Chosen(pane') = [page |-> 1, filter |-> f]
        /\ ~pane'.due => ~pane.due /\ Chosen(pane) = [page |-> 1, filter |-> f]
    BY <2>d, <2>q DEF Chosen
  <2>3. AtRest'
    BY <1>l, <2>1, <2>2 DEF AtRest
  <2> QED BY <1>s, <2>1, <2>2, <2>3
<1>5. ASSUME NEW p \in ListPages, TurnListPage(p) PROVE ListInv'
  <2>1. UNCHANGED <<listCalls, changes, settled, ended>>
    BY <1>5 DEF TurnListPage
  <2>2. /\ PaneOK(pane') /\ pane'.loading = pane.loading /\ pane'.key = pane.key
        /\ pane'.data = pane.data /\ pane'.error = pane.error /\ pane'.due
    BY <1>t, <1>5 DEF PaneOK, TurnListPage
  <2>3. AtRest'
    BY <1>l, <2>1, <2>2 DEF AtRest
  <2> QED BY <1>s, <2>1, <2>2, <2>3
<1>6. CASE handleWorkspaceTabChange
  <2>1. UNCHANGED <<listCalls, changes, settled, ended>>
    BY <1>6 DEF handleWorkspaceTabChange
  <2>2. /\ PaneOK(pane') /\ pane'.loading = pane.loading /\ pane'.key = pane.key
        /\ pane'.data = pane.data /\ pane'.error = pane.error
        /\ Chosen(pane') = Chosen(pane) /\ (~pane'.due => ~pane.due)
    BY <1>t, <1>6 DEF PaneOK, handleWorkspaceTabChange, Chosen
  <2>3. AtRest'
    BY <1>l, <2>1, <2>2 DEF AtRest
  <2> QED BY <1>s, <2>1, <2>2, <2>3
<1>7. CASE ChangeDraft
  <2>1. PICK call : call = Sent("change", None, Chosen(pane))
    OBVIOUS
  <2>2. listCalls' = Begin(listCalls, call) /\ UNCHANGED <<pane, changes, settled, ended>>
    BY <1>7, <2>1 DEF ChangeDraft
  <2>3. Fresh(call, "change", None, Chosen(pane))
    BY ONLY <2>1, SentIs
  <2>4. IsCall(call) /\ call.kind = "change"
    BY <2>3 DEF Fresh
  <2>5. CallsOK(listCalls') /\ DOMAIN listCalls' = DOMAIN listCalls \cup {call}
    BY <1>t, <2>2, <2>4, BeginIs
  <2>6. Stay(listCalls, listCalls', {}, {}) /\ (Alone(listCalls, "load") => Alone(listCalls', "load"))
    BY <1>t, <2>2, <2>4, BeginStays, BeginAlone
  <2>7. ListCall(call)' /\ LoadCall(call)'
    BY <1>o, <2>3 DEF Fresh, ListCall, LoadCall
  <2>8. \A c \in DOMAIN listCalls : ListCall(c)' /\ LoadCall(c)'
    BY <1>l, <2>2 DEF ListCall, LoadCall
  <2>9. AtRest'
    BY <1>l, <2>2 DEF AtRest, Chosen
  <2>10. pane'.loading => Wants(listCalls', {"load"})
    BY <1>l, <2>2, <2>6 DEF Stay
  <2>11. \A c \in DOMAIN listCalls' : ListCall(c)' /\ LoadCall(c)'
    BY <2>5, <2>7, <2>8
  <2>12. ListTypes'
    BY <1>t, <2>2, <2>5 DEF ListTypes
  <2>13. (~ended => Alone(listCalls, "load"))'
    BY <1>l, <2>2, <2>6
  <2> QED BY <2>9, <2>10, <2>11, <2>12, <2>13 DEF ListInv
<1>8. CASE ListsCleared
  <2>1. ended' /\ listCalls' = Aborted(listCalls, {"load"}) /\ UNCHANGED <<changes, settled>>
        /\ pane' = [pane EXCEPT !.data = None, !.key = None, !.page = 1, !.error = @ /\ kind = "calendar"]
        /\ ended' \in BOOLEAN
    BY <1>8 DEF ListsCleared
  <2>2. PaneOK(pane') /\ pane'.loading = pane.loading
    BY <1>t, <2>1 DEF PaneOK, ListPages
  <2>3. /\ LeftOf(listCalls, listCalls', {"load"})
        /\ \A d \in DOMAIN listCalls : \E e \in DOMAIN listCalls' : Follows(e, d) /\ e.on = d.on
    BY <1>t, <2>1, AbortedLeaves
  <2>4. pane'.loading => Wants(listCalls', {"load"})
    BY <1>l, <2>2, <2>3 DEF Wants, Follows
  <2>5. ASSUME NEW c \in DOMAIN listCalls' PROVE ListCall(c)' /\ LoadCall(c)'
    <3>1. PICK d \in DOMAIN listCalls : Follows(c, d)
      BY <2>3 DEF LeftOf
    <3>2. ListCall(d)
      BY <1>l
    <3> QED BY <3>1, <3>2, <2>1 DEF ListCall, LoadCall, Follows
  <2>6. ListTypes'
    BY <1>t, <2>1, <2>2, <2>3 DEF ListTypes, LeftOf
  <2> QED BY <2>1, <2>4, <2>5, <2>6 DEF ListInv, AtRest
<1>e. ASSUME NEW call \in DOMAIN listCalls, listCalls' = Ended(listCalls, call),
             UNCHANGED <<changes, settled, ended>>, PaneOK(pane'),
             pane'.loading => Wants(listCalls', {"load"}),
             \A c \in DOMAIN listCalls' : c.kind = "load" /\ c.on /\ ~ended => pane'.key \in {None, c.arg},
             AtRest'
      PROVE  ListInv'
  <2>1. CallsOK(listCalls') /\ (Alone(listCalls, "load") => Alone(listCalls', "load"))
    BY <1>t, <1>e, EndedIs, EndedAlone DEF LeftOf
  <2>2. \A c \in DOMAIN listCalls' : c \in DOMAIN listCalls
    BY <1>t, <1>e, EndedIs
  <2>3. \A c \in DOMAIN listCalls' : ListCall(c)' /\ LoadCall(c)'
    BY <1>l, <1>e, <2>2 DEF ListCall, LoadCall
  <2>4. ListTypes'
    BY <1>t, <1>e, <2>1 DEF ListTypes
  <2>5. (~ended => Alone(listCalls, "load"))'
    BY <1>l, <1>e, <2>1
  <2> QED BY <1>e, <2>3, <2>4, <2>5 DEF ListInv
<1>9. ASSUME NEW call \in DOMAIN listCalls, ListLoadReturns(call) PROVE ListInv'
  <2>1. /\ listCalls' = Ended(listCalls, call) /\ UNCHANGED <<changes, settled, ended>>
        /\ call.kind = "load" /\ (call.at = "read" \/ call.cut) /\ call.on \in BOOLEAN
    BY <1>9, <1>t DEF ListLoadReturns, Returning, Pending, CallsOK, IsCall
  <2>2. \A c \in DOMAIN listCalls' : c \in DOMAIN listCalls
    BY <1>t, <2>1, EndedIs
  <2>3. CASE ~call.on
    <3>1. pane' = pane
      BY <1>9, <2>3 DEF ListLoadReturns
    <3>2. Stay(listCalls, listCalls', {"load"}, {})
      BY <1>t, <2>1, <2>3, EndedStays
    <3>3. pane'.loading => Wants(listCalls', {"load"})
      BY <1>l, <3>1, <3>2 DEF Stay
    <3>4. AtRest'
      BY <1>l, <2>1, <3>1 DEF AtRest, Chosen
    <3>5. \A c \in DOMAIN listCalls' : c.kind = "load" /\ c.on /\ ~ended => pane'.key \in {None, c.arg}
      BY <1>l, <2>2, <3>1 DEF LoadCall
    <3> QED BY <1>e, <1>t, <2>1, <3>1, <3>3, <3>4, <3>5
  <2>4. CASE call.on
    <3>1. ListCall(call) /\ LoadCall(call)
      BY <1>l
    <3>2. ~ended => Off(listCalls', {"load"})
      BY <1>t, <1>l, <2>1, <2>4, EndedAlone
    <3>3. \A c \in DOMAIN listCalls' : c.kind = "load" /\ c.on /\ ~ended => pane'.key \in {None, c.arg}
      BY <3>2 DEF Off
    <3>4. PICK out : out = Result(call)
      OBVIOUS
    <3>5. CASE out.code = "ok"
      <4>1. pane' = Shows(pane, call.arg, out.body)
        BY <1>9, <2>4, <3>4, <3>5 DEF ListLoadReturns
      <4>2. ~call.cut /\ out = call.ans /\ call.at = "read"
        BY <2>1, <3>4, <3>5 DEF Result, Reply
      <4>3. out.body.pages \in ListPages /\ call.arg \in Ats /\ out.body.shows \in Nat
        BY <3>1, <3>5, <4>2 DEF ListCall
      <4>4. /\ PaneOK(pane') /\ ~pane'.loading /\ pane'.due /\ pane'.error = pane.error
            /\ pane'.key \in {None, pane.key}
            /\ pane'.data = [at |-> call.arg, shows |-> out.body.shows]
        BY <1>t, <4>1, <4>3 DEF PaneOK, Shows
      <4>5. pane'.data.at = call.arg /\ pane'.data.shows = out.body.shows
        BY <4>4
      <4>6. ~ended => pane.key \in {None, call.arg} /\ out.body.shows >= settled
        BY <2>1, <2>4, <3>1, <3>5, <4>2 DEF LoadCall
      <4>7. AtRest'
        BY <2>1, <4>4, <4>5, <4>6 DEF AtRest
      <4> QED BY <1>e, <2>1, <3>3, <4>4, <4>7
    <3>6. CASE out.code = "aborted"
      <4>1. pane' = [pane EXCEPT !.loading = FALSE]
        BY <1>9, <2>4, <3>4, <3>6 DEF ListLoadReturns
      <4>2. PaneOK(pane') /\ ~pane'.loading
        BY <1>t, <4>1 DEF PaneOK
      <4>3. ended
        BY <2>1, <2>4, <3>1, <3>4, <3>6, <1>t DEF ListCall, LoadCall, Result
      <4>4. AtRest'
        BY <2>1, <4>3 DEF AtRest
      <4> QED BY <1>e, <2>1, <4>2, <4>3, <4>4
    <3>7. CASE out.code \notin {"ok", "aborted"}
      <4>1. pane' = [pane EXCEPT !.loading = FALSE, !.error = TRUE]
        BY <1>9, <2>4, <3>4, <3>7 DEF ListLoadReturns
      <4>2. PaneOK(pane') /\ ~pane'.loading /\ pane'.error /\ pane'.key = pane.key
        BY <1>t, <4>1 DEF PaneOK
      <4>3. AtRest'
        BY <4>2 DEF AtRest
      <4> QED BY <1>e, <2>1, <3>3, <4>2, <4>3
    <3> QED BY <3>5, <3>6, <3>7
  <2> QED BY <2>1, <2>3, <2>4
<1>10. ASSUME NEW call \in DOMAIN listCalls, DraftChangeReturns(call) PROVE ListInv'
  <2>1. /\ call.kind = "change" /\ (call.at = "read" \/ call.cut) /\ UNCHANGED <<changes, ended>>
    BY <1>10 DEF DraftChangeReturns, Returning, Pending
  <2>2. PICK out : out = Result(call)
    OBVIOUS
  <2>3. CASE out.code # "ok"
    <3>1. listCalls' = Ended(listCalls, call) /\ UNCHANGED <<pane, settled>>
      BY <1>10, <2>2, <2>3 DEF DraftChangeReturns
    <3>2. Stay(listCalls, listCalls', {"change"}, {"change"})
      BY <1>t, <2>1, <3>1, EndedStays
    <3>3. pane'.loading => Wants(listCalls', {"load"})
      BY <1>l, <3>1, <3>2 DEF Stay
    <3>4. AtRest'
      BY <1>l, <2>1, <3>1 DEF AtRest, Chosen
    <3>5. \A c \in DOMAIN listCalls' : c \in DOMAIN listCalls
      BY <1>t, <3>1, EndedIs
    <3>6. \A c \in DOMAIN listCalls' : c.kind = "load" /\ c.on /\ ~ended => pane'.key \in {None, c.arg}
      BY <1>l, <3>1, <3>5 DEF LoadCall
    <3> QED BY <1>e, <1>t, <2>1, <3>1, <3>3, <3>4, <3>6
  <2>4. CASE out.code = "ok"
    <3>1. settled' = out.body.shows /\ pane' = Asks(pane, call.arg)
      BY <1>10, <2>2, <2>4 DEF DraftChangeReturns, RefreshesList
    <3>2. PaneOK(pane') /\ pane'.loading /\ pane'.key = call.arg
      BY <1>t, <3>1, AsksIs
    <3>3. PICK R : R = ListRequest(call.arg)
      OBVIOUS
    <3>4. listCalls' = Ended(R, call)
      BY <1>10, <2>2, <2>4, <3>2, <3>3 DEF DraftChangeReturns
    <3>5. RequestOf(R, call.arg) /\ call \in DOMAIN R
      BY <1>t, <2>1, <3>3, RequestIs
    <3>6. CallsOK(R) /\ Wants(R, {"load"}) /\ Alone(R, "load")
      BY <3>5 DEF RequestOf
    <3>7. CallsOK(listCalls') /\ (\A c \in DOMAIN listCalls' : c \in DOMAIN R)
      BY <3>4, <3>6, EndedIs DEF LeftOf
    <3>8. Stay(R, listCalls', {"change"}, {"change"}) /\ Alone(listCalls', "load")
      BY <2>1, <3>4, <3>5, <3>6, EndedStays, EndedAlone
    <3>9. RequestOf(listCalls', call.arg)
      BY <3>5, <3>6, <3>7, <3>8 DEF RequestOf, Stay
    <3>10. ~call.cut => out = call.ans
      BY <2>2 DEF Result
    <3>11. ~call.cut
      BY <2>2, <2>4 DEF Result, Reply
    <3>12. ListCall(call)
      BY <1>l
    <3>13. out.body.shows \in Nat /\ out.body.shows <= changes /\ call.arg \in Ats
      BY <2>1, <2>4, <3>10, <3>11, <3>12 DEF ListCall
    <3> QED BY <1>r, <2>1, <3>1, <3>2, <3>9, <3>13
  <2> QED BY <2>3, <2>4
<1>11. ASSUME NEW call \in DOMAIN listCalls, call.at = "sent", NEW out,
              listCalls' = Answered(listCalls, call, out), UNCHANGED <<pane, settled, ended>>,
              changes' \in Nat, changes <= changes', out.code # "aborted",
              out.code = "ok" => /\ out.body.pages \in ListPages /\ out.body.shows \in Nat
                                 /\ out.body.shows <= changes'
                                 /\ call.kind = "load" => out.body.shows >= settled
       PROVE  ListInv'
  <2>1. CallsOK(listCalls') /\ (Alone(listCalls, "load") => Alone(listCalls', "load"))
    BY <1>t, <1>11, AnsweredIs, AnsweredAlone
  <2>2. PICK r : r = Read(call, out)
    OBVIOUS
  <2>3. \A c \in DOMAIN listCalls' : c = r \/ c \in DOMAIN listCalls
    BY <1>t, <1>11, <2>2, AnsweredIs
  <2>4. /\ r.kind = call.kind /\ r.arg = call.arg /\ r.on = call.on /\ r.cut = call.cut
        /\ r.at = "read" /\ r.ans = out
    BY <1>t, <2>2, ReadIs DEF CallsOK
  <2>5. ListCall(call) /\ LoadCall(call)
    BY <1>l
  <2>6. ListCall(r)' /\ LoadCall(r)'
    BY <1>11, <2>4, <2>5 DEF ListCall, LoadCall
  <2>7. ASSUME NEW c \in DOMAIN listCalls PROVE ListCall(c)' /\ LoadCall(c)'
    <3>1. ListCall(c) /\ LoadCall(c)
      BY <1>l
    <3> QED BY <1>t, <1>11, <3>1 DEF ListCall, LoadCall
  <2>8. Stay(listCalls, listCalls', {}, {})
    BY <1>t, <1>11, AnsweredStays
  <2>9. pane'.loading => Wants(listCalls', {"load"})
    BY <1>l, <1>11, <2>8 DEF Stay
  <2>10. AtRest'
    BY <1>l, <1>11 DEF AtRest, Chosen
  <2>11. settled <= changes'
    BY <1>t, <1>11
  <2>12. ListTypes'
    BY <1>t, <1>11, <2>1, <2>11 DEF ListTypes
  <2>13. (~ended => Alone(listCalls, "load"))'
    BY <1>l, <1>11, <2>1
  <2> QED BY <2>3, <2>6, <2>7, <2>9, <2>10, <2>12, <2>13 DEF ListInv
<1>12. ASSUME NEW call \in DOMAIN listCalls, ListAnswered(call) PROVE ListInv'
  <2>1. call.at = "sent" /\ UNCHANGED <<pane, settled, ended>>
    BY <1>12 DEF ListAnswered
  <2>2. CASE call.kind = "load" /\ UNCHANGED changes /\ \E n \in ListPages :
                listCalls' = Answered(listCalls, call, Reply("ok", [pages |-> n, shows |-> changes]))
    <3>1. PICK n \in ListPages : listCalls' = Answered(listCalls, call, Reply("ok", [pages |-> n, shows |-> changes]))
      BY <2>2
    <3>2. PICK out : out = Reply("ok", [pages |-> n, shows |-> changes])
      OBVIOUS
    <3>3. out.code = "ok" /\ out.body.pages = n /\ out.body.shows = changes
      BY <3>2 DEF Reply
    <3>4. changes <= changes /\ changes >= settled
      BY <1>t
    <3> QED BY <1>11, <1>t, <2>1, <2>2, <3>1, <3>2, <3>3, <3>4
  <2>3. CASE call.kind = "change" /\ changes' = changes + 1 /\ \E out \in
               {Reply("ok", [pages |-> 1, shows |-> changes']), Reply("uncertain", None)} :
                listCalls' = Answered(listCalls, call, out)
    <3>1. PICK out \in {Reply("ok", [pages |-> 1, shows |-> changes']), Reply("uncertain", None)} :
             listCalls' = Answered(listCalls, call, out)
      BY <2>3
    <3>2. /\ out.code # "aborted" /\ call.kind # "load"
          /\ out.code = "ok" => out.body.pages = 1 /\ out.body.shows = changes'
      BY <2>3, <3>1 DEF Reply
    <3>3. changes' \in Nat /\ changes <= changes' /\ changes' <= changes' /\ 1 \in ListPages
      BY <1>t, <2>3 DEF ListPages
    <3> QED BY <1>11, <2>1, <3>1, <3>2, <3>3
  <2>4. CASE UNCHANGED changes /\ listCalls' = Answered(listCalls, call, Reply("failed", None))
    <3>1. PICK out : out = Reply("failed", None)
      OBVIOUS
    <3>2. out.code = "failed"
      BY <3>1 DEF Reply
    <3>3. changes <= changes
      BY <1>t
    <3> QED BY <1>11, <1>t, <2>1, <2>4, <3>1, <3>2, <3>3
  <2> QED BY <1>12, <2>2, <2>3, <2>4 DEF ListAnswered
<1> QED
  BY <1>1, <1>2, <1>3, <1>4, <1>5, <1>6, <1>7, <1>8, <1>9, <1>10, <1>12 DEF ListsNext, BagToSet

LEMMA ListsFollow == ListInv => ListsCatchUp
<1>1. Wants(listCalls, {"load"}) => Wanted(listCalls, {"load"}) # {}
  BY WantsIs
<1> QED BY <1>1 DEF ListInv, AtRest, ListsCatchUp

-----------------------------------------------------------------------------
(* DraftWorkspace.                                                         *)

Edits == {"edit", "approve", "plan"}

GenOK(g) ==
    /\ DOMAIN g = {"shown", "loading", "error", "failed", "uncertain", "pending"}
    /\ g.loading \in BOOLEAN /\ g.error \in BOOLEAN /\ g.failed \in BOOLEAN
    /\ g.uncertain \in BOOLEAN /\ g.pending \in BOOLEAN

ChangeOK(x) ==
    /\ DOMAIN x = {"pending", "error", "uncertain"}
    /\ x.pending \in BOOLEAN /\ x.error \in BOOLEAN /\ x.uncertain \in BOOLEAN

FormOK(x) == DOMAIN x = {"of", "pending"} /\ x.pending \in BOOLEAN

DraftTypes ==
    /\ CallsOK(draftCalls)
    /\ GenOK(gen) /\ ChangeOK(change) /\ FormOK(signalForm) /\ misplaced \in BOOLEAN

DraftWaits ==
    /\ gen.loading        => Wants(draftCalls, {"load"})
    /\ gen.pending        => Has(draftCalls, {"generate"})
    /\ change.pending     => Has(draftCalls, Edits)
    /\ signalForm.pending => Has(draftCalls, {"signal"})

\* An answer with drafts has those of the Signal that was asked about.
DraftCall(c) ==
    c.at = "read" =>
       /\ c.ans.code # "aborted"
       /\ c.ans.code = "ok" /\ c.kind \in DraftWrites \cup {"load"} => c.ans.body.of = c.of

\* Drafts that are still wanted are the selected Signal's; they are aborted
\* only when nothing is selected any more.
DraftLoad(c) ==
    c.kind = "load" /\ c.on =>
       /\ c.of = selected \/ selected = None \/ misplaced
       /\ c.cut => selected = None \/ misplaced

Shown == gen.shown # None /\ selected # None => gen.shown.of = selected \/ misplaced

\* While a Signal's outcome is not known its drafts are being looked up, or
\* looking them up is what is offered.
Looked ==
    selected # None /\ selected \in unknown /\ ~misplaced =>
       (gen.uncertain \/ ~gen.failed) /\ (gen.loading \/ gen.error)

DraftInv ==
    /\ DraftTypes /\ DraftWaits /\ Shown /\ Looked
    /\ \A c \in DOMAIN draftCalls : DraftCall(c) /\ DraftLoad(c)

\* No generation is asked for unless its Signal's outcome is known.
AsksChecked ==
    \A c \in DOMAIN draftCalls' :
       c \notin DOMAIN draftCalls /\ c.kind = "generate" /\ c.at = "sent" => c.of \notin unknown \/ misplaced

LEMMA DraftStart == DraftsInit => DraftInv
<1> SUFFICES ASSUME DraftsInit PROVE DraftInv
  OBVIOUS
<1>1. DOMAIN draftCalls = {} /\ CallsOK(draftCalls)
  BY FS_EmptySet DEF DraftsInit, EmptyBag, SetToBag, CallsOK
<1>2. /\ GenOK(gen) /\ ~gen.loading /\ ~gen.pending
      /\ ChangeOK(change) /\ ~change.pending /\ FormOK(signalForm) /\ ~signalForm.pending
  BY DEF DraftsInit, NoGen, NoChange, GenOK, ChangeOK, FormOK
<1>3. misplaced = FALSE /\ selected = None
  BY DEF DraftsInit
<1>4. DraftTypes
  BY <1>1, <1>2, <1>3 DEF DraftTypes
<1> QED BY <1>1, <1>2, <1>3, <1>4 DEF DraftInv, DraftWaits, Shown, Looked

LEMMA DraftGoesOn ==
    ASSUME DraftInv, NEW H, NEW W, Stay(draftCalls, draftCalls', H, W),
           gen'.loading => Wants(draftCalls', {"load"}) \/ (gen.loading /\ "load" \notin W),
           gen'.pending => Has(draftCalls', {"generate"}) \/ (gen.pending /\ "generate" \notin H),
           change'.pending => Has(draftCalls', Edits) \/ (change.pending /\ \A k \in Edits : k \notin H),
           signalForm'.pending => Has(draftCalls', {"signal"}) \/ (signalForm.pending /\ "signal" \notin H)
    PROVE  DraftWaits'
<1>1. gen'.loading => Wants(draftCalls', {"load"})
  BY DEF DraftInv, DraftWaits, Stay
<1>2. gen'.pending => Has(draftCalls', {"generate"})
  BY DEF DraftInv, DraftWaits, Stay
<1>3. signalForm'.pending => Has(draftCalls', {"signal"})
  BY DEF DraftInv, DraftWaits, Stay
<1>4. ASSUME change'.pending, change.pending, \A k \in Edits : k \notin H
      PROVE  Has(draftCalls', Edits)
  <2>1. Has(draftCalls, Edits)
    BY <1>4 DEF DraftInv, DraftWaits
  <2>2. PICK k \in Edits : Has(draftCalls, {k})
    BY <2>1, HasOne
  <2>3. Has(draftCalls', {k})
    BY <2>2, <1>4 DEF Stay
  <2> QED BY <2>3, HasOne
<1> QED BY <1>1, <1>2, <1>3, <1>4 DEF DraftWaits

\* The requests that are left, or the answers that are wanted, are as before.
CallsStep(C) ==
    /\ CallsOK(C)
    /\ \A c \in DOMAIN C : DraftCall(c) /\ DraftLoad(c)'
    /\ \A c \in DOMAIN C : c.kind = "generate" /\ c.at = "sent" => c \in DOMAIN draftCalls

Steady == misplaced' \/ selected' = None \/ (selected' = selected /\ UNCHANGED misplaced)

LEMMA DraftKept ==
    ASSUME DraftInv, NEW X, CallsOK(X),
           \A c \in DOMAIN X : \/ c \in DOMAIN draftCalls
                               \/ c.kind # "generate" /\ ~c.on /\ \E d \in DOMAIN draftCalls : Follows(c, d),
           Steady \/ Off(X, {"load"})
    PROVE  CallsStep(X)
<1>1. ASSUME NEW c \in DOMAIN X PROVE DraftCall(c) /\ DraftLoad(c)'
  <2>1. CASE c \in DOMAIN draftCalls
    <3>1. DraftCall(c) /\ DraftLoad(c)
      BY <2>1 DEF DraftInv
    <3>2. DraftLoad(c)'
      BY <3>1 DEF DraftLoad, Steady, Off
    <3> QED BY <3>1, <3>2
  <2>2. ASSUME ~c.on, NEW d \in DOMAIN draftCalls, Follows(c, d) PROVE DraftCall(c) /\ DraftLoad(c)'
    <3>1. DraftCall(d)
      BY DEF DraftInv
    <3> QED BY <2>2, <3>1 DEF DraftCall, DraftLoad, Follows
  <2> QED BY <2>1, <2>2
<1> QED BY <1>1 DEF CallsStep

LEMMA DraftBegun ==
    ASSUME NEW X, CallsStep(X), NEW C, CallsOK(C), NEW k, k # "generate", NEW of, NEW arg,
           k = "load" => of = selected',
           \A c \in DOMAIN C : Fresh(c, k, of, arg) \/ c \in DOMAIN X
    PROVE  CallsStep(C)
<1>1. ASSUME NEW c \in DOMAIN C, Fresh(c, k, of, arg)
      PROVE  DraftCall(c) /\ DraftLoad(c)' /\ c.kind # "generate"
  BY <1>1 DEF Fresh, DraftCall, DraftLoad
<1> QED BY <1>1 DEF CallsStep

LEMMA DraftDone ==
    ASSUME DraftInv, CallsStep(draftCalls'), DraftWaits', GenOK(gen'), ChangeOK(change'),
           FormOK(signalForm'), misplaced' \in BOOLEAN, Shown', Looked'
    PROVE  DraftInv' /\ AsksChecked
<1>1. DraftTypes'
  BY DEF DraftTypes, CallsStep
<1> QED BY <1>1 DEF DraftInv, CallsStep, AsksChecked

\* A request other than a generation is made, and the drafts that are being
\* loaded are those of the selected Signal, if any are.
LEMMA DraftAsks ==
    ASSUME DraftInv, NEW X, NEW K, NEW k \in K, k # "generate", NEW of, NEW arg,
           "generate" \notin K, LeftOf(draftCalls, X, K), Off(X, K) \/ X = draftCalls,
           NEW C, C = Begin(X, Sent(k, of, arg)),
           k = "load" => of = selected', Steady \/ Off(X, {"load"})
    PROVE  CallsStep(C) /\ Stay(draftCalls, C, K, K) /\ Has(C, {k}) /\ Wants(C, {k})
<1>2. /\ CallsOK(C) /\ Stay(draftCalls, C, K, K) /\ Has(C, {k}) /\ Wants(C, {k})
      /\ \A c \in DOMAIN C : Fresh(c, k, of, arg) \/ c \in DOMAIN X
  <2>1. C = Begin(X, Sent(k, of, arg)) /\ LeftOf(draftCalls, X, K) /\ k \in K
    OBVIOUS
  <2> QED BY ONLY <2>1, BegunIs
<1>3. CallsOK(X)
  BY DEF LeftOf
<1>4. \A c \in DOMAIN X : \/ c \in DOMAIN draftCalls
                          \/ c.kind # "generate" /\ ~c.on /\ \E d \in DOMAIN draftCalls : Follows(c, d)
  BY DEF LeftOf, Off
<1>5. CallsStep(X)
  BY <1>3, <1>4, DraftKept
<1>6. CallsStep(C)
  BY <1>2, <1>5, DraftBegun
<1> QED BY <1>2, <1>6

\* A handler goes on.
LEMMA DraftEnds ==
    ASSUME DraftInv, NEW call \in DOMAIN draftCalls, NEW C, C = Ended(draftCalls, call)
    PROVE  /\ CallsOK(C) /\ \A c \in DOMAIN C : c \in DOMAIN draftCalls
           /\ Steady => CallsStep(C)
           /\ Stay(draftCalls, C, {call.kind}, {call.kind})
           /\ ~call.on => Stay(draftCalls, C, {call.kind}, {})
<1>1. CallsOK(draftCalls)
  BY DEF DraftInv, DraftTypes
<1>2. CallsOK(C) /\ \A c \in DOMAIN C : c \in DOMAIN draftCalls
  BY <1>1, EndedIs DEF LeftOf
<1>3. Steady => CallsStep(C)
  BY <1>2, DraftKept
<1>4. /\ Stay(draftCalls, C, {call.kind}, {call.kind})
      /\ ~call.on => Stay(draftCalls, C, {call.kind}, {})
  BY <1>1, EndedStays
<1> QED BY <1>2, <1>3, <1>4

\* A request is answered.
LEMMA DraftIsAnswered ==
    ASSUME DraftInv, NEW call \in DOMAIN draftCalls, NEW out, out.code # "aborted",
           out.code = "ok" /\ call.kind \in DraftWrites \cup {"load"} => out.body.of = call.of,
           NEW C, C = Answered(draftCalls, call, out), UNCHANGED <<selected, misplaced>>
    PROVE  CallsStep(C) /\ Stay(draftCalls, C, {}, {})
<1>1. CallsOK(draftCalls) /\ IsCall(call) /\ DraftLoad(call)
  BY DEF DraftInv, DraftTypes, CallsOK
<1>2. PICK r : r = Read(call, out)
  OBVIOUS
<1>3. /\ r.kind = call.kind /\ r.of = call.of /\ r.on = call.on /\ r.cut = call.cut
      /\ r.at = "read" /\ r.ans = out
  BY <1>1, <1>2, ReadIs
<1>4. CallsOK(C) /\ \A c \in DOMAIN C : c = r \/ c \in DOMAIN Ended(draftCalls, call)
  BY <1>1, <1>2, AnsweredIs
<1>5. \A c \in DOMAIN C : c = r \/ c \in DOMAIN draftCalls
  BY <1>1, <1>4, EndedIs
<1>6. DraftCall(r) /\ DraftLoad(r)'
  BY <1>1, <1>3 DEF DraftCall, DraftLoad
<1>7. ASSUME NEW c \in DOMAIN C, c \in DOMAIN draftCalls PROVE DraftCall(c) /\ DraftLoad(c)'
  BY <1>7 DEF DraftInv, DraftLoad
<1>8. CallsStep(C)
  BY <1>3, <1>4, <1>5, <1>6, <1>7 DEF CallsStep
<1> QED BY <1>1, <1>8, AnsweredStays

LEMMA LoadingIs ==
    ASSUME NEW g, GenOK(g)
    PROVE  /\ GenOK(Loading(g)) /\ Loading(g).loading = TRUE /\ Loading(g).error = FALSE
           /\ Loading(g).failed = FALSE /\ Loading(g).uncertain = FALSE
           /\ Loading(g).pending = g.pending /\ Loading(g).shown = g.shown
BY DEF Loading, GenOK

\* A Signal is selected: of the requests X that are left its drafts are asked for.
LEMMA SignalSelected ==
    ASSUME DraftInv, NEW X, CallsOK(X), \A c \in DOMAIN X : c \in DOMAIN draftCalls,
           \A k : k # "find" => (Has(draftCalls, {k}) => Has(X, {k})),
           NEW s, Selects(s, X), UNCHANGED <<change, unknown, misplaced>>
    PROVE  DraftInv' /\ AsksChecked
<1>1. /\ signalForm' = [signalForm EXCEPT !.of = None] /\ selected' = s
      /\ gen' = Loading([gen EXCEPT !.shown = None])
      /\ draftCalls' = Begin(Withdrawn(X, {"load"}), Sent("load", s, None))
  BY DEF Selects, LoadOf
<1>2. GenOK(gen) /\ ChangeOK(change) /\ FormOK(signalForm) /\ misplaced \in BOOLEAN /\ DraftWaits
  BY DEF DraftInv, DraftTypes
<1>3. PICK W : W = Withdrawn(X, {"load"})
  OBVIOUS
<1>4. LeftOf(X, W, {"load"}) /\ Off(W, {"load"})
  BY <1>3, WithdrawnLeaves
<1>5. draftCalls' = Begin(W, Sent("load", s, None))
  BY <1>1, <1>3
<1>6. PICK C : C = Begin(W, Sent("load", s, None))
  OBVIOUS
<1>7. /\ CallsOK(C) /\ Stay(X, C, {"load"}, {"load"}) /\ Wants(C, {"load"})
      /\ \A c \in DOMAIN C : Fresh(c, "load", s, None) \/ c \in DOMAIN W
  BY <1>4, <1>6, BegunIs
<1>8. \A c \in DOMAIN W : \/ c \in DOMAIN draftCalls
                          \/ c.kind # "generate" /\ ~c.on /\ \E d \in DOMAIN draftCalls : Follows(c, d)
  BY <1>4 DEF LeftOf, Off
<1>9. CallsOK(W)
  BY <1>4 DEF LeftOf
<1>10. CallsStep(W)
  BY <1>4, <1>8, <1>9, DraftKept
<1>11. CallsStep(C)
  BY <1>1, <1>7, <1>10, DraftBegun
<1>13. GenOK([gen EXCEPT !.shown = None]) /\ [gen EXCEPT !.shown = None].shown = None
       /\ [gen EXCEPT !.shown = None].pending = gen.pending
  BY <1>2 DEF GenOK
<1>14. /\ GenOK(gen') /\ gen'.loading /\ ~gen'.error /\ ~gen'.failed /\ gen'.pending = gen.pending
       /\ gen'.shown = None
  BY <1>1, <1>13, LoadingIs
<1>15. FormOK(signalForm') /\ signalForm'.pending = signalForm.pending
  BY <1>1, <1>2 DEF FormOK
<1>16. /\ Has(draftCalls, {"generate"}) => Has(C, {"generate"})
       /\ Has(draftCalls, {"signal"}) => Has(C, {"signal"})
       /\ \A k \in Edits : Has(draftCalls, {k}) => Has(C, {k})
  BY <1>7 DEF Stay, Edits
<1>17. Has(draftCalls, Edits) => Has(C, Edits)
  BY <1>16, HasOne
<1>18. DraftWaits'
  BY <1>2, <1>5, <1>6, <1>7, <1>14, <1>15, <1>16, <1>17 DEF DraftWaits
<1>19. Shown' /\ Looked'
  BY <1>14 DEF Shown, Looked
<1> QED BY <1>2, <1>5, <1>6, <1>11, <1>14, <1>15, <1>18, <1>19, DraftDone

\* A handler goes on with what became of its request.
LEMMA DraftResult ==
    ASSUME DraftInv, NEW k, NEW call \in Returning(draftCalls, k),
           NEW out, out = Result(call)
    PROVE  /\ call \in DOMAIN draftCalls /\ call.kind = k /\ IsCall(call)
           /\ DraftCall(call) /\ DraftLoad(call)
           /\ out.code = "ok" /\ k \in DraftWrites \cup {"load"} => out.body.of = call.of
           /\ out.code = "aborted" => call.cut
<1>1. call \in DOMAIN draftCalls /\ call.kind = k /\ (call.at = "read" \/ call.cut)
  BY DEF Returning, Pending, BagToSet
<1>2. IsCall(call) /\ DraftCall(call) /\ DraftLoad(call)
  BY <1>1 DEF DraftInv, DraftTypes, CallsOK
<1>3. CASE call.cut
  <2>1. out.code = "aborted"
    BY <1>3 DEF Result, Reply
  <2> QED BY <1>1, <1>2, <1>3, <2>1
<1>4. CASE ~call.cut
  <2>1. out = call.ans /\ call.at = "read"
    BY <1>1, <1>4 DEF Result
  <2> QED BY <1>1, <1>2, <2>1 DEF DraftCall
<1> QED BY <1>3, <1>4

LEMMA LoadReturnsKeeps ==
    ASSUME DraftInv, NEW call, LoadReturns(call) PROVE DraftInv' /\ AsksChecked
<1> DEFINE done == [gen EXCEPT !.loading = @ /\ ~call.on]
<1>1. PICK out : out = Result(call)
  OBVIOUS
<1>2. PICK used \in BOOLEAN : used = (call.on /\ out.code # "aborted")
  OBVIOUS
<1>3. /\ call \in Returning(draftCalls, "load") /\ draftCalls' = Ended(draftCalls, call)
      /\ gen' = IF ~used THEN done
                ELSE CASE out.code = "ok" -> [done EXCEPT !.shown = out.body]
                       [] out.code = "noDrafts" -> [done EXCEPT !.shown = None]
                       [] OTHER -> [done EXCEPT !.error = TRUE]
      /\ unknown' = IF used /\ out.code \in {"ok", "noDrafts"} THEN unknown \ {call.of} ELSE unknown
      /\ UNCHANGED <<selected, change, signalForm, misplaced>>
  BY <1>1, <1>2 DEF LoadReturns, LoadIsWanted
<1>t. /\ CallsOK(draftCalls) /\ GenOK(gen) /\ ChangeOK(change) /\ FormOK(signalForm)
      /\ misplaced \in BOOLEAN /\ DraftWaits /\ Shown /\ Looked
  BY DEF DraftInv, DraftTypes
<1>4. /\ call \in DOMAIN draftCalls /\ call.kind = "load" /\ IsCall(call) /\ DraftLoad(call)
      /\ out.code = "ok" => out.body.of = call.of
      /\ out.code = "aborted" => call.cut
  BY <1>1, <1>3, DraftResult
<1>5. Steady
  BY <1>3 DEF Steady
<1>6. PICK C : C = Ended(draftCalls, call)
  OBVIOUS
<1>7. /\ CallsStep(C) /\ Stay(draftCalls, C, {"load"}, {"load"})
      /\ ~call.on => Stay(draftCalls, C, {"load"}, {})
  BY <1>4, <1>5, <1>6, DraftEnds
<1>8. call.on \in BOOLEAN /\ draftCalls' = C
  BY <1>3, <1>4, <1>6 DEF IsCall
<1>9. /\ GenOK(done) /\ done.loading = (gen.loading /\ ~call.on) /\ done.error = gen.error
      /\ done.failed = gen.failed /\ done.uncertain = gen.uncertain /\ done.pending = gen.pending
      /\ done.shown = gen.shown
  <2>1. PICK d \in BOOLEAN : d = (gen.loading /\ ~call.on)
    OBVIOUS
  <2>2. done = [gen EXCEPT !.loading = d]
    BY <2>1
  <2>3. /\ GenOK([gen EXCEPT !.loading = d]) /\ [gen EXCEPT !.loading = d].loading = d
        /\ [gen EXCEPT !.loading = d].error = gen.error /\ [gen EXCEPT !.loading = d].failed = gen.failed
        /\ [gen EXCEPT !.loading = d].uncertain = gen.uncertain
        /\ [gen EXCEPT !.loading = d].pending = gen.pending /\ [gen EXCEPT !.loading = d].shown = gen.shown
    BY <1>t DEF GenOK
  <2> HIDE DEF done
  <2> QED BY <2>1, <2>2, <2>3
<1> HIDE DEF done
<1>10. /\ GenOK(gen') /\ gen'.loading = done.loading /\ gen'.pending = gen.pending
       /\ gen'.failed = gen.failed /\ gen'.uncertain = gen.uncertain
       /\ gen'.error = gen.error \/ gen'.error
  BY <1>3, <1>9 DEF GenOK
<1>11. DraftWaits'
  <2>1. \A k \in Edits : k \notin {"load"}
    BY DEF Edits
  <2>2. CASE call.on
    BY <1>3, <1>7, <1>8, <1>9, <1>10, <2>1, <2>2, DraftGoesOn
  <2>3. CASE ~call.on
    BY <1>3, <1>7, <1>8, <1>9, <1>10, <2>1, <2>3, DraftGoesOn
  <2> QED BY <2>2, <2>3
<1>12. Shown'
  <2>1. CASE ~used \/ out.code # "ok"
    BY <1>t, <1>3, <1>9, <2>1 DEF Shown, GenOK
  <2>2. CASE used /\ out.code = "ok"
    <3>1. gen'.shown = out.body /\ call.on
      BY <1>2, <1>3, <1>9, <2>2 DEF GenOK
    <3> QED BY <1>3, <1>4, <2>2, <3>1 DEF Shown, DraftLoad
  <2> QED BY <2>1, <2>2
<1>13. Looked'
  <2>1. CASE ~call.on
    BY <1>t, <1>2, <1>3, <1>9, <2>1 DEF Looked
  <2>2. CASE call.on /\ out.code = "aborted"
    BY <1>3, <1>4, <2>2 DEF Looked, DraftLoad
  <2>3. CASE used /\ out.code \in {"ok", "noDrafts"}
    BY <1>2, <1>3, <1>4, <2>3 DEF Looked, DraftLoad
  <2>4. CASE used /\ out.code \notin {"ok", "noDrafts"}
    <3>1. gen' = [done EXCEPT !.error = TRUE] /\ unknown' = unknown
      BY <1>3, <2>4
    <3>2. gen'.error = TRUE /\ gen'.uncertain = gen.uncertain /\ gen'.failed = gen.failed
      BY <1>9, <3>1 DEF GenOK
    <3> QED BY <1>t, <1>3, <3>1, <3>2 DEF Looked
  <2> QED BY <1>2, <2>1, <2>2, <2>3, <2>4
<1> QED BY <1>t, <1>3, <1>7, <1>8, <1>10, <1>11, <1>12, <1>13, DraftDone

LEMMA SignalsReturnKeeps ==
    ASSUME DraftInv, NEW call, SignalsReturn(call) PROVE DraftInv' /\ AsksChecked
<1>t. /\ CallsOK(draftCalls) /\ GenOK(gen) /\ ChangeOK(change) /\ FormOK(signalForm)
      /\ misplaced \in BOOLEAN /\ DraftWaits /\ Shown /\ Looked
  BY DEF DraftInv, DraftTypes
<1>1. PICK C : C = Ended(draftCalls, call)
  OBVIOUS
<1>2. /\ call \in Returning(draftCalls, "signals") /\ UNCHANGED <<signalForm, unknown, misplaced>>
      /\ \/ /\ draftCalls' = Aborted(C, {"load"}) /\ selected' = None
            /\ gen' = [gen EXCEPT !.shown = None, !.error = FALSE]
            /\ change' = [change EXCEPT !.error = FALSE, !.uncertain = FALSE]
         \/ draftCalls' = C /\ UNCHANGED <<selected, gen, change>>
  BY <1>1 DEF SignalsReturn
<1>3. call \in DOMAIN draftCalls /\ call.kind = "signals"
  BY <1>2 DEF Returning, Pending, BagToSet
<1>4. /\ CallsOK(C) /\ \A c \in DOMAIN C : c \in DOMAIN draftCalls
      /\ Steady => CallsStep(C)
      /\ Stay(draftCalls, C, {"signals"}, {"signals"})
  BY <1>1, <1>3, DraftEnds
<1>5. \A k \in Edits : k \notin {"signals", "load"}
  BY DEF Edits
<1>6. CASE draftCalls' = C /\ UNCHANGED <<selected, gen, change>>
  <2>1. CallsStep(C)
    BY <1>2, <1>4, <1>6 DEF Steady
  <2>2. Shown' /\ Looked'
    BY <1>t, <1>2, <1>6 DEF Shown, Looked
  <2>3. DraftWaits'
    BY <1>2, <1>4, <1>5, <1>6, DraftGoesOn
  <2> QED BY <1>t, <1>2, <1>6, <2>1, <2>2, <2>3, DraftDone
<1>7. ASSUME draftCalls' = Aborted(C, {"load"}), selected' = None,
             gen' = [gen EXCEPT !.shown = None, !.error = FALSE],
             change' = [change EXCEPT !.error = FALSE, !.uncertain = FALSE]
      PROVE  DraftInv' /\ AsksChecked
  <2>1. PICK E : E = Aborted(C, {"load"})
    OBVIOUS
  <2>2. /\ LeftOf(C, E, {"load"})
        /\ \A d \in DOMAIN C : \E e \in DOMAIN E : Follows(e, d) /\ e.on = d.on
    BY <1>4, <2>1, AbortedLeaves
  <2>3. CallsOK(E)
    BY <2>2 DEF LeftOf
  <2>4. ASSUME NEW c \in DOMAIN E PROVE DraftCall(c) /\ DraftLoad(c)'
    <3>1. PICK d \in DOMAIN C : Follows(c, d)
      BY <2>2 DEF LeftOf
    <3>2. DraftCall(d)
      BY <1>4 DEF DraftInv
    <3> QED BY <1>7, <3>1, <3>2 DEF DraftCall, DraftLoad, Follows
  <2>5. \A c \in DOMAIN E : c.kind = "generate" => c \in DOMAIN draftCalls
    BY <1>4, <2>2 DEF LeftOf
  <2>6. CallsStep(E)
    BY <2>3, <2>4, <2>5 DEF CallsStep
  <2>7. Stay(C, E, {}, {})
    BY <2>2 DEF Stay, Has, Wants, Follows
  <2>8. Stay(draftCalls, E, {"signals"}, {"signals"})
    BY <1>4, <2>7 DEF Stay
  <2>9. /\ GenOK(gen') /\ gen'.loading = gen.loading /\ gen'.pending = gen.pending
        /\ ChangeOK(change') /\ change'.pending = change.pending
    BY <1>t, <1>7 DEF GenOK, ChangeOK
  <2>10. draftCalls' = E
    BY <1>7, <2>1
  <2>11. DraftWaits'
    <3>1. "load" \notin {"signals"} /\ "generate" \notin {"signals"} /\ "signal" \notin {"signals"}
          /\ \A k \in Edits : k \notin {"signals"}
      BY <1>5
    <3>2. Stay(draftCalls, draftCalls', {"signals"}, {"signals"}) /\ (signalForm'.pending => signalForm.pending)
          /\ (gen'.loading => gen.loading) /\ (gen'.pending => gen.pending) /\ (change'.pending => change.pending)
      BY <1>2, <2>8, <2>9, <2>10
    <3> QED BY <3>1, <3>2, DraftGoesOn
  <2>12. Shown' /\ Looked'
    BY <1>7 DEF Shown, Looked
  <2> QED BY <1>t, <1>2, <2>6, <2>9, <2>10, <2>11, <2>12, DraftDone
<1> QED BY <1>2, <1>6, <1>7

\* What a handler that goes on leaves of the requests.
LEMMA DraftGone ==
    ASSUME DraftInv, NEW k, NEW call \in Returning(draftCalls, k),
           draftCalls' = Ended(draftCalls, call), Steady
    PROVE  CallsStep(draftCalls') /\ Stay(draftCalls, draftCalls', {k}, {k})
<1>1. PICK C : C = Ended(draftCalls, call)
  OBVIOUS
<1>2. call \in DOMAIN draftCalls /\ call.kind = k
  BY DEF Returning, Pending, BagToSet
<1>3. CallsStep(C) /\ Stay(draftCalls, C, {k}, {k})
  BY <1>1, <1>2, DraftEnds
<1> QED BY <1>1, <1>3

LEMMA SignalReturnsKeeps ==
    ASSUME DraftInv, NEW call, SignalReturns(call) PROVE DraftInv' /\ AsksChecked
<1>t. /\ CallsOK(draftCalls) /\ GenOK(gen) /\ ChangeOK(change) /\ FormOK(signalForm)
      /\ misplaced \in BOOLEAN /\ DraftWaits /\ Shown /\ Looked
  BY DEF DraftInv, DraftTypes
<1>1. /\ call \in Returning(draftCalls, "signal") /\ draftCalls' = Ended(draftCalls, call)
      /\ UNCHANGED <<change, unknown>>
      /\ DOMAIN signalForm' = {"of", "pending"} /\ signalForm'.pending = FALSE
      /\ \/ /\ selected' = call.of /\ gen' = [gen EXCEPT !.shown = None]
            /\ misplaced' = (misplaced \/ selected # call.of)
         \/ UNCHANGED <<selected, gen, misplaced>>
  BY DEF SignalReturns
<1>2. misplaced' \in BOOLEAN /\ Steady
  BY <1>1, <1>t DEF Steady
<1>3. CallsStep(draftCalls') /\ Stay(draftCalls, draftCalls', {"signal"}, {"signal"})
  BY <1>1, <1>2, DraftGone
<1>4. [gen EXCEPT !.shown = None].shown = None /\ GenOK([gen EXCEPT !.shown = None])
      /\ [gen EXCEPT !.shown = None].loading = gen.loading /\ [gen EXCEPT !.shown = None].pending = gen.pending
      /\ [gen EXCEPT !.shown = None].uncertain = gen.uncertain /\ [gen EXCEPT !.shown = None].failed = gen.failed
      /\ [gen EXCEPT !.shown = None].error = gen.error
  BY <1>t DEF GenOK
<1>5. /\ GenOK(gen') /\ gen'.loading = gen.loading /\ gen'.pending = gen.pending
      /\ gen'.uncertain = gen.uncertain /\ gen'.failed = gen.failed /\ gen'.error = gen.error
      /\ gen'.shown = None \/ UNCHANGED <<selected, gen, misplaced>>
  BY <1>t, <1>1, <1>4
<1>6. \A k \in Edits : k \notin {"signal"}
  BY DEF Edits
<1>7. DraftWaits'
  BY <1>1, <1>3, <1>5, <1>6, DraftGoesOn
<1>8. Shown'
  BY <1>t, <1>5 DEF Shown
<1>9. Looked'
  <2>1. misplaced' \/ selected' = None \/ (selected' = selected /\ UNCHANGED misplaced)
    BY <1>2 DEF Steady
  <2> QED BY <1>t, <1>1, <1>5, <2>1 DEF Looked
<1>10. FormOK(signalForm') /\ ChangeOK(change')
  BY <1>t, <1>1 DEF FormOK
<1> QED BY <1>2, <1>3, <1>5, <1>7, <1>8, <1>9, <1>10, DraftDone

LEMMA GenerateReturnsKeeps ==
    ASSUME DraftInv, NEW call, GenerateReturns(call) PROVE DraftInv' /\ AsksChecked
<1>t. /\ CallsOK(draftCalls) /\ GenOK(gen) /\ ChangeOK(change) /\ FormOK(signalForm)
      /\ misplaced \in BOOLEAN /\ DraftWaits /\ Shown /\ Looked
  BY DEF DraftInv, DraftTypes
<1>1. PICK out : out = Result(call)
  OBVIOUS
<1>2. /\ call \in Returning(draftCalls, "generate") /\ draftCalls' = Ended(draftCalls, call)
      /\ gen' = IF out.code = "ok"
                THEN [gen EXCEPT !.pending = FALSE, !.shown = out.body]
                ELSE [gen EXCEPT !.pending = FALSE, !.error = TRUE,
                                 !.uncertain = @ \/ out.code = "uncertain",
                                 !.failed = @ \/ out.code # "uncertain"]
      /\ unknown' = IF out.code = "uncertain" THEN unknown \cup {call.of} ELSE unknown \ {call.of}
      /\ misplaced' = (misplaced \/ selected \notin {None, call.of})
      /\ UNCHANGED <<selected, change, signalForm>>
  BY <1>1 DEF GenerateReturns
<1>3. misplaced' \in BOOLEAN /\ Steady
  BY <1>2, <1>t DEF Steady
<1>4. CallsStep(draftCalls') /\ Stay(draftCalls, draftCalls', {"generate"}, {"generate"})
  BY <1>2, <1>3, DraftGone
<1>5. out.code = "ok" => out.body.of = call.of
  BY <1>1, <1>2, DraftResult DEF DraftWrites
<1>6. CASE out.code = "ok"
  <2>1. gen' = [gen EXCEPT !.pending = FALSE, !.shown = out.body]
    BY <1>2, <1>6
  <2>2. /\ GenOK(gen') /\ gen'.loading = gen.loading /\ ~gen'.pending /\ gen'.shown = out.body
        /\ gen'.error = gen.error /\ gen'.uncertain = gen.uncertain /\ gen'.failed = gen.failed
    BY <1>t, <2>1 DEF GenOK
  <2>3. DraftWaits'
    BY <1>2, <1>4, <2>2, DraftGoesOn DEF Edits
  <2>4. Shown'
    BY <1>2, <1>5, <1>6, <2>2 DEF Shown
  <2>5. Looked'
    BY <1>t, <1>2, <1>6, <2>2 DEF Looked
  <2> QED BY <1>t, <1>2, <1>3, <1>4, <2>2, <2>3, <2>4, <2>5, DraftDone
<1>7. CASE out.code # "ok"
  <2>1. PICK x \in BOOLEAN, y \in BOOLEAN : x = (gen.uncertain \/ out.code = "uncertain")
                                            /\ y = (gen.failed \/ out.code # "uncertain")
    OBVIOUS
  <2>2. gen' = [gen EXCEPT !.pending = FALSE, !.error = TRUE, !.uncertain = x, !.failed = y]
    BY <1>2, <1>7, <2>1
  <2>3. /\ GenOK(gen') /\ gen'.loading = gen.loading /\ ~gen'.pending /\ gen'.shown = gen.shown
        /\ gen'.error = TRUE /\ gen'.uncertain = x /\ gen'.failed = y
    BY <1>t, <2>2 DEF GenOK
  <2>4. DraftWaits'
    BY <1>2, <1>4, <2>3, DraftGoesOn DEF Edits
  <2>5. Shown'
    BY <1>t, <1>2, <2>3 DEF Shown
  <2>6. Looked'
    BY <1>t, <1>2, <2>1, <2>3 DEF Looked
  <2> QED BY <1>t, <1>2, <1>3, <1>4, <2>3, <2>4, <2>5, <2>6, DraftDone
<1> QED BY <1>6, <1>7

LEMMA ChangeReturnsKeeps ==
    ASSUME DraftInv, NEW what \in Edits, NEW call, ChangeReturns(what, call) PROVE DraftInv' /\ AsksChecked
<1>t. /\ CallsOK(draftCalls) /\ GenOK(gen) /\ ChangeOK(change) /\ FormOK(signalForm)
      /\ misplaced \in BOOLEAN /\ DraftWaits /\ Shown /\ Looked
  BY DEF DraftInv, DraftTypes
<1>1. PICK out : out = Result(call)
  OBVIOUS
<1>2. /\ call \in Returning(draftCalls, what) /\ draftCalls' = Ended(draftCalls, call)
      /\ change' = [pending |-> FALSE, error |-> change.error \/ out.code # "ok",
                    uncertain |-> change.uncertain \/ out.code = "uncertain"]
      /\ gen' = IF out.code = "ok" THEN [gen EXCEPT !.shown = out.body] ELSE gen
      /\ misplaced' = (misplaced \/ (out.code = "ok" /\ selected \notin {None, call.of}))
      /\ UNCHANGED <<selected, signalForm, unknown>>
  BY <1>1 DEF ChangeReturns
<1>3. misplaced' \in BOOLEAN /\ Steady
  BY <1>2, <1>t DEF Steady
<1>4. CallsStep(draftCalls') /\ Stay(draftCalls, draftCalls', {what}, {what})
  BY <1>2, <1>3, DraftGone
<1>5. out.code = "ok" => out.body.of = call.of
  BY <1>1, <1>2, DraftResult DEF DraftWrites, Edits
<1>6. [gen EXCEPT !.shown = out.body].shown = out.body /\ GenOK([gen EXCEPT !.shown = out.body])
      /\ [gen EXCEPT !.shown = out.body].loading = gen.loading
      /\ [gen EXCEPT !.shown = out.body].pending = gen.pending
      /\ [gen EXCEPT !.shown = out.body].uncertain = gen.uncertain
      /\ [gen EXCEPT !.shown = out.body].failed = gen.failed /\ [gen EXCEPT !.shown = out.body].error = gen.error
  BY <1>t DEF GenOK
<1>7. /\ GenOK(gen') /\ gen'.loading = gen.loading /\ gen'.pending = gen.pending
      /\ gen'.uncertain = gen.uncertain /\ gen'.failed = gen.failed /\ gen'.error = gen.error
      /\ \/ out.code = "ok" /\ gen'.shown = out.body
         \/ out.code # "ok" /\ gen'.shown = gen.shown
  BY <1>t, <1>2, <1>6
<1>8. ChangeOK(change') /\ ~change'.pending
  BY <1>t, <1>2 DEF ChangeOK
<1>9. what \notin {"load", "generate", "signal"}
  BY DEF Edits
<1>10. DraftWaits'
  BY <1>2, <1>4, <1>7, <1>8, <1>9, DraftGoesOn
<1>11. Shown'
  BY <1>t, <1>2, <1>5, <1>7 DEF Shown
<1>12. Looked'
  BY <1>t, <1>2, <1>7 DEF Looked
<1> QED BY <1>t, <1>2, <1>3, <1>4, <1>7, <1>8, <1>10, <1>11, <1>12, DraftDone

LEMMA ApplyReturnsKeeps ==
    ASSUME DraftInv, NEW call, ApplyReturns(call) PROVE DraftInv' /\ AsksChecked
<1>t. /\ CallsOK(draftCalls) /\ GenOK(gen) /\ ChangeOK(change) /\ FormOK(signalForm)
      /\ misplaced \in BOOLEAN /\ DraftWaits /\ Shown /\ Looked
  BY DEF DraftInv, DraftTypes
<1>1. PICK out : out = Result(call)
  OBVIOUS
<1>2. /\ call \in Returning(draftCalls, "apply") /\ draftCalls' = Ended(draftCalls, call)
      /\ gen' = IF out.code = "ok" THEN [gen EXCEPT !.shown = out.body] ELSE gen
      /\ misplaced' = (misplaced \/ (out.code = "ok" /\ selected \notin {None, call.of}))
      /\ UNCHANGED <<selected, change, signalForm, unknown>>
  BY <1>1 DEF ApplyReturns
<1>3. misplaced' \in BOOLEAN /\ Steady
  BY <1>2, <1>t DEF Steady
<1>4. CallsStep(draftCalls') /\ Stay(draftCalls, draftCalls', {"apply"}, {"apply"})
  BY <1>2, <1>3, DraftGone
<1>5. out.code = "ok" => out.body.of = call.of
  BY <1>1, <1>2, DraftResult DEF DraftWrites
<1>6. [gen EXCEPT !.shown = out.body].shown = out.body /\ GenOK([gen EXCEPT !.shown = out.body])
      /\ [gen EXCEPT !.shown = out.body].loading = gen.loading
      /\ [gen EXCEPT !.shown = out.body].pending = gen.pending
      /\ [gen EXCEPT !.shown = out.body].uncertain = gen.uncertain
      /\ [gen EXCEPT !.shown = out.body].failed = gen.failed /\ [gen EXCEPT !.shown = out.body].error = gen.error
  BY <1>t DEF GenOK
<1>7. /\ GenOK(gen') /\ gen'.loading = gen.loading /\ gen'.pending = gen.pending
      /\ gen'.uncertain = gen.uncertain /\ gen'.failed = gen.failed /\ gen'.error = gen.error
      /\ \/ out.code = "ok" /\ gen'.shown = out.body
         \/ out.code # "ok" /\ gen'.shown = gen.shown
  BY <1>t, <1>2, <1>6
<1>10. DraftWaits'
  <2>1. \A k \in Edits : k \notin {"apply"}
    BY DEF Edits
  <2> QED BY <1>2, <1>4, <1>7, <2>1, DraftGoesOn
<1>11. Shown'
  BY <1>t, <1>2, <1>5, <1>7 DEF Shown
<1>12. Looked'
  BY <1>t, <1>2, <1>7 DEF Looked
<1> QED BY <1>t, <1>2, <1>3, <1>4, <1>7, <1>10, <1>11, <1>12, DraftDone

LEMMA FindReturnsKeeps ==
    ASSUME DraftInv, NEW call, FindReturns(call) PROVE DraftInv' /\ AsksChecked
<1>t. /\ CallsOK(draftCalls) /\ GenOK(gen) /\ ChangeOK(change) /\ FormOK(signalForm)
      /\ misplaced \in BOOLEAN /\ DraftWaits /\ Shown /\ Looked
  BY DEF DraftInv, DraftTypes
<1>1. PICK C : C = Ended(draftCalls, call)
  OBVIOUS
<1>2. /\ call \in Returning(draftCalls, "find") /\ UNCHANGED <<change, unknown, misplaced>>
      /\ Selects(call.of, C) \/ (draftCalls' = C /\ UNCHANGED <<signalForm, selected, gen>>)
  BY <1>1 DEF FindReturns
<1>3. call \in DOMAIN draftCalls /\ call.kind = "find"
  BY <1>2 DEF Returning, Pending, BagToSet
<1>4. /\ CallsOK(C) /\ \A c \in DOMAIN C : c \in DOMAIN draftCalls
      /\ Steady => CallsStep(C)
      /\ Stay(draftCalls, C, {"find"}, {"find"})
  BY <1>1, <1>3, DraftEnds
<1>5. CASE draftCalls' = C /\ UNCHANGED <<signalForm, selected, gen>>
  <2>1. CallsStep(C)
    BY <1>2, <1>4, <1>5 DEF Steady
  <2>2. Shown' /\ Looked'
    BY <1>t, <1>2, <1>5 DEF Shown, Looked
  <2>3. DraftWaits'
    BY <1>2, <1>4, <1>5, DraftGoesOn DEF Edits
  <2> QED BY <1>t, <1>2, <1>5, <2>1, <2>2, <2>3, DraftDone
<1>6. CASE Selects(call.of, C)
  <2>1. PICK s : s = call.of
    OBVIOUS
  <2>2. \A k : k # "find" => (Has(draftCalls, {k}) => Has(C, {k}))
    BY <1>4 DEF Stay
  <2> QED BY <1>2, <1>4, <1>6, <2>1, <2>2, SignalSelected
<1> QED BY <1>2, <1>5, <1>6

\* A request of the drafts is answered, and nothing else happens to the screen.
LEMMA AnswerKeeps ==
    ASSUME DraftInv, NEW call \in DOMAIN draftCalls, NEW out, out.code # "aborted",
           out.code = "ok" /\ call.kind \in DraftWrites \cup {"load"} => out.body.of = call.of,
           draftCalls' = Answered(draftCalls, call, out),
           UNCHANGED <<selected, gen, change, signalForm, unknown, misplaced>>
    PROVE  DraftInv' /\ AsksChecked
<1>t. /\ GenOK(gen) /\ ChangeOK(change) /\ FormOK(signalForm)
      /\ misplaced \in BOOLEAN /\ Shown /\ Looked
  BY DEF DraftInv, DraftTypes
<1>1. PICK C : C = Answered(draftCalls, call, out)
  OBVIOUS
<1>2. CallsStep(C) /\ Stay(draftCalls, C, {}, {})
  BY <1>1, DraftIsAnswered
<1>3. DraftWaits'
  BY <1>1, <1>2, DraftGoesOn
<1>4. Shown' /\ Looked'
  BY <1>t DEF Shown, Looked
<1> QED BY <1>t, <1>1, <1>2, <1>3, <1>4, DraftDone

LEMMA AnswersKeep ==
    ASSUME DraftInv, NEW call \in DOMAIN draftCalls,
           DraftAnswered(call) \/ DraftWritten(call) \/ DraftRefused(call)
    PROVE  DraftInv' /\ AsksChecked
<1>1. UNCHANGED <<selected, gen, change, signalForm, unknown, misplaced>>
  BY DEF DraftAnswered, DraftWritten, DraftRefused
<1>2. CASE DraftAnswered(call)
  <2>1. PICK out \in Bodies(call) \cup {Reply("failed", None)} : draftCalls' = Answered(draftCalls, call, out)
    BY <1>2 DEF DraftAnswered
  <2>2. call.kind \in DraftReads
    BY <1>2 DEF DraftAnswered
  <2>3. out.code # "aborted" /\ (out.code = "ok" /\ call.kind = "load" => out.body.of = call.of)
    BY <2>1, <2>2 DEF Bodies, Reply, Drafts, DraftReads
  <2>4. call.kind \notin DraftWrites
    BY <2>2 DEF DraftReads, DraftWrites
  <2> QED BY <1>1, <2>1, <2>3, <2>4, AnswerKeeps
<1>3. CASE DraftWritten(call)
  <2>1. PICK out \in {Reply("ok", [of |-> call.of, ver |-> drafts'[call.of]]), Reply("uncertain", None)} :
             draftCalls' = Answered(draftCalls, call, out)
    BY <1>3 DEF DraftWritten
  <2>2. out.code # "aborted" /\ (out.code = "ok" => out.body.of = call.of)
    BY <2>1 DEF Reply
  <2> QED BY <1>1, <2>1, <2>2, AnswerKeeps
<1>4. CASE DraftRefused(call)
  <2>1. PICK code \in {"failed", "uncertain"} : draftCalls' = Answered(draftCalls, call, Reply(code, None))
    BY <1>4 DEF DraftRefused
  <2>2. PICK out : out = Reply(code, None)
    OBVIOUS
  <2>3. out.code # "aborted" /\ out.code # "ok"
    BY <2>2 DEF Reply
  <2>4. draftCalls' = Answered(draftCalls, call, out)
    BY <2>1, <2>2
  <2> QED BY <1>1, <2>3, <2>4, AnswerKeeps
<1> QED BY <1>2, <1>3, <1>4

LEMMA DraftKeeps == DraftInv /\ [DraftsNext]_draftVars => DraftInv' /\ AsksChecked
<1> SUFFICES ASSUME DraftInv, [DraftsNext]_draftVars PROVE DraftInv' /\ AsksChecked
  OBVIOUS
<1>t. /\ CallsOK(draftCalls) /\ GenOK(gen) /\ ChangeOK(change) /\ FormOK(signalForm)
      /\ misplaced \in BOOLEAN /\ DraftWaits /\ Shown /\ Looked
  BY DEF DraftInv, DraftTypes
<1>n. CallsStep(draftCalls) \/ ~Steady
  BY <1>t, DraftKept
<1>w. LeftOf(draftCalls, draftCalls, {}) /\ \A K : LeftOf(draftCalls, draftCalls, K)
  BY <1>t, LeftWhole, LeftMore
<1>u. ASSUME UNCHANGED <<draftCalls, selected, unknown, misplaced, gen>>,
             ChangeOK(change'), change'.pending => change.pending,
             FormOK(signalForm'), signalForm'.pending => signalForm.pending
      PROVE  DraftInv' /\ AsksChecked
  <2>1. DraftWaits' /\ Shown' /\ Looked'
    BY <1>t, <1>u DEF DraftWaits, Shown, Looked
  <2>2. CallsStep(draftCalls')
    BY <1>n, <1>u DEF Steady
  <2> QED BY <1>t, <1>u, <2>1, <2>2, DraftDone
\* Nothing is selected or looked up.
<1>v. ASSUME NEW H, NEW W, Stay(draftCalls, draftCalls', H, W), CallsStep(draftCalls'),
             UNCHANGED <<selected, unknown, misplaced, gen>>, "load" \notin W, "generate" \notin H,
             ChangeOK(change'), FormOK(signalForm'),
             change'.pending => Has(draftCalls', Edits) \/ (change.pending /\ \A k \in Edits : k \notin H),
             signalForm'.pending => Has(draftCalls', {"signal"}) \/ (signalForm.pending /\ "signal" \notin H)
      PROVE  DraftInv' /\ AsksChecked
  <2>1. Shown' /\ Looked'
    BY <1>t, <1>v DEF Shown, Looked
  <2>2. DraftWaits'
    BY <1>v, DraftGoesOn
  <2> QED BY <1>t, <1>v, <2>1, <2>2, DraftDone
<1>1. ASSUME UNCHANGED draftVars PROVE DraftInv' /\ AsksChecked
  BY <1>1, <1>t, <1>u DEF draftVars
<1>2. ASSUME NEW s \in Signals, handleSelectSignal(s) PROVE DraftInv' /\ AsksChecked
  BY <1>2, <1>t, SignalSelected DEF handleSelectSignal
<1>3. ASSUME NEW s \in Signals, handleStartSignalEditing(s) PROVE DraftInv' /\ AsksChecked
  BY <1>3, <1>t, <1>u DEF handleStartSignalEditing, FormOK
<1>4. CASE CancelSignalEditing
  BY <1>4, <1>t, <1>u DEF CancelSignalEditing, FormOK
<1>5. CASE handleStartEditing
  BY <1>5, <1>t, <1>u DEF handleStartEditing, ChangeOK
<1>6. CASE TypeDraft
  BY <1>6, <1>t, <1>u DEF TypeDraft
<1>7. CASE handleCancelEditing
  BY <1>7, <1>t, <1>u DEF handleCancelEditing, ChangeOK
<1>8. CASE onReview
  BY <1>8, <1>t, <1>u DEF onReview
<1>9. CASE ChangeTab
  BY <1>9, <1>t, <1>u DEF ChangeTab
<1>10. CASE loadSignals
  <2>1. PICK X : X = Withdrawn(draftCalls, {"signals"})
    OBVIOUS
  <2>2. draftCalls' = Begin(X, Sent("signals", None, None))
        /\ UNCHANGED <<selected, gen, change, signalForm, unknown, misplaced>>
    BY <1>10, <2>1 DEF loadSignals
  <2>3. LeftOf(draftCalls, X, {"signals"}) /\ Off(X, {"signals"}) /\ Steady
    BY <1>t, <2>1, <2>2, WithdrawnLeaves DEF Steady
  <2>6. PICK C : C = Begin(X, Sent("signals", None, None))
    OBVIOUS
  <2>7. CallsStep(C) /\ Stay(draftCalls, C, {"signals"}, {"signals"})
    BY <2>3, <2>6, DraftAsks
  <2>4. CallsStep(draftCalls') /\ Stay(draftCalls, draftCalls', {"signals"}, {"signals"})
    BY <2>2, <2>6, <2>7
  <2>5. \A k \in Edits : k \notin {"signals"}
    BY DEF Edits
  <2> QED BY <1>t, <1>v, <2>2, <2>4, <2>5
<1>11. CASE handleSaveSignal
  <2>1. /\ draftCalls' = Begin(draftCalls, Sent("signal", signalForm.of, [selected |-> selected]))
        /\ UNCHANGED <<selected, gen, change, unknown, misplaced>>
        /\ signalForm' = [signalForm EXCEPT !.pending = TRUE]
    BY <1>11 DEF handleSaveSignal
  <2>2. Steady /\ FormOK(signalForm')
    BY <1>t, <2>1 DEF Steady, FormOK
  <2>6. PICK C : C = Begin(draftCalls, Sent("signal", signalForm.of, [selected |-> selected]))
    OBVIOUS
  <2>7. CallsStep(C) /\ Stay(draftCalls, C, {"signal"}, {"signal"}) /\ Has(C, {"signal"})
    BY <1>w, <2>2, <2>6, DraftAsks
  <2>4. CallsStep(draftCalls') /\ Stay(draftCalls, draftCalls', {"signal"}, {"signal"})
        /\ Has(draftCalls', {"signal"})
    BY <2>1, <2>6, <2>7
  <2>5. \A k \in Edits : k \notin {"signal"}
    BY DEF Edits
  <2> QED BY <1>t, <1>v, <2>1, <2>2, <2>4, <2>5
<1>12. CASE apply
  <2>1. /\ draftCalls' = Begin(draftCalls, Sent("apply", selected, [of |-> gen.shown.of]))
        /\ UNCHANGED <<selected, gen, change, signalForm, unknown, misplaced>>
    BY <1>12 DEF apply
  <2>2. Steady
    BY <2>1 DEF Steady
  <2>6. PICK C : C = Begin(draftCalls, Sent("apply", selected, [of |-> gen.shown.of]))
    OBVIOUS
  <2>7. CallsStep(C) /\ Stay(draftCalls, C, {"apply"}, {"apply"})
    BY <1>w, <2>2, <2>6, DraftAsks
  <2>4. CallsStep(draftCalls') /\ Stay(draftCalls, draftCalls', {"apply"}, {"apply"})
    BY <2>1, <2>6, <2>7
  <2>5. \A k \in Edits : k \notin {"apply"}
    BY DEF Edits
  <2> QED BY <1>t, <1>v, <2>1, <2>2, <2>4, <2>5
<1>13. ASSUME NEW s \in Signals, findSignalAndOpenDraft(s) PROVE DraftInv' /\ AsksChecked
  <2>1. /\ draftCalls' = Begin(draftCalls, Sent("find", s, [pending |-> gen.pending]))
        /\ UNCHANGED <<selected, gen, change, signalForm, unknown, misplaced>>
    BY <1>13 DEF findSignalAndOpenDraft
  <2>2. Steady
    BY <2>1 DEF Steady
  <2>6. PICK C : C = Begin(draftCalls, Sent("find", s, [pending |-> gen.pending]))
    OBVIOUS
  <2>7. CallsStep(C) /\ Stay(draftCalls, C, {"find"}, {"find"})
    BY <1>w, <2>2, <2>6, DraftAsks
  <2>4. CallsStep(draftCalls') /\ Stay(draftCalls, draftCalls', {"find"}, {"find"})
    BY <2>1, <2>6, <2>7
  <2>5. \A k \in Edits : k \notin {"find"}
    BY DEF Edits
  <2> QED BY <1>t, <1>v, <2>1, <2>2, <2>4, <2>5
<1>14. ASSUME NEW what \in Edits, ChangesDraft(what) PROVE DraftInv' /\ AsksChecked
  <2>1. PICK X : X = Withdrawn(draftCalls, {"load"})
    OBVIOUS
  <2>2. /\ draftCalls' = Begin(X, Sent(what, selected, [of |-> gen.shown.of]))
        /\ UNCHANGED <<selected, gen, signalForm, unknown, misplaced>>
        /\ change' = [pending |-> TRUE, error |-> FALSE, uncertain |-> FALSE]
        /\ ~gen.loading
    BY <1>14, <2>1 DEF ChangesDraft, StudioOpen
  <2>3. LeftOf(draftCalls, X, {"load"}) /\ Off(X, {"load"})
    BY <1>t, <2>1, WithdrawnLeaves
  <2>4. PICK C : C = Begin(X, Sent(what, selected, [of |-> gen.shown.of]))
    OBVIOUS
  <2>5. LeftOf(draftCalls, X, {"load", what})
    BY <2>3, LeftMore
  <2>6. /\ CallsOK(C) /\ Stay(draftCalls, C, {"load", what}, {"load", what}) /\ Has(C, {what})
        /\ \A c \in DOMAIN C : Fresh(c, what, selected, [of |-> gen.shown.of]) \/ c \in DOMAIN X
    BY <2>4, <2>5, BegunIs
  <2>7. CallsOK(X) /\ \A c \in DOMAIN X :
            \/ c \in DOMAIN draftCalls
            \/ c.kind # "generate" /\ ~c.on /\ \E d \in DOMAIN draftCalls : Follows(c, d)
    BY <2>3 DEF LeftOf, Off
  <2>8. CallsStep(X)
    BY <2>3, <2>7, DraftKept
  <2>9. CallsStep(C)
    BY <2>6, <2>8, DraftBegun DEF Edits
  <2>10. Has(draftCalls', Edits) /\ ChangeOK(change')
    BY <2>2, <2>4, <2>6, HasOne DEF ChangeOK
  <2>11. Shown' /\ Looked'
    BY <1>t, <2>2 DEF Shown, Looked
  <2>12. what \notin {"generate", "signal", "load"}
    BY DEF Edits
  <2>13. DraftWaits'
    BY <2>2, <2>4, <2>6, <2>10, <2>12, DraftGoesOn
  <2> QED BY <1>t, <2>2, <2>4, <2>9, <2>10, <2>11, <2>13, DraftDone
\* A generation is asked for.
<1>15. ASSUME Generates, ~gen.loading, ~gen.error \/ (gen.failed /\ ~gen.uncertain)
       PROVE  DraftInv' /\ AsksChecked
  <2>1. /\ selected # None
        /\ gen' = [gen EXCEPT !.pending = TRUE, !.error = FALSE, !.failed = FALSE, !.uncertain = FALSE]
        /\ change' = [change EXCEPT !.error = FALSE, !.uncertain = FALSE]
        /\ UNCHANGED <<selected, signalForm, unknown, misplaced>>
    BY <1>15 DEF Generates
  <2>2. PICK call : call = Sent("generate", selected, None)
    OBVIOUS
  <2>3. draftCalls' = Begin(draftCalls, call)
    BY <1>15, <2>2 DEF Generates
  <2>4. Fresh(call, "generate", selected, None)
    BY ONLY <2>2, SentIs
  <2>5. IsCall(call) /\ call.kind = "generate" /\ call.of = selected /\ call.at = "sent"
    BY <2>4 DEF Fresh
  <2>6. CallsOK(draftCalls') /\ DOMAIN draftCalls' = DOMAIN draftCalls \cup {call}
    BY <1>t, <2>3, <2>5, BeginIs
  <2>7. Stay(draftCalls, draftCalls', {}, {}) /\ Has(draftCalls', {"generate"})
    BY <1>t, <2>3, <2>5, BeginStays
  <2>8. selected \notin unknown \/ misplaced
    BY <1>t, <1>15, <2>1 DEF Looked
  <2>9. \A c \in DOMAIN draftCalls : DraftCall(c) /\ DraftLoad(c)'
    BY <2>1 DEF DraftInv, DraftLoad
  <2>10. DraftCall(call) /\ DraftLoad(call)'
    BY <2>5 DEF DraftCall, DraftLoad
  <2>11. AsksChecked
    BY <2>5, <2>6, <2>8 DEF AsksChecked
  <2>12. /\ GenOK(gen') /\ gen'.loading = gen.loading /\ gen'.shown = gen.shown
         /\ ChangeOK(change') /\ change'.pending = change.pending
    BY <1>t, <2>1 DEF GenOK, ChangeOK
  <2>13. DraftWaits'
    BY <2>1, <2>7, <2>12, DraftGoesOn
  <2>14. Shown' /\ Looked'
    BY <1>t, <2>1, <2>8, <2>12 DEF Shown, Looked
  <2>15. DraftTypes'
    BY <1>t, <2>1, <2>6, <2>12 DEF DraftTypes
  <2> QED BY <2>6, <2>9, <2>10, <2>11, <2>13, <2>14, <2>15 DEF DraftInv
<1>16. CASE handleGenerate
  BY <1>15, <1>16 DEF handleGenerate
<1>17. CASE onRetry
  <2>1. CASE RetryGenerates
    BY <1>15, <1>17, <2>1 DEF onRetry, RetryGenerates
  <2>2. CASE ~RetryGenerates
    <3>1. /\ change' = [change EXCEPT !.error = FALSE, !.uncertain = FALSE] /\ gen' = Loading(gen)
          /\ draftCalls' = LoadOf(draftCalls, selected)
          /\ UNCHANGED <<selected, signalForm, unknown, misplaced>>
      BY <1>17, <2>2 DEF onRetry
    <3>2. PICK X : X = Withdrawn(draftCalls, {"load"})
      OBVIOUS
    <3>3. draftCalls' = Begin(X, Sent("load", selected, None))
      BY <3>1, <3>2 DEF LoadOf
    <3>4. LeftOf(draftCalls, X, {"load"}) /\ Off(X, {"load"})
      BY <1>t, <3>2, WithdrawnLeaves
    <3>11. PICK C : C = Begin(X, Sent("load", selected, None))
      OBVIOUS
    <3>12. CallsStep(C) /\ Stay(draftCalls, C, {"load"}, {"load"}) /\ Wants(C, {"load"})
      BY <3>1, <3>4, <3>11, DraftAsks
    <3>5. /\ CallsStep(draftCalls') /\ Stay(draftCalls, draftCalls', {"load"}, {"load"})
          /\ Wants(draftCalls', {"load"})
      BY <3>3, <3>11, <3>12
    <3>6. /\ GenOK(gen') /\ gen'.loading /\ ~gen'.failed /\ gen'.pending = gen.pending /\ gen'.shown = gen.shown
      BY <1>t, <3>1, LoadingIs
    <3>7. ChangeOK(change') /\ change'.pending = change.pending
      BY <1>t, <3>1 DEF ChangeOK
    <3>8. Shown' /\ Looked'
      BY <1>t, <3>1, <3>6 DEF Shown, Looked
    <3>9. \A k \in Edits : k \notin {"load"}
      BY DEF Edits
    <3>10. DraftWaits'
      BY <3>1, <3>5, <3>6, <3>7, <3>9, DraftGoesOn
    <3> QED BY <1>t, <3>1, <3>5, <3>6, <3>7, <3>8, <3>10, DraftDone
  <2> QED BY <2>1, <2>2
<1>18. ASSUME NEW call \in BagToSet(draftCalls),
              \/ LoadReturns(call) \/ SignalsReturn(call) \/ SignalReturns(call) \/ GenerateReturns(call)
              \/ \E what \in Edits : ChangeReturns(what, call)
              \/ ApplyReturns(call) \/ FindReturns(call)
              \/ DraftAnswered(call) \/ DraftWritten(call) \/ DraftRefused(call)
       PROVE  DraftInv' /\ AsksChecked
  <2>1. CASE LoadReturns(call) \/ SignalsReturn(call)
    BY <2>1, LoadReturnsKeeps, SignalsReturnKeeps
  <2>2. CASE SignalReturns(call) \/ GenerateReturns(call)
    BY <2>2, SignalReturnsKeeps, GenerateReturnsKeeps
  <2>3. ASSUME NEW what \in Edits, ChangeReturns(what, call) PROVE DraftInv' /\ AsksChecked
    BY <2>3, ChangeReturnsKeeps
  <2>4. CASE ApplyReturns(call) \/ FindReturns(call)
    BY <2>4, ApplyReturnsKeeps, FindReturnsKeeps
  <2>5. CASE DraftAnswered(call) \/ DraftWritten(call) \/ DraftRefused(call)
    BY <2>5, AnswersKeep DEF BagToSet
  <2> QED BY <1>18, <2>1, <2>2, <2>3, <2>4, <2>5
<1>19. CASE handleSaveEditing \/ handleApprove \/ handleSchedule
  <2>1. "edit" \in Edits /\ "approve" \in Edits /\ "plan" \in Edits
    BY DEF Edits
  <2> QED BY <1>14, <1>19, <2>1 DEF handleSaveEditing, handleApprove, handleSchedule
<1> QED
  BY <1>1, <1>2, <1>3, <1>4, <1>5, <1>6, <1>7, <1>8, <1>9, <1>10, <1>11, <1>12, <1>13, <1>16, <1>17,
     <1>18, <1>19 DEF DraftsNext, Edits

LEMMA DraftWaitsFollow == DraftInv => DraftWaitsEnd /\ DraftsAreSelected
<1> SUFFICES ASSUME DraftInv PROVE DraftWaitsEnd /\ DraftsAreSelected
  OBVIOUS
<1>1. DraftWaitsEnd
  <2>1. /\ gen.loading => Wants(draftCalls, {"load"})
        /\ gen.pending => Has(draftCalls, {"generate"})
        /\ change.pending => Has(draftCalls, {"edit", "approve", "plan"})
        /\ signalForm.pending => Has(draftCalls, {"signal"})
    BY DEF DraftInv, DraftWaits, Edits
  <2> QED BY <2>1, WantsIs DEF DraftWaitsEnd
<1>2. DraftsAreSelected
  BY DEF DraftInv, Shown, DraftsAreSelected
<1> QED BY <1>1, <1>2

\* The step's new generations.
LEMMA AsksAreChecked ==
    AsksChecked => \A call \in BagToSet(draftCalls') \ BagToSet(draftCalls) :
                      call.kind = "generate" /\ call.at = "sent" => call.of \notin unknown \/ misplaced
BY DEF AsksChecked, BagToSet

-----------------------------------------------------------------------------
(* SourcesView.                                                            *)

ListOK(l)   == DOMAIN l = {"page", "filter", "data", "key", "held", "loading", "error", "due"}
DetailOK(d) == DOMAIN d = {"id", "source", "loading", "error", "searched", "notice", "notFound"}
EditOK(e) ==
    /\ DOMAIN e = {"on", "text", "expected", "pending", "checking", "error", "conflict", "uncertain"}
    /\ DOMAIN e.text = {"id", "ver", "typed"}
IndexOK(i)  == DOMAIN i = {"pending", "confirm", "error"}
GithubOK(g) == DOMAIN g = {"refresh", "loading"}
SearchOK(s) == DOMAIN s = {"results", "loading", "error"}

SourceTypes ==
    /\ CallsOK(sourceCalls)
    /\ ListOK(list) /\ DetailOK(detail) /\ EditOK(edit)
    /\ IndexOK(index) /\ GithubOK(github) /\ SearchOK(search)

SourceWaits ==
    /\ detail.loading => Wants(sourceCalls, DetailKinds)
    /\ edit.pending   => Wants(sourceCalls, {"save"})
    /\ edit.checking  => Wants(sourceCalls, {"check"})
    /\ index.pending  => Has(sourceCalls, {"index"})
    /\ deleting       => Has(sourceCalls, {"delete"})
    /\ github.loading => Has(sourceCalls, {"upstream", "refresh"})

\* This source is the one that is selected, if any is.
Belongs(id) == detail.id \in {None, id} \/ strayed

\* The requests that are answered with a source.
OneSource == {"view", "status", "save", "check", "index", "refresh", "delete"}

\* The request under way has an answer of its own source; one whose answer is
\* put under the selection without looking was made for what is selected
\* still, and a save builds on what it replaces.
SourceCall(c) ==
    /\ c.at = "read" /\ c.ans.code = "ok" /\ c.kind \in OneSource => c.ans.body.id = c.of
    /\ c.at = "read" => c.ans.code # "aborted"
    /\ c.kind = "index" => c.on
    /\ c.kind = "save" => c.arg.text.ver = c.arg.expected /\ (strayed \/ c.arg.text.id = c.of)
    /\ c.kind = "save" => signedOut \/ (c.on /\ edit.pending)
    /\ c.kind \in DetailKinds /\ c.on => Belongs(c.of)
    /\ c.kind = "index" => signedOut \/ (index.pending /\ Belongs(c.of))
    /\ c.kind = "save" /\ c.on => edit.pending
    /\ c.kind = "list" /\ c.on /\ c.at = "read" => ~signedOut \/ c.ans.code # "ok"

\* What is shown and what is edited are of the selected source, and while a
\* save is under way nothing else puts a source under the selection.
Own ==
    /\ detail.source # None => Belongs(detail.source.id)
    /\ edit.on => Belongs(edit.text.id) /\ edit.text.ver = edit.expected
    /\ edit.pending => edit.on /\ ~index.pending /\ Off(sourceCalls, DetailKinds)

AfterwardsOff == {"view", "status", "save", "check", "search"}

Over ==
    signedOut =>
       /\ detail.id = None /\ list.data = None /\ search.results = None
       /\ Off(sourceCalls, AfterwardsOff)

\* The requests X fit the state that follows.
Fits(X) ==
    /\ CallsOK(X) /\ Alone(X, "save") /\ Alone(X, "index")
    /\ \A c \in DOMAIN X : SourceCall(c)'

SourceInv ==
    /\ SourceTypes /\ SourceWaits /\ Own /\ Over
    /\ Alone(sourceCalls, "save") /\ Alone(sourceCalls, "index")
    /\ \A c \in DOMAIN sourceCalls : SourceCall(c)

LEMMA SourceStart == SourcesInit => SourceInv
<1> SUFFICES ASSUME SourcesInit PROVE SourceInv
  OBVIOUS
<1>1. DOMAIN sourceCalls = {} /\ CallsOK(sourceCalls)
  BY FS_EmptySet DEF SourcesInit, EmptyBag, SetToBag, CallsOK
<1>2. ListOK(list) /\ DetailOK(detail) /\ EditOK(edit) /\ IndexOK(index) /\ GithubOK(github) /\ SearchOK(search)
  BY DEF SourcesInit, NoList, NoDetail, NoEdit, NoText, NoSearch,
         ListOK, DetailOK, EditOK, IndexOK, GithubOK, SearchOK
<1>3. /\ ~detail.loading /\ detail.source = None /\ ~edit.on /\ ~edit.pending /\ ~edit.checking
      /\ ~index.pending /\ ~github.loading /\ deleting = FALSE /\ signedOut = FALSE
  BY DEF SourcesInit, NoDetail, NoEdit
<1>4. Own /\ Over /\ SourceWaits
  BY <1>3 DEF Own, Over, SourceWaits
<1> QED BY <1>1, <1>2, <1>4 DEF SourceInv, SourceTypes, Alone

\* No kind but these has new requests that are wanted.
Quiet(B, C, N) == \A k : k \notin N => (Off(B, {k}) => Off(C, {k}))

LEMMA OffOne == ASSUME NEW B, NEW K PROVE Off(B, K) <=> \A k \in K : Off(B, {k})
BY DEF Off

LEMMA LeftQuiet == ASSUME NEW B, NEW C, NEW K, LeftOf(B, C, K) PROVE Quiet(B, C, {})
BY DEF LeftOf, Off, Follows, Quiet

LEMMA QuietOff ==
    ASSUME NEW B, NEW C, NEW N, Quiet(B, C, N), NEW K, \A k \in K : k \notin N, Off(B, K)
    PROVE  Off(C, K)
BY OffOne DEF Quiet

LEMMA DetailsWithdrawnLeaves ==
    ASSUME NEW B, CallsOK(B)
    PROVE  LeftOf(B, DetailsWithdrawn(B), DetailKinds) /\ Off(DetailsWithdrawn(B), DetailKinds)
<1>1. PICK X : X = Aborted(B, {"status"})
  OBVIOUS
<1>2. PICK Y : Y = Overtaken(X, {"status"})
  OBVIOUS
<1>3. PICK Z : Z = Withdrawn(Y, {"view"})
  OBVIOUS
<1>4. LeftOf(B, X, {"status"}) /\ CallsOK(X)
  BY <1>1, AbortedLeaves DEF LeftOf
<1>5. LeftOf(X, Y, {"status"}) /\ Off(Y, {"status"}) /\ CallsOK(Y)
  BY <1>2, <1>4, OvertakenLeaves DEF LeftOf
<1>6. LeftOf(Y, Z, {"view"}) /\ Off(Z, {"view"})
  BY <1>3, <1>5, WithdrawnLeaves
<1>7. LeftOf(B, Y, {"status"} \cup {"status"})
  BY <1>4, <1>5, LeftOfLeft
<1>8. LeftOf(B, Z, ({"status"} \cup {"status"}) \cup {"view"})
  BY <1>6, <1>7, LeftOfLeft
<1>9. Off(Z, {"status"})
  BY <1>5, <1>6, OffStays
<1>10. Off(Z, DetailKinds)
  BY <1>6, <1>9 DEF Off, DetailKinds
<1>11. ({"status"} \cup {"status"}) \cup {"view"} = DetailKinds
  BY DEF DetailKinds
<1>12. Z = DetailsWithdrawn(B)
  BY <1>1, <1>2, <1>3 DEF DetailsWithdrawn
<1> QED BY <1>8, <1>10, <1>11, <1>12

LEMMA SourceGoesOn ==
    ASSUME SourceInv, NEW H, NEW W, Stay(sourceCalls, sourceCalls', H, W),
           detail'.loading => \/ Wants(sourceCalls', DetailKinds)
                              \/ detail.loading /\ \A k \in DetailKinds : k \notin W,
           edit'.pending  => Wants(sourceCalls', {"save"}) \/ (edit.pending /\ "save" \notin W),
           edit'.checking => Wants(sourceCalls', {"check"}) \/ (edit.checking /\ "check" \notin W),
           index'.pending => Has(sourceCalls', {"index"}) \/ (index.pending /\ "index" \notin H),
           deleting'      => Has(sourceCalls', {"delete"}) \/ (deleting /\ "delete" \notin H),
           github'.loading => \/ Has(sourceCalls', {"upstream", "refresh"})
                              \/ github.loading /\ "upstream" \notin H /\ "refresh" \notin H
    PROVE  SourceWaits'
<1>1. SourceWaits
  BY DEF SourceInv
<1>2. /\ edit'.pending  => Wants(sourceCalls', {"save"})
      /\ edit'.checking => Wants(sourceCalls', {"check"})
      /\ index'.pending => Has(sourceCalls', {"index"})
      /\ deleting'      => Has(sourceCalls', {"delete"})
  BY <1>1 DEF SourceWaits, Stay
<1>3. ASSUME detail'.loading, detail.loading, \A k \in DetailKinds : k \notin W
      PROVE  Wants(sourceCalls', DetailKinds)
  <2>1. PICK k \in DetailKinds : Wants(sourceCalls, {k})
    BY <1>1, <1>3, WantsOne DEF SourceWaits
  <2>2. Wants(sourceCalls', {k})
    BY <1>3, <2>1 DEF Stay
  <2> QED BY <2>2, WantsOne
<1>4. ASSUME github'.loading, github.loading, "upstream" \notin H, "refresh" \notin H
      PROVE  Has(sourceCalls', {"upstream", "refresh"})
  <2>1. PICK k \in {"upstream", "refresh"} : Has(sourceCalls, {k})
    BY <1>1, <1>4, HasOne DEF SourceWaits
  <2>2. Has(sourceCalls', {k})
    BY <1>4, <2>1 DEF Stay
  <2> QED BY <2>2, HasOne
<1> QED BY <1>2, <1>3, <1>4 DEF SourceWaits

\* No request of X depends any more on whether an answer strayed.
Settles(X) ==
    /\ ~Has(X, {"save"})
    /\ detail'.id = None \/ (Off(X, DetailKinds) /\ ~Has(X, {"index"}))

\* What a step does to the state that the requests X depend on.
Moves(X) ==
    /\ strayed => strayed' \/ Settles(X)
    /\ signedOut => signedOut'
    /\ Off(X, DetailKinds) \/ detail'.id \in {None, detail.id}
    /\ \/ signedOut' \/ ~Has(X, {"index"})
       \/ (index.pending => index'.pending) /\ detail'.id \in {None, detail.id}
    /\ Off(X, {"save"}) \/ (edit.pending => edit'.pending)
    /\ signedOut' \/ ~Has(X, {"save"}) \/ (edit.pending => edit'.pending)
    /\ Off(X, {"list"}) \/ (signedOut' => signedOut)

Calm ==
    /\ strayed => strayed'
    /\ signedOut' <=> signedOut
    /\ detail'.id \in {None, detail.id}
    /\ index.pending => index'.pending
    /\ edit.pending => edit'.pending

LEMMA CalmMoves == ASSUME Calm, NEW X PROVE Moves(X)
BY DEF Calm, Moves

LEMMA FollowsFits ==
    ASSUME NEW c, NEW d, Follows(c, d), SourceCall(d)', c.kind = "index" => c.on,
           c.kind = "save" => c.on \/ signedOut'
    PROVE  SourceCall(c)'
BY DEF SourceCall, Follows

LEMMA SourceMoves ==
    ASSUME SourceInv, NEW X, Moves(X), NEW c \in DOMAIN X, c.kind = "index" => c.on,
           c.kind = "save" => c.on \/ signedOut', NEW d \in DOMAIN sourceCalls, Follows(c, d)
    PROVE  SourceCall(c)'
<1>1. SourceCall(d)
  BY DEF SourceInv
<1>2. /\ c.at = "read" /\ c.ans.code = "ok" /\ c.kind \in OneSource => c.ans.body.id = c.of
      /\ c.at = "read" => c.ans.code # "aborted"
      /\ c.kind \in DetailKinds /\ c.on => Belongs(c.of)
      /\ c.kind = "index" => signedOut \/ (index.pending /\ Belongs(c.of))
      /\ c.kind = "save" => c.arg.text.ver = c.arg.expected /\ (strayed \/ c.arg.text.id = c.of)
      /\ c.kind = "save" => signedOut \/ edit.pending
      /\ c.kind = "save" /\ c.on => edit.pending
      /\ c.kind = "list" /\ c.on /\ c.at = "read" => ~signedOut \/ c.ans.code # "ok"
  BY <1>1 DEF SourceCall, Follows
<1>3. Belongs(c.of) /\ detail'.id \in {None, detail.id} /\ (strayed => strayed' \/ detail'.id = None)
        => Belongs(c.of)'
  BY DEF Belongs
<1>4. c.kind \in DetailKinds /\ c.on => Belongs(c.of)'
  BY <1>2, <1>3 DEF Moves, Settles, Off
<1>5. c.kind = "index" => signedOut' \/ (index'.pending /\ Belongs(c.of)')
  BY <1>2, <1>3 DEF Moves, Settles, Has
<1>6. c.kind = "save" /\ c.on => edit'.pending
  BY <1>2 DEF Moves, Off
<1>7. c.kind = "list" /\ c.on /\ c.at = "read" => ~signedOut' \/ c.ans.code # "ok"
  BY <1>2 DEF Moves, Off
<1>8. c.kind = "save" => c.arg.text.ver = c.arg.expected /\ (strayed' \/ c.arg.text.id = c.of)
  BY <1>2 DEF Moves, Settles, Has
<1>9. c.kind = "save" => signedOut' \/ (c.on /\ edit'.pending)
  BY <1>2 DEF Moves, Has
<1> QED BY <1>2, <1>4, <1>5, <1>6, <1>7, <1>8, <1>9 DEF SourceCall

\* What is left of the requests fits.
LEMMA SourceLeft ==
    ASSUME SourceInv, NEW X, NEW K, LeftOf(sourceCalls, X, K), "index" \notin K,
           "save" \notin K \/ (Off(X, {"save"}) /\ (signedOut' \/ ~Has(X, {"save"}))), Moves(X)
    PROVE  Fits(X)
<1>1. CallsOK(X) /\ Alone(X, "save") /\ Alone(X, "index")
  BY LeftAlone DEF SourceInv, LeftOf
<1>2. ASSUME NEW c \in DOMAIN X PROVE SourceCall(c)'
  <2>1. PICK d \in DOMAIN sourceCalls : Follows(c, d)
    BY DEF LeftOf
  <2>2. c.kind = "index" => c.on
    BY DEF LeftOf, SourceInv, SourceCall
  <2>3. c.kind = "save" => c.on \/ signedOut'
    <3>1. CASE "save" \notin K
      BY <3>1 DEF LeftOf, SourceInv, SourceCall, Moves
    <3>2. CASE signedOut' \/ ~Has(X, {"save"})
      BY <3>2 DEF Has
    <3> QED BY <3>1, <3>2
  <2> QED BY <2>1, <2>2, <2>3, SourceMoves
<1> QED BY <1>1, <1>2 DEF Fits

\* A handler goes on.
LEMMA SourceEnds ==
    ASSUME SourceInv, NEW call \in DOMAIN sourceCalls, NEW C, C = Ended(sourceCalls, call), Moves(C)
    PROVE  /\ Fits(C) /\ Quiet(sourceCalls, C, {})
           /\ Stay(sourceCalls, C, {call.kind}, {call.kind})
           /\ ~call.on => Stay(sourceCalls, C, {call.kind}, {})
<1>1. CallsOK(sourceCalls) /\ Alone(sourceCalls, "save") /\ Alone(sourceCalls, "index")
  BY DEF SourceInv, SourceTypes
<1>2. LeftOf(sourceCalls, C, {call.kind}) /\ \A c \in DOMAIN C : c \in DOMAIN sourceCalls
  BY <1>1, EndedIs
<1>3. CallsOK(C) /\ Alone(C, "save") /\ Alone(C, "index") /\ Quiet(sourceCalls, C, {})
  BY <1>1, <1>2, EndedAlone, LeftQuiet DEF LeftOf
<1>4. ASSUME NEW c \in DOMAIN C PROVE SourceCall(c)'
  <2>1. c \in DOMAIN sourceCalls /\ Follows(c, c)
    BY <1>2 DEF Follows
  <2>2. (c.kind = "index" => c.on) /\ (c.kind = "save" => c.on \/ signedOut')
    BY <2>1 DEF SourceInv, SourceCall, Moves
  <2> QED BY <2>1, <2>2, SourceMoves
<1>5. /\ Stay(sourceCalls, C, {call.kind}, {call.kind})
      /\ ~call.on => Stay(sourceCalls, C, {call.kind}, {})
  BY <1>1, EndedStays
<1> QED BY <1>3, <1>4, <1>5 DEF Fits

\* A request is made, of those that are left.
LEMMA SourceAsks ==
    ASSUME NEW X, Fits(X), NEW k, NEW of, NEW arg,
           k \in {"save", "index"} => Off(X, {k}),
           k = "save" => edit'.pending /\ arg.text.ver = arg.expected /\ (strayed' \/ arg.text.id = of),
           k \in DetailKinds => Belongs(of)',
           k = "index" => signedOut' \/ (index'.pending /\ Belongs(of)'),
           NEW C, C = Begin(X, Sent(k, of, arg))
    PROVE  Fits(C) /\ Stay(X, C, {}, {}) /\ Quiet(X, C, {k}) /\ Has(C, {k}) /\ Wants(C, {k})
<1>1. PICK call : call = Sent(k, of, arg)
  OBVIOUS
<1>2. Fresh(call, k, of, arg)
  BY ONLY <1>1, SentIs
<1>3. CallsOK(X) /\ IsCall(call) /\ call.kind = k /\ call.on
  BY <1>2 DEF Fresh, Fits
<1>4. C = Begin(X, call)
  BY <1>1
<1>5. CallsOK(C) /\ DOMAIN C = DOMAIN X \cup {call}
  <2>1. CallsOK(Begin(X, call)) /\ DOMAIN Begin(X, call) = DOMAIN X \cup {call}
    BY ONLY <1>3, BeginIs
  <2> QED BY ONLY <2>1, <1>4
<1>6. Stay(X, C, {}, {}) /\ Has(C, {k}) /\ Wants(C, {k})
  BY <1>3, <1>4, BeginStays
<1>7. Alone(C, "save") /\ Alone(C, "index")
  <2>1. Alone(X, "save") /\ Alone(X, "index")
    BY DEF Fits
  <2>2. ASSUME NEW j \in {"save", "index"}, Alone(X, j) PROVE Alone(C, j)
    BY <1>3, <1>4, <2>2, BeginAlone
  <2> QED BY <2>1, <2>2
<1>8. SourceCall(call)'
  BY <1>2 DEF SourceCall, Fresh, DetailKinds
<1>9. Quiet(X, C, {k})
  BY <1>3, <1>5 DEF Quiet, Off
<1> QED BY <1>5, <1>6, <1>7, <1>8, <1>9 DEF Fits

\* loadSources, of what is left of the requests and of the list.
LEMMA SourceLoads ==
    ASSUME NEW X, Fits(X), NEW l, ListOK(l), NEW p, NEW f, NEW force, Loads(l, X, p, f, force)
    PROVE  /\ Fits(sourceCalls') /\ Stay(X, sourceCalls', {"list"}, {"list"})
           /\ Quiet(X, sourceCalls', {"list"})
           /\ ListOK(list') /\ list'.data = l.data
<1>1. CASE Skips(l, p, f, force)
  <2>1. list' = l /\ sourceCalls' = X
    BY <1>1 DEF Loads
  <2> QED BY <2>1 DEF Stay, Quiet
<1>2. CASE ~Skips(l, p, f, force)
  <2>1. /\ list' = [l EXCEPT !.key = At(p, f), !.loading = TRUE, !.error = FALSE]
        /\ sourceCalls' = Begin(Withdrawn(X, {"list"}), Sent("list", None, At(p, f)))
    BY <1>2 DEF Loads, ListKinds
  <2>2. PICK Y : Y = Withdrawn(X, {"list"})
    OBVIOUS
  <2>3. CallsOK(X) /\ Alone(X, "save") /\ Alone(X, "index")
    BY DEF Fits
  <2>4. LeftOf(X, Y, {"list"})
    BY <2>2, <2>3, WithdrawnLeaves
  <2>5. CallsOK(Y) /\ Alone(Y, "save") /\ Alone(Y, "index") /\ Quiet(X, Y, {}) /\ Stay(X, Y, {"list"}, {"list"})
    <3>1. CallsOK(Y)
      BY <2>4 DEF LeftOf
    <3>2. Alone(Y, "save") /\ Alone(Y, "index")
      <4>1. "save" \notin {"list"} /\ "index" \notin {"list"}
        OBVIOUS
      <4> QED BY <2>3, <2>4, <4>1, LeftAlone
    <3>3. Quiet(X, Y, {}) /\ Stay(X, Y, {"list"}, {"list"})
      BY <2>4, LeftQuiet, LeftStays
    <3> QED BY <3>1, <3>2, <3>3
  <2>6. ASSUME NEW c \in DOMAIN Y PROVE SourceCall(c)'
    <3>1. PICK d \in DOMAIN X : Follows(c, d)
      BY <2>4 DEF LeftOf
    <3>2. SourceCall(d)'
      BY DEF Fits
    <3>3. (c.kind = "index" => c.on) /\ (c.kind = "save" => c.on \/ signedOut')
      <4>1. c.kind \in {"index", "save"} => c \in DOMAIN X
        BY <2>4 DEF LeftOf
      <4> QED BY <4>1 DEF Fits, SourceCall
    <3> QED BY <3>1, <3>2, <3>3, FollowsFits
  <2>7. Fits(Y)
    BY <2>5, <2>6 DEF Fits
  <2>8. PICK C : C = Begin(Y, Sent("list", None, At(p, f)))
    OBVIOUS
  <2>9. Fits(C) /\ Stay(Y, C, {}, {}) /\ Quiet(Y, C, {"list"})
    BY <2>7, <2>8, SourceAsks DEF DetailKinds
  <2>10. sourceCalls' = C
    BY <2>1, <2>2, <2>8
  <2>11. Stay(X, C, {"list"}, {"list"}) /\ Quiet(X, C, {"list"})
    BY <2>5, <2>9 DEF Stay, Quiet
  <2>12. ListOK(list') /\ list'.data = l.data
    BY <2>1 DEF ListOK
  <2> QED BY <2>9, <2>10, <2>11, <2>12
<1> QED BY <1>1, <1>2

LEMMA SourceRefreshes ==
    ASSUME NEW X, Fits(X), ListOK(list), NEW at, Refreshes(list, X, at)
    PROVE  /\ Fits(sourceCalls') /\ Stay(X, sourceCalls', {"list"}, {"list"})
           /\ Quiet(X, sourceCalls', {"list"})
           /\ ListOK(list') /\ list'.data = list.data
<1>1. PICK l : l = [list EXCEPT !.key = None, !.held = FALSE]
  OBVIOUS
<1>2. ListOK(l) /\ l.data = list.data
  BY <1>1 DEF ListOK
<1>3. Loads(l, X, at.page, at.filter, TRUE)
  BY <1>1 DEF Refreshes
<1> QED BY <1>2, <1>3, SourceLoads

LEMMA SourceDone ==
    ASSUME Fits(sourceCalls'), ListOK(list'), DetailOK(detail'), EditOK(edit'), IndexOK(index'),
           GithubOK(github'), SearchOK(search'), SourceWaits', Own', Over'
    PROVE  SourceInv'
BY DEF SourceInv, SourceTypes, Fits

\* A handler goes on with what became of its request.
LEMMA SourceResult ==
    ASSUME SourceInv, NEW k, NEW call \in Returning(sourceCalls, k), NEW out, out = Result(call)
    PROVE  /\ call \in DOMAIN sourceCalls /\ call.kind = k /\ IsCall(call) /\ SourceCall(call)
           /\ out.code = "ok" /\ k \in OneSource => out.body.id = call.of
           /\ out.code = "ok" => call.at = "read" /\ call.ans.code = "ok"
<1>1. call \in DOMAIN sourceCalls /\ call.kind = k /\ (call.at = "read" \/ call.cut)
  BY DEF Returning, Pending, BagToSet
<1>2. IsCall(call) /\ SourceCall(call)
  BY <1>1 DEF SourceInv, SourceTypes, CallsOK
<1>3. CASE call.cut
  <2>1. out.code = "aborted"
    BY <1>3 DEF Result, Reply
  <2> QED BY <1>1, <1>2, <2>1
<1>4. CASE ~call.cut
  <2>1. out = call.ans /\ call.at = "read"
    BY <1>1, <1>4 DEF Result
  <2> QED BY <1>1, <1>2, <2>1 DEF SourceCall
<1> QED BY <1>3, <1>4

LEMMA BelongsStays ==
    ASSUME NEW x, Belongs(x), detail'.id \in {None, detail.id}, strayed => strayed' PROVE Belongs(x)'
BY DEF Belongs

\* Nothing that the requests depend on changes.
LEMMA SourceStill ==
    ASSUME SourceInv, UNCHANGED <<sourceCalls, detail, github, search, deleting, signedOut, strayed>>,
           ListOK(list'), list'.data = list.data, IndexOK(index'), index'.pending <=> index.pending,
           EditOK(edit'), edit'.pending <=> edit.pending, edit'.checking => edit.checking,
           edit'.pending => edit'.on,
           edit'.on => \/ edit.on /\ edit'.text.id = edit.text.id /\ edit'.text.ver = edit.text.ver
                          /\ edit'.expected = edit.expected
                       \/ Belongs(edit'.text.id) /\ edit'.text.ver = edit'.expected
    PROVE  SourceInv'
<1>1. SourceTypes /\ SourceWaits /\ Own /\ Over
  BY DEF SourceInv
<1>2. Calm
  BY DEF Calm
<1>3. Fits(sourceCalls)
  <2>1. LeftOf(sourceCalls, sourceCalls, {})
    BY <1>1, LeftWhole DEF SourceTypes
  <2> QED BY <1>2, <2>1, CalmMoves, SourceLeft
<1>4. SourceWaits'
  BY <1>1 DEF SourceWaits
<1>5. Own'
  BY <1>1 DEF Own, Belongs
<1>6. Over'
  BY <1>1 DEF Over
<1> QED BY <1>1, <1>3, <1>4, <1>5, <1>6, SourceDone DEF SourceTypes

\* The details and the edit form do not change.
LEMMA SourceGoes ==
    ASSUME SourceInv, NEW H, NEW W, NEW N, Fits(sourceCalls'),
           Stay(sourceCalls, sourceCalls', H, W), Quiet(sourceCalls, sourceCalls', N),
           UNCHANGED <<detail, edit, index, signedOut, strayed>>,
           "view" \notin W, "status" \notin W, "save" \notin W, "check" \notin W, "index" \notin H,
           "view" \notin N, "status" \notin N,
           signedOut => N \subseteq {"list"} /\ list'.data = None /\ search'.results = None,
           ListOK(list'), GithubOK(github'), SearchOK(search'),
           deleting' => Has(sourceCalls', {"delete"}) \/ (deleting /\ "delete" \notin H),
           github'.loading => \/ Has(sourceCalls', {"upstream", "refresh"})
                              \/ github.loading /\ "upstream" \notin H /\ "refresh" \notin H
    PROVE  SourceInv'
<1>1. SourceTypes /\ SourceWaits /\ Own /\ Over
  BY DEF SourceInv
<1>2. SourceWaits'
  <2>1. \A k \in DetailKinds : k \notin W
    BY DEF DetailKinds
  <2> QED BY <2>1, SourceGoesOn
<1>3. Own'
  <2>1. \A k \in DetailKinds : k \notin N
    BY DEF DetailKinds
  <2>2. edit.pending => Off(sourceCalls', DetailKinds)
    BY <1>1, <2>1, QuietOff DEF Own
  <2> QED BY <1>1, <2>2 DEF Own, Belongs
<1>4. Over'
  <2>1. ASSUME signedOut PROVE Off(sourceCalls', AfterwardsOff)
    <3>1. \A k \in AfterwardsOff : k \notin N
      BY <2>1 DEF AfterwardsOff
    <3> QED BY <1>1, <2>1, <3>1, QuietOff DEF Over
  <2> QED BY <1>1, <2>1 DEF Over
<1> QED BY <1>1, <1>2, <1>3, <1>4, SourceDone DEF SourceTypes

\* So it is when the list is loaded.
LEMMA SourceListLoads ==
    ASSUME SourceInv, NEW l, ListOK(l), l.data = list.data, NEW p, NEW f, NEW force,
           Loads(l, sourceCalls, p, f, force),
           UNCHANGED <<detail, edit, index, github, search, deleting, signedOut, strayed>>
    PROVE  SourceInv'
<1>1. SourceTypes /\ SourceWaits /\ Own /\ Over
  BY DEF SourceInv
<1>2. Calm
  BY DEF Calm
<1>3. Fits(sourceCalls)
  <2>1. LeftOf(sourceCalls, sourceCalls, {})
    BY <1>1, LeftWhole DEF SourceTypes
  <2> QED BY <1>2, <2>1, CalmMoves, SourceLeft
<1>4. /\ Fits(sourceCalls') /\ Stay(sourceCalls, sourceCalls', {"list"}, {"list"})
      /\ Quiet(sourceCalls, sourceCalls', {"list"})
      /\ ListOK(list') /\ list'.data = list.data
  BY <1>3, SourceLoads
<1> QED BY <1>1, <1>4, SourceGoes DEF SourceTypes, Over

\* So it is when requests that are not for the details or the edit form are
\* withdrawn, or another is made.
LEMMA SourceWithdraws ==
    ASSUME SourceInv, NEW K, K \subseteq {"list", "search"},
           sourceCalls' = Withdrawn(sourceCalls, K), ListOK(list'), SearchOK(search'), ~signedOut,
           UNCHANGED <<detail, edit, index, github, deleting, signedOut, strayed>>
    PROVE  SourceInv'
<1>1. SourceTypes
  BY DEF SourceInv
<1>2. Calm
  BY DEF Calm
<1>3. PICK X : X = Withdrawn(sourceCalls, K)
  OBVIOUS
<1>4. LeftOf(sourceCalls, X, K)
  BY <1>1, <1>3, WithdrawnLeaves DEF SourceTypes
<1>5. "index" \notin K /\ "save" \notin K
  OBVIOUS
<1>6. Fits(X)
  BY <1>2, <1>4, <1>5, CalmMoves, SourceLeft
<1>7. Stay(sourceCalls, X, K, K) /\ Quiet(sourceCalls, X, {})
  BY <1>4, LeftStays, LeftQuiet
<1> QED BY <1>1, <1>3, <1>6, <1>7, SourceGoes DEF SourceTypes

LEMMA SourceMakes ==
    ASSUME SourceInv, NEW X, NEW K, K \subseteq {"search"}, LeftOf(sourceCalls, X, K),
           NEW k \in {"delete", "upstream", "refresh", "search"}, NEW of, NEW arg,
           sourceCalls' = Begin(X, Sent(k, of, arg)),
           UNCHANGED <<list, detail, edit, index, signedOut, strayed>>,
           ~signedOut, GithubOK(github'), SearchOK(search'),
           deleting' => deleting \/ k = "delete",
           github'.loading => github.loading \/ k \in {"upstream", "refresh"}
    PROVE  SourceInv'
<1>1. SourceTypes
  BY DEF SourceInv
<1>2. Calm
  BY DEF Calm
<1>3. "index" \notin K /\ "save" \notin K
  OBVIOUS
<1>4. Fits(X)
  BY <1>2, <1>3, CalmMoves, SourceLeft
<1>5. Stay(sourceCalls, X, K, K) /\ Quiet(sourceCalls, X, {})
  BY LeftStays, LeftQuiet
<1>6. PICK C : C = Begin(X, Sent(k, of, arg))
  OBVIOUS
<1>7. k \notin {"save", "index"} /\ k \notin DetailKinds
  BY DEF DetailKinds
<1>8. Fits(C) /\ Stay(X, C, {}, {}) /\ Quiet(X, C, {k}) /\ Has(C, {k})
  BY <1>4, <1>6, <1>7, SourceAsks
<1>9. Stay(sourceCalls, C, K, K) /\ Quiet(sourceCalls, C, {k})
  BY <1>5, <1>8 DEF Stay, Quiet
<1>10. k \in {"upstream", "refresh"} => Has(C, {"upstream", "refresh"})
  BY <1>8 DEF Has
<1>11. "delete" \notin K /\ "upstream" \notin K /\ "refresh" \notin K /\ "view" \notin K /\ "status" \notin K
       /\ "check" \notin K
  OBVIOUS
<1>12. "view" \notin {k} /\ "status" \notin {k}
  OBVIOUS
<1>13. sourceCalls' = C
  BY <1>6
<1> QED BY <1>1, <1>3, <1>8, <1>9, <1>10, <1>11, <1>12, <1>13, SourceGoes DEF SourceTypes

\* So it is when a handler goes on that is not for the details or the edit form.
LEMMA SourceLeaves ==
    ASSUME SourceInv, NEW k, NEW call \in Returning(sourceCalls, k), k \in {"list", "upstream", "search"},
           sourceCalls' = Ended(sourceCalls, call),
           UNCHANGED <<detail, edit, index, deleting, signedOut, strayed>>,
           ListOK(list'), GithubOK(github'), SearchOK(search'),
           signedOut => list'.data = None /\ search'.results = None,
           github'.loading => k # "upstream" /\ github.loading
    PROVE  SourceInv'
<1>1. Calm
  BY DEF Calm
<1>2. PICK C : C = Ended(sourceCalls, call)
  OBVIOUS
<1>3. call \in DOMAIN sourceCalls /\ call.kind = k
  BY DEF Returning, Pending, BagToSet
<1>4. Moves(C)
  BY <1>1, CalmMoves
<1>5. Fits(C) /\ Quiet(sourceCalls, C, {}) /\ Stay(sourceCalls, C, {k}, {k})
  BY <1>2, <1>3, <1>4, SourceEnds
<1>6. "view" \notin {k} /\ "status" \notin {k} /\ "save" \notin {k} /\ "check" \notin {k} /\ "index" \notin {k}
      /\ "delete" \notin {k} /\ "refresh" \notin {k} /\ (k # "upstream" => "upstream" \notin {k})
  OBVIOUS
<1>7. sourceCalls' = C
  BY <1>2
<1> QED BY <1>5, <1>6, <1>7, SourceGoes

LEMMA SourceAnswerKeeps ==
    ASSUME SourceInv, NEW call \in DOMAIN sourceCalls, NEW out, out.code # "aborted",
           out.code = "ok" /\ call.kind \in OneSource => out.body.id = call.of,
           call.kind = "list" /\ signedOut => out.code # "ok",
           sourceCalls' = Answered(sourceCalls, call, out),
           UNCHANGED <<list, detail, edit, index, github, search, deleting, signedOut, strayed>>
    PROVE  SourceInv'
<1>1. SourceTypes /\ Own /\ Over /\ SourceCall(call) /\ CallsOK(sourceCalls) /\ IsCall(call)
      /\ Alone(sourceCalls, "save") /\ Alone(sourceCalls, "index")
  BY DEF SourceInv, SourceTypes, CallsOK
<1>2. PICK C : C = Answered(sourceCalls, call, out)
  OBVIOUS
<1>3. PICK r : r = Read(call, out)
  OBVIOUS
<1>4. /\ IsCall(r) /\ r.kind = call.kind /\ r.of = call.of /\ r.arg = call.arg /\ r.on = call.on
      /\ r.at = "read" /\ r.ans = out
  BY <1>1, <1>3, ReadIs
<1>5. CallsOK(C) /\ \A c \in DOMAIN C : c = r \/ c \in DOMAIN Ended(sourceCalls, call)
  BY <1>1, <1>2, <1>3, AnsweredIs
<1>6. \A c \in DOMAIN C : c = r \/ c \in DOMAIN sourceCalls
  BY <1>1, <1>5, EndedIs
<1>7. SourceCall(r)'
  BY <1>1, <1>4 DEF SourceCall, Belongs
<1>8. ASSUME NEW c \in DOMAIN sourceCalls PROVE SourceCall(c)'
  BY DEF SourceInv, SourceCall, Belongs
<1>9. Alone(C, "save") /\ Alone(C, "index")
  BY <1>1, <1>2, AnsweredAlone
<1>10. Fits(C)
  BY <1>5, <1>6, <1>7, <1>8, <1>9 DEF Fits
<1>11. Stay(sourceCalls, C, {}, {})
  BY <1>1, <1>2, AnsweredStays
<1>12. Quiet(sourceCalls, C, {})
  BY <1>4, <1>6 DEF Quiet, Off
<1>13. sourceCalls' = C
  BY <1>2
<1> QED BY <1>1, <1>10, <1>11, <1>12, <1>13, SourceGoes DEF SourceTypes, Over

\* Nobody waits for an indexing or a save that the screen does not know of.
LEMMA NoIndexing ==
    ASSUME SourceInv, ~signedOut, ~index.pending PROVE ~Has(sourceCalls, {"index"})
BY DEF SourceInv, SourceCall, Has

LEMMA NoSave == ASSUME SourceInv, ~edit.pending PROVE Off(sourceCalls, {"save"})
BY DEF SourceInv, SourceCall, Off

LEMMA NoSaving ==
    ASSUME SourceInv, ~signedOut, ~edit.pending PROVE ~Has(sourceCalls, {"save"})
BY DEF SourceInv, SourceCall, Has

LEMMA LeftHasNot ==
    ASSUME NEW B, NEW C, NEW K, LeftOf(B, C, K), NEW k, ~Has(B, {k}) PROVE ~Has(C, {k})
BY DEF LeftOf, Has, Follows

LEMMA HasNotOff == ASSUME NEW B, NEW k, ~Has(B, {k}) PROVE Off(B, {k})
BY DEF Has, Off

LEMMA NoEditIs == EditOK(NoEdit) /\ ~NoEdit.on /\ ~NoEdit.pending /\ ~NoEdit.checking
BY DEF NoEdit, NoText, EditOK

LEMMA NoDetailIs ==
    /\ DetailOK(NoDetail) /\ NoDetail.id = None /\ NoDetail.source = None /\ ~NoDetail.loading
    /\ \A s, n : /\ DetailOK([NoDetail EXCEPT !.id = s, !.loading = TRUE, !.searched = n])
                 /\ [NoDetail EXCEPT !.id = s, !.loading = TRUE, !.searched = n].id = s
                 /\ [NoDetail EXCEPT !.id = s, !.loading = TRUE, !.searched = n].source = None
BY DEF NoDetail, DetailOK

LEMMA ViewDetailsKeeps ==
    ASSUME SourceInv, NEW s, NEW matched, handleViewDetails(s, matched) PROVE SourceInv'
<1>t. SourceTypes /\ SourceWaits /\ Own /\ Over /\ CallsOK(sourceCalls)
  BY DEF SourceInv, SourceTypes
<1>1. /\ ~signedOut /\ ~index.pending /\ ~deleting /\ ~edit.pending /\ edit' = NoEdit
      /\ detail' = [NoDetail EXCEPT !.id = s, !.loading = TRUE, !.searched = matched]
      /\ index' = [index EXCEPT !.confirm = FALSE, !.error = FALSE]
      /\ sourceCalls' = Begin(DetailsWithdrawn(sourceCalls), Sent("view", s, Here))
      /\ UNCHANGED <<list, github, search, deleting, signedOut>>
  BY DEF handleViewDetails, Clicks
<1>2. PICK X : X = DetailsWithdrawn(sourceCalls)
  OBVIOUS
<1>3. LeftOf(sourceCalls, X, DetailKinds) /\ Off(X, DetailKinds)
  BY <1>t, <1>2, DetailsWithdrawnLeaves
<1>4. ~Has(X, {"index"}) /\ ~Has(X, {"save"}) /\ Off(X, {"save"})
  BY <1>1, <1>3, NoIndexing, NoSaving, LeftHasNot, HasNotOff
<1>5. Moves(X)
  BY <1>1, <1>3, <1>4 DEF Moves, Settles
<1>6. "index" \notin DetailKinds /\ "save" \notin DetailKinds /\ "delete" \notin DetailKinds
      /\ "upstream" \notin DetailKinds /\ "refresh" \notin DetailKinds
  BY DEF DetailKinds
<1>7. Fits(X)
  BY <1>3, <1>5, <1>6, SourceLeft
<1>8. DetailOK(detail') /\ detail'.id = s /\ detail'.source = None
  BY <1>1, NoDetailIs
<1>9. Belongs(s)'
  BY <1>8 DEF Belongs
<1>10. PICK C : C = Begin(X, Sent("view", s, Here))
  OBVIOUS
<1>11. Fits(C) /\ Stay(X, C, {}, {}) /\ Wants(C, {"view"})
  BY <1>7, <1>9, <1>10, SourceAsks
<1>12. sourceCalls' = C
  BY <1>1, <1>2, <1>10
<1>13. Stay(sourceCalls, C, DetailKinds, DetailKinds)
  BY <1>3, <1>11, LeftStays DEF Stay
<1>14. EditOK(edit') /\ ~edit'.on /\ ~edit'.pending /\ ~edit'.checking
  BY <1>1, NoEditIs
<1>15. IndexOK(index') /\ ~index'.pending
  BY <1>t, <1>1 DEF IndexOK, SourceTypes
<1>16. SourceWaits'
  <2>1. Wants(C, DetailKinds)
    BY <1>11 DEF Wants, DetailKinds
  <2> QED BY <1>1, <1>6, <1>12, <1>13, <1>14, <1>15, <2>1, SourceGoesOn
<1>17. Own'
  BY <1>8, <1>14 DEF Own
<1>18. Over'
  BY <1>1 DEF Over
<1> QED BY <1>t, <1>1, <1>8, <1>11, <1>12, <1>14, <1>15, <1>16, <1>17, <1>18, SourceDone DEF SourceTypes

\* An answer is put under the selection, or not: the edit form does not
\* change, and the list is loaded again or not.
LEMMA SourceAnswers ==
    ASSUME SourceInv, NEW k, NEW call \in Returning(sourceCalls, k), k \notin {"save", "check"},
           NEW X, X = Ended(sourceCalls, call),
           (\E at : Refreshes(list, X, at)) \/ (list' = list /\ sourceCalls' = X)
              \/ (~signedOut /\ ListOK(list') /\ sourceCalls' = X),
           DetailOK(detail'), detail'.id \in {None, detail.id},
           (detail.source # None => Belongs(detail.source.id))',
           detail'.loading => detail.loading /\ (k \in DetailKinds => k = "view" /\ ~call.on),
           IndexOK(index'),
           IF k = "index" THEN ~index'.pending ELSE index'.pending <=> index.pending,
           deleting' => deleting /\ k # "delete",
           GithubOK(github'), github'.loading => github.loading /\ k \notin {"upstream", "refresh"},
           SearchOK(search'), signedOut => search'.results = None,
           strayed => strayed', UNCHANGED <<edit, signedOut>>
    PROVE  SourceInv'
<1>t. SourceTypes /\ SourceWaits /\ Own /\ Over /\ CallsOK(sourceCalls)
      /\ Alone(sourceCalls, "index")
  BY DEF SourceInv, SourceTypes
<1>1. call \in DOMAIN sourceCalls /\ call.kind = k /\ IsCall(call) /\ SourceCall(call)
  BY DEF Returning, Pending, BagToSet, SourceInv, SourceTypes, CallsOK
<1>2. Moves(X)
  <2>1. ASSUME k = "index" PROVE ~Has(X, {"index"})
    <3>1. call.on
      BY <1>1, <2>1 DEF SourceCall
    <3>2. Off(X, {"index"})
      BY <1>t, <1>1, <2>1, <3>1, EndedAlone
    <3>3. \A c \in DOMAIN X : c \in DOMAIN sourceCalls
      BY <1>t, EndedIs
    <3>4. \A c \in DOMAIN X : c.kind = "index" => c.on
      BY <3>3 DEF SourceInv, SourceCall
    <3> QED BY <3>2, <3>4 DEF Has, Off
  <2> QED BY <2>1 DEF Moves
<1>3. /\ Fits(X) /\ Quiet(sourceCalls, X, {})
      /\ Stay(sourceCalls, X, {k}, {k})
      /\ ~call.on => Stay(sourceCalls, X, {k}, {})
  BY <1>1, <1>2, SourceEnds
<1>4. /\ Fits(sourceCalls') /\ ListOK(list') /\ (signedOut => list'.data = None)
      /\ Stay(X, sourceCalls', {"list"}, {"list"}) /\ Quiet(X, sourceCalls', {"list"})
  <2>1. ASSUME NEW at, Refreshes(list, X, at)
        PROVE  /\ Fits(sourceCalls') /\ ListOK(list') /\ (signedOut => list'.data = None)
               /\ Stay(X, sourceCalls', {"list"}, {"list"}) /\ Quiet(X, sourceCalls', {"list"})
    <3>1. ListOK(list)
      BY <1>t DEF SourceTypes
    <3>2. /\ Fits(sourceCalls') /\ Stay(X, sourceCalls', {"list"}, {"list"})
          /\ Quiet(X, sourceCalls', {"list"}) /\ ListOK(list') /\ list'.data = list.data
      BY <1>3, <2>1, <3>1, SourceRefreshes
    <3> QED BY <1>t, <3>2 DEF Over
  <2>2. CASE sourceCalls' = X /\ ListOK(list') /\ (signedOut => list' = list)
    BY <1>t, <1>3, <2>2 DEF Stay, Quiet, Over
  <2> QED BY <1>t, <2>1, <2>2 DEF SourceTypes
<1>5. /\ Quiet(sourceCalls, sourceCalls', {"list"})
      /\ Stay(sourceCalls, sourceCalls', {k, "list"}, {k, "list"})
      /\ ~call.on => Stay(sourceCalls, sourceCalls', {k, "list"}, {"list"})
  BY <1>3, <1>4 DEF Stay, Quiet
<1>6. \A j \in DetailKinds : j \notin {"list"}
  BY DEF DetailKinds
<1>7. SourceWaits'
  <2>1. k \in DetailKinds \/ \A j \in DetailKinds : j \notin {k, "list"}
    BY DEF DetailKinds
  <2>2. /\ "save" \notin {k, "list"} /\ "check" \notin {k, "list"}
        /\ k # "index" => "index" \notin {k, "list"}
        /\ k # "delete" => "delete" \notin {k, "list"}
        /\ k \notin {"upstream", "refresh"} => "upstream" \notin {k, "list"} /\ "refresh" \notin {k, "list"}
        /\ "save" \notin {"list"} /\ "check" \notin {"list"}
    OBVIOUS
  <2>3. CASE detail'.loading /\ k \in DetailKinds
    <3>1. k = "view" /\ ~call.on /\ detail.loading
      BY <2>3
    <3>2. Stay(sourceCalls, sourceCalls', {k, "list"}, {"list"})
      BY <1>5, <3>1
    <3> QED BY <1>6, <2>2, <3>1, <3>2, SourceGoesOn
  <2>4. CASE ~(detail'.loading /\ k \in DetailKinds)
    BY <1>5, <2>1, <2>2, <2>4, SourceGoesOn
  <2> QED BY <2>3, <2>4
<1>8. Own'
  <2>1. edit.pending => Off(sourceCalls', DetailKinds)
    BY <1>t, <1>5, <1>6, QuietOff DEF Own
  <2>2. edit.on => Belongs(edit.text.id)'
    BY <1>t, BelongsStays DEF Own
  <2> QED BY <1>t, <2>1, <2>2 DEF Own
<1>9. Over'
  <2>1. \A j \in AfterwardsOff : j \notin {"list"}
    BY DEF AfterwardsOff
  <2>2. signedOut => Off(sourceCalls', AfterwardsOff)
    BY <1>t, <1>5, <2>1, QuietOff DEF Over
  <2> QED BY <1>t, <1>4, <2>2 DEF Over
<1>10. EditOK(edit')
  BY <1>t DEF SourceTypes
<1> QED BY <1>4, <1>7, <1>8, <1>9, <1>10, SourceDone

LEMMA ViewReturnsKeeps ==
    ASSUME SourceInv, NEW call, ViewReturns(call) PROVE SourceInv'
<1>t. SourceTypes /\ SourceWaits /\ Own /\ Over
  BY DEF SourceInv, SourceTypes
<1> DEFINE done == [detail EXCEPT !.loading = IF call.on THEN FALSE ELSE @]
<1>1. PICK out : out = Result(call)
  OBVIOUS
<1>2. PICK X : X = Ended(sourceCalls, call)
  OBVIOUS
<1>3. /\ call \in Returning(sourceCalls, "view")
      /\ (\E at : Refreshes(list, X, at)) \/ (list' = list /\ sourceCalls' = X)
      /\ UNCHANGED <<edit, index, github, search, deleting, signedOut, strayed>>
      /\ detail' =
             IF out.code = "aborted" \/ ~call.on THEN done
             ELSE CASE out.code = "ok" ->
                         [done EXCEPT !.source = out.body,
                                      !.notice = @ \/ detail.searched \notin {0, out.body.ver}]
                    [] out.code = "gone" ->
                         IF detail.searched # 0
                         THEN [done EXCEPT !.error = TRUE, !.notFound = TRUE]
                         ELSE [done EXCEPT !.error = TRUE, !.id = None]
                    [] OTHER -> [done EXCEPT !.error = TRUE]
  BY <1>1, <1>2 DEF ViewReturns, ViewIsWanted
<1>4. /\ call.kind = "view" /\ IsCall(call) /\ SourceCall(call)
      /\ out.code = "ok" => out.body.id = call.of
  BY <1>1, <1>3, SourceResult DEF OneSource
<1>5. DetailOK(done) /\ done.id = detail.id /\ done.source = detail.source
      /\ (done.loading => detail.loading /\ ~call.on)
  BY <1>t DEF SourceTypes, DetailOK
<1> HIDE DEF done
<1>6. PICK n : n = (done.notice \/ detail.searched \notin {0, out.body.ver})
  OBVIOUS
<1>7. /\ DetailOK(detail') /\ (detail'.loading => detail.loading /\ ~call.on)
      /\ detail'.id \in {None, detail.id}
      /\ \/ detail'.source = detail.source
         \/ call.on /\ out.code = "ok" /\ detail'.source = out.body
  <2>1. \/ detail' = done \/ detail' = [done EXCEPT !.error = TRUE, !.notFound = TRUE]
        \/ detail' = [done EXCEPT !.error = TRUE, !.id = None] \/ detail' = [done EXCEPT !.error = TRUE]
        \/ call.on /\ out.code = "ok" /\ detail' = [done EXCEPT !.source = out.body, !.notice = n]
    BY <1>3, <1>6
  <2> QED BY <1>5, <2>1 DEF DetailOK
<1>8. detail'.source # None => Belongs(detail.source.id)'
  <2>1. CASE detail'.source = detail.source
    BY <1>t, <1>3, <1>7, <2>1 DEF Own, Belongs
  <2>2. CASE call.on /\ out.code = "ok" /\ detail'.source = out.body
    BY <1>3, <1>4, <1>7, <2>2 DEF Belongs, SourceCall, DetailKinds
  <2> QED BY <1>7, <2>1, <2>2
<1>9. "view" \notin {"save", "check"} /\ "view" # "index" /\ "view" # "delete" /\ "view" \notin {"upstream", "refresh"}
  OBVIOUS
<1> QED BY <1>t, <1>2, <1>3, <1>7, <1>8, <1>9, SourceAnswers DEF SourceTypes, Over

LEMMA StatusReturnsKeeps ==
    ASSUME SourceInv, NEW call, StatusReturns(call) PROVE SourceInv'
<1>t. SourceTypes /\ SourceWaits /\ Own /\ Over
  BY DEF SourceInv, SourceTypes
<1> DEFINE done == [detail EXCEPT !.loading = FALSE]
<1>1. PICK out : out = Result(call)
  OBVIOUS
<1>2. PICK X : X = Ended(sourceCalls, call)
  OBVIOUS
<1>3. /\ call \in Returning(sourceCalls, "status")
      /\ \/ \E at : Refreshes(list, X, at)
         \/ list' = list /\ sourceCalls' = X
         \/ call.on /\ list' = [list EXCEPT !.data = call.arg.data, !.held = TRUE] /\ sourceCalls' = X
      /\ UNCHANGED <<edit, index, github, search, deleting, signedOut, strayed>>
      /\ detail' =
             IF ~call.on \/ out.code = "aborted" THEN done
             ELSE CASE out.code = "ok" -> [done EXCEPT !.source = out.body]
                    [] out.code = "gone" -> [done EXCEPT !.error = TRUE, !.id = None, !.source = None]
                    [] OTHER -> [done EXCEPT !.error = TRUE]
  BY <1>1, <1>2 DEF StatusReturns
<1>4. /\ call \in DOMAIN sourceCalls /\ call.kind = "status" /\ IsCall(call) /\ SourceCall(call)
      /\ out.code = "ok" => out.body.id = call.of
  BY <1>1, <1>3, SourceResult DEF OneSource
<1>5. DetailOK(done) /\ done.id = detail.id /\ done.source = detail.source /\ ~done.loading
  BY <1>t DEF SourceTypes, DetailOK
<1> HIDE DEF done
<1>7. /\ DetailOK(detail') /\ ~detail'.loading
      /\ detail'.id \in {None, detail.id}
      /\ \/ detail'.source \in {None, detail.source}
         \/ call.on /\ out.code = "ok" /\ detail'.source = out.body
  <2>1. \/ detail' = done \/ detail' = [done EXCEPT !.error = TRUE, !.id = None, !.source = None]
        \/ detail' = [done EXCEPT !.error = TRUE]
        \/ call.on /\ out.code = "ok" /\ detail' = [done EXCEPT !.source = out.body]
    BY <1>3
  <2> QED BY <1>5, <2>1 DEF DetailOK
<1>8. detail'.source # None => Belongs(detail.source.id)'
  <2>1. CASE detail'.source \in {None, detail.source}
    BY <1>t, <1>3, <1>7, <2>1 DEF Own, Belongs
  <2>2. CASE call.on /\ out.code = "ok" /\ detail'.source = out.body
    BY <1>3, <1>4, <1>7, <2>2 DEF Belongs, SourceCall, DetailKinds
  <2> QED BY <1>7, <2>1, <2>2
<1>9. "status" \notin {"save", "check"} /\ "status" # "index" /\ "status" # "delete"
      /\ "status" \notin {"upstream", "refresh"}
  OBVIOUS
<1>10. call.on => ~signedOut
  BY <1>t, <1>4 DEF Over, Off, AfterwardsOff
<1>11. \/ \E at : Refreshes(list, X, at)
       \/ list' = list /\ sourceCalls' = X
       \/ ~signedOut /\ ListOK(list') /\ sourceCalls' = X
  BY <1>t, <1>3, <1>10 DEF SourceTypes, ListOK
<1> QED BY <1>t, <1>2, <1>3, <1>7, <1>8, <1>9, <1>11, SourceAnswers DEF SourceTypes, Over

LEMMA DeleteReturnsKeeps ==
    ASSUME SourceInv, NEW call, DeleteReturns(call) PROVE SourceInv'
<1>t. SourceTypes /\ SourceWaits /\ Own /\ Over
  BY DEF SourceInv, SourceTypes
<1>1. PICK out : out = Result(call)
  OBVIOUS
<1>2. PICK X : X = Ended(sourceCalls, call)
  OBVIOUS
<1>6. PICK e : e = (out.code = "gone")
  OBVIOUS
<1>3. /\ call \in Returning(sourceCalls, "delete") /\ deleting' = FALSE
      /\ (\E at : Refreshes(list, X, at)) \/ (list' = list /\ sourceCalls' = X)
      /\ UNCHANGED <<edit, index, github, signedOut, strayed>>
      /\ \/ detail' = [detail EXCEPT !.id = None, !.source = None, !.error = e]
         \/ detail' = [detail EXCEPT !.error = TRUE]
      /\ search' = search \/ search' = [search EXCEPT !.results = None, !.error = FALSE]
  BY <1>1, <1>2, <1>6 DEF DeleteReturns
<1>7. /\ DetailOK(detail') /\ (detail'.loading => detail.loading)
      /\ detail'.id \in {None, detail.id} /\ detail'.source \in {None, detail.source}
  BY <1>t, <1>3 DEF SourceTypes, DetailOK
<1>8. detail'.source # None => Belongs(detail.source.id)'
  BY <1>t, <1>3, <1>7 DEF Own, Belongs
<1>9. "delete" \notin {"save", "check"} /\ "delete" # "index" /\ "delete" \notin {"upstream", "refresh"}
      /\ "delete" \notin DetailKinds
  BY DEF DetailKinds
<1>10. SearchOK(search') /\ (signedOut => search'.results = None)
  BY <1>t, <1>3 DEF SourceTypes, SearchOK, Over
<1> QED BY <1>t, <1>2, <1>3, <1>7, <1>8, <1>9, <1>10, SourceAnswers DEF SourceTypes

LEMMA IndexReturnsKeeps ==
    ASSUME SourceInv, NEW call, IndexReturns(call) PROVE SourceInv'
<1>t. SourceTypes /\ SourceWaits /\ Own /\ Over
  BY DEF SourceInv, SourceTypes
<1>1. PICK out : out = Result(call)
  OBVIOUS
<1>2. PICK X : X = Ended(sourceCalls, call)
  OBVIOUS
<1>3. /\ call \in Returning(sourceCalls, "index")
      /\ (\E at : Refreshes(list, X, at)) \/ (list' = list /\ sourceCalls' = X)
      /\ UNCHANGED <<edit, github, search, deleting, signedOut, strayed>>
      /\ \/ out.code = "ok" /\ detail' = [detail EXCEPT !.source = out.body]
         \/ detail' = [detail EXCEPT !.error = TRUE, !.id = None, !.source = None]
         \/ detail' = detail
      /\ DOMAIN index' = {"pending", "confirm", "error"} /\ index'.pending = FALSE
  BY <1>1, <1>2 DEF IndexReturns
<1>4. SourceCall(call) /\ call.kind = "index" /\ (out.code = "ok" => out.body.id = call.of)
  BY <1>1, <1>3, SourceResult DEF OneSource
<1>7. /\ DetailOK(detail') /\ (detail'.loading => detail.loading)
      /\ detail'.id \in {None, detail.id}
      /\ \/ detail'.source \in {None, detail.source}
         \/ out.code = "ok" /\ detail'.source = out.body
  BY <1>t, <1>3 DEF SourceTypes, DetailOK
<1>8. detail'.source # None => Belongs(detail.source.id)'
  <2>1. CASE detail'.source \in {None, detail.source}
    BY <1>t, <1>3, <1>7, <2>1 DEF Own, Belongs
  <2>2. CASE out.code = "ok" /\ detail'.source = out.body
    <3>1. Belongs(call.of)
      BY <1>t, <1>4 DEF SourceCall, Over, Belongs
    <3> QED BY <1>3, <1>4, <1>7, <2>2, <3>1 DEF Belongs
  <2> QED BY <1>7, <2>1, <2>2
<1>9. "index" \notin {"save", "check"} /\ "index" # "delete" /\ "index" \notin {"upstream", "refresh"}
      /\ "index" \notin DetailKinds
  BY DEF DetailKinds
<1>10. IndexOK(index') /\ ~index'.pending
  BY <1>3 DEF IndexOK
<1> QED BY <1>t, <1>2, <1>3, <1>7, <1>8, <1>9, <1>10, SourceAnswers DEF SourceTypes, Over

LEMMA RefreshReturnsKeeps ==
    ASSUME SourceInv, NEW call, RefreshReturns(call) PROVE SourceInv'
<1>t. SourceTypes /\ SourceWaits /\ Own /\ Over
  BY DEF SourceInv, SourceTypes
<1>1. PICK out : out = Result(call)
  OBVIOUS
<1>2. PICK X : X = Ended(sourceCalls, call)
  OBVIOUS
<1>3. /\ call \in Returning(sourceCalls, "refresh")
      /\ list' = list /\ sourceCalls' = X
      /\ UNCHANGED <<edit, index, search, deleting, signedOut>>
      /\ \/ /\ detail' = [detail EXCEPT !.source = out.body]
            /\ strayed' = (strayed \/ Strays(out.body))
         \/ UNCHANGED <<detail, strayed>>
      /\ github' = [refresh |-> None, loading |-> FALSE] \/ github' = [github EXCEPT !.loading = FALSE]
  BY <1>1, <1>2 DEF RefreshReturns
<1>7. /\ DetailOK(detail') /\ (detail'.loading => detail.loading)
      /\ detail'.id \in {None, detail.id}
      /\ \/ detail'.source = detail.source
         \/ detail'.source = out.body /\ strayed' = (strayed \/ Strays(out.body))
  BY <1>t, <1>3 DEF SourceTypes, DetailOK
<1>11. strayed => strayed'
  BY <1>3
<1>8. detail'.source # None => Belongs(detail.source.id)'
  <2>1. CASE detail'.source = detail.source
    BY <1>t, <1>7, <1>11, <2>1 DEF Own, Belongs
  <2>2. CASE detail'.source = out.body /\ strayed' = (strayed \/ Strays(out.body))
    BY <1>7, <2>2 DEF Belongs, Strays
  <2> QED BY <1>7, <2>1, <2>2
<1>9. "refresh" \notin {"save", "check"} /\ "refresh" # "index" /\ "refresh" # "delete"
      /\ "refresh" \notin DetailKinds
  BY DEF DetailKinds
<1>10. GithubOK(github') /\ ~github'.loading
  BY <1>t, <1>3 DEF SourceTypes, GithubOK
<1> QED BY <1>t, <1>2, <1>3, <1>7, <1>8, <1>9, <1>10, <1>11, SourceAnswers DEF SourceTypes, Over

\* A request for the details or the edit form is made, of the requests X that
\* are left.
LEMMA SourceStarts ==
    ASSUME SourceInv, NEW X, NEW K, LeftOf(sourceCalls, X, K), "index" \notin K, "delete" \notin K,
           "upstream" \notin K, "refresh" \notin K, "save" \notin K \/ ~Has(X, {"save"}), Calm,
           NEW k, NEW of, NEW arg, k # "list",
           k \in {"save", "index"} => Off(X, {k}),
           k = "save" => edit'.pending /\ arg.text.ver = arg.expected /\ (strayed' \/ arg.text.id = of),
           k \in DetailKinds => Belongs(of)',
           k = "index" => signedOut' \/ (index'.pending /\ Belongs(of)'),
           sourceCalls' = Begin(X, Sent(k, of, arg)), ~signedOut,
           UNCHANGED <<github, search, deleting, strayed, list>>,
           DetailOK(detail'), detail'.id = detail.id, detail'.source = detail.source,
           detail'.loading => k \in DetailKinds \/ (detail.loading /\ \A j \in DetailKinds : j \notin K),
           EditOK(edit'), edit'.on <=> edit.on, edit'.text = edit.text, edit'.expected = edit.expected,
           edit'.pending => k = "save" \/ (edit.pending /\ "save" \notin K),
           edit'.checking => k = "check" \/ (edit.checking /\ "check" \notin K),
           edit'.pending => edit.on /\ ~index'.pending /\ k \notin DetailKinds /\ Off(X, DetailKinds),
           IndexOK(index'), index'.pending => index.pending \/ k = "index"
    PROVE  SourceInv'
<1>t. SourceTypes /\ SourceWaits /\ Own /\ Over
  BY DEF SourceInv
<1>1. Fits(X)
  BY CalmMoves, SourceLeft, HasNotOff
<1>2. PICK C : C = Begin(X, Sent(k, of, arg))
  OBVIOUS
<1>3. Fits(C) /\ Stay(X, C, {}, {}) /\ Quiet(X, C, {k}) /\ Has(C, {k}) /\ Wants(C, {k})
  BY <1>1, <1>2, SourceAsks
<1>4. Stay(sourceCalls, C, K, K)
  BY <1>3, LeftStays DEF Stay
<1>5. sourceCalls' = C
  BY <1>2
<1>6. SourceWaits'
  <2>1. k \in DetailKinds => Wants(C, DetailKinds)
    BY <1>3 DEF Wants
  <2> QED BY <1>3, <1>4, <1>5, <2>1, SourceGoesOn
<1>7. Own'
  <2>1. edit'.pending => Off(C, DetailKinds)
    <3>1. ASSUME edit'.pending PROVE Off(C, DetailKinds)
      <4>1. Off(X, DetailKinds) /\ \A j \in DetailKinds : j \notin {k}
        BY <3>1
      <4> QED BY <1>3, <4>1, QuietOff
    <3> QED BY <3>1
  <2>2. (detail.source # None => Belongs(detail.source.id))' /\ (edit.on => Belongs(edit.text.id))'
    BY <1>t DEF Own, Belongs
  <2> QED BY <1>t, <1>5, <2>1, <2>2 DEF Own
<1>8. Over'
  BY DEF Over, Calm
<1> QED BY <1>t, <1>3, <1>5, <1>6, <1>7, <1>8, SourceDone DEF SourceTypes

LEMMA RefreshStatusKeeps ==
    ASSUME SourceInv, handleRefreshStatus PROVE SourceInv'
<1>t. SourceTypes /\ SourceWaits /\ Own /\ Over
  BY DEF SourceInv
<1>1. PICK of, arg : /\ of = detail.source.id
                     /\ sourceCalls' = Begin(Overtaken(sourceCalls, DetailKinds), Sent("status", of, arg))
  BY DEF handleRefreshStatus
<1>2. /\ ~signedOut /\ detail.source # None /\ ~edit.on
      /\ detail' = [detail EXCEPT !.loading = TRUE] /\ index' = [index EXCEPT !.error = FALSE]
      /\ UNCHANGED <<list, edit, github, search, deleting, signedOut, strayed>>
  BY DEF handleRefreshStatus, Clicks, PanelOpen
<1>3. PICK X : X = Overtaken(sourceCalls, DetailKinds)
  OBVIOUS
<1>4. LeftOf(sourceCalls, X, DetailKinds)
  BY <1>t, <1>3, OvertakenLeaves DEF SourceTypes
<1>5. /\ DetailOK(detail') /\ detail'.id = detail.id /\ detail'.source = detail.source
      /\ IndexOK(index') /\ (index'.pending <=> index.pending)
  BY <1>t, <1>2 DEF SourceTypes, DetailOK, IndexOK
<1>6. ~edit.pending /\ Belongs(of)'
  BY <1>t, <1>1, <1>2, <1>5 DEF Own, Belongs
<1>7. Calm
  BY <1>2, <1>5 DEF Calm
<1>8. /\ "index" \notin DetailKinds /\ "delete" \notin DetailKinds /\ "upstream" \notin DetailKinds
      /\ "refresh" \notin DetailKinds /\ "save" \notin DetailKinds /\ "check" \notin DetailKinds
      /\ "status" \in DetailKinds /\ "status" # "list" /\ "status" \notin {"save", "index"}
  BY DEF DetailKinds
<1>9. sourceCalls' = Begin(X, Sent("status", of, arg))
  BY <1>1, <1>3
<1> QED BY <1>t, <1>2, <1>4, <1>5, <1>6, <1>7, <1>8, <1>9, SourceStarts DEF SourceTypes

LEMMA SaveEditKeeps ==
    ASSUME SourceInv, handleSaveEdit PROVE SourceInv'
<1> DEFINE K == EditKinds \cup ListKinds \cup SearchKinds
           L == K \cup DetailKinds
<1>t. SourceTypes /\ SourceWaits /\ Own /\ Over
  BY DEF SourceInv
<1>1. PICK of, arg : /\ of = detail.source.id
                     /\ arg = [text |-> edit.text, expected |-> edit.expected, here |-> Here]
                     /\ sourceCalls' = Begin(DetailsWithdrawn(Withdrawn(sourceCalls, K)), Sent("save", of, arg))
  BY DEF handleSaveEdit
<1>2. /\ ~signedOut /\ detail.source # None /\ detail.id # None /\ edit.on /\ ~detail.loading
      /\ ~edit.pending /\ ~edit.checking /\ ~index.pending
      /\ edit' = [edit EXCEPT !.pending = TRUE, !.error = FALSE, !.conflict = FALSE, !.uncertain = FALSE]
      /\ UNCHANGED <<list, detail, index, github, search, deleting, signedOut, strayed>>
  BY DEF handleSaveEdit, Clicks, PanelOpen, EditDirty
<1>3. PICK Y : Y = Withdrawn(sourceCalls, K)
  OBVIOUS
<1>4. PICK X : X = DetailsWithdrawn(Y)
  OBVIOUS
<1>5. LeftOf(sourceCalls, Y, K) /\ Off(Y, K) /\ CallsOK(Y)
  BY <1>t, <1>3, WithdrawnLeaves DEF SourceTypes, LeftOf
<1>6. LeftOf(Y, X, DetailKinds) /\ Off(X, DetailKinds)
  BY <1>4, <1>5, DetailsWithdrawnLeaves
<1>7. LeftOf(sourceCalls, X, L) /\ Off(X, K)
  BY <1>5, <1>6, LeftOfLeft, OffStays
<1>8. ~Has(X, {"save"}) /\ Off(X, {"save"})
  BY <1>2, <1>7, NoSaving, LeftHasNot, HasNotOff
<1>9. EditOK(edit') /\ (edit'.on <=> edit.on) /\ edit'.text = edit.text /\ edit'.expected = edit.expected
      /\ edit'.pending /\ (edit'.checking <=> edit.checking)
  BY <1>t, <1>2 DEF SourceTypes, EditOK
<1>10. Calm
  BY <1>2, <1>9 DEF Calm
<1>11. arg.text.ver = arg.expected /\ (strayed' \/ arg.text.id = of)
  BY <1>t, <1>1, <1>2 DEF Own, Belongs
<1>12. /\ "index" \notin L /\ "delete" \notin L /\ "upstream" \notin L /\ "refresh" \notin L
  BY DEF DetailKinds, EditKinds, ListKinds, SearchKinds
<1>13. "save" # "list" /\ "save" \notin DetailKinds /\ "save" # "index"
  BY DEF DetailKinds
<1>14. sourceCalls' = Begin(X, Sent("save", of, arg))
  BY <1>1, <1>3, <1>4
<1> HIDE DEF K, L
<1> QED BY <1>t, <1>2, <1>6, <1>7, <1>8, <1>9, <1>10, <1>11, <1>12, <1>13, <1>14, SourceStarts DEF SourceTypes

LEMMA CheckEditKeeps ==
    ASSUME SourceInv, NEW reload, handleCheckEditStatus(reload) PROVE SourceInv'
<1>t. SourceTypes /\ SourceWaits /\ Own /\ Over
  BY DEF SourceInv
<1>1. PICK of, arg : sourceCalls' = Begin(Withdrawn(sourceCalls, EditKinds), Sent("check", of, arg))
  BY DEF handleCheckEditStatus
<1>2. /\ ~signedOut /\ ~edit.pending
      /\ edit' = [edit EXCEPT !.checking = TRUE, !.error = FALSE]
      /\ UNCHANGED <<list, detail, index, github, search, deleting, signedOut, strayed>>
  BY DEF handleCheckEditStatus, Clicks
<1>3. PICK X : X = Withdrawn(sourceCalls, EditKinds)
  OBVIOUS
<1>4. LeftOf(sourceCalls, X, EditKinds) /\ Off(X, EditKinds)
  BY <1>t, <1>3, WithdrawnLeaves DEF SourceTypes
<1>5. ~Has(X, {"save"})
  BY <1>2, <1>4, NoSaving, LeftHasNot
<1>6. EditOK(edit') /\ (edit'.on <=> edit.on) /\ edit'.text = edit.text /\ edit'.expected = edit.expected
      /\ (edit'.pending <=> edit.pending)
  BY <1>t, <1>2 DEF SourceTypes, EditOK
<1>7. Calm
  BY <1>2, <1>6 DEF Calm
<1>8. /\ "index" \notin EditKinds /\ "delete" \notin EditKinds /\ "upstream" \notin EditKinds
      /\ "refresh" \notin EditKinds /\ \A j \in DetailKinds : j \notin EditKinds
      /\ "check" # "list" /\ "check" \notin DetailKinds /\ "check" \notin {"save", "index"}
  BY DEF DetailKinds, EditKinds
<1>9. sourceCalls' = Begin(X, Sent("check", of, arg))
  BY <1>1, <1>3
<1> QED BY <1>t, <1>2, <1>4, <1>5, <1>6, <1>7, <1>8, <1>9, SourceStarts DEF SourceTypes

LEMMA IndexKeeps ==
    ASSUME SourceInv, handleIndex PROVE SourceInv'
<1> DEFINE L == ListKinds \cup DetailKinds
<1>t. SourceTypes /\ SourceWaits /\ Own /\ Over
  BY DEF SourceInv
<1>1. PICK of, arg : /\ of = detail.source.id
                     /\ sourceCalls' = Begin(DetailsWithdrawn(Withdrawn(sourceCalls, ListKinds)),
                                             Sent("index", of, arg))
  BY DEF handleIndex
<1>2. /\ ~signedOut /\ detail.source # None /\ ~edit.on /\ ~detail.loading /\ ~index.pending
      /\ index' = [index EXCEPT !.pending = TRUE, !.error = FALSE]
      /\ UNCHANGED <<list, detail, edit, github, search, deleting, signedOut, strayed>>
  BY DEF handleIndex, Clicks, PanelOpen
<1>3. PICK Y : Y = Withdrawn(sourceCalls, ListKinds)
  OBVIOUS
<1>4. PICK X : X = DetailsWithdrawn(Y)
  OBVIOUS
<1>5. LeftOf(sourceCalls, Y, ListKinds) /\ CallsOK(Y)
  BY <1>t, <1>3, WithdrawnLeaves DEF SourceTypes, LeftOf
<1>6. LeftOf(Y, X, DetailKinds) /\ Off(X, DetailKinds)
  BY <1>4, <1>5, DetailsWithdrawnLeaves
<1>7. LeftOf(sourceCalls, X, L)
  BY <1>5, <1>6, LeftOfLeft
<1>8. Off(X, {"index"})
  BY <1>2, <1>7, NoIndexing, LeftHasNot, HasNotOff
<1>9. IndexOK(index') /\ index'.pending
  BY <1>t, <1>2 DEF SourceTypes, IndexOK
<1>10. Calm /\ ~edit.pending
  BY <1>t, <1>2, <1>9 DEF Calm, Own
<1>11. Belongs(of)'
  BY <1>t, <1>1, <1>2 DEF Own, Belongs
<1>12. /\ "index" \notin L /\ "delete" \notin L /\ "upstream" \notin L /\ "refresh" \notin L
       /\ "save" \notin L /\ "check" \notin L
  BY DEF DetailKinds, ListKinds
<1>13. "index" # "list" /\ "index" \notin DetailKinds /\ "index" # "save"
  BY DEF DetailKinds
<1>14. sourceCalls' = Begin(X, Sent("index", of, arg))
  BY <1>1, <1>3, <1>4
<1> HIDE DEF L
<1> QED BY <1>t, <1>2, <1>6, <1>7, <1>8, <1>9, <1>10, <1>11, <1>12, <1>13, <1>14, SourceStarts DEF SourceTypes

LEMMA CloseDetailsKeeps ==
    ASSUME SourceInv, handleCloseDetails PROVE SourceInv'
<1> DEFINE L == EditKinds \cup DetailKinds
<1>t. SourceTypes /\ SourceWaits /\ Own /\ Over
  BY DEF SourceInv
<1>1. /\ ~signedOut /\ ~edit.pending /\ edit' = NoEdit
      /\ sourceCalls' = Aborted(Withdrawn(sourceCalls, EditKinds), DetailKinds)
      /\ detail' = [NoDetail EXCEPT !.loading = detail.loading]
      /\ UNCHANGED <<list, index, github, search, deleting, signedOut>>
  BY DEF handleCloseDetails, Touches
<1>2. PICK Y : Y = Withdrawn(sourceCalls, EditKinds)
  OBVIOUS
<1>3. PICK X : X = Aborted(Y, DetailKinds)
  OBVIOUS
<1>4. LeftOf(sourceCalls, Y, EditKinds) /\ Off(Y, EditKinds) /\ CallsOK(Y)
  BY <1>t, <1>2, WithdrawnLeaves DEF SourceTypes, LeftOf
<1>5. LeftOf(Y, X, DetailKinds) /\ \A d \in DOMAIN Y : \E e \in DOMAIN X : Follows(e, d) /\ e.on = d.on
  BY <1>3, <1>4, AbortedLeaves
<1>6. LeftOf(sourceCalls, X, L) /\ Off(X, EditKinds)
  BY <1>4, <1>5, LeftOfLeft, OffStays
<1>7. ~Has(X, {"save"}) /\ Off(X, {"save"})
  BY <1>1, <1>6, NoSaving, LeftHasNot, HasNotOff
<1>8. DetailOK(detail') /\ detail'.id = None /\ detail'.source = None /\ (detail'.loading <=> detail.loading)
  BY <1>1 DEF NoDetail, DetailOK
<1>9. EditOK(edit') /\ ~edit'.on /\ ~edit'.pending /\ ~edit'.checking
  BY <1>1, NoEditIs
<1>10. Moves(X)
  BY <1>1, <1>7, <1>8 DEF Moves, Settles
<1>11. "index" \notin L /\ \A j \in DetailKinds : j \notin EditKinds
  BY DEF DetailKinds, EditKinds
<1>12. "index" \notin EditKinds /\ "delete" \notin EditKinds /\ "upstream" \notin EditKinds
       /\ "refresh" \notin EditKinds
  BY DEF EditKinds
<1> HIDE DEF L
<1>13. Fits(X)
  BY <1>6, <1>7, <1>10, <1>11, SourceLeft
<1>14. Stay(sourceCalls, Y, EditKinds, EditKinds)
  BY <1>4, LeftStays
<1>15. Stay(Y, X, {}, {})
  BY <1>5 DEF Stay, Has, Wants, Follows
<1>16. Stay(sourceCalls, X, EditKinds, EditKinds) /\ sourceCalls' = X
  BY <1>1, <1>2, <1>3, <1>14, <1>15 DEF Stay
<1>17. SourceWaits'
  BY <1>1, <1>8, <1>9, <1>11, <1>12, <1>16, SourceGoesOn
<1>18. Own' /\ Over'
  BY <1>1, <1>8, <1>9 DEF Own, Over
<1> QED BY <1>t, <1>1, <1>8, <1>9, <1>13, <1>16, <1>17, <1>18, SourceDone DEF SourceTypes

LEMMA SaveReturnsKeeps ==
    ASSUME SourceInv, NEW call, SaveReturns(call) PROVE SourceInv'
<1>t. SourceTypes /\ SourceWaits /\ Own /\ Over /\ CallsOK(sourceCalls) /\ Alone(sourceCalls, "save")
  BY DEF SourceInv, SourceTypes
<1>1. PICK out : out = Result(call)
  OBVIOUS
<1>2. PICK X : X = Ended(sourceCalls, call)
  OBVIOUS
<1>3. PICK e1, e2 : e1 = (out.code = "conflict") /\ e2 = (out.code = "uncertain")
  OBVIOUS
<1>4. PICK at : at = call.arg.here
  OBVIOUS
<1>5. /\ call \in Returning(sourceCalls, "save")
      /\ UNCHANGED <<github, deleting, signedOut>>
      /\ \/ /\ ~call.on /\ edit' = edit
            /\ sourceCalls' = X /\ UNCHANGED <<detail, search, index, list, strayed>>
         \/ /\ call.on /\ out.code # "ok"
            /\ \/ edit' = [edit EXCEPT !.pending = FALSE]
               \/ edit' = [edit EXCEPT !.pending = FALSE, !.error = TRUE, !.conflict = e1, !.uncertain = e2]
            /\ sourceCalls' = X /\ UNCHANGED <<detail, search, index, list, strayed>>
         \/ /\ call.on /\ out.code = "ok" /\ edit' = NoEdit
            /\ detail' = [detail EXCEPT !.source = out.body, !.id = out.body.id]
            /\ search' = [search EXCEPT !.results = None, !.error = FALSE]
            /\ index' = [index EXCEPT !.confirm = FALSE, !.error = FALSE]
            /\ Refreshes(list, X, at)
  BY <1>1, <1>2, <1>3, <1>4 DEF SaveReturns
<1>6. /\ call \in DOMAIN sourceCalls /\ call.kind = "save" /\ IsCall(call) /\ SourceCall(call)
      /\ out.code = "ok" => out.body.id = call.of
  BY <1>1, <1>5, SourceResult DEF OneSource
<1>7. call.on => edit.pending /\ edit.on /\ ~index.pending /\ Off(sourceCalls, DetailKinds) /\ ~signedOut
  <2>1. call.on => edit.pending
    BY <1>6 DEF SourceCall
  <2>2. call.on => ~signedOut
    BY <1>t, <1>6 DEF Over, Off, AfterwardsOff
  <2> QED BY <1>t, <2>1, <2>2 DEF Own
<1>8. call.on => Off(X, {"save"}) /\ ~Has(X, {"save"})
  <2>1. call.on => Off(X, {"save"})
    BY <1>t, <1>2, <1>6, EndedAlone
  <2>2. \A c \in DOMAIN X : c \in DOMAIN sourceCalls
    BY <1>t, <1>2, <1>6, EndedIs
  <2>3. call.on => \A c \in DOMAIN X : c.kind = "save" => c.on
    BY <1>7, <2>2 DEF SourceInv, SourceCall
  <2> QED BY <2>1, <2>3 DEF Has, Off
<1>9. LeftOf(sourceCalls, X, {"save"})
  BY <1>t, <1>2, <1>6, EndedIs
<1>10. /\ "save" \notin DetailKinds /\ \A j \in DetailKinds : j \notin {"save"} /\ j \notin {"list"}
       /\ \A j \in AfterwardsOff : j \notin {"list"}
       /\ "check" \notin {"save", "list"} /\ "index" \notin {"save", "list"} /\ "delete" \notin {"save", "list"}
       /\ "upstream" \notin {"save", "list"} /\ "refresh" \notin {"save", "list"} /\ "save" \notin {}
       /\ \A j \in DetailKinds : j \notin {"save", "list"}
  BY DEF DetailKinds, AfterwardsOff
<1>11. CASE /\ ~call.on /\ edit' = edit /\ sourceCalls' = X
            /\ UNCHANGED <<detail, search, index, list, strayed>>
  <2>1. Moves(X)
    BY <1>5, <1>11 DEF Moves
  <2>2. Fits(X) /\ Quiet(sourceCalls, X, {}) /\ Stay(sourceCalls, X, {"save"}, {})
    BY <1>2, <1>6, <1>11, <2>1, SourceEnds
  <2> QED BY <1>t, <1>5, <1>10, <1>11, <2>2, SourceGoes DEF SourceTypes, Over
<1>12. CASE /\ call.on /\ out.code # "ok"
            /\ \/ edit' = [edit EXCEPT !.pending = FALSE]
               \/ edit' = [edit EXCEPT !.pending = FALSE, !.error = TRUE, !.conflict = e1, !.uncertain = e2]
            /\ sourceCalls' = X /\ UNCHANGED <<detail, search, index, list, strayed>>
  <2>1. /\ EditOK(edit') /\ ~edit'.pending /\ (edit'.on <=> edit.on) /\ (edit'.checking <=> edit.checking)
        /\ edit'.text = edit.text /\ edit'.expected = edit.expected
    BY <1>t, <1>12 DEF SourceTypes, EditOK
  <2>2. Moves(X)
    BY <1>5, <1>8, <1>12 DEF Moves
  <2>3. Fits(X) /\ Stay(sourceCalls, X, {"save"}, {"save"})
    BY <1>2, <1>6, <2>2, SourceEnds
  <2>4. SourceWaits'
    <3>1. Stay(sourceCalls, sourceCalls', {"save"}, {"save"})
      BY <1>12, <2>3
    <3>2. /\ detail'.loading => detail.loading
          /\ edit'.checking => edit.checking
          /\ index'.pending => index.pending
          /\ deleting' => deleting
          /\ github'.loading => github.loading
      BY <1>5, <1>12, <2>1
    <3> QED BY <1>10, <2>1, <3>1, <3>2, SourceGoesOn
  <2>5. Own'
    BY <1>t, <1>5, <1>12, <2>1 DEF Own, Belongs
  <2>6. Over'
    BY <1>5, <1>7, <1>12 DEF Over
  <2> QED BY <1>t, <1>5, <1>12, <2>1, <2>3, <2>4, <2>5, <2>6, SourceDone DEF SourceTypes
<1>13. CASE /\ call.on /\ out.code = "ok" /\ edit' = NoEdit
            /\ detail' = [detail EXCEPT !.source = out.body, !.id = out.body.id]
            /\ search' = [search EXCEPT !.results = None, !.error = FALSE]
            /\ index' = [index EXCEPT !.confirm = FALSE, !.error = FALSE]
            /\ Refreshes(list, X, at)
  <2>1. Off(X, DetailKinds) /\ ~Has(X, {"index"})
    BY <1>7, <1>9, <1>13, OffStays, NoIndexing, LeftHasNot
  <2>2. Moves(X)
    BY <1>5, <1>8, <1>13, <2>1 DEF Moves, Settles
  <2>3. Fits(X) /\ Stay(sourceCalls, X, {"save"}, {"save"})
    BY <1>2, <1>6, <2>2, SourceEnds
  <2>4. /\ Fits(sourceCalls') /\ Stay(X, sourceCalls', {"list"}, {"list"})
        /\ ListOK(list')
    BY <1>t, <1>13, <2>3, SourceRefreshes DEF SourceTypes
  <2>5. Stay(sourceCalls, sourceCalls', {"save", "list"}, {"save", "list"})
    BY <2>3, <2>4 DEF Stay
  <2>6. /\ EditOK(edit') /\ ~edit'.on /\ ~edit'.pending /\ ~edit'.checking
    BY <1>13, NoEditIs
  <2>7. /\ DetailOK(detail') /\ detail'.source = out.body /\ detail'.id = out.body.id
        /\ (detail'.loading <=> detail.loading)
        /\ SearchOK(search') /\ IndexOK(index') /\ (index'.pending <=> index.pending)
    BY <1>t, <1>13 DEF SourceTypes, DetailOK, SearchOK, IndexOK
  <2>8. SourceWaits'
    BY <1>5, <1>10, <2>5, <2>6, <2>7, SourceGoesOn
  <2>9. Own'
    BY <2>6, <2>7 DEF Own, Belongs
  <2>10. Over'
    BY <1>5, <1>7, <1>13 DEF Over
  <2> QED BY <1>t, <1>5, <2>4, <2>6, <2>7, <2>8, <2>9, <2>10, SourceDone DEF SourceTypes
<1> QED BY <1>5, <1>11, <1>12, <1>13

\* What a check makes of the edit form.
LEMMA CheckedIs ==
    ASSUME EditOK(edit), NEW call, NEW src
    PROVE  /\ EditOK(Checked(edit, call, src))
           /\ Checked(edit, call, src).pending <=> edit.pending
           /\ ~Checked(edit, call, src).checking
           /\ \/ /\ Checked(edit, call, src).on /\ Checked(edit, call, src).text.id = src.id
                 /\ Checked(edit, call, src).text.ver = Checked(edit, call, src).expected
              \/ /\ Checked(edit, call, src).on <=> edit.on
                 /\ Checked(edit, call, src).text = edit.text
                 /\ Checked(edit, call, src).expected = edit.expected
<1>1. PICK t : t = TextOf(src)
  OBVIOUS
<1>2. DOMAIN t = {"id", "ver", "typed"} /\ t.id = src.id /\ t.ver = src.ver
  BY <1>1 DEF TextOf
<1>3. CASE call.arg.reload
  <2>1. PICK e : e = [edit EXCEPT !.on = TRUE, !.text = t, !.expected = src.ver,
                                  !.error = FALSE, !.conflict = FALSE, !.uncertain = FALSE]
    OBVIOUS
  <2>2. EditOK(e) /\ (e.pending <=> edit.pending) /\ e.on /\ e.text = t /\ e.expected = src.ver
    BY <1>2, <2>1 DEF EditOK
  <2>3. PICK g : g = [e EXCEPT !.checking = FALSE]
    OBVIOUS
  <2>4. EditOK(g) /\ (g.pending <=> e.pending) /\ ~g.checking /\ g.on /\ g.text = t /\ g.expected = src.ver
    BY <2>2, <2>3 DEF EditOK
  <2>5. Checked(edit, call, src) = g
    BY <1>1, <1>3, <2>1, <2>3 DEF Checked, beginEditing
  <2> QED BY <1>2, <2>2, <2>4, <2>5
<1>4. CASE ~call.arg.reload
  <2>1. PICK x : x = (call.arg.expected # src.ver)
    OBVIOUS
  <2>2. PICK g : g = [edit EXCEPT !.uncertain = FALSE, !.checking = FALSE, !.error = TRUE, !.conflict = x]
    OBVIOUS
  <2>3. EditOK(g) /\ (g.pending <=> edit.pending) /\ ~g.checking /\ (g.on <=> edit.on) /\ g.text = edit.text
        /\ g.expected = edit.expected
    BY <2>2 DEF EditOK
  <2>4. Checked(edit, call, src) = g
    BY <1>4, <2>1, <2>2 DEF Checked
  <2> QED BY <2>3, <2>4
<1> QED BY <1>3, <1>4

LEMMA CheckReturnsKeeps ==
    ASSUME SourceInv, NEW call, CheckReturns(call) PROVE SourceInv'
<1>t. SourceTypes /\ SourceWaits /\ Own /\ Over /\ CallsOK(sourceCalls)
  BY DEF SourceInv, SourceTypes
<1>1. PICK out : out = Result(call)
  OBVIOUS
<1>2. PICK X : X = Ended(sourceCalls, call)
  OBVIOUS
<1>3. PICK e : e = (list.held \/ list.data # None)
  OBVIOUS
<1>5. /\ call \in Returning(sourceCalls, "check") /\ sourceCalls' = X
      /\ UNCHANGED <<index, github, search, deleting, signedOut>>
      /\ \/ /\ ~call.on /\ UNCHANGED <<edit, detail, list, strayed>>
         \/ /\ call.on
            /\ edit' = [edit EXCEPT !.checking = FALSE] \/ edit' = [edit EXCEPT !.checking = FALSE, !.error = TRUE]
            /\ UNCHANGED <<detail, list, strayed>>
         \/ /\ call.on /\ edit' = Checked(edit, call, out.body)
            /\ detail' = [detail EXCEPT !.source = out.body]
            /\ list' = [list EXCEPT !.held = e]
            /\ strayed' = (strayed \/ Strays(out.body))
  BY <1>1, <1>2, <1>3 DEF CheckReturns
<1>6. call \in DOMAIN sourceCalls /\ call.kind = "check" /\ IsCall(call)
  BY <1>1, <1>5, SourceResult
<1>7. call.on => ~signedOut
  BY <1>t, <1>6 DEF Over, Off, AfterwardsOff
<1>8. /\ \A j \in DetailKinds : j \notin {"check"} /\ j \notin {}
      /\ "save" \notin {"check"} /\ "index" \notin {"check"} /\ "delete" \notin {"check"}
      /\ "upstream" \notin {"check"} /\ "refresh" \notin {"check"} /\ "view" \notin {} /\ "status" \notin {}
      /\ "save" \notin {} /\ "check" \notin {}
  BY DEF DetailKinds
<1>9. /\ EditOK(edit') /\ (edit'.pending <=> edit.pending) /\ (edit'.checking => edit.checking /\ ~call.on)
      /\ \/ edit'.on /\ edit'.text.id = out.body.id /\ edit'.text.ver = edit'.expected
            /\ strayed' = (strayed \/ Strays(out.body))
         \/ (edit'.on <=> edit.on) /\ edit'.text = edit.text /\ edit'.expected = edit.expected
  <2>1. CASE edit' = edit /\ ~call.on
    BY <1>t, <2>1 DEF SourceTypes
  <2>2. CASE edit' = [edit EXCEPT !.checking = FALSE] \/ edit' = [edit EXCEPT !.checking = FALSE, !.error = TRUE]
    BY <1>t, <2>2 DEF SourceTypes, EditOK
  <2>3. CASE edit' = Checked(edit, call, out.body) /\ strayed' = (strayed \/ Strays(out.body))
    <3>1. EditOK(edit)
      BY <1>t DEF SourceTypes
    <3>2. PICK x : x = out.body
      OBVIOUS
    <3>3. PICK g : g = Checked(edit, call, x)
      OBVIOUS
    <3>4. /\ EditOK(g) /\ (g.pending <=> edit.pending) /\ ~g.checking
          /\ \/ g.on /\ g.text.id = x.id /\ g.text.ver = g.expected
             \/ (g.on <=> edit.on) /\ g.text = edit.text /\ g.expected = edit.expected
      BY <3>1, <3>3, CheckedIs
    <3>5. edit' = g
      BY <2>3, <3>2, <3>3
    <3> QED BY <2>3, <3>2, <3>4, <3>5
  <2> QED BY <1>5, <2>1, <2>2, <2>3
<1>10. /\ DetailOK(detail') /\ detail'.id = detail.id /\ (detail'.loading <=> detail.loading)
       /\ \/ detail'.source = detail.source
          \/ detail'.source = out.body /\ strayed' = (strayed \/ Strays(out.body))
       /\ ListOK(list') /\ list'.data = list.data
  BY <1>t, <1>5 DEF SourceTypes, DetailOK, ListOK
<1>11. strayed => strayed'
  BY <1>5
<1>12. Calm
  BY <1>5, <1>9, <1>10, <1>11 DEF Calm
<1>13. Moves(X)
  BY <1>12, CalmMoves
<1>14. /\ Fits(X) /\ Quiet(sourceCalls, X, {}) /\ Stay(sourceCalls, X, {"check"}, {"check"})
       /\ ~call.on => Stay(sourceCalls, X, {"check"}, {})
  BY <1>2, <1>6, <1>13, SourceEnds
<1>15. SourceWaits'
  <2>1. CASE call.on
    BY <1>5, <1>8, <1>9, <1>10, <1>14, <2>1, SourceGoesOn
  <2>2. CASE ~call.on
    BY <1>5, <1>8, <1>9, <1>10, <1>14, <2>2, SourceGoesOn
  <2> QED BY <2>1, <2>2
<1>16. (detail.source # None => Belongs(detail.source.id))'
  BY <1>t, <1>10, <1>11 DEF Own, Belongs, Strays
<1>17. (edit.on => Belongs(edit.text.id) /\ edit.text.ver = edit.expected)'
  BY <1>t, <1>9, <1>10, <1>11 DEF Own, Belongs, Strays
<1>18. (edit.pending => edit.on /\ ~index.pending /\ Off(sourceCalls, DetailKinds))'
  <2>1. edit.pending => Off(X, DetailKinds)
    BY <1>t, <1>8, <1>14, QuietOff DEF Own
  <2> QED BY <1>t, <1>5, <1>9, <2>1 DEF Own
<1>19. Own'
  BY <1>16, <1>17, <1>18 DEF Own
<1>20. Over'
  <2>1. signedOut => Off(X, AfterwardsOff)
    <3>1. \A j \in AfterwardsOff : j \notin {}
      OBVIOUS
    <3> QED BY <1>t, <1>14, <3>1, QuietOff DEF Over
  <2> QED BY <1>t, <1>5, <1>10, <2>1 DEF Over
<1> QED BY <1>t, <1>5, <1>9, <1>10, <1>14, <1>15, <1>19, <1>20, SourceDone DEF SourceTypes

LEMMA SignedOutKeeps ==
    ASSUME SourceInv, SignedOut PROVE SourceInv'
<1> DEFINE K == ListKinds \cup EditKinds \cup SearchKinds
           L == K \cup DetailKinds
<1>t. SourceTypes /\ SourceWaits /\ Own /\ Over
  BY DEF SourceInv
<1>1. /\ sourceCalls' = DetailsWithdrawn(Withdrawn(sourceCalls, K))
      /\ signedOut' = TRUE /\ list' = [NoList EXCEPT !.loading = list.loading] /\ detail' = NoDetail /\ edit' = NoEdit
      /\ index' = [pending |-> FALSE, confirm |-> FALSE, error |-> FALSE] /\ search' = NoSearch
      /\ UNCHANGED <<github, deleting, strayed>>
  BY DEF SignedOut, clearSourceState
<1>3. PICK Y : Y = Withdrawn(sourceCalls, K)
  OBVIOUS
<1>4. PICK X : X = DetailsWithdrawn(Y)
  OBVIOUS
<1>5. LeftOf(sourceCalls, Y, K) /\ Off(Y, K) /\ CallsOK(Y)
  BY <1>t, <1>3, WithdrawnLeaves DEF SourceTypes, LeftOf
<1>6. LeftOf(Y, X, DetailKinds) /\ Off(X, DetailKinds)
  BY <1>4, <1>5, DetailsWithdrawnLeaves
<1>7. LeftOf(sourceCalls, X, L) /\ Off(X, K)
  BY <1>5, <1>6, LeftOfLeft, OffStays
<1>8. Off(X, {"save"}) /\ Off(X, {"list"}) /\ Off(X, AfterwardsOff)
  BY <1>6, <1>7 DEF Off, EditKinds, ListKinds, SearchKinds, DetailKinds, AfterwardsOff
<1>9. Moves(X)
  BY <1>1, <1>6, <1>8 DEF Moves
<1>10. "index" \notin L /\ "delete" \notin L /\ "upstream" \notin L /\ "refresh" \notin L
  BY DEF DetailKinds, EditKinds, ListKinds, SearchKinds
<1>11. sourceCalls' = X
  BY <1>1, <1>3, <1>4
<1> HIDE DEF K, L
<1>12. Fits(X) /\ Stay(sourceCalls, X, L, L)
  BY <1>1, <1>7, <1>8, <1>9, <1>10, SourceLeft, LeftStays
<1>13. EditOK(edit') /\ ~edit'.on /\ ~edit'.pending /\ ~edit'.checking
  BY <1>1, NoEditIs
<1>14. /\ DetailOK(detail') /\ detail'.id = None /\ detail'.source = None /\ ~detail'.loading
       /\ ListOK(list') /\ list'.data = None /\ SearchOK(search') /\ search'.results = None
       /\ IndexOK(index') /\ ~index'.pending
  BY <1>1 DEF NoDetail, DetailOK, NoList, ListOK, NoSearch, SearchOK, IndexOK
<1>15. SourceWaits'
  BY <1>1, <1>10, <1>11, <1>12, <1>13, <1>14, SourceGoesOn
<1>16. Own' /\ Over'
  BY <1>1, <1>8, <1>11, <1>13, <1>14 DEF Own, Over
<1> QED BY <1>t, <1>1, <1>11, <1>12, <1>13, <1>14, <1>15, <1>16, SourceDone DEF SourceTypes

LEMMA SourceAnswersKeep ==
    ASSUME SourceInv, NEW call \in DOMAIN sourceCalls,
           ApiReads(call) \/ ApiDoes(call) \/ ApiRefuses(call)
    PROVE  SourceInv'
<1>1. UNCHANGED <<list, detail, edit, index, github, search, deleting, signedOut, strayed>>
  BY DEF ApiReads, ApiDoes, ApiRefuses
<1>2. CASE ApiReads(call)
  <2>1. PICK out \in ReadAnswers(call) \cup {Failed} : sourceCalls' = Answered(sourceCalls, call, out)
    BY <1>2 DEF ApiReads
  <2>2. call.kind \notin Changes
    BY <1>2 DEF ApiReads
  <2>3. out.code # "aborted" /\ (call.kind = "list" /\ signedOut => out.code # "ok")
    BY <2>1 DEF ReadAnswers, Reply, Failed, Gone, Current
  <2>4. out.code = "ok" /\ call.kind \in OneSource => out.body.id = call.of
    BY <2>1, <2>2 DEF ReadAnswers, Reply, Failed, Gone, Current, OneSource, Changes
  <2> QED BY <1>1, <2>1, <2>3, <2>4, SourceAnswerKeeps
<1>3. CASE ApiDoes(call)
  <2>1. PICK out \in {Current(stored', call.of), Reply("uncertain", None)} :
             sourceCalls' = Answered(sourceCalls, call, out)
    BY <1>3 DEF ApiDoes
  <2>2. out.code # "aborted" /\ (out.code = "ok" => out.body.id = call.of)
    BY <2>1 DEF Reply, Current
  <2>3. call.kind # "list"
    BY <1>3 DEF ApiDoes, Done, Changes
  <2> QED BY <1>1, <2>1, <2>2, <2>3, SourceAnswerKeeps
<1>4. CASE ApiRefuses(call)
  <2>1. PICK out \in Refusals(call) : sourceCalls' = Answered(sourceCalls, call, out)
    BY <1>4 DEF ApiRefuses
  <2>2. out.code # "aborted" /\ out.code # "ok"
    BY <2>1 DEF Refusals, Reply, Failed, Gone
  <2> QED BY <1>1, <2>1, <2>2, SourceAnswerKeeps
<1> QED BY <1>2, <1>3, <1>4

LEMMA SourceReturnsKeep ==
    ASSUME SourceInv, NEW call, SourceReturns(call) PROVE SourceInv'
<1>t. SourceTypes /\ Over
  BY DEF SourceInv
<1>1. CASE ListReturns(call)
  <2>1. PICK out : out = Result(call)
    OBVIOUS
  <2>2. PICK n1, n2, n3 :
          /\ n1 = (IF call.arg.page > out.body.pages THEN out.body.pages ELSE list.page)
          /\ n2 = (IF call.arg.page > out.body.pages THEN None ELSE list.key)
          /\ n3 = (list.due \/ (call.arg.page > out.body.pages /\ list.page # out.body.pages))
    OBVIOUS
  <2>3. /\ call \in Returning(sourceCalls, "list") /\ sourceCalls' = Ended(sourceCalls, call)
        /\ UNCHANGED <<detail, edit, index, github, search, deleting, signedOut, strayed>>
        /\ \/ list' = list \/ list' = [list EXCEPT !.loading = FALSE]
           \/ list' = [list EXCEPT !.loading = FALSE, !.error = TRUE]
           \/ /\ call.on /\ out.code = "ok"
              /\ list' = [list EXCEPT !.data = call.arg, !.held = TRUE, !.loading = FALSE,
                                      !.page = n1, !.key = n2, !.due = n3]
    BY <1>1, <2>1, <2>2 DEF ListReturns
  <2>4. /\ call.kind = "list" /\ SourceCall(call)
        /\ out.code = "ok" => call.at = "read" /\ call.ans.code = "ok"
    BY <2>1, <2>3, SourceResult
  <2>5. call.on /\ out.code = "ok" => ~signedOut
    BY <2>4 DEF SourceCall
  <2>6. ListOK(list') /\ (signedOut => list'.data = None)
    BY <1>t, <2>3, <2>5 DEF SourceTypes, ListOK, Over
  <2> QED BY <1>t, <2>3, <2>6, SourceLeaves DEF SourceTypes, Over
<1>2. CASE UpstreamReturns(call)
  <2>1. /\ call \in Returning(sourceCalls, "upstream") /\ sourceCalls' = Ended(sourceCalls, call)
        /\ UNCHANGED <<list, detail, edit, index, search, deleting, signedOut, strayed>>
        /\ GithubOK(github') /\ ~github'.loading
    BY <1>2 DEF UpstreamReturns, GithubOK
  <2> QED BY <1>t, <2>1, SourceLeaves DEF SourceTypes, Over
<1>3. CASE SearchReturns(call)
  <2>1. PICK out : out = Result(call)
    OBVIOUS
  <2>2. /\ call \in Returning(sourceCalls, "search") /\ sourceCalls' = Ended(sourceCalls, call)
        /\ UNCHANGED <<list, detail, edit, index, github, deleting, signedOut, strayed>>
        /\ \/ search' = search \/ search' = [search EXCEPT !.loading = FALSE]
           \/ search' = [search EXCEPT !.error = TRUE, !.loading = FALSE]
           \/ call.on /\ search' = [search EXCEPT !.results = out.body, !.loading = FALSE]
    BY <1>3, <2>1 DEF SearchReturns
  <2>3. call \in DOMAIN sourceCalls /\ call.kind = "search"
    BY <2>2 DEF Returning, Pending, BagToSet
  <2>4. call.on => ~signedOut
    BY <1>t, <2>3 DEF Over, Off, AfterwardsOff
  <2>5. SearchOK(search') /\ (signedOut => search'.results = None)
    BY <1>t, <2>2, <2>4 DEF SourceTypes, SearchOK, Over
  <2>6. github'.loading => github.loading
    BY <2>2
  <2> QED BY <1>t, <2>2, <2>5, <2>6, SourceLeaves DEF SourceTypes, Over
<1> QED
  BY <1>1, <1>2, <1>3, ViewReturnsKeeps, StatusReturnsKeeps, SaveReturnsKeeps, CheckReturnsKeeps,
     DeleteReturnsKeeps, IndexReturnsKeeps, RefreshReturnsKeeps DEF SourceReturns

LEMMA SourceKeeps == SourceInv /\ [SourcesNext]_sourceVars => SourceInv'
<1> SUFFICES ASSUME SourceInv, [SourcesNext]_sourceVars PROVE SourceInv'
  OBVIOUS
<1>t. SourceTypes /\ SourceWaits /\ Own /\ Over /\ CallsOK(sourceCalls) /\ ListOK(list) /\ EditOK(edit)
      /\ IndexOK(index) /\ GithubOK(github) /\ SearchOK(search)
  BY DEF SourceInv, SourceTypes
\* Nothing but the list's choices.
<1>l. ASSUME ListOK(list'), list'.data = list.data,
             UNCHANGED <<sourceCalls, detail, edit, index, github, search, deleting, signedOut, strayed>>
      PROVE  SourceInv'
  <2>1. edit.pending => edit.on
    BY <1>t DEF Own
  <2> QED BY <1>t, <1>l, <2>1, SourceStill
<1>1. ASSUME UNCHANGED sourceVars PROVE SourceInv'
  BY <1>1, <1>t, <1>l DEF sourceVars
<1>2. CASE ListEffect
  <2>1. PICK l : l = [list EXCEPT !.due = FALSE]
    OBVIOUS
  <2>2. ListOK(l) /\ l.data = list.data
    BY <1>t, <2>1 DEF ListOK
  <2>3. /\ Loads(l, sourceCalls, list.page, list.filter, FALSE)
        /\ UNCHANGED <<detail, edit, index, github, search, deleting, signedOut, strayed>>
    BY <1>2, <2>1 DEF ListEffect
  <2> QED BY <2>2, <2>3, SourceListLoads
<1>3. CASE RetryList
  <2>1. PICK l : l = [list EXCEPT !.key = None, !.held = FALSE]
    OBVIOUS
  <2>2. ListOK(l) /\ l.data = list.data
    BY <1>t, <2>1 DEF ListOK
  <2>3. /\ Loads(l, sourceCalls, Here.page, Here.filter, TRUE)
        /\ UNCHANGED <<detail, edit, index, github, search, deleting, signedOut, strayed>>
    BY <1>3, <2>1 DEF RetryList, Refreshes
  <2> QED BY <2>2, <2>3, SourceListLoads
<1>4. ASSUME NEW p \in Pages, TurnPage(p) PROVE SourceInv'
  BY <1>4, <1>t, <1>l DEF TurnPage, ListOK
<1>5. ASSUME NEW f \in Filters, handleStatusFilterChange(f) PROVE SourceInv'
  <2>1. /\ ~signedOut /\ sourceCalls' = Withdrawn(sourceCalls, {"list"}) /\ ListOK(list')
        /\ UNCHANGED <<detail, edit, index, github, search, deleting, signedOut, strayed>>
    BY <1>5, <1>t DEF handleStatusFilterChange, Clicks, ListKinds, ListOK
  <2> QED BY <1>t, <2>1, SourceWithdraws
<1>6. ASSUME NEW s \in Sources, NEW matched \in 0 .. MaxVersion, handleViewDetails(s, matched) PROVE SourceInv'
  BY <1>6, ViewDetailsKeeps
<1>7. CASE StartEditing
  <2>1. PICK t : t = TextOf(detail.source)
    OBVIOUS
  <2>2. DOMAIN t = {"id", "ver", "typed"} /\ t.id = detail.source.id /\ t.ver = detail.source.ver
    BY <2>1 DEF TextOf
  <2>3. /\ edit' = [edit EXCEPT !.on = TRUE, !.text = t, !.expected = detail.source.ver,
                                !.error = FALSE, !.conflict = FALSE, !.uncertain = FALSE]
        /\ detail.source # None /\ ~edit.on
        /\ UNCHANGED <<sourceCalls, list, detail, index, github, search, deleting, signedOut, strayed>>
    BY <1>7, <2>1 DEF StartEditing, beginEditing, PanelOpen
  <2>4. /\ EditOK(edit') /\ (edit'.pending <=> edit.pending) /\ (edit'.checking <=> edit.checking)
        /\ edit'.on /\ edit'.text = t /\ edit'.expected = detail.source.ver
    BY <1>t, <2>2, <2>3 DEF EditOK
  <2>5. Belongs(edit'.text.id) /\ edit'.text.ver = edit'.expected
    BY <1>t, <2>2, <2>3, <2>4 DEF Own
  <2> QED BY <1>t, <2>3, <2>4, <2>5, SourceStill
<1>8. CASE TypeInEdit
  <2>1. /\ edit' = [edit EXCEPT !.text.typed = TRUE]
        /\ UNCHANGED <<sourceCalls, list, detail, index, github, search, deleting, signedOut, strayed>>
    BY <1>8 DEF TypeInEdit
  <2>2. PICK t : t = [edit.text EXCEPT !.typed = TRUE]
    OBVIOUS
  <2>3. DOMAIN t = {"id", "ver", "typed"} /\ t.id = edit.text.id /\ t.ver = edit.text.ver
    BY <1>t, <2>2 DEF EditOK
  <2>4. edit' = [edit EXCEPT !.text = t]
    BY <1>t, <2>1, <2>2 DEF EditOK
  <2>5. /\ EditOK(edit') /\ (edit'.pending <=> edit.pending) /\ (edit'.checking <=> edit.checking)
        /\ (edit'.on <=> edit.on) /\ edit'.text = t /\ edit'.expected = edit.expected
    BY <1>t, <2>3, <2>4 DEF EditOK
  <2>6. edit.pending => edit.on
    BY <1>t DEF Own
  <2> QED BY <1>t, <2>1, <2>3, <2>5, <2>6, SourceStill
<1>9. CASE handleCancelEdit
  <2>1. /\ edit' = NoEdit /\ ~edit.pending
        /\ UNCHANGED <<sourceCalls, list, detail, index, github, search, deleting, signedOut, strayed>>
    BY <1>9 DEF handleCancelEdit
  <2> QED BY <1>t, <2>1, NoEditIs, SourceStill
<1>10. ASSUME NEW yes \in BOOLEAN, AskToIndex(yes) PROVE SourceInv'
  <2>1. /\ index' = [index EXCEPT !.confirm = yes]
        /\ UNCHANGED <<sourceCalls, list, detail, edit, github, search, deleting, signedOut, strayed>>
    BY <1>10 DEF AskToIndex
  <2>2. IndexOK(index') /\ (index'.pending <=> index.pending)
    BY <1>t, <2>1 DEF IndexOK
  <2>3. edit.pending => edit.on
    BY <1>t DEF Own
  <2> QED BY <1>t, <2>1, <2>2, <2>3, SourceStill
<1>11. CASE handleDelete
  <2>1. PICK of, arg : sourceCalls' = Begin(sourceCalls, Sent("delete", of, arg))
    BY <1>11 DEF handleDelete
  <2>2. ~signedOut /\ UNCHANGED <<list, detail, edit, index, github, search, signedOut, strayed>>
    BY <1>11 DEF handleDelete, Clicks
  <2>3. LeftOf(sourceCalls, sourceCalls, {})
    BY <1>t, LeftWhole
  <2> QED BY <1>t, <2>1, <2>2, <2>3, SourceMakes
<1>12. CASE handleGithubRefreshCheck
  <2>1. PICK of, arg : sourceCalls' = Begin(sourceCalls, Sent("upstream", of, arg))
    BY <1>12 DEF handleGithubRefreshCheck
  <2>2. /\ ~signedOut /\ UNCHANGED <<list, detail, edit, index, search, deleting, signedOut, strayed>>
        /\ github' = [github EXCEPT !.loading = TRUE]
    BY <1>12 DEF handleGithubRefreshCheck, Clicks
  <2>3. LeftOf(sourceCalls, sourceCalls, {}) /\ GithubOK(github')
    BY <1>t, <2>2, LeftWhole DEF GithubOK
  <2> QED BY <1>t, <2>1, <2>2, <2>3, SourceMakes
<1>13. CASE handleGithubRefresh
  <2>1. PICK of, arg : sourceCalls' = Begin(sourceCalls, Sent("refresh", of, arg))
    BY <1>13 DEF handleGithubRefresh
  <2>2. /\ ~signedOut /\ UNCHANGED <<list, detail, edit, index, search, deleting, signedOut, strayed>>
        /\ github' = [github EXCEPT !.loading = TRUE]
    BY <1>13 DEF handleGithubRefresh, Clicks
  <2>3. LeftOf(sourceCalls, sourceCalls, {}) /\ GithubOK(github')
    BY <1>t, <2>2, LeftWhole DEF GithubOK
  <2> QED BY <1>t, <2>1, <2>2, <2>3, SourceMakes
<1>14. CASE handleSearch
  <2>1. PICK X : X = Withdrawn(sourceCalls, {"search"})
    OBVIOUS
  <2>2. /\ sourceCalls' = Begin(X, Sent("search", None, None))
        /\ ~signedOut /\ UNCHANGED <<list, detail, edit, index, github, deleting, signedOut, strayed>>
        /\ SearchOK(search')
    BY <1>14, <2>1 DEF handleSearch, SearchKinds, Clicks, SearchOK
  <2>3. LeftOf(sourceCalls, X, {"search"})
    BY <1>t, <2>1, WithdrawnLeaves
  <2> QED BY <1>t, <2>2, <2>3, SourceMakes
<1>15. CASE LeaveAndReturn
  <2>1. /\ ~signedOut /\ sourceCalls' = Withdrawn(sourceCalls, {"search"})
        /\ ListOK(list') /\ SearchOK(search')
        /\ UNCHANGED <<detail, edit, index, github, deleting, signedOut, strayed>>
    BY <1>15, <1>t DEF LeaveAndReturn, Clicks, SearchKinds, ListOK, SearchOK
  <2> QED BY <1>t, <2>1, SourceWithdraws
<1>16. CASE NoteSaved
  <2>1. PICK x : x = (list.due \/ list.page # 1)
    OBVIOUS
  <2>2. PICK l : l = [list EXCEPT !.page = 1, !.due = x, !.key = None, !.held = FALSE]
    OBVIOUS
  <2>3. ListOK(l) /\ l.data = list.data
    BY <1>t, <2>2 DEF ListOK
  <2>4. /\ Loads(l, sourceCalls, 1, list.filter, TRUE)
        /\ UNCHANGED <<detail, edit, index, github, search, deleting, signedOut, strayed>>
    BY <1>16, <2>1, <2>2 DEF NoteSaved
  <2> QED BY <2>3, <2>4, SourceListLoads
<1>17. CASE NoteImported
  <2>1. /\ Loads(list, sourceCalls, 1, list.filter, TRUE)
        /\ UNCHANGED <<detail, edit, index, github, search, deleting, signedOut, strayed>>
    BY <1>17 DEF NoteImported
  <2> QED BY <1>t, <2>1, SourceListLoads
<1>18. ASSUME NEW s \in Sources, Elsewhere(s) PROVE SourceInv'
  <2>1. UNCHANGED <<sourceCalls, list, detail, edit, index, github, search, deleting, signedOut, strayed>>
    BY <1>18 DEF Elsewhere
  <2> QED BY <1>t, <1>l, <2>1
<1>19. ASSUME NEW call \in BagToSet(sourceCalls),
              SourceReturns(call) \/ ApiReads(call) \/ ApiDoes(call) \/ ApiRefuses(call)
       PROVE  SourceInv'
  <2>1. call \in DOMAIN sourceCalls
    BY DEF BagToSet
  <2> QED BY <1>19, <2>1, SourceReturnsKeep, SourceAnswersKeep
<1>20. ASSUME NEW reload \in BOOLEAN, handleCheckEditStatus(reload) PROVE SourceInv'
  BY <1>20, CheckEditKeeps
<1>21. CASE handleRefreshStatus \/ handleCloseDetails \/ handleSaveEdit \/ handleIndex \/ SignedOut
  BY <1>21, RefreshStatusKeeps, CloseDetailsKeeps, SaveEditKeeps, IndexKeeps, SignedOutKeeps
<1> QED
  BY <1>1, <1>2, <1>3, <1>4, <1>5, <1>6, <1>7, <1>8, <1>9, <1>10, <1>11, <1>12, <1>13, <1>14, <1>15,
     <1>16, <1>17, <1>18, <1>19, <1>20, <1>21 DEF SourcesNext

LEMMA SourceFollow == SourceInv => SourceWaitsEnd /\ DetailsAreSelected /\ EditsBuildOnWhatTheyReplace
<1> SUFFICES ASSUME SourceInv PROVE SourceWaitsEnd /\ DetailsAreSelected /\ EditsBuildOnWhatTheyReplace
  OBVIOUS
<1>1. SourceWaitsEnd
  <2>1. SourceWaits
    BY DEF SourceInv
  <2> QED BY <2>1, WantsIs DEF SourceWaits, SourceWaitsEnd
<1>2. DetailsAreSelected
  BY DEF SourceInv, Own, Over, Belongs, DetailsAreSelected, PanelOpen
<1>3. EditsBuildOnWhatTheyReplace
  BY DEF SourceInv, SourceCall, EditsBuildOnWhatTheyReplace, Pending, BagToSet
<1> QED BY <1>1, <1>2, <1>3

-----------------------------------------------------------------------------
(* The screens together.                                                   *)

\* One screen is used and the others stay as they are, so the invariant of each is kept.
ScreensInv == SourceInv /\ NoteInv /\ DraftInv /\ ListInv

LEMMA ScreensStart == ScreensInit => ScreensInv
BY SourceStart, NoteStart, DraftStart, ListStart DEF ScreensInit, ScreensInv

LEMMA ScreenSteps ==
    [ScreensNext]_screenVars =>
        [SourcesNext]_sourceVars /\ [NotesNext]_noteVars /\ [DraftsNext]_draftVars /\ [ListsNext]_listVars
BY DEF ScreensNext, screenVars, InSources, InNote, InDrafts, InLists

LEMMA ScreensKeep == ScreensInv /\ [ScreensNext]_screenVars => ScreensInv'
<1> SUFFICES ASSUME ScreensInv, [ScreensNext]_screenVars PROVE ScreensInv'
  OBVIOUS
<1>1. [SourcesNext]_sourceVars /\ [NotesNext]_noteVars /\ [DraftsNext]_draftVars /\ [ListsNext]_listVars
  BY ScreenSteps
<1> QED BY <1>1, SourceKeeps, NoteKeeps, DraftKeeps, ListKeeps DEF ScreensInv

\* The flags of every screen fit the requests it waits for, whatever is clicked, answered, refused
\* or overtaken, in any order.
THEOREM ScreensInvariant == Spec => []ScreensInv
BY ScreensStart, ScreensKeep, PTL DEF Spec

\* No busy state of a screen outlasts the request it waits for, and a list that is out of date is
\* asked for again, for every set of sources and Signals.
THEOREM WaitsEnd == Spec => []ScreensSettle
<1>1. ScreensInv => ScreensSettle
  BY SourceFollow, NoteWaitsFollow, DraftWaitsFollow, ListsFollow DEF ScreensInv, ScreensSettle
<1> QED BY <1>1, ScreensInvariant, PTL

\* An answer that comes after another source or Signal was selected is never shown as its details
\* or its drafts, but for the answers that the code is known to take without looking.
THEOREM SelectedIsShown == Spec => []ShownIsSelected
<1>1. ScreensInv => ShownIsSelected
  BY SourceFollow, DraftWaitsFollow DEF ScreensInv, ShownIsSelected
<1> QED BY <1>1, ScreensInvariant, PTL

\* A save of knowledge-sources-view.tsx that is under way always gives the version its text was
\* taken from; and it is sent to the source its text was taken from, unless a check or a GitHub
\* refresh of one source was answered after another one was selected, and no source has been
\* selected or saved since: then the code may save the text of the one to the other.
THEOREM EditsFitTheirSource == Spec => []EditsBuildOnWhatTheyReplace
<1>1. ScreensInv => EditsBuildOnWhatTheyReplace
  BY SourceFollow DEF ScreensInv
<1> QED BY <1>1, ScreensInvariant, PTL

\* An import replaces what the owner typed only with leave, and never from another tab.
THEOREM ImportsAsk == Spec => TypedIsKept
<1> DEFINE Lands == form' = Imported /\ form # Imported => onTab /\ (form # Blank => asked')
<1>1. ScreensInv /\ [ScreensNext]_screenVars => [Lands]_noteVars
  BY ScreenSteps, TypedStays DEF ScreensInv
<1> QED BY <1>1, ScreensInvariant, PTL DEF Spec, TypedIsKept

\* A generation is asked for again only after its saved drafts were looked up: for any Signals, any
\* order of answers and any number of retries.
THEOREM RetriesLookFirst == Spec => CheckedBeforeRetry
<1> DEFINE Looks == \A call \in BagToSet(draftCalls') \ BagToSet(draftCalls) :
                       call.kind = "generate" /\ call.at = "sent" => call.of \notin unknown \/ misplaced
<1>1. ScreensInv /\ [ScreensNext]_screenVars => [Looks]_draftVars
  BY ScreenSteps, DraftKeeps, AsksAreChecked DEF ScreensInv
<1> QED BY <1>1, ScreensInvariant, PTL DEF Spec, CheckedBeforeRetry
==============================================================================
