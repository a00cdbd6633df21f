------------------------------ MODULE Recursion ------------------------------
(***************************************************************************)
(* Induction and recursion in the form the provers can use: about sets and *)
(* functions, with no operator for a parameter.  All of it rests on WFMin  *)
(* and NatLessThanWellFounded of the library.                              *)
(***************************************************************************)
EXTENDS Integers, WellFoundedInduction, TLAPS

\* A set of numbers has a least element.
LEMMA LeastElement ==
  ASSUME NEW T, T \subseteq Nat, T # {}
  PROVE  \E n \in T : \A k \in T : n <= k
<1> DEFINE R == OpToRel(<, Nat)
<1>1. IsWellFoundedOn(R, Nat)
  BY NatLessThanWellFounded
<1>2. R = {ss \in Nat \X Nat : ss[1] < ss[2]}
  BY DEF OpToRel
<1> HIDE DEF R
<1>3. PICK x \in T : \A y \in T : ~(<<y, x>> \in R)
  BY <1>1, WFMin
<1>4. ASSUME NEW y \in T PROVE x <= y
  <2>1. x \in Nat /\ y \in Nat /\ <<y, x>> \in Nat \X Nat
    OBVIOUS
  <2>2. ~(y < x)
    <3> SUFFICES ASSUME y < x PROVE FALSE
      OBVIOUS
    <3>1. <<y, x>>[1] = y /\ <<y, x>>[2] = x
      OBVIOUS
    <3>2. <<y, x>> \in R
      BY <1>2, <2>1, <3>1
    <3> QED BY <1>3, <3>2
  <2> QED BY <2>1, <2>2
<1> QED BY <1>4

\* Induction: a set with 0 and the successors of its elements.
LEMMA InductionOnSet ==
  ASSUME NEW S, 0 \in S, \A n \in Nat : n \in S => n + 1 \in S
  PROVE  Nat \subseteq S
<1> DEFINE T == Nat \ S
<1>1. SUFFICES ASSUME T # {} PROVE FALSE
  OBVIOUS
<1>2. PICK n \in T : \A k \in T : n <= k
  BY <1>1, LeastElement
<1>3. n # 0 /\ n - 1 \in Nat /\ (n - 1) + 1 = n
  OBVIOUS
<1>4. n - 1 \in S
  BY <1>2, <1>3
<1> QED BY <1>3, <1>4

-----------------------------------------------------------------------------
(* Loops: from s the function nxt leads on, until a state of T, where the  *)
(* result is val[s].  A measure that decreases makes it end.               *)

IsLoop(S, T, Res, val, nxt, mu) ==
  /\ T \subseteq S /\ val \in [T -> Res] /\ nxt \in [S \ T -> S] /\ mu \in [S -> Nat]
  /\ \A s \in S \ T : mu[nxt[s]] < mu[s]

IsResult(f, S, T, val, nxt) ==
  \A s \in S : f[s] = IF s \in T THEN val[s] ELSE f[nxt[s]]

\* P holds again after a round, and makes Q hold of the result.
IsInvariantOf(P, Q, S, T, val, nxt) ==
  /\ P \subseteq S
  /\ \A s \in P \ T : nxt[s] \in P
  /\ \A s \in P \cap T : val[s] \in Q

\* What holds where the loop begins, and is kept by its steps, gives what
\* holds of its result.
LEMMA LoopInvariant ==
  ASSUME NEW S, NEW T, NEW Res, NEW val, NEW nxt, NEW mu, IsLoop(S, T, Res, val, nxt, mu),
         NEW f, IsResult(f, S, T, val, nxt),
         NEW P, NEW Q, IsInvariantOf(P, Q, S, T, val, nxt)
  PROVE  \A s \in P : f[s] \in Q
<1> USE DEF IsInvariantOf
<1> DEFINE Bad == {n \in Nat : \E s \in P : f[s] \notin Q /\ mu[s] = n}
<1>1. SUFFICES ASSUME NEW s0 \in P, f[s0] \notin Q PROVE FALSE
  OBVIOUS
<1>2. mu \in [S -> Nat] /\ s0 \in S
  BY DEF IsLoop
<1>3. mu[s0] \in Bad
  BY <1>1, <1>2
<1>4. Bad \subseteq Nat /\ Bad # {}
  BY <1>3
<1>5. PICK n \in Bad : \A k \in Bad : n <= k
  BY <1>4, LeastElement
<1>6. PICK s \in P : f[s] \notin Q /\ mu[s] = n
  BY <1>5
<1>7. CASE s \in T
  <2>1. f[s] = val[s] /\ val[s] \in Q
    BY <1>7 DEF IsResult
  <2> QED BY <1>6, <2>1
<1>8. CASE s \notin T
  <2>1. f[s] = f[nxt[s]] /\ nxt[s] \in P /\ mu[nxt[s]] < mu[s]
    BY <1>8 DEF IsResult, IsLoop
  <2>2. mu[nxt[s]] \in Nat /\ mu[s] \in Nat
    BY <1>2, <2>1
  <2>3. mu[nxt[s]] \in Bad
    BY <1>6, <2>1, <2>2
  <2>4. n <= mu[nxt[s]]
    BY <1>5, <2>3
  <2> QED BY <1>6, <2>1, <2>2, <2>4
<1> QED BY <1>7, <1>8

\* A set of pairs of a state and its result that follows the loop.
Follows(G, T, val, nxt) ==
  \A p \in G : IF p[1] \in T THEN p[2] = val[p[1]] ELSE <<nxt[p[1]], p[2]>> \in G

Gives(s, r, S, T, Res, val, nxt) ==
  \E G \in SUBSET (S \X Res) : Follows(G, T, val, nxt) /\ <<s, r>> \in G

\* Every state has a result.
LEMMA LoopEnds ==
  ASSUME NEW S, NEW T, NEW Res, NEW val, NEW nxt, NEW mu, IsLoop(S, T, Res, val, nxt, mu)
  PROVE  \A s \in S : \E r \in Res : Gives(s, r, S, T, Res, val, nxt)
<1> DEFINE Has(s) == \E r \in Res : Gives(s, r, S, T, Res, val, nxt)
           Bad == {n \in Nat : \E s \in S : ~Has(s) /\ mu[s] = n}
<1> HIDE DEF Has
<1>0. mu \in [S -> Nat] /\ T \subseteq S /\ val \in [T -> Res] /\ nxt \in [S \ T -> S]
      /\ \A s \in S \ T : mu[nxt[s]] < mu[s]
  BY DEF IsLoop
<1>1. SUFFICES ASSUME NEW s0 \in S, ~Has(s0) PROVE FALSE
  BY DEF Has
<1>2. mu[s0] \in Bad /\ Bad \subseteq Nat
  BY <1>0, <1>1
<1>3. PICK n \in Bad : \A k \in Bad : n <= k
  BY <1>2, LeastElement
<1>4. PICK s \in S : ~Has(s) /\ mu[s] = n
  BY <1>3
<1>5. CASE s \in T
  <2> DEFINE p == <<s, val[s]>>
             G == {p}
  <2>1. val[s] \in Res /\ G \in SUBSET (S \X Res) /\ p \in G /\ p[1] = s /\ p[2] = val[s]
    BY <1>0, <1>5
  <2>2. Follows(G, T, val, nxt)
    BY <1>5, <2>1 DEF Follows
  <2>3. Has(s)
    BY <2>1, <2>2 DEF Has, Gives
  <2> QED BY <1>4, <2>3
<1>6. CASE s \notin T
  <2>1. nxt[s] \in S /\ mu[nxt[s]] < mu[s] /\ mu[nxt[s]] \in Nat /\ mu[s] \in Nat
    BY <1>0, <1>6
  <2>2. Has(nxt[s])
    <3> SUFFICES ASSUME ~Has(nxt[s]) PROVE FALSE
      OBVIOUS
    <3>1. mu[nxt[s]] \in Bad
      BY <2>1
    <3>2. n <= mu[nxt[s]]
      BY <1>3, <3>1
    <3> QED BY <1>4, <2>1, <3>2
  <2>3. PICK r \in Res, G \in SUBSET (S \X Res) : Follows(G, T, val, nxt) /\ <<nxt[s], r>> \in G
    BY <2>2 DEF Has, Gives
  <2> DEFINE p == <<s, r>>
             H == G \cup {p}
  <2>4. H \in SUBSET (S \X Res) /\ p \in H /\ p[1] = s /\ p[2] = r
    OBVIOUS
  <2>5. Follows(H, T, val, nxt)
    <3> SUFFICES ASSUME NEW q \in H
                 PROVE  IF q[1] \in T THEN q[2] = val[q[1]] ELSE <<nxt[q[1]], q[2]>> \in H
      BY DEF Follows
    <3>1. CASE q \in G
      BY <2>3, <3>1 DEF Follows
    <3>2. CASE q = p
      BY <1>6, <2>3, <2>4, <3>2
    <3> QED BY <3>1, <3>2
  <2>6. Has(s)
    BY <2>4, <2>5 DEF Has, Gives
  <2> QED BY <1>4, <2>6
<1> QED BY <1>5, <1>6

\* It has only one.
LEMMA LoopIsFunction ==
  ASSUME NEW S, NEW T, NEW Res, NEW val, NEW nxt, NEW mu, IsLoop(S, T, Res, val, nxt, mu),
         NEW G \in SUBSET (S \X Res), Follows(G, T, val, nxt),
         NEW H \in SUBSET (S \X Res), Follows(H, T, val, nxt)
  PROVE  \A s \in S, a \in Res, b \in Res : <<s, a>> \in G /\ <<s, b>> \in H => a = b
<1> DEFINE Twice(s) == \E a \in Res, b \in Res : <<s, a>> \in G /\ <<s, b>> \in H /\ a # b
           Bad == {n \in Nat : \E s \in S : Twice(s) /\ mu[s] = n}
<1> HIDE DEF Twice
<1>0. mu \in [S -> Nat] /\ nxt \in [S \ T -> S] /\ \A s \in S \ T : mu[nxt[s]] < mu[s]
  BY DEF IsLoop
<1>1. SUFFICES ASSUME NEW s0 \in S, Twice(s0) PROVE FALSE
  BY DEF Twice
<1>2. mu[s0] \in Bad /\ Bad \subseteq Nat
  BY <1>0, <1>1
<1>3. PICK n \in Bad : \A k \in Bad : n <= k
  BY <1>2, LeastElement
<1>4. PICK s \in S : Twice(s) /\ mu[s] = n
  BY <1>3
<1>5. PICK a \in Res, b \in Res : <<s, a>> \in G /\ <<s, b>> \in H /\ a # b
  BY <1>4 DEF Twice
<1>6. <<s, a>>[1] = s /\ <<s, a>>[2] = a /\ <<s, b>>[1] = s /\ <<s, b>>[2] = b
  OBVIOUS
<1>7. CASE s \in T
  BY <1>5, <1>6, <1>7 DEF Follows
<1>8. CASE s \notin T
  <2>1. nxt[s] \in S /\ mu[nxt[s]] < mu[s] /\ mu[nxt[s]] \in Nat /\ mu[s] \in Nat
    BY <1>0, <1>8
  <2>2. <<nxt[s], a>> \in G /\ <<nxt[s], b>> \in H
    BY <1>5, <1>6, <1>8 DEF Follows
  <2>3. Twice(nxt[s])
    BY <1>5, <2>2 DEF Twice
  <2>4. mu[nxt[s]] \in Bad
    BY <2>1, <2>3
  <2>5. n <= mu[nxt[s]]
    BY <1>3, <2>4
  <2> QED BY <1>4, <2>1, <2>5
<1> QED BY <1>7, <1>8

\* So the loop defines a function.
LEMMA LoopHasResult ==
  ASSUME NEW S, NEW T, NEW Res, NEW val, NEW nxt, NEW mu, IsLoop(S, T, Res, val, nxt, mu)
  PROVE  \E f \in [S -> Res] : IsResult(f, S, T, val, nxt)
<1> DEFINE Giv(s, r) == Gives(s, r, S, T, Res, val, nxt)
           f == [s \in S |-> CHOOSE r \in Res : Giv(s, r)]
<1>0. T \subseteq S /\ nxt \in [S \ T -> S] /\ val \in [T -> Res]
  BY DEF IsLoop
<1>1. \A s \in S : \E r \in Res : Giv(s, r)
  BY LoopEnds
<1>2. \A s \in S, a \in Res, b \in Res : Giv(s, a) /\ Giv(s, b) => a = b
  <2> TAKE s \in S, a \in Res, b \in Res
  <2> SUFFICES ASSUME Giv(s, a), Giv(s, b) PROVE a = b
    OBVIOUS
  <2>1. PICK G \in SUBSET (S \X Res) : Follows(G, T, val, nxt) /\ <<s, a>> \in G
    BY DEF Gives
  <2>2. PICK H \in SUBSET (S \X Res) : Follows(H, T, val, nxt) /\ <<s, b>> \in H
    BY DEF Gives
  <2>3. \A s1 \in S, a1 \in Res, b1 \in Res : <<s1, a1>> \in G /\ <<s1, b1>> \in H => a1 = b1
    BY <2>1, <2>2, LoopIsFunction
  <2> QED BY <2>1, <2>2, <2>3
<1>3. ASSUME NEW s \in S, NEW r \in Res, Giv(s, r)
      PROVE  IF s \in T THEN r = val[s] ELSE Giv(nxt[s], r)
  <2>1. PICK G \in SUBSET (S \X Res) : Follows(G, T, val, nxt) /\ <<s, r>> \in G
    BY <1>3 DEF Gives
  <2>2. <<s, r>>[1] = s /\ <<s, r>>[2] = r
    OBVIOUS
  <2>3. IF s \in T THEN r = val[s] ELSE <<nxt[s], r>> \in G
    BY <2>1, <2>2 DEF Follows
  <2> QED BY <1>0, <2>1, <2>3 DEF Gives
<1> HIDE DEF Giv
<1>4. \A s \in S : f[s] \in Res /\ Giv(s, f[s])
  BY <1>1
<1>5. f \in [S -> Res]
  BY <1>4
<1> HIDE DEF f
<1>6. ASSUME NEW s \in S PROVE f[s] = IF s \in T THEN val[s] ELSE f[nxt[s]]
  <2>1. IF s \in T THEN f[s] = val[s] ELSE Giv(nxt[s], f[s])
    BY <1>3, <1>4
  <2>2. CASE s \in T
    BY <2>1, <2>2
  <2>3. CASE s \notin T
    <3>1. nxt[s] \in S
      BY <1>0, <2>3
    <3>2. Giv(nxt[s], f[s]) /\ Giv(nxt[s], f[nxt[s]]) /\ f[s] \in Res /\ f[nxt[s]] \in Res
      BY <1>4, <2>1, <2>3, <3>1
    <3> QED BY <1>2, <2>3, <3>1, <3>2
  <2> QED BY <2>2, <2>3
<1> QED BY <1>5, <1>6 DEF IsResult
=============================================================================
